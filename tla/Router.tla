------------------------------- MODULE Router -------------------------------
(***************************************************************************)
(* Submission: crates/grommet/src/router.rs and the calls of respond.rs.   *)
(* Clients hand items to the shards that own their keys, one by one or in  *)
(* batches that push first and announce once.                              *)
(*                                                                         *)
(* A mailbox is a bounded queue; its inside is Mailbox.  A push and its    *)
(* announcement are separate steps.  A shard sleeps when it finds its      *)
(* queue empty and is woken by an announcement, not by a push; its tick,   *)
(* which would hide a forgotten announcement for one period, is left out.  *)
(* A suspended sender is admitted when it is polled and there is room.     *)
(* Nobody promises that it is polled: Mailbox shows how its wake is lost   *)
(* to another sender of the same mailbox, and here such a sender is        *)
(* `overlooked` until something polls it again, if anything ever does.     *)
(* Deadlines and arrival stamps are left out: nothing depends on them.     *)
(***************************************************************************)
EXTENDS Integers, Sequences, FiniteSets

CONSTANTS
  Clients,        \* the tasks that submit
  NShards,        \* shards of the router
  SlotsPerShard,  \* SLOTS_PER_SHARD, 64 in the code
  Hash,           \* for each key mix(key.shard_hash())
  Classes,        \* CLASSES
  DeferredShards, \* DEFERRED_SHARDS, 512 in the code
  Depth,          \* the depth of each mailbox
  Batches,        \* what clients submit: sequences of [key, class]
  Modes,          \* the operations clients use
  MaxCalls        \* bound: the calls one client makes

ASSUME RouterConstants ==
  /\ NShards \in Nat \ {0}
  /\ SlotsPerShard \in Nat \ {0}
  /\ \A k \in DOMAIN Hash : Hash[k] \in Nat
  /\ Classes \in Nat \ {0}
  /\ DeferredShards \in Nat
  /\ Depth \in Nat \ {0}
  /\ \A batch \in Batches : batch \in Seq([key : DOMAIN Hash, class : Nat])
  /\ Modes \subseteq {"submit", "try_submit", "submit_batch", "try_submit_batch", "call", "try_call"}
  /\ MaxCalls \in Nat

Shards == 0 .. NShards - 1

VARIABLES
  queue,     \* the mailbox of each shard
  asleep,    \* shards that sleep
  gone,      \* shards whose inbox was dropped
  served,    \* the items a shard took out of its mailbox
  caller     \* each client's call

mailboxes == <<queue, asleep, gone, served>>

-----------------------------------------------------------------------------
(* The slot table.                                                         *)

SlotTotal ==
  LET least == NShards * SlotsPerShard
  IN CHOOSE p \in {2 ^ i : i \in 0 .. least} : p >= least /\ (p = 1 \/ p \div 2 < least)

(* There is a power of two above every number; the provers know no powers. *)
ASSUME SlotTotalPositive == SlotTotal \in Nat \ {0}

ShardIndex(key) == (Hash[key] % SlotTotal) % NShards

-----------------------------------------------------------------------------
(* A call.  `next` is the item being pushed, `accepted` and `rejected`     *)
(* what BatchError counts, as positions in the batch, `deferred` the       *)
(* shards pushed to and not yet told, and `tells` those being told at the  *)
(* end.  `calls` numbers the calls of the client.                          *)

Suspended == {"wait", "overlooked"}
Waits == {"submit", "submit_batch", "call"}
Batching == {"submit_batch", "try_submit_batch"}

NoCall == [calls |-> 0, at |-> "idle", mode |-> "submit", batch |-> <<>>, next |-> 0,
           accepted |-> {}, rejected |-> {}, deferred |-> {}, tells |-> {}]

RouterInit ==
  /\ queue = [s \in Shards |-> <<>>]
  /\ asleep = {}
  /\ gone = {}
  /\ served = {}
  /\ caller = [c \in Clients |-> NoCall]

Of(c) == caller[c]
Reset(c) == [NoCall EXCEPT !.calls = Of(c).calls]
Current(c) == Of(c).batch[Of(c).next]
Target(c) == ShardIndex(Current(c).key)
Becomes(c, call) == caller' = [caller EXCEPT ![c] = call]

(* On to the next item of the batch, or to the end of the call.            *)
Advanced(call) ==
  IF call.next < Len(call.batch)
  THEN [call EXCEPT !.at = "item", !.next = @ + 1]
  ELSE [call EXCEPT !.at = "tell", !.tells = call.deferred, !.deferred = {}]

Accepted(call) == Advanced([call EXCEPT !.accepted = @ \cup {call.next}])
Rejected_Forgets(call) == Advanced(call)

Rejected(call) == Advanced([call EXCEPT !.rejected = @ \cup {call.next}])

BeginCall(c, mode, batch) ==
  /\ Of(c).at = "idle" /\ Of(c).calls < MaxCalls
  /\ mode \in Batching \/ Len(batch) = 1
  /\ Becomes(c, Advanced([Reset(c) EXCEPT !.calls = @ + 1, !.mode = mode, !.batch = batch]))
  /\ UNCHANGED mailboxes

(* stamp refuses a class out of range.                                     *)
RefuseClass(c) ==
  /\ Of(c).at = "item"
  /\ Current(c).class >= Classes
  /\ Becomes(c, Rejected(Of(c)))
  /\ UNCHANGED mailboxes

Envelope(c) == [by |-> c, call |-> Of(c).calls, n |-> Of(c).next]

Stamped(c) == Of(c).at = "item" /\ Current(c).class < Classes

Open(s) == s \notin gone
HasRoom(s) == Len(queue[s]) < Depth

(* The push of try_send_deferred, send and try_send.                       *)
Pushed(c) ==
  /\ Open(Target(c)) /\ HasRoom(Target(c))
  /\ queue' = [queue EXCEPT ![Target(c)] = Append(@, Envelope(c))]
  /\ UNCHANGED <<asleep, gone, served>>

(* A batch defers the announcement, if the bitmap reaches the shard.       *)
PushDeferred(c) ==
  /\ Stamped(c) /\ Of(c).mode \in Batching
  /\ Pushed(c)
  /\ IF Target(c) < DeferredShards
     THEN Becomes(c, Accepted([Of(c) EXCEPT !.deferred = @ \cup {Target(c)}]))
     ELSE Becomes(c, [Of(c) EXCEPT !.at = "announce"])

PushNow(c) ==
  /\ Stamped(c) /\ Of(c).mode \notin Batching
  /\ Pushed(c)
  /\ Becomes(c, [Of(c) EXCEPT !.at = "announce"])

(* Mailbox::announce: wake the shard if it sleeps.                         *)
AnnounceNow(c) ==
  /\ Of(c).at = "announce"
  /\ asleep' = asleep \ {Target(c)}
  /\ Becomes(c, Accepted(Of(c)))
  /\ UNCHANGED <<queue, gone, served>>

RefuseDown_NotSuspended(c) ==
  /\ Stamped(c)
  /\ ~Open(Target(c))
  /\ Becomes(c, Rejected(Of(c)))
  /\ UNCHANGED mailboxes

(* ShardDown; a suspended sender is woken by the close of the wait list.   *)
RefuseDown(c) ==
  /\ Stamped(c) \/ Of(c).at = "wait"
  /\ ~Open(Target(c))
  /\ Becomes(c, Rejected(Of(c)))
  /\ UNCHANGED mailboxes

(* Full, to a caller that does not wait.                                   *)
RefuseFull(c) ==
  /\ Stamped(c) /\ Of(c).mode \notin Waits
  /\ Open(Target(c)) /\ ~HasRoom(Target(c))
  /\ Becomes(c, Rejected(Of(c)))
  /\ UNCHANGED mailboxes

BeforeWaiting_Holds(call) == [call EXCEPT !.at = "wait"]

(* Before it waits a batch announces everything it pushed.                 *)
BeforeWaiting(call) ==
  IF call.deferred = {} THEN [call EXCEPT !.at = "wait"]
  ELSE [call EXCEPT !.at = "tell", !.tells = call.deferred, !.deferred = {}]

FindFull(c) ==
  /\ Stamped(c) /\ Of(c).mode \in Waits
  /\ Open(Target(c)) /\ ~HasRoom(Target(c))
  /\ Becomes(c, BeforeWaiting(Of(c)))
  /\ UNCHANGED mailboxes

(* Deferred::announce, one shard at a time.                                *)
Tell(c, s) ==
  /\ Of(c).at = "tell"
  /\ s \in Of(c).tells
  /\ asleep' = asleep \ {s}
  /\ Becomes(c, [Of(c) EXCEPT !.tells = @ \ {s}])
  /\ UNCHANGED <<queue, gone, served>>

(* Mailbox::send of a suspended caller that is polled when there is room.  *)
Admitted(c) ==
  /\ Of(c).at = "wait"
  /\ Pushed(c)
  /\ Becomes(c, [Of(c) EXCEPT !.at = "announce"])

(* Another sender of the mailbox costs a suspended one its wake: it took   *)
(* the place the wake was for, and the loser went back to sleep without    *)
(* registering (waiters.rs, refresh of a dead ticket), or it was woken in  *)
(* its stead although it had pushed already (waiters.rs, finish).          *)
Overlook(c) ==
  /\ Of(c).at = "wait"
  /\ Open(Target(c))
  /\ \E d \in Clients \ {c} :
       (Stamped(d) \/ Of(d).at = "announce") /\ Target(d) = Target(c)
  /\ Becomes(c, [Of(c) EXCEPT !.at = "overlooked"])
  /\ UNCHANGED mailboxes

(* It is polled after all: a later wake found it, or a poll nobody asked   *)
(* for.                                                                    *)
Rescued(c) ==
  /\ Of(c).at = "overlooked"
  /\ Becomes(c, [Of(c) EXCEPT !.at = "wait"])
  /\ UNCHANGED mailboxes

(* Everybody was told: go on to the wait, or to the end of the call.       *)
Undecided(c) == Of(c).next > 0 /\ Of(c).next \notin Of(c).accepted \cup Of(c).rejected

Told(c) ==
  /\ Of(c).at = "tell"
  /\ Of(c).tells = {}
  /\ Becomes(c, [Of(c) EXCEPT !.at =
        IF Undecided(c) THEN "wait"
        ELSE IF Of(c).mode \in {"call", "try_call"} /\ Of(c).rejected = {}
        THEN "answer" ELSE "done"])
  /\ UNCHANGED mailboxes

(* The caller reads the result.                                            *)
Return(c) ==
  /\ Of(c).at = "done"
  /\ Becomes(c, Reset(c))
  /\ UNCHANGED mailboxes

(* A suspended call is dropped, with what it had not pushed.               *)
DropCall(c) ==
  /\ Of(c).at \in Suspended \cup {"answer"}
  /\ Becomes(c, Reset(c))
  /\ UNCHANGED mailboxes

(* Answer: the reply, or Cancelled once the responder is dropped with the  *)
(* item; Responder::send ignores a caller that has given up.               *)
Unanswered(c, s) == \E i \in DOMAIN queue[s] : queue[s][i] = Envelope(c)

Answered(c) ==
  /\ Of(c).at = "answer"
  /\ ~Unanswered(c, Target(c))
  /\ Becomes(c, [Of(c) EXCEPT !.at = "done"])
  /\ UNCHANGED mailboxes

Submit(c) ==
  \/ RefuseClass(c) \/ PushDeferred(c) \/ PushNow(c) \/ AnnounceNow(c)
  \/ RefuseDown(c) \/ RefuseFull(c) \/ FindFull(c) \/ Admitted(c) \/ Told(c)
  \/ \E s \in Of(c).tells : Tell(c, s)
  \/ Answered(c) \/ Return(c)

-----------------------------------------------------------------------------
(* A shard's side: take an item, or sleep on an empty queue.               *)

TakeItem(s) ==
  /\ s \notin gone /\ s \notin asleep
  /\ queue[s] # <<>>
  /\ served' = served \cup {Head(queue[s])}
  /\ queue' = [queue EXCEPT ![s] = Tail(@)]
  /\ UNCHANGED <<asleep, gone, caller>>

FallAsleep(s) ==
  /\ s \notin gone /\ s \notin asleep
  /\ queue[s] = <<>>
  /\ asleep' = asleep \cup {s}
  /\ UNCHANGED <<queue, gone, served, caller>>

=============================================================================
