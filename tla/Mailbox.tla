------------------------------ MODULE Mailbox ------------------------------
(***************************************************************************)
(* One shard's mailbox: crates/grommet/src/mailbox.rs over the wait list   *)
(* of waiters.rs (`park_until`, `Registration`) and the doorbell of        *)
(* doorbell.rs.  Senders and the receiving shard run concurrently; each    *)
(* action below is one access to shared memory or one critical section of  *)
(* the wait list, so every interleaving of them is explored.  The fences   *)
(* the code places between a store and the load that follows it make       *)
(* these interleavings the ones the hardware allows.                       *)
(*                                                                         *)
(* The ring is a bounded FIFO in which a push first claims a place and     *)
(* then writes it; a place not yet written hides those behind it.          *)
(* Registering on the doorbell and ringing it are atomic.                  *)
(*                                                                         *)
(* A task that is asleep is polled again once `notified`, or at any time   *)
(* for reasons of its own; a suspended send may be dropped.                *)
(***************************************************************************)
EXTENDS Waiters

CONSTANTS
  Capacity,   \* the ring's capacity
  MaxSends    \* bound of the model: submissions ever begun

Senders == Tasks

ASSUME MailboxConstants == Capacity \in Nat \ {0} /\ MaxSends \in Nat

VARIABLES
  ring,       \* Shared::ring, claimed places in order, TRUE once written
  bell,       \* Shared::bell: whether the shard's waker is there, closed
  parked,     \* Shared::parked
  producers,  \* Shared::producers
  departed,   \* Shared::departed
  w,          \* Shared::waiters
  spc,        \* where each sender is
  ticket,     \* Registration::ticket of each sender
  notified,   \* senders scheduled to be polled again
  handle,     \* whether a sender holds a Mailbox: "none", "held", "dropped"
  sends,      \* submissions begun so far
  rpc,        \* where the receiver is
  ret,        \* where release_capacity returns to
  closed,     \* poll_recv's and try_recv's local `closed`
  freed,      \* Inbox::freed
  owed,       \* release_capacity's wakes still to hand out
  waking,     \* wakers taken out of the list by each caller and not yet used
  rnotified,  \* the receiver is scheduled to be polled again
  misspent    \* a wake went to a sender that had already got in (history)

shared == <<ring, bell, parked, producers, departed>>
sender == <<spc, ticket, handle, sends>>
receiver == <<rpc, ret, closed, freed, owed>>
vars == <<shared, w, sender, notified, receiver, waking, rnotified, misspent>>

Receiver == "receiver"

ASSUME ReceiverIsNoSender == Receiver \notin Senders

Init ==
  /\ ring = <<>>
  /\ bell = [waker |-> FALSE, closed |-> FALSE]
  /\ parked = FALSE
  /\ departed = FALSE
  /\ w = Fresh
  /\ spc = [s \in Senders |-> "idle"]
  /\ ticket = [s \in Senders |-> NoTicket]
  /\ notified = [s \in Senders |-> FALSE]
  /\ \E s \in Senders :
       handle = [t \in Senders |-> IF t = s THEN "held" ELSE "none"]
  /\ producers = 1
  /\ sends = 0
  /\ rpc = "idle"
  /\ ret = "idle"
  /\ closed = FALSE
  /\ freed = 0
  /\ owed = 0
  /\ waking = [a \in Senders \cup {Receiver} |-> {}]
  /\ rnotified = FALSE
  /\ misspent = FALSE

-----------------------------------------------------------------------------
(* Senders.                                                                *)

Goto(s, pc) == spc' = [spc EXCEPT ![s] = pc]

Clone_Uncounted(s, t) ==
  /\ handle[s] = "held"
  /\ handle[t] = "none"
  /\ handle' = [handle EXCEPT ![t] = "held"]
  /\ UNCHANGED <<shared, w, spc, ticket, sends, notified, receiver, waking,
                 rnotified, misspent>>

(* Mailbox::clone: a sender passes a handle on.                            *)
Clone(s, t) ==
  /\ handle[s] = "held"
  /\ handle[t] = "none"
  /\ handle' = [handle EXCEPT ![t] = "held"]
  /\ producers' = producers + 1
  /\ UNCHANGED <<ring, bell, parked, departed, w, spc, ticket, sends,
                 notified, receiver, waking, rnotified, misspent>>

(* send and try_send begin with the same attempt.                          *)
Begin(s) ==
  /\ spc[s] = "idle"
  /\ handle[s] = "held"
  /\ sends < MaxSends
  /\ sends' = sends + 1
  /\ Goto(s, "check")
  /\ UNCHANGED <<shared, w, ticket, handle, notified, receiver, waking, rnotified, misspent>>

(* The attempt is decided: what is left is to give up the registration.    *)
Decided(s) == Goto(s, IF ticket[s] = NoTicket THEN "idle" ELSE "finish")

(* try_send_deferred: refuse if the inbox is gone.                         *)
Check(s) ==
  /\ spc[s] = "check"
  /\ IF departed THEN Decided(s) ELSE Goto(s, "push")
  /\ UNCHANGED <<shared, w, ticket, handle, sends, notified, receiver,
                 waking, rnotified, misspent>>

(* try_push: claim a place, or find the ring full.                         *)
Push(s) ==
  /\ spc[s] = "push"
  /\ IF Len(ring) < Capacity
     THEN ring' = Append(ring, [by |-> s, written |-> FALSE]) /\ Goto(s, "write")
     ELSE ring' = ring /\ Goto(s, "recheck")
  /\ UNCHANGED <<bell, parked, producers, departed, w, ticket, handle,
                 sends, notified, receiver, waking, rnotified, misspent>>

(* try_push publishes the item it wrote.                                   *)
Write(s) ==
  /\ spc[s] = "write"
  /\ ring' = [i \in DOMAIN ring |->
                IF ring[i].by = s THEN [ring[i] EXCEPT !.written = TRUE] ELSE ring[i]]
  /\ Goto(s, "announce")
  /\ UNCHANGED <<bell, parked, producers, departed, w, ticket, handle,
                 sends, notified, receiver, waking, rnotified, misspent>>

(* wake_shard: look for a sleeping shard after publishing.                 *)
Announce(s) ==
  /\ spc[s] = "announce"
  /\ IF parked THEN Goto(s, "ring") ELSE Decided(s)
  /\ UNCHANGED <<shared, w, ticket, handle, sends, notified, receiver,
                 waking, rnotified, misspent>>

RingBell_Drops ==
  /\ bell' = [bell EXCEPT !.waker = FALSE]
  /\ UNCHANGED rnotified

(* Doorbell::ring: take the waker, if there still is one, and wake it.     *)
RingBell ==
  IF bell.closed THEN UNCHANGED <<bell, rnotified>>
  ELSE /\ bell' = [bell EXCEPT !.waker = FALSE]
       /\ rnotified' = (rnotified \/ bell.waker)

Ring(s) ==
  /\ spc[s] = "ring"
  /\ RingBell
  /\ Decided(s)
  /\ UNCHANGED <<ring, parked, producers, departed, w, ticket, handle,
                 sends, notified, receiver, waking, misspent>>

(* A full ring is reported only if the inbox is still there: park_until    *)
(* then registers or, already registered, suspends.                        *)
Recheck(s) ==
  /\ spc[s] = "recheck"
  /\ IF departed THEN Decided(s)
     ELSE Goto(s, IF ticket[s] = NoTicket THEN "park" ELSE "asleep")
  /\ UNCHANGED <<shared, w, ticket, handle, sends, notified, receiver,
                 waking, rnotified, misspent>>

(* try_send ends with the first attempt that finds the ring full.          *)
GiveUp(s) ==
  /\ spc[s] = "park"
  /\ Goto(s, "idle")
  /\ UNCHANGED <<shared, w, ticket, handle, sends, notified, receiver, waking,
                 rnotified, misspent>>

(* park_until's first poll: register, then attempt again.                  *)
ParkSender(s) ==
  /\ spc[s] = "park"
  /\ IF w.closed
     THEN Goto(s, "idle") /\ UNCHANGED <<w, ticket>>
     ELSE /\ w' = Park(w, s)
          /\ ticket' = [ticket EXCEPT ![s] = ParkTicket(w)]
          /\ Goto(s, "check")
  /\ UNCHANGED <<shared, handle, sends, notified, receiver, waking, rnotified, misspent>>

(* A later poll: refresh the registration, then attempt again.             *)
Poll(s) ==
  /\ spc[s] = "asleep"
  /\ notified' = [notified EXCEPT ![s] = FALSE]
  /\ w' = Refresh(w, ticket[s], s)
  /\ Goto(s, "check")
  /\ UNCHANGED <<shared, ticket, handle, sends, receiver, waking, rnotified, misspent>>

(* Registration::finish: the wait is over.                                 *)
Finish(s) ==
  /\ spc[s] = "finish"
  /\ w' = Cancel(w, ticket[s])
  /\ ticket' = [ticket EXCEPT ![s] = NoTicket]
  /\ Goto(s, "idle")
  /\ UNCHANGED <<shared, handle, sends, notified, receiver, waking, rnotified, misspent>>

Abandon_KeepsWake(s) ==
  /\ spc[s] = "asleep"
  /\ w' = Cancel(w, ticket[s])
  /\ ticket' = [ticket EXCEPT ![s] = NoTicket]
  /\ Goto(s, "idle")
  /\ UNCHANGED <<shared, handle, sends, notified, receiver, waking, rnotified, misspent>>

(* Registration::drop: a suspended send is dropped.  If it had been woken, *)
(* the wake goes to the next in line.                                      *)
Abandon(s) ==
  /\ spc[s] = "asleep"
  /\ w' = Cancel(w, ticket[s])
  /\ ticket' = [ticket EXCEPT ![s] = NoTicket]
  /\ Goto(s, IF Live(w, ticket[s]) THEN "idle" ELSE "pass")
  /\ UNCHANGED <<shared, handle, sends, notified, receiver, waking, rnotified, misspent>>

(* wake_one's critical section, for a caller that then holds the waker.    *)
TakeOne(caller) ==
  /\ w' = WakeOne(w)
  /\ waking' = [waking EXCEPT ![caller] = {Woken(w)} \ {NoWaker}]
  /\ misspent' = (misspent \/ \E s \in Senders :
       s = Woken(w) /\ spc[s] \in {"write", "announce", "ring", "finish"})

(* The wakers a caller holds are used, outside the lock.                   *)
UseWakers(caller) ==
  /\ notified' = [s \in Senders |-> notified[s] \/ s \in waking[caller]]
  /\ waking' = [waking EXCEPT ![caller] = {}]

Pass(s) ==
  /\ spc[s] = "pass"
  /\ TakeOne(s)
  /\ Goto(s, IF Woken(w) = NoWaker THEN "idle" ELSE "wake")
  /\ UNCHANGED <<shared, ticket, handle, sends, notified, receiver, rnotified>>

PassWake(s) ==
  /\ spc[s] = "wake"
  /\ UseWakers(s)
  /\ Goto(s, "idle")
  /\ UNCHANGED <<shared, w, ticket, handle, sends, receiver, rnotified, misspent>>

(* Mailbox::drop: the last handle out rings the bell.                      *)
DropHandle(s) ==
  /\ spc[s] = "idle"
  /\ handle[s] = "held"
  /\ handle' = [handle EXCEPT ![s] = "dropped"]
  /\ producers' = producers - 1
  /\ Goto(s, IF producers = 1 THEN "last" ELSE "idle")
  /\ UNCHANGED <<ring, bell, parked, departed, w, ticket, sends,
                 notified, receiver, waking, rnotified, misspent>>

LastOut(s) ==
  /\ spc[s] = "last"
  /\ RingBell
  /\ Goto(s, "idle")
  /\ UNCHANGED <<ring, parked, producers, departed, w, ticket, handle,
                 sends, notified, receiver, waking, misspent>>

-----------------------------------------------------------------------------
(* The receiver.                                                           *)

HasItem == ring # <<>> /\ ring[1].written

(* Inbox::take: pop, note that the shard is running, count the freed slot. *)
Take ==
  /\ ring' = Tail(ring)
  /\ parked' = FALSE
  /\ freed' = freed + 1

(* poll_recv, first look at the ring.                                      *)
PollRecv ==
  /\ rpc = "idle"
  /\ IF HasItem
     THEN Take /\ UNCHANGED <<rpc, ret>>
     ELSE rpc' = "release" /\ ret' = "closed" /\ UNCHANGED <<ring, parked, freed>>
  /\ UNCHANGED <<bell, producers, departed, w, sender, notified, closed, owed,
                 waking, rnotified, misspent>>

(* A drain that stops early ends with release_capacity.                    *)
StopDraining ==
  /\ rpc = "idle"
  /\ freed > 0
  /\ rpc' = "release"
  /\ ret' = "idle"
  /\ UNCHANGED <<shared, w, sender, notified, closed, freed, owed, waking, rnotified, misspent>>

(* release_capacity: take the count, then look for parked senders.         *)
Release ==
  /\ rpc = "release"
  /\ freed' = 0
  /\ IF freed = 0 \/ w.waiting = 0
     THEN rpc' = ret /\ UNCHANGED owed
     ELSE rpc' = "handing" /\ owed' = freed
  /\ UNCHANGED <<shared, w, sender, notified, ret, closed, waking, rnotified, misspent>>

(* ... and wake one sender per slot, until nobody is parked.               *)
HandOut ==
  /\ rpc = "handing"
  /\ TakeOne(Receiver)
  /\ IF Woken(w) = NoWaker
     THEN rpc' = ret /\ owed' = 0
     ELSE rpc' = "wake" /\ owed' = owed - 1
  /\ UNCHANGED <<shared, sender, notified, ret, closed, freed, rnotified>>

WakeSender ==
  /\ rpc = "wake"
  /\ UseWakers(Receiver)
  /\ rpc' = IF owed = 0 THEN ret ELSE "handing"
  /\ UNCHANGED <<shared, w, sender, ret, closed, freed, owed, rnotified, misspent>>

LoadClosed ==
  /\ rpc = "closed"
  /\ closed' = (producers = 0)
  /\ rpc' = "register"
  /\ ret' = "idle"
  /\ UNCHANGED <<shared, w, sender, notified, freed, owed, waking, rnotified, misspent>>

Register ==
  /\ rpc = "register"
  /\ bell' = [bell EXCEPT !.waker = TRUE]
  /\ rpc' = "park"
  /\ UNCHANGED <<ring, parked, producers, departed, w, sender, notified, ret,
                 closed, freed, owed, waking, rnotified, misspent>>

ParkReceiver_Unannounced ==
  /\ rpc = "park"
  /\ UNCHANGED parked
  /\ rpc' = "look"
  /\ UNCHANGED <<ring, bell, producers, departed, w, sender, notified, ret,
                 closed, freed, owed, waking, rnotified, misspent>>

ParkReceiver ==
  /\ rpc = "park"
  /\ parked' = TRUE
  /\ rpc' = "look"
  /\ UNCHANGED <<ring, bell, producers, departed, w, sender, notified, ret,
                 closed, freed, owed, waking, rnotified, misspent>>

(* poll_recv, last look at the ring: an item, the end, or sleep.           *)
Look ==
  /\ rpc = "look"
  /\ IF HasItem
     THEN Take /\ rpc' = "release" /\ ret' = "idle"
     ELSE /\ rpc' = IF closed THEN "done" ELSE "asleep"
          /\ parked' = (parked /\ ~closed)
          /\ UNCHANGED <<ring, freed, ret>>
  /\ closed' = FALSE
  /\ UNCHANGED <<bell, producers, departed, w, sender, notified, owed,
                 waking, rnotified, misspent>>

(* The receiver's task is polled again.                                    *)
PollAgain ==
  /\ rpc = "asleep"
  /\ rnotified' = FALSE
  /\ rpc' = "idle"
  /\ UNCHANGED <<shared, w, sender, notified, ret, closed, freed, owed, waking, misspent>>

(* try_recv: closed is read before the ring.                               *)
TryRecv ==
  /\ rpc = "idle"
  /\ closed' = (producers = 0)
  /\ rpc' = "try"
  /\ UNCHANGED <<shared, w, sender, notified, ret, freed, owed, waking, rnotified, misspent>>

TryTake ==
  /\ rpc = "try"
  /\ IF HasItem
     THEN Take /\ ret' = "idle"
     ELSE /\ ret' = IF closed THEN "done" ELSE "idle"
          /\ UNCHANGED <<ring, parked, freed>>
  /\ rpc' = "release"
  /\ closed' = FALSE
  /\ UNCHANGED <<bell, producers, departed, w, sender, notified, owed,
                 waking, rnotified, misspent>>

-----------------------------------------------------------------------------
(* Inbox::drop, in the order that lets a woken sender see why.             *)

MayDepart == rpc \in {"idle", "asleep", "done"}

Depart_Unmarked ==
  /\ MayDepart
  /\ rpc' = "close"
  /\ UNCHANGED <<shared, w, sender, notified, ret, closed, freed, owed, waking,
                 rnotified, misspent>>

Depart ==
  /\ MayDepart
  /\ departed' = TRUE
  /\ rpc' = "close"
  /\ UNCHANGED <<ring, bell, parked, producers, w, sender, notified, ret,
                 closed, freed, owed, waking, rnotified, misspent>>

CloseWaiters ==
  /\ rpc = "close"
  /\ w' = Close(w)
  /\ waking' = [waking EXCEPT ![Receiver] = Parked(w)]
  /\ rpc' = "wakeall"
  /\ UNCHANGED <<shared, sender, notified, ret, closed, freed, owed, rnotified, misspent>>

WakeAll ==
  /\ rpc = "wakeall"
  /\ UseWakers(Receiver)
  /\ rpc' = "closebell"
  /\ UNCHANGED <<shared, w, sender, ret, closed, freed, owed, rnotified, misspent>>

CloseBell ==
  /\ rpc = "closebell"
  /\ bell' = [waker |-> FALSE, closed |-> TRUE]
  /\ rpc' = "gone"
  /\ UNCHANGED <<ring, parked, producers, departed, w, sender, notified, ret,
                 closed, freed, owed, waking, rnotified, misspent>>

-----------------------------------------------------------------------------

(* The steps a sender takes once it has begun, and those it chooses.       *)
SenderStep(s) ==
  \/ Check(s) \/ Push(s) \/ Write(s) \/ Announce(s) \/ Ring(s) \/ Recheck(s)
  \/ ParkSender(s) \/ Finish(s) \/ Pass(s) \/ PassWake(s) \/ LastOut(s)

SenderChoice(s) ==
  \/ \E t \in Senders : Clone(s, t)
  \/ Begin(s)
  \/ GiveUp(s)
  \/ Poll(s)
  \/ Abandon(s)
  \/ DropHandle(s)

ReceiverStep ==
  \/ PollRecv \/ StopDraining \/ Release \/ HandOut \/ WakeSender \/ LoadClosed
  \/ Register \/ ParkReceiver \/ Look \/ TryRecv \/ TryTake
  \/ CloseWaiters \/ WakeAll \/ CloseBell

Next ==
  \/ \E s \in Senders : SenderStep(s)
  \/ \E s \in Senders : SenderChoice(s)
  \/ ReceiverStep
  \/ PollAgain
  \/ Depart

(* A running task goes on, and a task that was notified is polled.         *)
Fairness ==
  /\ \A s \in Senders : WF_vars(SenderStep(s)) /\ WF_vars(notified[s] /\ Poll(s))
  /\ WF_vars(ReceiverStep)
  /\ WF_vars(rnotified /\ PollAgain)

Spec == Init /\ [][Next]_vars /\ Fairness

-----------------------------------------------------------------------------

(* Every variable keeps its type, and the ring never holds more places     *)
(* than its capacity.                                                      *)
TypeOK ==
  /\ ring \in Seq([by : Senders, written : BOOLEAN])
  /\ Len(ring) <= Capacity
  /\ bell \in [waker : BOOLEAN, closed : BOOLEAN]
  /\ parked \in BOOLEAN
  /\ producers \in Nat
  /\ departed \in BOOLEAN
  /\ WaitersType(w)
  /\ spc \in [Senders -> {"idle", "check", "push", "write", "announce", "ring",
                          "recheck", "park", "asleep", "finish", "pass",
                          "wake", "last"}]
  /\ ticket \in [Senders -> [slot : Nat, generation : Nat]]
  /\ notified \in [Senders -> BOOLEAN]
  /\ handle \in [Senders -> {"none", "held", "dropped"}]
  /\ sends \in 0 .. MaxSends
  /\ rpc \in {"idle", "release", "handing", "wake", "closed", "register",
              "park", "look", "asleep", "try", "done", "close", "wakeall",
              "closebell", "gone"}
  /\ ret \in {"idle", "closed", "done"}
  /\ closed \in BOOLEAN
  /\ freed \in Nat
  /\ owed \in Nat
  /\ waking \in [Senders \cup {Receiver} -> SUBSET Senders]
  /\ rnotified \in BOOLEAN

(* The wait list survives cancellation, slot reuse and compaction.         *)
WaitersAgree == WellFormed(w)

(* The shard never comes to rest on an item: if it sleeps un-notified      *)
(* while an item can be popped, the sender that wrote the item, or a later *)
(* one, has yet to look for it (mailbox.rs: "impossible to observe         *)
(* together").                                                             *)
NoItemStranded ==
  rpc = "asleep" /\ ~rnotified /\ HasItem =>
    \E s \in Senders : spc[s] = "announce" \/ (spc[s] = "ring" /\ bell.waker)

(* A sender whose wake is on its way, or who was woken and is about to try *)
(* the ring or to pass the wake on.                                        *)
Granted(s) ==
  \/ s \in UNION {waking[a] : a \in Senders \cup {Receiver}}
  \/ /\ ticket[s] # NoTicket /\ ~Live(w, ticket[s])
     /\ \/ spc[s] \in {"check", "push"}
        \/ spc[s] \in {"recheck", "asleep"} /\ notified[s]
  \/ spc[s] = "pass"

(* A registered sender never comes to rest on room: as long as one sleeps  *)
(* while the ring has a free place, the shard still owes a hand-out or a   *)
(* sender that was woken has not yet tried (mailbox.rs, release_capacity:  *)
(* "a sender cannot come to rest while the room it wanted is already       *)
(* there").                                                                *)
NoRoomStranded ==
  /\ Len(ring) < Capacity
  /\ ~departed
  /\ \E s \in Senders : spc[s] = "asleep" /\ Live(w, ticket[s])
  => \/ freed > 0
     \/ rpc = "handing"
     \/ \E s \in Senders : Granted(s)

(* The only way room is ever stranded is a wake handed to a sender between *)
(* its push and the end of its registration: cancelled sends pass theirs   *)
(* on and a drain hands out every slot it freed.                           *)
RoomReachesTheNext == NoRoomStranded \/ misspent

(* poll_recv and try_recv report the end only when nothing can follow and  *)
(* nothing was left behind.                                                *)
ClosedIsConclusive == rpc = "done" => producers = 0 /\ ring = <<>>

(* Once the list is closed no sender suspends: whoever close() woke can    *)
(* see that the inbox is gone.                                             *)
NobodySleepsOnClosed ==
  [][\A s \in Senders : spc[s] # "asleep" /\ spc'[s] = "asleep" => ~w.closed]_vars

(* Whatever was pushed is received, unless the inbox is dropped.           *)
ItemsAreReceived == ring # <<>> ~> (ring = <<>> \/ departed)

(* A sender that was woken gets in or is told that the inbox is gone: it   *)
(* does not suspend again for good (waiters.rs, refresh: "the sender was   *)
(* already woken, and its next poll will find the room that woke it").     *)
WokenAreServed ==
  \A s \in Senders :
    spc[s] = "asleep" /\ ~Live(w, ticket[s]) ~> spc[s] # "asleep"

(* Once every handle is gone the receiver learns of it (mailbox.rs, last   *)
(* handle out: "A parked shard has to learn that there will be nothing     *)
(* more").                                                                 *)
ReceiverLearnsOfClose ==
  producers = 0 ~> (rpc = "done" \/ departed)

=============================================================================
