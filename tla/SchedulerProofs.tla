-------------------------- MODULE SchedulerProofs --------------------------
(***************************************************************************)
(* Submission around start and shutdown, for any number of shards, clients *)
(* and calls.                                                              *)
(*                                                                         *)
(*   Telling    what a call has pushed and not announced is written down   *)
(*              in it, and a call that waits or is over has nothing        *)
(*              written down; so a shard asleep on items will be told      *)
(*   Ledger     the mailboxes and the items taken from them hold, of a     *)
(*              call under way, exactly what it accepted and what it is    *)
(*              about to announce, each once, and a call under way holds   *)
(*              the router; so what it reports is what happened            *)
(***************************************************************************)
EXTENDS Scheduler, FiniteSetTheorems, TLAPS

CallFields == {"calls", "at", "mode", "batch", "next", "accepted", "rejected", "deferred", "tells"}

IsCall(call) == DOMAIN call = CallFields

USE DEF Suspended

(* Where a call stands and what it still has to announce.                  *)
Kept(call) ==
  /\ call.at # "tell" => call.tells = {}
  /\ call.at \notin {"item", "announce"} => call.deferred = {}

Telling ==
  /\ DOMAIN caller = Clients
  /\ DOMAIN queue = Shards
  /\ asleep \subseteq Shards
  /\ \A c \in Clients : IsCall(Of(c)) /\ Kept(Of(c))
  /\ NoUntoldSleeper

(* What a call will announce, wherever it is.                              *)
Owes(call) == call.deferred \cup call.tells

(* Going on to the next item keeps what is to be announced.                *)
LEMMA AdvancedKeeps ==
  ASSUME NEW call, IsCall(call), call.tells = {}
  PROVE  /\ IsCall(Advanced(call)) /\ Kept(Advanced(call))
         /\ Advanced(call).at \notin Suspended
         /\ Owes(Advanced(call)) = call.deferred
<1>1. CASE call.next < Len(call.batch)
  <2>1. Advanced(call) = [call EXCEPT !.at = "item", !.next = @ + 1]
    BY <1>1 DEF Advanced
  <2>2. QED
    BY <2>1 DEF IsCall, CallFields, Kept, Owes
<1>2. CASE ~(call.next < Len(call.batch))
  <2>1. Advanced(call) = [call EXCEPT !.at = "tell", !.tells = call.deferred, !.deferred = {}]
    BY <1>2 DEF Advanced
  <2>2. QED
    BY <2>1 DEF IsCall, CallFields, Kept, Owes
<1>3. QED
  BY <1>1, <1>2

(* An item decided either way leaves what is to be announced.              *)
LEMMA DecidedKeeps ==
  ASSUME NEW call, IsCall(call), call.tells = {}, NEW next, next \in {Accepted(call), Rejected(call)}
  PROVE  /\ IsCall(next) /\ Kept(next) /\ next.at \notin Suspended
         /\ Owes(next) = call.deferred
<1> DEFINE a == [call EXCEPT !.accepted = @ \cup {call.next}]
           r == [call EXCEPT !.rejected = @ \cup {call.next}]
<1>1. IsCall(a) /\ a.tells = {} /\ a.deferred = call.deferred
  BY DEF IsCall, CallFields
<1>2. IsCall(r) /\ r.tells = {} /\ r.deferred = call.deferred
  BY DEF IsCall, CallFields
<1>3. Accepted(call) = Advanced(a) /\ Rejected(call) = Advanced(r)
  BY DEF Accepted, Rejected
<1> HIDE DEF a, r
<1>4. QED
  BY <1>1, <1>2, <1>3, AdvancedKeeps

(* A new or finished call owes nothing.                                    *)
LEMMA ResetKeeps ==
  ASSUME NEW c \in Clients
  PROVE  /\ IsCall(Reset(c)) /\ Kept(Reset(c)) /\ Reset(c).tells = {} /\ Reset(c).deferred = {}
         /\ Reset(c).at = "idle"
BY DEF Reset, NoCall, IsCall, CallFields, Kept

(* What one client's step has to preserve for all of them: the shards it   *)
(* owed an announcement it still owes, or told, and the shard it pushed to *)
(* is added to them.                                                       *)
LEMMA OneCall ==
  ASSUME Telling, NEW c \in Clients, NEW call, Becomes(c, call),
         IsCall(call), Kept(call), UNCHANGED gone,
         DOMAIN queue' = Shards, asleep' \subseteq asleep,
         \A s \in asleep' \ gone :
           \/ queue'[s] = queue[s] /\ ~WillTell(c, s)
           \/ queue'[s] = <<>>
           \/ WillTell(c, s)'
  PROVE  Telling'
<1>1. caller' = [caller EXCEPT ![c] = call] /\ DOMAIN caller = Clients
  BY DEF Becomes, Telling
<1>2. /\ DOMAIN caller' = Clients /\ caller'[c] = call
      /\ \A d \in Clients \ {c} : caller'[d] = caller[d]
  BY <1>1
<1>3. \A d \in Clients : IsCall(Of(d)') /\ Kept(Of(d)')
  BY <1>2 DEF Of, Telling
<1>4. ASSUME NEW d \in Clients \ {c}, NEW s, WillTell(d, s) PROVE WillTell(d, s)'
  BY <1>2, <1>4 DEF WillTell, Of, Target, Current
<1>5. ASSUME NEW s \in asleep' \ gone', queue'[s] # <<>>
      PROVE  \E d \in Clients : WillTell(d, s)'
  <2>1. s \in asleep \ gone /\ s \in asleep' \ gone
    BY <1>5
  <2>2. CASE queue'[s] = queue[s] /\ ~WillTell(c, s)
    <3>1. PICK d \in Clients : WillTell(d, s)
      BY <1>5, <2>1, <2>2 DEF Telling, NoUntoldSleeper
    <3>2. QED
      BY <1>4, <2>2, <3>1
  <2>3. CASE WillTell(c, s)'
    BY <2>3
  <2>4. QED
    BY <1>5, <2>1, <2>2, <2>3
<1>6. NoUntoldSleeper'
  BY <1>5 DEF NoUntoldSleeper
<1>7. QED
  BY <1>2, <1>3, <1>6 DEF Telling, Of

(* A step that touches no mailbox.                                         *)
LEMMA QuietCall ==
  ASSUME Telling, NEW c \in Clients, NEW call, Becomes(c, call), IsCall(call), Kept(call),
         UNCHANGED mailboxes, Of(c).at # "announce",
         \/ Owes(Of(c)) = {}
         \/ call.at \notin Suspended /\ Owes(Of(c)) \subseteq Owes(call)
  PROVE  Telling'
<1>1. caller'[c] = call
  BY DEF Becomes, Telling
<1>2. queue' = queue /\ asleep' = asleep /\ gone' = gone
  BY DEF mailboxes
<1>3. ASSUME NEW s, WillTell(c, s) PROVE WillTell(c, s)'
  <2>1. s \in Owes(Of(c))
    BY <1>3 DEF WillTell, Owes
  <2>2. s \in Owes(call) /\ call.at \notin Suspended
    BY <2>1
  <2>3. QED
    BY <1>1, <2>2 DEF WillTell, Of, Owes
<1>4. DOMAIN queue' = Shards
  BY <1>2 DEF Telling
<1>5. QED
  BY <1>2, <1>3, <1>4, OneCall

(* The refusals, and the way to the wait: what was pushed before is        *)
(* announced first.                                                        *)
LEMMA RefusalsTell ==
  ASSUME Telling, NEW c \in Clients,
         RefuseClass(c) \/ RefuseDown(c) \/ RefuseFull(c) \/ FindFull(c)
  PROVE  Telling'
<1>1. IsCall(Of(c)) /\ Kept(Of(c))
  BY DEF Telling
<1>2. Of(c).at \in {"item", "wait"} /\ UNCHANGED mailboxes
  BY DEF RefuseClass, RefuseDown, RefuseFull, FindFull, Stamped
<1>3. Of(c).tells = {} /\ Owes(Of(c)) = Of(c).deferred
  BY <1>1, <1>2 DEF Kept, Owes
<1>4. CASE RefuseClass(c) \/ RefuseDown(c) \/ RefuseFull(c)
  <2>1. Becomes(c, Rejected(Of(c)))
    BY <1>4 DEF RefuseClass, RefuseDown, RefuseFull
  <2>2. /\ IsCall(Rejected(Of(c))) /\ Kept(Rejected(Of(c)))
        /\ Rejected(Of(c)).at \notin Suspended /\ Owes(Rejected(Of(c))) = Owes(Of(c))
    BY <1>1, <1>3, DecidedKeeps
  <2>3. QED
    BY <1>2, <2>1, <2>2, QuietCall
<1>5. CASE FindFull(c)
  <2> DEFINE call == BeforeWaiting(Of(c))
  <2>1. Becomes(c, call)
    BY <1>5 DEF FindFull
  <2>2. CASE Of(c).deferred = {}
    <3>1. call = [Of(c) EXCEPT !.at = "wait"]
      BY <2>2 DEF BeforeWaiting
    <3>2. IsCall(call) /\ Kept(call)
      BY <1>1, <1>3, <2>2, <3>1 DEF IsCall, CallFields, Kept
    <3>3. QED
      BY <1>2, <1>3, <2>1, <2>2, <3>2, QuietCall
  <2>3. CASE Of(c).deferred # {}
    <3>1. call = [Of(c) EXCEPT !.at = "tell", !.tells = Of(c).deferred, !.deferred = {}]
      BY <2>3 DEF BeforeWaiting
    <3>2. IsCall(call) /\ Kept(call) /\ call.at \notin Suspended /\ Owes(call) = Owes(Of(c))
      BY <1>1, <1>3, <3>1 DEF IsCall, CallFields, Kept, Owes
    <3>3. QED
      BY <1>2, <2>1, <3>2, QuietCall
  <2>4. QED
    BY <2>2, <2>3
<1>6. QED
  BY <1>4, <1>5

(* The pushes: the shard is noted, or announced at once.                   *)
LEMMA PushesTell ==
  ASSUME Telling, NEW c \in Clients, PushDeferred(c) \/ PushNow(c) \/ Admitted(c)
  PROVE  Telling'
<1>0. PICK tgt : tgt = Target(c)
  OBVIOUS
<1>1. IsCall(Of(c)) /\ Kept(Of(c))
  BY DEF Telling
<1>2. Of(c).at \in {"item", "wait"} /\ Pushed(c)
  BY DEF PushDeferred, PushNow, Admitted, Stamped
<1>3. Of(c).tells = {} /\ Owes(Of(c)) = Of(c).deferred
  BY <1>1, <1>2 DEF Kept, Owes
<1>4. UNCHANGED <<asleep, gone>> /\ DOMAIN queue = Shards
  BY <1>2 DEF Pushed, Telling
<1>5. queue' = [queue EXCEPT ![tgt] = Append(@, Envelope(c))]
  BY <1>0, <1>2 DEF Pushed
<1>6. DOMAIN queue' = Shards /\ \A s \in Shards \ {tgt} : queue'[s] = queue[s]
  BY <1>4, <1>5
<1>8. ASSUME NEW call, Becomes(c, call), IsCall(call), Kept(call), call.at \notin Suspended,
             Owes(Of(c)) \subseteq Owes(call),
             \/ tgt \in Owes(call)
             \/ call.at = "announce" /\ call.batch = Of(c).batch /\ call.next = Of(c).next
      PROVE  Telling'
  <2>1. caller'[c] = call
    BY <1>8 DEF Becomes, Telling
  <2>2. WillTell(c, tgt)'
    BY <1>0, <1>8, <2>1 DEF WillTell, Of, Owes, Target, Current
  <2>3. ASSUME NEW s, WillTell(c, s) PROVE WillTell(c, s)'
    <3>1. s \in Owes(Of(c))
      BY <1>2, <2>3 DEF WillTell, Owes
    <3>2. s \in Owes(call)
      BY <1>8, <3>1
    <3>3. QED
      BY <1>8, <2>1, <3>2 DEF WillTell, Of, Owes
  <2>4. ASSUME NEW s \in asleep'
        PROVE  (queue'[s] = queue[s] /\ ~WillTell(c, s)) \/ WillTell(c, s)'
    BY <1>4, <1>6, <2>2, <2>3, <2>4 DEF Telling
  <2>5. QED
    BY <1>4, <1>6, <1>8, <2>4, OneCall
<1>9. CASE Becomes(c, [Of(c) EXCEPT !.at = "announce"])
  <2> DEFINE call == [Of(c) EXCEPT !.at = "announce"]
  <2>1. /\ IsCall(call) /\ Kept(call) /\ call.at = "announce" /\ Owes(call) = Owes(Of(c))
        /\ call.batch = Of(c).batch /\ call.next = Of(c).next
    BY <1>1, <1>3 DEF IsCall, CallFields, Kept, Owes
  <2> HIDE DEF call
  <2>2. Becomes(c, call)
    BY <1>9 DEF call
  <2>3. QED
    BY <1>8, <2>1, <2>2
<1>10. CASE Becomes(c, Accepted([Of(c) EXCEPT !.deferred = @ \cup {Target(c)}]))
  <2> DEFINE from == [Of(c) EXCEPT !.deferred = @ \cup {tgt}]
             call == Accepted(from)
  <2>1. IsCall(from) /\ from.tells = {} /\ from.deferred = Owes(Of(c)) \cup {tgt}
    BY <1>1, <1>3 DEF IsCall, CallFields
  <2>2. Becomes(c, call)
    BY <1>0, <1>10
  <2> HIDE DEF from
  <2>3. IsCall(call) /\ Kept(call) /\ call.at \notin Suspended /\ Owes(call) = Owes(Of(c)) \cup {tgt}
    BY <2>1, DecidedKeeps
  <2> HIDE DEF call
  <2>4. QED
    BY <1>8, <2>2, <2>3
<1>11. QED
  BY <1>9, <1>10 DEF PushDeferred, PushNow, Admitted

(* The announcements: who is told no longer sleeps.                        *)
LEMMA AnnouncementsTell ==
  ASSUME Telling, NEW c \in Clients, AnnounceNow(c) \/ \E s \in Of(c).tells : Tell(c, s)
  PROVE  Telling'
<1>1. IsCall(Of(c)) /\ Kept(Of(c)) /\ DOMAIN queue = Shards
  BY DEF Telling
<1>2. ASSUME NEW call, Becomes(c, call), IsCall(call), Kept(call), call.at \notin Suspended,
             UNCHANGED <<queue, gone>>, NEW told, asleep' = asleep \ {told},
             \A s : WillTell(c, s) /\ s # told => s \in Owes(call)
      PROVE  Telling'
  <2>1. caller'[c] = call
    BY <1>2 DEF Becomes, Telling
  <2>2. ASSUME NEW s \in asleep', WillTell(c, s) PROVE WillTell(c, s)'
    BY <1>2, <2>1, <2>2 DEF WillTell, Of, Owes
  <2>3. DOMAIN queue' = Shards /\ asleep' \subseteq asleep
    BY <1>1, <1>2
  <2>4. \A s \in asleep' \ gone : (queue'[s] = queue[s] /\ ~WillTell(c, s)) \/ WillTell(c, s)'
    BY <1>2, <2>2
  <2>5. QED
    BY <1>2, <2>3, <2>4, OneCall
<1>3. CASE AnnounceNow(c)
  <2> DEFINE call == Accepted(Of(c))
  <2>1. /\ Of(c).at = "announce" /\ Becomes(c, call) /\ UNCHANGED <<queue, gone>>
        /\ asleep' = asleep \ {Target(c)}
    BY <1>3 DEF AnnounceNow
  <2>2. Of(c).tells = {}
    BY <1>1, <2>1 DEF Kept
  <2>3. IsCall(call) /\ Kept(call) /\ call.at \notin Suspended /\ Owes(call) = Of(c).deferred
    BY <1>1, <2>2, DecidedKeeps
  <2>4. \A s : WillTell(c, s) /\ s # Target(c) => s \in Of(c).deferred
    BY <2>2 DEF WillTell
  <2> HIDE DEF call
  <2>5. QED
    BY <1>2, <2>1, <2>3, <2>4
<1>4. ASSUME NEW t \in Of(c).tells, Tell(c, t) PROVE Telling'
  <2> DEFINE call == [Of(c) EXCEPT !.tells = @ \ {t}]
  <2>1. /\ Of(c).at = "tell" /\ Becomes(c, call) /\ UNCHANGED <<queue, gone>>
        /\ asleep' = asleep \ {t}
    BY <1>4 DEF Tell
  <2>2. Of(c).deferred = {}
    BY <1>1, <2>1 DEF Kept
  <2>3. IsCall(call) /\ Kept(call) /\ call.at \notin Suspended /\ Owes(call) = Of(c).tells \ {t}
    BY <1>1, <2>1, <2>2 DEF IsCall, CallFields, Kept, Owes
  <2>4. \A s : WillTell(c, s) /\ s # t => s \in Of(c).tells \ {t}
    BY <2>1, <2>2 DEF WillTell
  <2> HIDE DEF call
  <2>5. QED
    BY <1>2, <2>1, <2>3, <2>4
<1>5. QED
  BY <1>3, <1>4

(* The rest of a call, which begins and ends with nothing to announce.     *)
LEMMA EndsTell ==
  ASSUME Telling, NEW c \in Clients,
         \/ Told(c) \/ Answered(c) \/ Return(c) \/ DropCall(c) \/ Overlook(c) \/ Rescued(c)
         \/ \E mode \in Modes, batch \in Batches : BeginCall(c, mode, batch)
  PROVE  Telling'
<1>1. IsCall(Of(c)) /\ Kept(Of(c))
  BY DEF Telling
<1>2. /\ UNCHANGED mailboxes /\ Of(c).at \notin {"item", "announce"}
      /\ Of(c).at = "tell" => Of(c).tells = {}
  BY DEF Told, Answered, Return, DropCall, BeginCall, Overlook, Rescued
<1>3. Of(c).deferred = {} /\ Of(c).tells = {} /\ Owes(Of(c)) = {}
  BY <1>1, <1>2 DEF Kept, Owes
<1>4. ASSUME NEW call, Becomes(c, call), IsCall(call), Kept(call) PROVE Telling'
  BY <1>2, <1>3, <1>4, QuietCall
<1>5. ASSUME NEW at, Becomes(c, [Of(c) EXCEPT !.at = at]) PROVE Telling'
  <2> DEFINE call == [Of(c) EXCEPT !.at = at]
  <2>1. IsCall(call) /\ Kept(call)
    BY <1>1, <1>3 DEF IsCall, CallFields, Kept
  <2> HIDE DEF call
  <2>2. QED
    BY <1>4, <1>5, <2>1 DEF call
<1>6. CASE Told(c) \/ Answered(c) \/ Overlook(c) \/ Rescued(c)
  BY <1>5, <1>6 DEF Told, Answered, Overlook, Rescued
<1>7. CASE Return(c) \/ DropCall(c)
  BY <1>4, <1>7, ResetKeeps DEF Return, DropCall
<1>8. ASSUME NEW mode, NEW batch, BeginCall(c, mode, batch) PROVE Telling'
  <2> DEFINE from == [Reset(c) EXCEPT !.calls = @ + 1, !.mode = mode, !.batch = batch]
  <2>1. IsCall(from) /\ from.tells = {}
    BY ResetKeeps DEF IsCall, CallFields
  <2>2. Becomes(c, Advanced(from))
    BY <1>8 DEF BeginCall
  <2> HIDE DEF from
  <2>3. QED
    BY <1>4, <2>1, <2>2, AdvancedKeeps
<1>9. QED
  BY <1>6, <1>7, <1>8

(* Shards: one falls asleep on an empty mailbox only, one that ends is     *)
(* told nothing more, and the last holder out wakes them all.              *)
LEMMA ShardsTell ==
  ASSUME Telling, UNCHANGED caller, DOMAIN queue' = Shards, asleep' \subseteq Shards,
         \A s \in asleep' \ gone' :
           \/ queue'[s] = <<>>
           \/ s \in asleep \ gone /\ queue'[s] = queue[s]
  PROVE  Telling'
<1>1. \A c \in Clients, s \in asleep' : WillTell(c, s) => WillTell(c, s)'
  BY DEF WillTell, Of, Target, Current
<1>2. NoUntoldSleeper'
  BY <1>1 DEF Telling, NoUntoldSleeper
<1>3. QED
  BY <1>2 DEF Telling, Of

(* Drops, for the builder, the scheduler or a client.                      *)
LEMMA DropsTell ==
  ASSUME Telling, UNCHANGED <<caller, gone>>, NEW who, Drops(who)
  PROVE  Telling'
<1>1. CASE holders' = {}
  BY <1>1, ShardsTell DEF Drops, Telling
<1>2. CASE holders' # {}
  BY <1>2, ShardsTell DEF Drops, Telling
<1>3. QED
  BY <1>1, <1>2

(* A thread that ends.                                                     *)
LEMMA EndsThread ==
  ASSUME Telling, NEW s \in Shards, NEW how, Ends(s, how)
  PROVE  Telling'
<1>1. /\ gone' = gone \cup {s} /\ asleep' = asleep /\ caller' = caller
      /\ queue' \in {queue, [queue EXCEPT ![s] = <<>>]}
  BY DEF Ends
<1>2. DOMAIN queue = Shards
  BY DEF Telling
<1>3. DOMAIN queue' = Shards /\ \A t \in Shards \ {s} : queue'[t] = queue[t]
  BY <1>1, <1>2
<1>4. asleep' \subseteq Shards
  BY <1>1 DEF Telling
<1>5. \A t \in asleep' \ gone' : t \in asleep \ gone /\ queue'[t] = queue[t]
  BY <1>1, <1>3, <1>4
<1>6. QED
  BY <1>1, <1>3, <1>4, <1>5, ShardsTell

(* Every step keeps it.                                                    *)
LEMMA TellingStep == Telling /\ [SchedulerNext]_schedulerVars => Telling'
<1> SUFFICES ASSUME Telling, [SchedulerNext]_schedulerVars PROVE Telling'
  OBVIOUS
<1>0. DOMAIN queue = Shards /\ asleep \subseteq Shards
  BY DEF Telling
<1>1. ASSUME queue' = queue, asleep' = asleep, gone' = gone, caller' = caller PROVE Telling'
  BY <1>0, <1>1, ShardsTell
<1>2. CASE Build
  <2>1. CASE RefuseDepth \/ Spawn \/ Recv \/ Started \/ Join
    BY <1>1, <2>1 DEF RefuseDepth, Spawn, Recv, Started, Join, mailboxes
  <2>2. CASE RecvFails \/ RefuseUnpinned
    BY <2>2, DropsTell DEF RecvFails, RefuseUnpinned
  <2>3. QED
    BY <1>2, <2>1, <2>2 DEF Build
<1>3. ASSUME NEW s \in Shards, Thread(s) PROVE Telling'
  <2>1. CASE Report(s) \/ BuildProcessor(s)
    BY <1>1, <2>1 DEF Report, BuildProcessor, mailboxes
  <2>2. CASE Exit(s)
    BY <2>2, EndsThread DEF Exit
  <2>3. CASE TakeItem(s)
    <3>1. /\ s \notin asleep /\ asleep' = asleep /\ gone' = gone /\ caller' = caller
          /\ queue' = [queue EXCEPT ![s] = Tail(@)]
      BY <2>3 DEF TakeItem
    <3>2. DOMAIN queue' = Shards /\ \A t \in Shards : t # s => queue'[t] = queue[t]
      BY <1>0, <3>1
    <3>3. QED
      BY <1>0, <3>1, <3>2, ShardsTell
  <2>4. CASE FallAsleep(s)
    BY <1>0, <2>4, ShardsTell DEF FallAsleep
  <2>5. QED
    BY <1>3, <2>1, <2>2, <2>3, <2>4 DEF Thread
<1>4. ASSUME NEW c \in Clients, Client(c) PROVE Telling'
  BY <1>4, RefusalsTell, PushesTell, AnnouncementsTell, EndsTell DEF Client, Submit
<1>5. ASSUME NEW c \in Clients, DropRouter(c) PROVE Telling'
  BY <1>5, DropsTell DEF DropRouter
<1>6. CASE Choice
  <2>1. ASSUME NEW s \in Shards, DieBinding(s) \/ DieBuilding(s) PROVE Telling'
    BY <2>1, EndsThread DEF DieBinding, DieBuilding
  <2>2. ASSUME NEW c \in Clients, CloneRouter(c) PROVE Telling'
    BY <1>1, <2>2 DEF CloneRouter, mailboxes
  <2>3. CASE Shutdown
    BY <2>3, DropsTell DEF Shutdown
  <2>4. QED
    BY <1>6, <2>1, <2>2, <2>3, EndsTell DEF Choice
<1>7. CASE UNCHANGED schedulerVars
  BY <1>1, <1>7 DEF schedulerVars
<1>8. QED
  BY <1>2, <1>3, <1>4, <1>5, <1>6, <1>7 DEF SchedulerNext

(* No shard sleeps beside items nobody will tell it of: submit_batch       *)
(* defers its announcements, and makes them before it waits and before it  *)
(* returns (Deferred::announce of router.rs).                              *)
THEOREM SleepersAlwaysTold == SchedulerSpec => []NoUntoldSleeper
<1>1. SchedulerInit => Telling
  <2>1. ASSUME SchedulerInit PROVE Telling
    <3>1. /\ caller = [c \in Clients |-> NoCall] /\ queue = [s \in Shards |-> <<>>]
          /\ asleep = {}
      BY <2>1 DEF SchedulerInit, RouterInit
    <3>2. IsCall(NoCall) /\ Kept(NoCall)
      BY DEF NoCall, IsCall, CallFields, Kept
    <3>3. QED
      BY <3>1, <3>2 DEF Telling, NoUntoldSleeper, Of
  <2>2. QED
    BY <2>1
<1>2. Telling => NoUntoldSleeper
  BY DEF Telling
<1>3. QED
  BY <1>1, <1>2, TellingStep, PTL DEF SchedulerSpec

-----------------------------------------------------------------------------
(* What a batch reports.                                                   *)

Envl == [by : Clients, call : Nat, n : Nat]
Entries == [key : DOMAIN Hash, class : Nat]

(* An item is in a mailbox, or was taken out of one.                       *)
Present(q, sv, x) == x \in sv \/ \E s \in Shards : \E i \in 1 .. Len(q[s]) : q[s][i] = x

(* Nothing is in the mailboxes twice, nor still there once it was taken.   *)
Once(q, sv) ==
  \A s \in Shards : \A i \in 1 .. Len(q[s]) :
    /\ q[s][i] \notin sv
    /\ \A t \in Shards : \A j \in 1 .. Len(q[t]) : q[t][j] = q[s][i] => t = s /\ j = i

(* Everything before the current item is decided, or the whole batch.      *)
Before(call) == call.next >= 1 /\ call.accepted \cup call.rejected = 1 .. call.next - 1
Through(call) == call.accepted \cup call.rejected = 1 .. Len(call.batch)

Sound(call) ==
  /\ IsCall(call)
  /\ call.calls \in Nat
  /\ call.batch \in Seq(Entries)
  /\ call.next \in 0 .. Len(call.batch)
  /\ call.at \in {"idle", "item", "announce", "tell", "wait", "overlooked", "answer", "done"}
  /\ call.at \in {"item", "announce", "wait", "overlooked"} => Before(call)
  /\ call.at = "tell" => Before(call) \/ Through(call)
  /\ call.at \in {"answer", "done"} => Through(call)

(* The mailboxes hold, of a call, what it accepted and what it is about to *)
(* announce, and nothing of calls to come.                                 *)
Recorded(c, call, q, sv) ==
  /\ \A m \in Nat, n \in Nat :
       m > call.calls => ~Present(q, sv, [by |-> c, call |-> m, n |-> n])
  /\ call.at # "idle" =>
       \A n \in Nat :
         Present(q, sv, [by |-> c, call |-> call.calls, n |-> n])
           <=> n \in call.accepted \/ (call.at = "announce" /\ n = call.next)

Ledger ==
  /\ queue \in [Shards -> Seq(Envl)]
  /\ \A s \in Shards : Len(queue[s]) <= Depth
  /\ Once(queue, served)
  /\ DOMAIN caller = Clients
  /\ \A c \in Clients :
       /\ Sound(Of(c)) /\ Recorded(c, Of(c), queue, served)
       /\ Of(c).at # "idle" => c \in holders

(* Every key belongs to a shard.                                           *)
LEMMA ShardIndexInRange ==
  ASSUME NEW k \in DOMAIN Hash
  PROVE  ShardIndex(k) \in Shards
<1>1. Hash[k] \in Nat /\ NShards \in Nat \ {0} /\ SlotTotal \in Nat \ {0}
  BY RouterConstants, SlotTotalPositive
<1>2. Hash[k] % SlotTotal \in Nat
  BY <1>1
<1>3. ASSUME NEW x \in Nat PROVE x % NShards \in 0 .. NShards - 1
  BY <1>1
<1>4. QED
  BY <1>2, <1>3 DEF ShardIndex, Shards

(* The shard of the item a call is at.                                     *)
LEMMA TargetInRange ==
  ASSUME Ledger, NEW c \in Clients, Of(c).at \in {"item", "announce", "wait"}
  PROVE  Target(c) \in Shards
<1>1. Sound(Of(c)) /\ Before(Of(c))
  BY DEF Ledger, Sound
<1>2. Of(c).next \in 1 .. Len(Of(c).batch) /\ Of(c).batch \in Seq(Entries)
  BY <1>1 DEF Sound, Before
<1>3. Current(c) \in Entries
  BY <1>2 DEF Current
<1>4. Current(c).key \in DOMAIN Hash
  BY <1>3 DEF Entries
<1>5. QED
  BY <1>4, ShardIndexInRange DEF Target

(* One item more is present.                                               *)
Added(q, r, sv, e) == \A x : Present(r, sv, x) <=> Present(q, sv, x) \/ x = e

(* A fresh item appended to a mailbox.                                     *)
LEMMA PushOnce ==
  ASSUME NEW q \in [Shards -> Seq(Envl)], NEW sv, Once(q, sv),
         NEW t \in Shards, NEW e \in Envl, ~Present(q, sv, e),
         NEW r \in [Shards -> Seq(Envl)], Len(r[t]) = Len(q[t]) + 1,
         r[t][Len(q[t]) + 1] = e, \A i \in 1 .. Len(q[t]) : r[t][i] = q[t][i],
         \A s \in Shards \ {t} : r[s] = q[s]
  PROVE  Once(r, sv) /\ Added(q, r, sv, e)
<1>1. q[t] \in Seq(Envl) /\ Len(q[t]) \in Nat
  OBVIOUS
<1>2. \A s \in Shards \ {t} : r[s] = q[s]
  OBVIOUS
<1>3. Len(r[t]) = Len(q[t]) + 1
  OBVIOUS
<1>4. r[t][Len(q[t]) + 1] = e /\ \A i \in 1 .. Len(q[t]) : r[t][i] = q[t][i]
  OBVIOUS
<1>5. ASSUME NEW s \in Shards, NEW i \in 1 .. Len(r[s])
      PROVE  \/ s = t /\ i = Len(q[t]) + 1 /\ r[s][i] = e
             \/ i \in 1 .. Len(q[s]) /\ r[s][i] = q[s][i]
  <2>1. CASE s = t
    <3>1. i \in 1 .. Len(q[t]) + 1
      BY <1>3, <2>1
    <3>2. i \in 1 .. Len(q[t]) \/ i = Len(q[t]) + 1
      BY <1>1, <3>1
    <3>3. QED
      BY <1>4, <2>1, <3>2
  <2>2. CASE s # t
    BY <1>2, <2>2
  <2>3. QED
    BY <2>1, <2>2
<1>6. ASSUME NEW s \in Shards, NEW i \in 1 .. Len(q[s])
      PROVE  i \in 1 .. Len(r[s]) /\ r[s][i] = q[s][i] /\ q[s][i] # e
  <2>1. q[s][i] # e
    BY DEF Present
  <2>2. i \in 1 .. Len(r[s]) /\ r[s][i] = q[s][i]
    <3>1. CASE s = t
      <4>1. i \in 1 .. Len(r[t])
        BY <1>1, <1>3, <3>1
      <4>2. QED
        BY <1>4, <3>1, <4>1
    <3>2. CASE s # t
      BY <1>2, <3>2
    <3>3. QED
      BY <3>1, <3>2
  <2>3. QED
    BY <2>1, <2>2
<1>7. e \notin sv /\ Len(q[t]) + 1 \in 1 .. Len(r[t])
  BY <1>1, <1>3 DEF Present
<1>8. ASSUME NEW s \in Shards, NEW i \in 1 .. Len(r[s])
      PROVE  /\ r[s][i] \notin sv
             /\ \A u \in Shards : \A j \in 1 .. Len(r[u]) : r[u][j] = r[s][i] => u = s /\ j = i
  <2>1. r[s][i] \notin sv
    BY <1>5, <1>7 DEF Once
  <2>2. ASSUME NEW u \in Shards, NEW j \in 1 .. Len(r[u]), r[u][j] = r[s][i]
        PROVE  u = s /\ j = i
    <3>1. \/ s = t /\ i = Len(q[t]) + 1 /\ r[s][i] = e
          \/ i \in 1 .. Len(q[s]) /\ r[s][i] = q[s][i]
      BY <1>5
    <3>2. \/ u = t /\ j = Len(q[t]) + 1 /\ r[u][j] = e
          \/ j \in 1 .. Len(q[u]) /\ r[u][j] = q[u][j]
      BY <1>5
    <3>3. CASE r[s][i] = e
      <4>1. ~(i \in 1 .. Len(q[s]) /\ r[s][i] = q[s][i]) /\ ~(j \in 1 .. Len(q[u]) /\ r[u][j] = q[u][j])
        BY <1>6, <2>2, <3>3
      <4>2. QED
        BY <3>1, <3>2, <4>1
    <3>4. CASE r[s][i] # e
      <4>1. i \in 1 .. Len(q[s]) /\ j \in 1 .. Len(q[u]) /\ q[u][j] = q[s][i]
        BY <2>2, <3>1, <3>2, <3>4
      <4>2. QED
        BY <4>1 DEF Once
    <3>5. QED
      BY <3>3, <3>4
  <2>3. QED
    BY <2>1, <2>2
<1>9. Once(r, sv)
  BY <1>8 DEF Once
<1>10. ASSUME NEW x PROVE Present(r, sv, x) <=> Present(q, sv, x) \/ x = e
  <2>1. ASSUME Present(r, sv, x) PROVE Present(q, sv, x) \/ x = e
    <3>1. CASE x \in sv
      BY <3>1 DEF Present
    <3>2. ASSUME NEW s \in Shards, NEW i \in 1 .. Len(r[s]), r[s][i] = x
          PROVE  Present(q, sv, x) \/ x = e
      <4>1. x = e \/ (i \in 1 .. Len(q[s]) /\ q[s][i] = x)
        BY <1>5, <3>2
      <4>2. QED
        BY <4>1 DEF Present
    <3>3. QED
      BY <2>1, <3>1, <3>2 DEF Present
  <2>2. ASSUME Present(q, sv, x) PROVE Present(r, sv, x)
    BY <1>6, <2>2 DEF Present
  <2>3. Present(r, sv, e)
    BY <1>4, <1>7 DEF Present
  <2>4. QED
    BY <2>1, <2>2, <2>3
<1>11. QED
  BY <1>9, <1>10 DEF Added

(* An item taken out.                                                      *)
LEMMA TakeOnce ==
  ASSUME NEW q \in [Shards -> Seq(Envl)], NEW sv, Once(q, sv),
         NEW t \in Shards, q[t] # <<>>,
         NEW r, r = [q EXCEPT ![t] = Tail(@)],
         NEW sr, sr = sv \cup {Head(q[t])}
  PROVE  /\ r \in [Shards -> Seq(Envl)]
         /\ \A s \in Shards : Len(r[s]) <= Len(q[s])
         /\ Once(r, sr)
         /\ \A x : Present(r, sr, x) <=> Present(q, sv, x)
<1>1. q[t] \in Seq(Envl) /\ Len(q[t]) \in Nat \ {0}
  OBVIOUS
<1>2. r[t] = Tail(q[t]) /\ \A s \in Shards \ {t} : r[s] = q[s]
  OBVIOUS
<1>3. /\ Len(r[t]) = Len(q[t]) - 1 /\ r \in [Shards -> Seq(Envl)]
      /\ \A i \in 1 .. Len(r[t]) : r[t][i] = q[t][i + 1]
  BY <1>1, <1>2
<1>4. Head(q[t]) = q[t][1] /\ 1 \in 1 .. Len(q[t])
  BY <1>1
<1>5. \A s \in Shards : Len(r[s]) <= Len(q[s])
  <2>1. \A s \in Shards : Len(q[s]) \in Nat
    OBVIOUS
  <2>2. QED
    BY <1>2, <1>3, <2>1
<1>6. ASSUME NEW s \in Shards, NEW i \in 1 .. Len(r[s])
      PROVE  IF s = t THEN i + 1 \in 1 .. Len(q[s]) /\ i + 1 # 1 /\ r[s][i] = q[s][i + 1]
             ELSE i \in 1 .. Len(q[s]) /\ r[s][i] = q[s][i]
  <2>1. CASE s = t
    <3>1. i \in Nat /\ i + 1 \in 1 .. Len(q[t]) /\ i + 1 # 1
      BY <1>1, <1>3, <2>1
    <3>2. QED
      BY <1>3, <2>1, <3>1
  <2>2. CASE s # t
    BY <1>2, <2>2
  <2>3. QED
    BY <2>1, <2>2
<1>7. ASSUME NEW s \in Shards, NEW i \in 1 .. Len(r[s])
      PROVE  /\ r[s][i] \notin sr
             /\ \A u \in Shards : \A j \in 1 .. Len(r[u]) : r[u][j] = r[s][i] => u = s /\ j = i
  <2>1. PICK a \in 1 .. Len(q[s]) : /\ r[s][i] = q[s][a] /\ (s = t => a = i + 1 /\ a # 1)
                                    /\ (s # t => a = i)
    BY <1>6
  <2>2. q[s][a] \notin sv
    BY <2>1 DEF Once
  <2>3. q[s][a] # q[t][1]
    BY <1>4, <2>1 DEF Once
  <2>4. ASSUME NEW u \in Shards, NEW j \in 1 .. Len(r[u]), r[u][j] = r[s][i]
        PROVE  u = s /\ j = i
    <3>1. PICK b \in 1 .. Len(q[u]) : /\ r[u][j] = q[u][b] /\ (u = t => b = j + 1)
                                      /\ (u # t => b = j)
      BY <1>6
    <3>2. u = s /\ b = a
      <4>1. q[u][b] = q[s][a]
        BY <2>1, <2>4, <3>1
      <4>2. QED
        BY <4>1 DEF Once
    <3>3. i \in Int /\ j \in Int
      OBVIOUS
    <3>4. QED
      BY <2>1, <3>1, <3>2, <3>3
  <2>5. QED
    BY <1>4, <2>1, <2>2, <2>3, <2>4
<1>8. Once(r, sr)
  BY <1>7 DEF Once
<1>9. ASSUME NEW x PROVE Present(r, sr, x) <=> Present(q, sv, x)
  <2>1. ASSUME Present(r, sr, x) PROVE Present(q, sv, x)
    <3>1. CASE x \in sr
      BY <1>4, <3>1 DEF Present
    <3>2. ASSUME NEW s \in Shards, NEW i \in 1 .. Len(r[s]), r[s][i] = x PROVE Present(q, sv, x)
      BY <1>6, <3>2 DEF Present
    <3>3. QED
      BY <2>1, <3>1, <3>2 DEF Present
  <2>2. ASSUME Present(q, sv, x) PROVE Present(r, sr, x)
    <3>1. CASE x \in sv
      BY <3>1 DEF Present
    <3>2. ASSUME NEW s \in Shards, NEW i \in 1 .. Len(q[s]), q[s][i] = x PROVE Present(r, sr, x)
      <4>1. CASE s = t /\ i = 1
        BY <1>4, <3>2, <4>1 DEF Present
      <4>2. CASE s = t /\ i # 1
        <5>1. i - 1 \in 1 .. Len(r[t]) /\ (i - 1) + 1 = i
          BY <1>1, <1>3, <3>2, <4>2
        <5>2. r[t][i - 1] = x
          BY <1>3, <3>2, <4>2, <5>1
        <5>3. QED
          BY <5>1, <5>2 DEF Present
      <4>3. CASE s # t
        BY <1>2, <3>2, <4>3 DEF Present
      <4>4. QED
        BY <4>1, <4>2, <4>3
    <3>3. QED
      BY <2>2, <3>1, <3>2 DEF Present
  <2>3. QED
    BY <2>1, <2>2
<1>10. QED
  BY <1>3, <1>5, <1>8, <1>9

(* Mailboxes emptied.                                                      *)
LEMMA FlushOnce ==
  ASSUME NEW q \in [Shards -> Seq(Envl)], NEW sv, Once(q, sv),
         NEW r, DOMAIN r = Shards, r = [s \in Shards |-> r[s]],
         \A s \in Shards : r[s] \in {q[s], <<>>}
  PROVE  /\ r \in [Shards -> Seq(Envl)]
         /\ \A s \in Shards : Len(r[s]) <= Len(q[s])
         /\ Once(r, sv)
         /\ \A x : Present(r, sv, x) => Present(q, sv, x)
<1>1. r \in [Shards -> Seq(Envl)]
  <2>1. \A s \in Shards : q[s] \in Seq(Envl) /\ <<>> \in Seq(Envl)
    OBVIOUS
  <2>2. \A s \in Shards : r[s] \in Seq(Envl)
    BY <2>1
  <2>3. QED
    BY <2>2
<1>2. \A s \in Shards : Len(q[s]) \in Nat /\ (r[s] = <<>> => Len(r[s]) = 0)
  OBVIOUS
<1>3. \A s \in Shards : Len(r[s]) <= Len(q[s])
  BY <1>2
<1>4. \A s \in Shards : \A i \in 1 .. Len(r[s]) : r[s] = q[s]
  BY <1>2
<1>5. Once(r, sv)
  BY <1>4 DEF Once
<1>6. \A x : Present(r, sv, x) => Present(q, sv, x)
  BY <1>4 DEF Present
<1>7. QED
  BY <1>1, <1>3, <1>5, <1>6

(* A mailbox that only shrank stays within its depth.                      *)
LEMMA DepthTransitive ==
  ASSUME NEW q \in [Shards -> Seq(Envl)], NEW r \in [Shards -> Seq(Envl)],
         \A s \in Shards : Len(q[s]) <= Depth, \A s \in Shards : Len(r[s]) <= Len(q[s])
  PROVE  \A s \in Shards : Len(r[s]) <= Depth
<1>1. ASSUME NEW s \in Shards PROVE Len(r[s]) <= Depth
  <2>1. Len(q[s]) \in Nat /\ Len(r[s]) \in Nat /\ Depth \in Nat
    BY RouterConstants
  <2>2. QED
    BY <2>1
<1>2. QED
  BY <1>1

(* A place of an item is an index of its shard's mailbox.                  *)
LEMMA PlaceIsIndex ==
  ASSUME Ledger, NEW x, NEW p \in Places(x)
  PROVE  p[1] \in Shards /\ p[2] \in 1 .. Len(queue[p[1]]) /\ queue[p[1]][p[2]] = x
<1>1. p \in Shards \X (1 .. Depth) /\ p[2] <= Len(queue[p[1]]) /\ queue[p[1]][p[2]] = x
  BY DEF Places
<1>2. p[1] \in Shards /\ p[2] \in 1 .. Depth /\ Depth \in Nat
  BY <1>1, RouterConstants
<1>3. Len(queue[p[1]]) \in Nat
  BY <1>2 DEF Ledger
<1>4. QED
  BY <1>1, <1>2, <1>3

(* An item that is in a mailbox has that place only.                       *)
LEMMA OnePlace ==
  ASSUME Ledger, NEW s \in Shards, NEW i \in 1 .. Len(queue[s]), NEW x, queue[s][i] = x
  PROVE  Places(x) = {<<s, i>>}
<1>1. i \in 1 .. Depth
  <2>1. Len(queue[s]) \in Nat /\ Len(queue[s]) <= Depth /\ Depth \in Nat
    BY RouterConstants DEF Ledger
  <2>2. QED
    BY <2>1
<1>2. <<s, i>> \in Places(x)
  <2>1. <<s, i>> \in Shards \X (1 .. Depth) /\ i <= Len(queue[s])
    BY <1>1 DEF Ledger
  <2>2. QED
    BY <2>1 DEF Places
<1>3. ASSUME NEW p \in Places(x) PROVE p = <<s, i>>
  <2>1. p[1] \in Shards /\ p[2] \in 1 .. Len(queue[p[1]]) /\ queue[p[1]][p[2]] = x
    BY PlaceIsIndex
  <2>2. p[1] = s /\ p[2] = i
    BY <2>1 DEF Ledger, Once
  <2>3. p \in Shards \X (1 .. Depth)
    BY DEF Places
  <2>4. QED
    BY <2>2, <2>3
<1>4. QED
  BY <1>2, <1>3

(* A step of one call, whatever it does to the mailboxes.                  *)
LEMMA OneRecord ==
  ASSUME Ledger, NEW c \in Clients, NEW call, Becomes(c, call), Sound(call),
         UNCHANGED holders, call.at # "idle" => c \in holders,
         queue' \in [Shards -> Seq(Envl)],
         \A s \in Shards : Len(queue'[s]) <= Depth,
         Once(queue', served'),
         Recorded(c, call, queue', served'),
         \A d \in Clients \ {c} : Recorded(d, Of(d), queue', served')
  PROVE  Ledger'
<1>1. /\ DOMAIN caller' = Clients /\ caller'[c] = call
      /\ \A d \in Clients \ {c} : caller'[d] = caller[d]
  BY DEF Becomes, Ledger
<1>2. ASSUME NEW d \in Clients
      PROVE  /\ Sound(caller'[d]) /\ Recorded(d, caller'[d], queue', served')
             /\ caller'[d].at # "idle" => d \in holders'
  <2>1. CASE d = c
    BY <1>1, <2>1
  <2>2. CASE d # c
    <3>1. /\ Sound(caller[d]) /\ Recorded(d, caller[d], queue', served')
          /\ caller[d].at # "idle" => d \in holders
      BY <2>2 DEF Ledger, Of
    <3>2. caller'[d] = caller[d]
      BY <1>1, <2>2
    <3>3. QED
      BY <3>1, <3>2
  <2>3. QED
    BY <2>1, <2>2
<1>3. QED
  BY <1>1, <1>2 DEF Ledger, Of

(* A step of one call that leaves the mailboxes alone.                     *)
LEMMA QuietRecord ==
  ASSUME Ledger, NEW c \in Clients, NEW call, Becomes(c, call), Sound(call),
         UNCHANGED mailboxes, UNCHANGED holders, call.at # "idle" => c \in holders,
         Recorded(c, call, queue, served)
  PROVE  Ledger'
<1>1. queue' = queue /\ served' = served
  BY DEF mailboxes
<1>2. \A d \in Clients : Recorded(d, Of(d), queue, served)
  BY DEF Ledger
<1>3. /\ queue' \in [Shards -> Seq(Envl)] /\ (\A s \in Shards : Len(queue'[s]) <= Depth)
      /\ Once(queue', served')
  BY <1>1 DEF Ledger
<1>4. QED
  BY <1>1, <1>2, <1>3, OneRecord

(* A decision moves on to the next item, or to the end.                    *)
LEMMA AdvancedSound ==
  ASSUME NEW call, IsCall(call), call.calls \in Nat, call.batch \in Seq(Entries),
         call.next \in 0 .. Len(call.batch),
         call.accepted \cup call.rejected = 1 .. call.next
  PROVE  /\ Sound(Advanced(call))
         /\ Advanced(call).at \in {"item", "tell"}
         /\ Advanced(call).calls = call.calls /\ Advanced(call).accepted = call.accepted
<1> DEFINE next == Advanced(call)
<1>1. Len(call.batch) \in Nat /\ call.next \in Nat
  OBVIOUS
<1>2. CASE call.next < Len(call.batch)
  <2>1. next = [call EXCEPT !.at = "item", !.next = @ + 1]
    BY <1>2 DEF Advanced
  <2>2. /\ IsCall(next) /\ next.at = "item" /\ next.next = call.next + 1
        /\ next.calls = call.calls /\ next.batch = call.batch
        /\ next.accepted = call.accepted /\ next.rejected = call.rejected
    BY <2>1 DEF IsCall, CallFields
  <2> HIDE DEF next
  <2>3. next.next \in 0 .. Len(call.batch) /\ next.next >= 1 /\ next.next - 1 = call.next
    BY <1>1, <1>2, <2>2
  <2>4. Before(next)
    BY <2>2, <2>3 DEF Before
  <2>5. Sound(next)
    BY <2>2, <2>3, <2>4 DEF Sound
  <2>6. QED
    BY <2>2, <2>5 DEF next
<1>3. CASE ~(call.next < Len(call.batch))
  <2>1. next = [call EXCEPT !.at = "tell", !.tells = call.deferred, !.deferred = {}]
    BY <1>3 DEF Advanced
  <2>2. /\ IsCall(next) /\ next.at = "tell" /\ next.next = call.next
        /\ next.calls = call.calls /\ next.batch = call.batch
        /\ next.accepted = call.accepted /\ next.rejected = call.rejected
    BY <2>1 DEF IsCall, CallFields
  <2> HIDE DEF next
  <2>3. call.next = Len(call.batch)
    BY <1>1, <1>3
  <2>4. Through(next)
    BY <2>2, <2>3 DEF Through
  <2>5. Sound(next)
    BY <2>2, <2>4 DEF Sound
  <2>6. QED
    BY <2>2, <2>5 DEF next
<1>4. QED
  BY <1>2, <1>3

(* The current item accepted, or rejected.                                 *)
LEMMA DecidedSound ==
  ASSUME NEW call, Sound(call), Before(call)
  PROVE  /\ Sound(Accepted(call)) /\ Accepted(call).at \in {"item", "tell"}
         /\ Accepted(call).calls = call.calls
         /\ Accepted(call).accepted = call.accepted \cup {call.next}
         /\ Sound(Rejected(call)) /\ Rejected(call).at \in {"item", "tell"}
         /\ Rejected(call).calls = call.calls
         /\ Rejected(call).accepted = call.accepted
<1> DEFINE a == [call EXCEPT !.accepted = @ \cup {call.next}]
           r == [call EXCEPT !.rejected = @ \cup {call.next}]
<1>1. /\ IsCall(call) /\ call.calls \in Nat /\ call.batch \in Seq(Entries)
      /\ call.next \in 0 .. Len(call.batch) /\ call.next >= 1
      /\ call.accepted \cup call.rejected = 1 .. call.next - 1
  BY DEF Sound, Before
<1>2. (1 .. call.next - 1) \cup {call.next} = 1 .. call.next
  <2>1. call.next \in Nat
    BY <1>1
  <2>2. QED
    BY <1>1, <2>1
<1>3. /\ IsCall(a) /\ a.calls = call.calls /\ a.batch = call.batch /\ a.next = call.next
      /\ a.accepted = call.accepted \cup {call.next} /\ a.rejected = call.rejected
  BY <1>1 DEF IsCall, CallFields
<1>4. /\ IsCall(r) /\ r.calls = call.calls /\ r.batch = call.batch /\ r.next = call.next
      /\ r.rejected = call.rejected \cup {call.next} /\ r.accepted = call.accepted
  BY <1>1 DEF IsCall, CallFields
<1>5. Accepted(call) = Advanced(a) /\ Rejected(call) = Advanced(r)
  BY DEF Accepted, Rejected
<1> HIDE DEF a, r
<1>6. a.accepted \cup a.rejected = 1 .. a.next /\ r.accepted \cup r.rejected = 1 .. r.next
  BY <1>1, <1>2, <1>3, <1>4
<1>7. /\ Sound(Advanced(a)) /\ Advanced(a).at \in {"item", "tell"}
      /\ Advanced(a).calls = a.calls /\ Advanced(a).accepted = a.accepted
  BY <1>1, <1>3, <1>6, AdvancedSound
<1>8. /\ Sound(Advanced(r)) /\ Advanced(r).at \in {"item", "tell"}
      /\ Advanced(r).calls = r.calls /\ Advanced(r).accepted = r.accepted
  BY <1>1, <1>4, <1>6, AdvancedSound
<1>9. QED
  BY <1>3, <1>4, <1>5, <1>7, <1>8

(* Another stage of the same call.                                         *)
LEMMA StageSound ==
  ASSUME NEW call, Sound(call), NEW next, IsCall(next),
         next.calls = call.calls, next.batch = call.batch, next.next = call.next,
         next.accepted = call.accepted, next.rejected = call.rejected,
         \/ Before(call) /\ next.at \in {"item", "announce", "wait", "overlooked", "tell"}
         \/ Through(call) /\ next.at \in {"tell", "answer", "done"}
  PROVE  Sound(next)
<1>1. Before(next) <=> Before(call)
  BY DEF Before
<1>2. Through(next) <=> Through(call)
  BY DEF Through
<1>3. QED
  BY <1>1, <1>2 DEF Sound

(* What is recorded depends on the number, the acceptances and whether an  *)
(* announcement is due.                                                    *)
LEMMA SameRecord ==
  ASSUME NEW c, NEW call, NEW next, NEW q, NEW sv, Recorded(c, call, q, sv),
         next.calls = call.calls,
         \/ next.at = "idle"
         \/ /\ next.accepted = call.accepted
            /\ call.at \notin {"idle", "announce"} /\ next.at # "announce"
  PROVE  Recorded(c, next, q, sv)
BY DEF Recorded

(* The refusals, the wait, and the way from the wait to the end.           *)
LEMMA QuietLedger ==
  ASSUME Ledger, NEW c \in Clients, UNCHANGED holders,
         \/ RefuseClass(c) \/ RefuseDown(c) \/ RefuseFull(c) \/ FindFull(c)
         \/ Told(c) \/ Answered(c) \/ Return(c) \/ DropCall(c) \/ Overlook(c) \/ Rescued(c)
  PROVE  Ledger'
<1> DEFINE old == Of(c)
<1>1. /\ Sound(old) /\ Recorded(c, old, queue, served) /\ IsCall(old)
      /\ old.at # "idle" => c \in holders
  BY DEF Ledger, Sound
<1>2. UNCHANGED mailboxes /\ old.at \notin {"idle", "announce"} /\ c \in holders
  BY <1>1 DEF RefuseClass, RefuseDown, RefuseFull, FindFull, Told, Answered, Return, DropCall,
     Overlook, Rescued, Stamped
<1>3. ASSUME NEW call, Becomes(c, call), Sound(call), call.calls = old.calls,
             call.at = "idle" \/ (call.accepted = old.accepted /\ call.at # "announce")
      PROVE  Ledger'
  <2>1. Recorded(c, call, queue, served)
    BY <1>1, <1>2, <1>3, SameRecord
  <2>2. QED
    BY <1>2, <1>3, <2>1, QuietRecord
<1>4. CASE RefuseClass(c) \/ RefuseDown(c) \/ RefuseFull(c)
  <2>1. Becomes(c, Rejected(old)) /\ old.at \in {"item", "wait"}
    BY <1>4 DEF RefuseClass, RefuseDown, RefuseFull, Stamped
  <2>2. Before(old)
    BY <1>1, <2>1 DEF Sound
  <2>3. /\ Sound(Rejected(old)) /\ Rejected(old).at \in {"item", "tell"}
        /\ Rejected(old).calls = old.calls /\ Rejected(old).accepted = old.accepted
    BY <1>1, <2>2, DecidedSound
  <2>4. QED
    BY <1>3, <2>1, <2>3
<1>5. CASE FindFull(c)
  <2> DEFINE call == BeforeWaiting(old)
  <2>1. Becomes(c, call) /\ old.at = "item"
    BY <1>5 DEF FindFull, Stamped
  <2>2. Before(old)
    BY <1>1, <2>1 DEF Sound
  <2>3. \/ call = [old EXCEPT !.at = "wait"]
        \/ call = [old EXCEPT !.at = "tell", !.tells = old.deferred, !.deferred = {}]
    BY DEF BeforeWaiting
  <2>4. /\ IsCall(call) /\ call.at \in {"wait", "tell"} /\ call.calls = old.calls
        /\ call.batch = old.batch /\ call.next = old.next
        /\ call.accepted = old.accepted /\ call.rejected = old.rejected
    <3>1. CASE call = [old EXCEPT !.at = "wait"]
      BY <1>1, <3>1 DEF IsCall, CallFields
    <3>2. CASE call = [old EXCEPT !.at = "tell", !.tells = old.deferred, !.deferred = {}]
      BY <1>1, <3>2 DEF IsCall, CallFields
    <3>3. QED
      BY <2>3, <3>1, <3>2
  <2> HIDE DEF call, old
  <2>5. Sound(call)
    BY <1>1, <2>2, <2>4, StageSound
  <2>6. QED
    BY <1>3, <2>1, <2>4, <2>5 DEF call
<1>6. ASSUME NEW at \in Suspended \cup {"answer", "done"}, Becomes(c, [old EXCEPT !.at = at]),
             IF at \in Suspended THEN Before(old) ELSE Through(old)
      PROVE  Ledger'
  <2> DEFINE call == [old EXCEPT !.at = at]
  <2>1. /\ IsCall(call) /\ call.at = at /\ call.calls = old.calls
        /\ call.batch = old.batch /\ call.next = old.next
        /\ call.accepted = old.accepted /\ call.rejected = old.rejected
    BY <1>1 DEF IsCall, CallFields
  <2>2. Becomes(c, call)
    BY <1>6
  <2> HIDE DEF call, old
  <2>3. Sound(call)
    BY <1>1, <1>6, <2>1, StageSound
  <2>4. QED
    BY <1>3, <1>6, <2>1, <2>2, <2>3
<1>7. CASE Told(c)
  <2>1. old.at = "tell" /\ (Before(old) \/ Through(old)) /\ old.next \in Nat
    BY <1>1, <1>7 DEF Told, Sound
  <2>2. CASE Undecided(c)
    <3>1. Becomes(c, [old EXCEPT !.at = "wait"])
      BY <1>7, <2>2 DEF Told
    <3>2. old.next > 0 /\ old.next \notin old.accepted \cup old.rejected
      BY <2>2 DEF Undecided
    <3>3. old.next \in 0 .. Len(old.batch) /\ Len(old.batch) \in Nat
      BY <1>1 DEF Sound
    <3>4. ~Through(old)
      BY <3>2, <3>3 DEF Through
    <3>5. QED
      BY <1>6, <2>1, <3>1, <3>4
  <2>3. CASE ~Undecided(c)
    <3>1. PICK at \in {"answer", "done"} : Becomes(c, [old EXCEPT !.at = at])
      BY <1>7, <2>3 DEF Told
    <3>2. ~Before(old)
      <4>1. ~(old.next > 0) \/ old.next \in old.accepted \cup old.rejected
        BY <2>3 DEF Undecided
      <4>2. SUFFICES ASSUME old.next >= 1, old.next \in 1 .. old.next - 1 PROVE FALSE
        BY <2>1, <4>1 DEF Before
      <4>3. QED
        BY <2>1, <4>2
    <3>3. QED
      BY <1>6, <2>1, <3>1, <3>2
  <2>4. QED
    BY <2>2, <2>3
<1>8. CASE Answered(c)
  <2>1. Becomes(c, [old EXCEPT !.at = "done"]) /\ old.at = "answer"
    BY <1>8 DEF Answered
  <2>2. Through(old)
    BY <1>1, <2>1 DEF Sound
  <2>3. QED
    BY <1>6, <2>1, <2>2
<1>9. CASE Return(c) \/ DropCall(c)
  <2>1. Becomes(c, Reset(c))
    BY <1>9 DEF Return, DropCall
  <2>2. /\ Reset(c).at = "idle" /\ Reset(c).calls = old.calls /\ Reset(c).batch = <<>>
        /\ Reset(c).next = 0 /\ IsCall(Reset(c))
    BY DEF Reset, NoCall, IsCall, CallFields
  <2>3. Sound(Reset(c))
    <3>1. <<>> \in Seq(Entries) /\ Len(<<>>) = 0 /\ old.calls \in Nat
      BY <1>1 DEF Sound
    <3>2. QED
      BY <2>2, <3>1 DEF Sound
  <2>4. QED
    BY <1>3, <2>1, <2>2, <2>3
<1>10. CASE Overlook(c) \/ Rescued(c)
  <2>1. PICK at \in Suspended : Becomes(c, [old EXCEPT !.at = at])
    BY <1>10 DEF Overlook, Rescued
  <2>2. old.at \in Suspended
    BY <1>10 DEF Overlook, Rescued
  <2>3. Before(old)
    BY <1>1, <2>2 DEF Sound
  <2>4. QED
    BY <1>6, <2>1, <2>3
<1>11. QED
  BY <1>4, <1>5, <1>7, <1>8, <1>9, <1>10

(* A call begins: nothing of its number is in any mailbox.                 *)
LEMMA BeginLedger ==
  ASSUME Ledger, NEW c \in Clients, c \in holders, UNCHANGED holders,
         NEW mode \in Modes, NEW batch \in Batches, BeginCall(c, mode, batch)
  PROVE  Ledger'
<1> DEFINE from == [Reset(c) EXCEPT !.calls = @ + 1, !.mode = mode, !.batch = batch]
           call == Advanced(from)
<1>1. Of(c).calls \in Nat /\ Recorded(c, Of(c), queue, served)
  BY DEF Ledger, Sound
<1>2. /\ IsCall(from) /\ from.calls = Of(c).calls + 1 /\ from.batch = batch /\ from.next = 0
      /\ from.accepted = {} /\ from.rejected = {}
  BY DEF Reset, NoCall, IsCall, CallFields
<1>3. Becomes(c, call) /\ UNCHANGED mailboxes
  BY DEF BeginCall
<1>4. batch \in Seq(Entries)
  BY RouterConstants DEF Entries
<1> HIDE DEF from
<1>5. from.calls \in Nat /\ from.next \in 0 .. Len(from.batch) /\ from.calls > Of(c).calls
  BY <1>1, <1>2, <1>4
<1>6. from.accepted \cup from.rejected = 1 .. from.next
  BY <1>2
<1>7. /\ Sound(call) /\ call.at \in {"item", "tell"} /\ call.calls = from.calls
      /\ call.accepted = {}
  BY <1>2, <1>4, <1>5, <1>6, AdvancedSound
<1> HIDE DEF call
<1>8. Recorded(c, call, queue, served)
  <2>1. \A m \in Nat : m > from.calls => m > Of(c).calls
    BY <1>1, <1>5
  <2>2. \A m \in Nat, n \in Nat :
           m > Of(c).calls => ~Present(queue, served, [by |-> c, call |-> m, n |-> n])
    BY <1>1 DEF Recorded
  <2>3. QED
    BY <1>5, <1>7, <2>1, <2>2 DEF Recorded
<1>9. QED
  BY <1>3, <1>7, <1>8, QuietRecord

(* The pushes.                                                             *)
LEMMA PushLedger ==
  ASSUME Ledger, NEW c \in Clients, UNCHANGED holders,
         PushDeferred(c) \/ PushNow(c) \/ Admitted(c)
  PROVE  Ledger'
<1> DEFINE old == Of(c)
<1>0. PICK t, e : t = Target(c) /\ e = Envelope(c)
  OBVIOUS
<1>1. /\ Sound(old) /\ Recorded(c, old, queue, served) /\ IsCall(old)
      /\ old.at # "idle" => c \in holders
  BY DEF Ledger, Sound
<1>2. old.at \in {"item", "wait"} /\ Pushed(c)
  BY DEF PushDeferred, PushNow, Admitted, Stamped
<1>3. Before(old) /\ old.next \in Nat /\ old.calls \in Nat /\ t \in Shards /\ c \in holders
  BY <1>0, <1>1, <1>2, TargetInRange DEF Sound
<1>4. /\ queue' = [queue EXCEPT ![t] = Append(@, e)] /\ served' = served
      /\ Len(queue[t]) < Depth
  BY <1>0, <1>2 DEF Pushed, HasRoom
<1>5. e = [by |-> c, call |-> old.calls, n |-> old.next] /\ e \in Envl
  BY <1>0, <1>3 DEF Envelope, Envl
<1>6. old.next \notin old.accepted
  <2>1. old.next \notin 1 .. old.next - 1
    BY <1>3
  <2>2. QED
    BY <1>3, <2>1 DEF Before
<1>7. ~Present(queue, served, e)
  BY <1>1, <1>2, <1>3, <1>5, <1>6 DEF Recorded
<1> HIDE DEF old
<1>8. /\ queue \in [Shards -> Seq(Envl)] /\ Once(queue, served)
      /\ \A s \in Shards : Len(queue[s]) <= Depth
  BY DEF Ledger
<1>9. /\ queue' \in [Shards -> Seq(Envl)]
      /\ Len(queue'[t]) = Len(queue[t]) + 1 /\ (\A s \in Shards \ {t} : queue'[s] = queue[s])
      /\ Once(queue', served)
      /\ \A x : Present(queue', served, x) <=> Present(queue, served, x) \/ x = e
  <2>1. queue' = [queue EXCEPT ![t] = Append(@, e)] /\ t \in Shards
    BY <1>3, <1>4
  <2>2. /\ queue \in [Shards -> Seq(Envl)] /\ Once(queue, served)
        /\ e \in Envl /\ ~Present(queue, served, e)
    BY <1>5, <1>7, <1>8
  <2>3. queue'[t] = Append(queue[t], e) /\ \A s \in Shards \ {t} : queue'[s] = queue[s]
    BY <2>1, <2>2
  <2>4. queue' \in [Shards -> Seq(Envl)] /\ Len(queue'[t]) = Len(queue[t]) + 1
    <3>1. Append(queue[t], e) \in Seq(Envl) /\ Len(Append(queue[t], e)) = Len(queue[t]) + 1
      BY <2>1, <2>2
    <3>2. QED
      BY <2>1, <2>2, <2>3, <3>1
  <2>5. /\ queue'[t][Len(queue[t]) + 1] = e
        /\ \A i \in 1 .. Len(queue[t]) : queue'[t][i] = queue[t][i]
    BY <2>1, <2>2, <2>3
  <2>6. Once(queue', served) /\ Added(queue, queue', served, e)
    BY <2>1, <2>2, <2>3, <2>4, <2>5, PushOnce
  <2>7. QED
    BY <2>3, <2>4, <2>6 DEF Added
<1>10. \A s \in Shards : Len(queue'[s]) <= Depth
  <2>1. Len(queue[t]) \in Nat /\ Depth \in Nat
    BY <1>3, <1>8, RouterConstants
  <2>2. Len(queue'[t]) <= Depth
    BY <1>4, <1>9, <2>1
  <2>3. QED
    BY <1>8, <1>9, <2>2
<1>11. ASSUME NEW d, NEW m, NEW n, d # c \/ m # old.calls \/ n # old.next
       PROVE  [by |-> d, call |-> m, n |-> n] # e
  BY <1>5, <1>11
<1>12. \A d \in Clients \ {c} : Recorded(d, Of(d), queue', served')
  <2>1. ASSUME NEW d \in Clients \ {c} PROVE Recorded(d, Of(d), queue', served')
    <3>1. Recorded(d, Of(d), queue, served)
      BY DEF Ledger
    <3>2. \A m, n : Present(queue', served', [by |-> d, call |-> m, n |-> n])
                      <=> Present(queue, served, [by |-> d, call |-> m, n |-> n])
      BY <1>4, <1>9, <1>11
    <3>3. QED
      BY <3>1, <3>2 DEF Recorded
  <2>2. QED
    BY <2>1
<1>13. ASSUME NEW call, Becomes(c, call), Sound(call), call.calls = old.calls,
              \/ /\ call.at = "announce" /\ call.accepted = old.accepted
                 /\ call.next = old.next
              \/ call.at \in {"item", "tell"} /\ call.accepted = old.accepted \cup {old.next}
       PROVE  Ledger'
  <2>1. ASSUME NEW m \in Nat, NEW n \in Nat, m > call.calls
        PROVE  ~Present(queue', served', [by |-> c, call |-> m, n |-> n])
    <3>1. m # old.calls /\ m > old.calls
      BY <1>3, <1>13, <2>1
    <3>2. ~Present(queue, served, [by |-> c, call |-> m, n |-> n])
      BY <1>1, <3>1 DEF Recorded
    <3>3. QED
      BY <1>4, <1>9, <1>11, <3>1, <3>2
  <2>2. ASSUME NEW n \in Nat
        PROVE  Present(queue', served', [by |-> c, call |-> call.calls, n |-> n])
                 <=> n \in old.accepted \/ n = old.next
    <3>1. Present(queue, served, [by |-> c, call |-> old.calls, n |-> n]) <=> n \in old.accepted
      BY <1>1, <1>2 DEF Recorded, old
    <3>2. [by |-> c, call |-> old.calls, n |-> n] = e <=> n = old.next
      BY <1>5, <1>11
    <3>3. QED
      BY <1>4, <1>9, <1>13, <3>1, <3>2
  <2>3. Recorded(c, call, queue', served')
    BY <1>13, <2>1, <2>2 DEF Recorded
  <2>4. QED
    BY <1>3, <1>4, <1>9, <1>10, <1>12, <1>13, <2>3, OneRecord
<1>14. CASE Becomes(c, [Of(c) EXCEPT !.at = "announce"])
  <2> DEFINE call == [old EXCEPT !.at = "announce"]
  <2>1. /\ IsCall(call) /\ call.at = "announce" /\ call.calls = old.calls
        /\ call.batch = old.batch /\ call.next = old.next
        /\ call.accepted = old.accepted /\ call.rejected = old.rejected
    BY <1>1 DEF IsCall, CallFields
  <2>2. Becomes(c, call)
    BY <1>14 DEF old
  <2> HIDE DEF call
  <2>3. Sound(call)
    BY <1>1, <1>3, <2>1, StageSound
  <2>4. QED
    BY <1>13, <2>1, <2>2, <2>3
<1>15. CASE Becomes(c, Accepted([Of(c) EXCEPT !.deferred = @ \cup {Target(c)}]))
  <2> DEFINE from == [old EXCEPT !.deferred = @ \cup {Target(c)}]
  <2>1. /\ IsCall(from) /\ from.at = old.at /\ from.calls = old.calls
        /\ from.batch = old.batch /\ from.next = old.next
        /\ from.accepted = old.accepted /\ from.rejected = old.rejected
    BY <1>1 DEF IsCall, CallFields
  <2>2. Becomes(c, Accepted(from))
    BY <1>15 DEF old
  <2>3. old.at \in {"item", "wait"}
    BY <1>2
  <2> HIDE DEF from
  <2>4. Sound(from) /\ Before(from)
    BY <1>1, <1>3, <2>1, <2>3, StageSound DEF Before
  <2>5. /\ Sound(Accepted(from)) /\ Accepted(from).at \in {"item", "tell"}
        /\ Accepted(from).calls = old.calls
        /\ Accepted(from).accepted = old.accepted \cup {old.next}
    BY <2>1, <2>4, DecidedSound
  <2>6. QED
    BY <1>13, <2>2, <2>5
<1>16. QED
  BY <1>14, <1>15 DEF PushDeferred, PushNow, Admitted

(* The announcements leave mailboxes and decisions as they are; the item   *)
(* announced on its own is accepted by then.                               *)
LEMMA AnnounceLedger ==
  ASSUME Ledger, NEW c \in Clients, UNCHANGED holders,
         AnnounceNow(c) \/ \E s \in Of(c).tells : Tell(c, s)
  PROVE  Ledger'
<1> DEFINE old == Of(c)
<1>1. /\ Sound(old) /\ Recorded(c, old, queue, served) /\ IsCall(old)
      /\ old.at # "idle" => c \in holders
  BY DEF Ledger, Sound
<1>2. queue' = queue /\ served' = served
  BY DEF AnnounceNow, Tell
<1>3. /\ queue' \in [Shards -> Seq(Envl)] /\ (\A s \in Shards : Len(queue'[s]) <= Depth)
      /\ Once(queue', served')
      /\ \A d \in Clients : Recorded(d, Of(d), queue', served')
  BY <1>2 DEF Ledger
<1>4. CASE AnnounceNow(c)
  <2>1. old.at = "announce" /\ Becomes(c, Accepted(old))
    BY <1>4 DEF AnnounceNow
  <2>2. Before(old) /\ c \in holders
    BY <1>1, <2>1 DEF Sound
  <2>3. /\ Sound(Accepted(old)) /\ Accepted(old).at \in {"item", "tell"}
        /\ Accepted(old).calls = old.calls
        /\ Accepted(old).accepted = old.accepted \cup {old.next}
    BY <1>1, <2>2, DecidedSound
  <2>4. Recorded(c, Accepted(old), queue', served')
    BY <1>1, <1>2, <2>1, <2>3 DEF Recorded
  <2>5. QED
    BY <1>3, <2>1, <2>2, <2>3, <2>4, OneRecord
<1>5. ASSUME NEW t, Tell(c, t) PROVE Ledger'
  <2> DEFINE call == [old EXCEPT !.tells = @ \ {t}]
  <2>1. old.at = "tell" /\ Becomes(c, call)
    BY <1>5 DEF Tell
  <2>2. /\ IsCall(call) /\ call.at = "tell" /\ call.calls = old.calls
        /\ call.batch = old.batch /\ call.next = old.next
        /\ call.accepted = old.accepted /\ call.rejected = old.rejected
    BY <1>1, <2>1 DEF IsCall, CallFields
  <2> HIDE DEF call, old
  <2>3. (Before(old) \/ Through(old)) /\ c \in holders
    BY <1>1, <2>1 DEF Sound
  <2>4. Sound(call)
    BY <1>1, <2>2, <2>3, StageSound
  <2>5. Recorded(c, call, queue', served')
    <3>1. Recorded(c, old, queue', served') /\ old.at \notin {"idle", "announce"}
      BY <1>1, <1>2, <2>1
    <3>2. QED
      BY <2>2, <3>1, SameRecord
  <2>6. QED
    BY <1>3, <2>1, <2>3, <2>4, <2>5, OneRecord
<1>6. QED
  BY <1>4, <1>5

(* A step of the shards, the builder or a holder: the mailboxes lose       *)
(* nothing while a call is under way.                                      *)
LEMMA ShardsLedger ==
  ASSUME Ledger, UNCHANGED caller,
         queue' \in [Shards -> Seq(Envl)],
         \A s \in Shards : Len(queue'[s]) <= Depth,
         Once(queue', served'),
         \A x : Present(queue', served', x) => Present(queue, served, x),
         \A c \in Clients : Of(c).at # "idle" =>
           /\ c \in holders'
           /\ \A x : Present(queue, served, x) => Present(queue', served', x)
  PROVE  Ledger'
<1>1. ASSUME NEW c \in Clients
      PROVE  /\ Sound(Of(c)) /\ Recorded(c, Of(c), queue', served')
             /\ Of(c).at # "idle" => c \in holders'
  <2>1. Sound(Of(c)) /\ Recorded(c, Of(c), queue, served)
    BY DEF Ledger
  <2>2. CASE Of(c).at = "idle"
    BY <2>1, <2>2 DEF Recorded
  <2>3. CASE Of(c).at # "idle"
    <3>1. c \in holders' /\ \A x : Present(queue, served, x) <=> Present(queue', served', x)
      BY <2>3
    <3>2. QED
      BY <2>1, <3>1 DEF Recorded
  <2>4. QED
    BY <2>2, <2>3
<1>2. QED
  BY <1>1 DEF Ledger, Of

(* The last holder out empties only mailboxes nobody has a call on: a call *)
(* under way has a holder.                                                 *)
LEMMA DropsLedger ==
  ASSUME Ledger, UNCHANGED <<caller, served>>, NEW who,
         who \in Clients => Of(who).at = "idle", Drops(who)
  PROVE  Ledger'
<1>1. \A c \in Clients : Of(c).at # "idle" => c \in holders' /\ holders' # {}
  <2>1. holders' = holders \ {who}
    BY DEF Drops
  <2>2. QED
    BY <2>1 DEF Ledger
<1>2. /\ queue \in [Shards -> Seq(Envl)] /\ Once(queue, served)
      /\ \A s \in Shards : Len(queue[s]) <= Depth
  BY DEF Ledger
<1>3. CASE holders' = {}
  <2>1. queue' = [s \in Shards |-> IF s \in gone THEN <<>> ELSE queue[s]]
    BY <1>3 DEF Drops
  <2>2. /\ DOMAIN queue' = Shards /\ queue' = [s \in Shards |-> queue'[s]]
        /\ \A s \in Shards : queue'[s] \in {queue[s], <<>>}
    BY <2>1
  <2>3. /\ queue' \in [Shards -> Seq(Envl)]
        /\ \A s \in Shards : Len(queue'[s]) <= Len(queue[s])
        /\ Once(queue', served)
        /\ \A x : Present(queue', served, x) => Present(queue, served, x)
    BY <1>2, <2>2, FlushOnce
  <2>4. \A s \in Shards : Len(queue'[s]) <= Depth
    BY <1>2, <2>3, DepthTransitive
  <2>5. QED
    BY <1>1, <1>3, <2>3, <2>4, ShardsLedger
<1>4. CASE holders' # {}
  <2>1. queue' = queue
    BY <1>4 DEF Drops
  <2>2. QED
    BY <1>1, <1>2, <2>1, ShardsLedger
<1>5. QED
  BY <1>3, <1>4

(* A thread that ends.                                                     *)
LEMMA EndsLedger ==
  ASSUME Ledger, NEW s \in Shards, NEW how, Ends(s, how)
  PROVE  Ledger'
<1>1. /\ UNCHANGED <<served, caller, holders>>
      /\ queue' = IF holders = {} THEN [queue EXCEPT ![s] = <<>>] ELSE queue
  BY DEF Ends
<1>2. /\ queue \in [Shards -> Seq(Envl)] /\ Once(queue, served)
      /\ \A t \in Shards : Len(queue[t]) <= Depth
  BY DEF Ledger
<1>3. \A c \in Clients : Of(c).at # "idle" => c \in holders' /\ holders # {}
  BY <1>1 DEF Ledger
<1>4. CASE holders = {}
  <2>1. queue' = [queue EXCEPT ![s] = <<>>]
    BY <1>1, <1>4
  <2>2. /\ DOMAIN queue' = Shards /\ queue' = [t \in Shards |-> queue'[t]]
        /\ \A t \in Shards : queue'[t] \in {queue[t], <<>>}
    BY <1>2, <2>1
  <2>3. /\ queue' \in [Shards -> Seq(Envl)]
        /\ \A t \in Shards : Len(queue'[t]) <= Len(queue[t])
        /\ Once(queue', served)
        /\ \A x : Present(queue', served, x) => Present(queue, served, x)
    BY <1>2, <2>2, FlushOnce
  <2>4. \A t \in Shards : Len(queue'[t]) <= Depth
    BY <1>2, <2>3, DepthTransitive
  <2>5. QED
    BY <1>1, <1>3, <1>4, <2>3, <2>4, ShardsLedger
<1>5. CASE holders # {}
  <2>1. queue' = queue
    BY <1>1, <1>5
  <2>2. QED
    BY <1>1, <1>2, <1>3, <2>1, ShardsLedger
<1>6. QED
  BY <1>4, <1>5

(* Nobody holds the mailboxes before there are any.                        *)
Opening == builder = "new" => holders = {}

(* Spawn makes the builder the first holder, and clients follow.           *)
LEMMA OpeningStep == Opening /\ [SchedulerNext]_schedulerVars => Opening'
<1> SUFFICES ASSUME Opening, [SchedulerNext]_schedulerVars PROVE Opening'
  OBVIOUS
<1>1. CASE UNCHANGED <<builder, holders>>
  BY <1>1 DEF Opening
<1>2. CASE Build
  BY <1>2 DEF Build, RefuseDepth, Spawn, Recv, RecvFails, RefuseUnpinned, Started, Join, Opening
<1>3. ASSUME NEW s \in Shards, Thread(s) \/ DieBinding(s) \/ DieBuilding(s) PROVE Opening'
  BY <1>1, <1>3 DEF Thread, Report, BuildProcessor, Exit, DieBinding, DieBuilding, Ends, threads
<1>4. ASSUME NEW c \in Clients, DropRouter(c) PROVE Opening'
  BY <1>4 DEF DropRouter, Drops, threads, Opening
<1>5. ASSUME NEW c \in Clients, Client(c) PROVE Opening'
  BY <1>1, <1>5 DEF Client, threads
<1>6. ASSUME NEW c \in Clients, CloneRouter(c) PROVE Opening'
  BY <1>6 DEF CloneRouter, threads, Opening
<1>7. CASE Shutdown
  BY <1>7 DEF Shutdown, Opening
<1>8. CASE UNCHANGED <<threads, holders>>
  BY <1>1, <1>8 DEF threads
<1>9. CASE UNCHANGED schedulerVars
  BY <1>1, <1>9 DEF schedulerVars
<1>10. CASE Choice
  BY <1>3, <1>6, <1>7, <1>8, <1>10 DEF Choice
<1>11. QED
  BY <1>2, <1>3, <1>4, <1>5, <1>9, <1>10 DEF SchedulerNext

(* Every step keeps it.                                                    *)
LEMMA LedgerStep == Opening /\ Ledger /\ [SchedulerNext]_schedulerVars => Ledger'
<1> SUFFICES ASSUME Opening, Ledger, [SchedulerNext]_schedulerVars PROVE Ledger'
  OBVIOUS
<1>0. /\ queue \in [Shards -> Seq(Envl)] /\ Once(queue, served)
      /\ \A t \in Shards : Len(queue[t]) <= Depth
      /\ \A c \in Clients : Of(c).at # "idle" => c \in holders
  BY DEF Ledger
<1>1. ASSUME queue' = queue, served' = served, caller' = caller, holders \subseteq holders'
      PROVE  Ledger'
  BY <1>0, <1>1, ShardsLedger
<1>2. CASE Build
  <2>1. CASE RefuseDepth \/ Recv \/ Started \/ Join
    BY <1>1, <2>1 DEF RefuseDepth, Recv, Started, Join, mailboxes
  <2>2. CASE RecvFails \/ RefuseUnpinned
    <3>1. Drops(Owner) /\ UNCHANGED <<caller, served>>
      BY <2>2 DEF RecvFails, RefuseUnpinned
    <3>2. QED
      BY <3>1, DropsLedger, OwnerIsNoClient
  <2>3. CASE Spawn
    BY <1>1, <2>3 DEF Spawn, mailboxes, Opening
  <2>4. QED
    BY <1>2, <2>1, <2>2, <2>3 DEF Build
<1>3. ASSUME NEW s \in Shards, Thread(s) PROVE Ledger'
  <2>1. CASE Report(s) \/ BuildProcessor(s)
    BY <1>1, <2>1 DEF Report, BuildProcessor, mailboxes
  <2>2. CASE Exit(s)
    BY <2>2, EndsLedger DEF Exit
  <2>3. CASE TakeItem(s) /\ UNCHANGED holders
    <3>1. /\ queue[s] # <<>> /\ caller' = caller
          /\ queue' = [queue EXCEPT ![s] = Tail(@)]
          /\ served' = served \cup {Head(queue[s])}
      BY <2>3 DEF TakeItem
    <3>2. /\ queue' \in [Shards -> Seq(Envl)]
          /\ \A t \in Shards : Len(queue'[t]) <= Len(queue[t])
          /\ Once(queue', served')
          /\ \A x : Present(queue', served', x) <=> Present(queue, served, x)
      <4>1. \A r, sr : r = [queue EXCEPT ![s] = Tail(@)] /\ sr = served \cup {Head(queue[s])} =>
              /\ r \in [Shards -> Seq(Envl)]
              /\ \A t \in Shards : Len(r[t]) <= Len(queue[t])
              /\ Once(r, sr)
              /\ \A x : Present(r, sr, x) <=> Present(queue, served, x)
        BY <1>0, <3>1, TakeOnce
      <4>2. QED
        BY <3>1, <4>1
    <3>3. \A t \in Shards : Len(queue'[t]) <= Depth
      BY <1>0, <3>2, DepthTransitive
    <3>4. QED
      BY <1>0, <2>3, <3>1, <3>2, <3>3, ShardsLedger
  <2>4. CASE FallAsleep(s) /\ UNCHANGED holders
    BY <1>1, <2>4 DEF FallAsleep
  <2>5. QED
    BY <1>3, <2>1, <2>2, <2>3, <2>4 DEF Thread
<1>4. ASSUME NEW c \in Clients, Client(c) PROVE Ledger'
  BY <1>4, QuietLedger, PushLedger, AnnounceLedger DEF Client, Submit
<1>5. ASSUME NEW c \in Clients, DropRouter(c) PROVE Ledger'
  BY <1>5, DropsLedger DEF DropRouter
<1>6. CASE Choice
  <2>1. ASSUME NEW s \in Shards, DieBinding(s) \/ DieBuilding(s) PROVE Ledger'
    BY <2>1, EndsLedger DEF DieBinding, DieBuilding
  <2>2. ASSUME NEW c \in Clients, CloneRouter(c) PROVE Ledger'
    BY <1>1, <2>2 DEF CloneRouter, mailboxes
  <2>3. CASE Shutdown
    <3>1. Drops(Owner) /\ UNCHANGED <<caller, served>>
      BY <2>3 DEF Shutdown
    <3>2. QED
      BY <3>1, DropsLedger, OwnerIsNoClient
  <2>4. QED
    BY <1>6, <2>1, <2>2, <2>3, QuietLedger, BeginLedger DEF Choice
<1>7. CASE UNCHANGED schedulerVars
  BY <1>1, <1>7 DEF schedulerVars
<1>8. QED
  BY <1>2, <1>3, <1>4, <1>5, <1>6, <1>7 DEF SchedulerNext

(* A finished call is reported as it went.                                 *)
LEMMA LedgerReports == Ledger => BatchReported
<1> SUFFICES ASSUME Ledger, NEW c \in Clients, Of(c).at = "done"
             PROVE  /\ Of(c).accepted \cup Of(c).rejected = DOMAIN Of(c).batch
                    /\ \A n \in DOMAIN Of(c).batch :
                         Copies([by |-> c, call |-> Of(c).calls, n |-> n])
                           = IF n \in Of(c).accepted THEN 1 ELSE 0
  BY DEF BatchReported
<1>1. /\ Sound(Of(c)) /\ Recorded(c, Of(c), queue, served) /\ Through(Of(c))
      /\ Of(c).batch \in Seq(Entries)
  BY DEF Ledger, Sound
<1>2. DOMAIN Of(c).batch = 1 .. Len(Of(c).batch)
  BY <1>1
<1>3. Of(c).accepted \cup Of(c).rejected = DOMAIN Of(c).batch
  BY <1>1, <1>2 DEF Through
<1>4. ASSUME NEW n \in 1 .. Len(Of(c).batch)
      PROVE  Copies([by |-> c, call |-> Of(c).calls, n |-> n])
               = IF n \in Of(c).accepted THEN 1 ELSE 0
  <2> DEFINE x == [by |-> c, call |-> Of(c).calls, n |-> n]
  <2>1. Present(queue, served, x) <=> n \in Of(c).accepted
    BY <1>1 DEF Recorded
  <2> HIDE DEF x
  <2>2. Once(queue, served) /\ \A s \in Shards : Len(queue[s]) <= Depth
    BY DEF Ledger
  <2>3. CASE x \in served
    <3>1. Places(x) = {}
      BY <2>2, <2>3, PlaceIsIndex DEF Places, Once
    <3>2. Cardinality(Places(x)) = 0
      BY <3>1, FS_EmptySet
    <3>3. Copies(x) = 1
      BY <2>3, <3>2 DEF Copies
    <3>4. QED
      BY <2>1, <2>3, <3>3 DEF Present, x
  <2>4. CASE x \notin served /\ n \in Of(c).accepted
    <3>1. PICK s \in Shards : \E i \in 1 .. Len(queue[s]) : queue[s][i] = x
      BY <2>1, <2>4 DEF Present
    <3>2. PICK i \in 1 .. Len(queue[s]) : queue[s][i] = x
      BY <3>1
    <3>3. Places(x) = {<<s, i>>}
      BY <2>2, <3>2, OnePlace
    <3>4. Cardinality(Places(x)) = 1
      BY <3>3, FS_Singleton
    <3>5. Copies(x) = 1
      BY <2>4, <3>4 DEF Copies
    <3>6. QED
      BY <2>4, <3>5 DEF x
  <2>5. CASE x \notin served /\ n \notin Of(c).accepted
    <3>1. Places(x) = {}
      BY <2>1, <2>5, PlaceIsIndex DEF Places, Present
    <3>2. Cardinality(Places(x)) = 0
      BY <3>1, FS_EmptySet
    <3>3. Copies(x) = 0
      BY <2>5, <3>2 DEF Copies
    <3>4. QED
      BY <2>5, <3>3 DEF x
  <2>6. QED
    BY <2>3, <2>4, <2>5
<1>5. QED
  BY <1>2, <1>3, <1>4

(* A batch is reported honestly, whatever the shards, the other clients    *)
(* and the shutdown do meanwhile: every item is accepted or rejected, an   *)
(* accepted one was pushed once, a rejected one never (submit_batch,       *)
(* try_submit_batch and the single submissions of router.rs).              *)
THEOREM BatchesAlwaysReported == SchedulerSpec => []BatchReported
<1>1. ASSUME SchedulerInit PROVE Ledger
  <2>1. /\ caller = [c \in Clients |-> NoCall] /\ queue = [s \in Shards |-> <<>>]
        /\ served = {}
    BY <1>1 DEF SchedulerInit, RouterInit
  <2>2. /\ queue \in [Shards -> Seq(Envl)]
        /\ \A s \in Shards : queue[s] = <<>> /\ Len(queue[s]) = 0
    BY <2>1
  <2>3. \A s \in Shards : Len(queue[s]) <= Depth
    BY <2>2, RouterConstants
  <2>4. Once(queue, served) /\ \A x : ~Present(queue, served, x)
    BY <2>1, <2>2 DEF Once, Present
  <2>5. Sound(NoCall) /\ NoCall.at = "idle"
    <3>1. <<>> \in Seq(Entries) /\ Len(<<>>) = 0
      OBVIOUS
    <3>2. QED
      BY <3>1 DEF Sound, NoCall, IsCall, CallFields
  <2>6. \A c : Recorded(c, NoCall, queue, served)
    BY <2>4, <2>5 DEF Recorded
  <2>7. QED
    BY <2>1, <2>2, <2>3, <2>4, <2>5, <2>6 DEF Ledger, Of
<1>2. SchedulerInit => Opening
  BY DEF SchedulerInit, Opening
<1>3. QED
  BY <1>1, <1>2, OpeningStep, LedgerStep, LedgerReports, PTL DEF SchedulerSpec

=============================================================================
