--------------------------- MODULE MailboxProofs ---------------------------
(***************************************************************************)
(* The mailbox, for any number of senders, any capacity and every          *)
(* interleaving of their accesses.  Five facts, each from an inductive     *)
(* invariant of its own:                                                   *)
(*                                                                         *)
(*   Conclusive  handles are counted, a sender keeps its own while it is   *)
(*               busy, and a place not yet written has a writer; so a      *)
(*               closed and empty-looking ring is empty for good           *)
(*   Listening   a receiver past its registration has its waker in the     *)
(*               bell or was notified, and is announced as parked; so no   *)
(*               item is stranded                                          *)
(*   Departing   the wait list is closed only once `departed` shows        *)
(*   Registered  the list is sound and its registrations are those of the  *)
(*               tickets senders hold; so a live ticket is found and a     *)
(*               dead one ends nobody's registration                       *)
(*   Enough      while a sender relies on being woken, the wakes promised  *)
(*               and those still to be handed out are as many as the free  *)
(*               places (Handing says who holds wakers and when); so room  *)
(*               reaches the next                                          *)
(***************************************************************************)
EXTENDS Mailbox, WaitersProofs

Held(h) == {s \in Senders : h[s] = "held"}

Places == [by : Senders, written : BOOLEAN]

SenderStages == {"idle", "check", "push", "write", "announce", "ring", "recheck", "park",
                 "asleep", "finish", "pass", "wake", "last"}

(* Handles and the ring.                                                   *)
Conclusive ==
  /\ ring \in Seq(Places)
  /\ handle \in [Senders -> {"none", "held", "dropped"}]
  /\ spc \in [Senders -> SenderStages]
  /\ IsFiniteSet(Held(handle)) /\ producers = Cardinality(Held(handle))
  /\ \A s \in Senders : spc[s] \notin {"idle", "last"} => handle[s] = "held"
  /\ \A i \in 1 .. Len(ring) : ring[i].written \/ spc[ring[i].by] = "write"
  /\ closed \in BOOLEAN
  /\ closed => producers = 0
  /\ rpc = "done" \/ ret = "done" => producers = 0 /\ ring = <<>>

(* A count of zero means no handle is held, and a handle held counts.      *)
LEMMA NoProducers ==
  ASSUME Conclusive
  PROVE  /\ producers \in Nat
         /\ producers = 0 => \A s \in Senders : handle[s] # "held"
<1>1. producers \in Nat
  BY FS_CardinalityType DEF Conclusive
<1>2. producers = 0 => Held(handle) = {}
  BY FS_EmptySet DEF Conclusive
<1>3. QED
  BY <1>1, <1>2 DEF Held

(* Without producers a ring with nothing to pop is empty.                  *)
LEMMA NothingToPop ==
  ASSUME Conclusive, producers = 0, ~HasItem
  PROVE  ring = <<>>
<1>1. \A s \in Senders : spc[s] # "write"
  BY NoProducers DEF Conclusive
<1>2. ring \in Seq(Places) /\ Len(ring) \in Nat
  BY DEF Conclusive
<1>3. ASSUME ring # <<>> PROVE FALSE
  <2>1. 1 \in 1 .. Len(ring) /\ ring[1] \in Places
    BY <1>2, <1>3
  <2>2. ring[1].by \in Senders /\ ring[1].written
    BY <1>1, <2>1 DEF Conclusive, Places
  <2>3. QED
    BY <1>3, <2>2 DEF HasItem
<1>4. QED
  BY <1>3

(* A sender moves on, keeping its handle; nothing else changes.            *)
LEMMA SenderMoves ==
  ASSUME Conclusive, NEW s \in Senders, NEW pc \in SenderStages, Goto(s, pc),
         spc[s] \notin {"idle", "last"} \/ handle[s] = "held" \/ pc \in {"idle", "last"},
         spc[s] # "write",
         UNCHANGED <<ring, handle, producers, closed, rpc, ret>>
  PROVE  Conclusive'
<1>1. /\ spc \in [Senders -> SenderStages] /\ ring \in Seq(Places)
      /\ spc' = [spc EXCEPT ![s] = pc]
  BY DEF Conclusive, Goto
<1>2. spc' \in [Senders -> SenderStages]
  BY <1>1
<1>3. \A t \in Senders : spc'[t] = IF t = s THEN pc ELSE spc[t]
  BY <1>1
<1>4. \A t \in Senders : spc'[t] \notin {"idle", "last"} => handle[t] = "held"
  BY <1>3 DEF Conclusive
<1>5. \A i \in 1 .. Len(ring) : ring[i].written \/ spc'[ring[i].by] = "write"
  <2>1. SUFFICES ASSUME NEW i \in 1 .. Len(ring), ~ring[i].written
                 PROVE  spc'[ring[i].by] = "write"
    OBVIOUS
  <2>2. ring[i] \in Places
    BY <1>1
  <2>3. ring[i].by \in Senders /\ spc[ring[i].by] = "write"
    BY <2>1, <2>2 DEF Conclusive, Places
  <2>4. QED
    BY <1>3, <2>3
<1>6. QED
  BY <1>2, <1>4, <1>5 DEF Conclusive

(* The steps of a sender that move it and leave ring and handles alone.    *)
LEMMA PlainSenderSteps ==
  ASSUME Conclusive, NEW s \in Senders,
         \/ Begin(s) \/ Check(s) \/ Announce(s) \/ Ring(s) \/ Recheck(s) \/ GiveUp(s)
         \/ ParkSender(s) \/ Poll(s) \/ Finish(s) \/ Abandon(s) \/ Pass(s) \/ PassWake(s)
         \/ LastOut(s)
  PROVE  Conclusive'
<1>1. spc[s] # "write" /\ UNCHANGED <<ring, handle, producers, closed, rpc, ret>>
  BY DEF Begin, Check, Announce, Ring, Recheck, GiveUp, ParkSender, Poll, Finish, Abandon,
     Pass, PassWake, LastOut, shared, receiver, sender
<1>2. spc[s] \notin {"idle", "last"} \/ handle[s] = "held" \/ LastOut(s)
  BY DEF Begin, Check, Announce, Ring, Recheck, GiveUp, ParkSender, Poll, Finish, Abandon,
     Pass, PassWake
<1>3. \E pc \in SenderStages : Goto(s, pc)
  BY DEF Begin, Check, Announce, Ring, Recheck, GiveUp, ParkSender, Poll, Finish, Abandon,
     Pass, PassWake, LastOut, Decided, SenderStages
<1>4. LastOut(s) => Goto(s, "idle") /\ "idle" \in SenderStages
  BY DEF LastOut, SenderStages
<1>5. QED
  BY <1>1, <1>2, <1>3, <1>4, SenderMoves

(* try_push claims a place, or finds the ring full.                        *)
LEMMA PushConclusive ==
  ASSUME Conclusive, NEW s \in Senders, Push(s)
  PROVE  Conclusive'
<1>1. /\ spc[s] = "push" /\ UNCHANGED <<handle, producers, closed, rpc, ret>>
      /\ ring \in Seq(Places) /\ spc \in [Senders -> SenderStages]
  BY DEF Push, Conclusive, receiver
<1>2. CASE ring' = ring /\ Goto(s, "recheck")
  <2>1. "recheck" \in SenderStages
    BY DEF SenderStages
  <2>2. QED
    BY <1>1, <1>2, <2>1, SenderMoves
<1>3. CASE ring' = Append(ring, [by |-> s, written |-> FALSE]) /\ Goto(s, "write")
  <2> DEFINE p == [by |-> s, written |-> FALSE]
  <2>1. p \in Places /\ p.by = s
    BY DEF Places
  <2>2. ring' = Append(ring, p) /\ spc' = [spc EXCEPT ![s] = "write"]
    BY <1>3 DEF Goto
  <2> HIDE DEF p
  <2>3. /\ ring' \in Seq(Places) /\ Len(ring') = Len(ring) + 1 /\ ring'[Len(ring) + 1] = p
        /\ \A i \in 1 .. Len(ring) : ring'[i] = ring[i]
    BY <1>1, <2>1, <2>2
  <2>4. /\ spc' \in [Senders -> SenderStages]
        /\ \A t \in Senders : spc'[t] = IF t = s THEN "write" ELSE spc[t]
    BY <1>1, <2>2 DEF SenderStages
  <2>5. handle[s] = "held"
    BY <1>1 DEF Conclusive
  <2>6. \A t \in Senders : spc'[t] \notin {"idle", "last"} => handle[t] = "held"
    BY <2>4, <2>5 DEF Conclusive
  <2>7. ASSUME NEW i \in 1 .. Len(ring'), ~ring'[i].written PROVE spc'[ring'[i].by] = "write"
    <3>1. CASE i = Len(ring) + 1
      BY <2>1, <2>3, <2>4, <3>1
    <3>2. CASE i # Len(ring) + 1
      <4>1. i \in 1 .. Len(ring)
        BY <1>1, <2>3, <3>2
      <4>2. ring'[i] = ring[i] /\ ring[i] \in Places
        BY <1>1, <2>3, <4>1
      <4>3. ring[i].by \in Senders /\ spc[ring[i].by] = "write"
        BY <2>7, <4>1, <4>2 DEF Conclusive, Places
      <4>4. QED
        BY <2>4, <4>2, <4>3
    <3>3. QED
      BY <3>1, <3>2
  <2>8. producers # 0
    BY <2>5, NoProducers
  <2>9. rpc # "done" /\ ret # "done"
    BY <2>8 DEF Conclusive
  <2>10. QED
    BY <1>1, <2>3, <2>4, <2>6, <2>7, <2>9 DEF Conclusive
<1>4. QED
  BY <1>2, <1>3 DEF Push

(* try_push publishes: the writer's place is written, the others as before.*)
LEMMA WriteConclusive ==
  ASSUME Conclusive, NEW s \in Senders, Write(s)
  PROVE  Conclusive'
<1>1. /\ spc[s] = "write" /\ UNCHANGED <<handle, producers, closed, rpc, ret>>
      /\ ring \in Seq(Places) /\ spc \in [Senders -> SenderStages] /\ Len(ring) \in Nat
      /\ spc' = [spc EXCEPT ![s] = "announce"]
  BY DEF Write, Conclusive, receiver, Goto
<1>2. ring' = [i \in 1 .. Len(ring) |->
                 IF ring[i].by = s THEN [ring[i] EXCEPT !.written = TRUE] ELSE ring[i]]
  BY <1>1 DEF Write
<1>3. \A i \in 1 .. Len(ring) : ring[i] \in Places
  BY <1>1
<1>4. ASSUME NEW i \in 1 .. Len(ring)
      PROVE  /\ ring'[i] \in Places /\ ring'[i].by = ring[i].by
             /\ ~ring'[i].written => ~ring[i].written /\ ring[i].by # s
  <2>1. ring[i] \in Places
    BY <1>3
  <2>2. CASE ring[i].by = s
    <3>1. ring'[i] = [ring[i] EXCEPT !.written = TRUE]
      BY <1>2, <2>2
    <3>2. QED
      BY <2>1, <2>2, <3>1 DEF Places
  <2>3. CASE ring[i].by # s
    <3>1. ring'[i] = ring[i]
      BY <1>2, <2>3
    <3>2. QED
      BY <2>1, <2>3, <3>1
  <2>4. QED
    BY <2>2, <2>3
<1>5. ring' \in Seq(Places) /\ Len(ring') = Len(ring)
  BY <1>1, <1>2, <1>4
<1>6. /\ spc' \in [Senders -> SenderStages]
      /\ \A t \in Senders : spc'[t] = IF t = s THEN "announce" ELSE spc[t]
  BY <1>1 DEF SenderStages
<1>7. \A t \in Senders : spc'[t] \notin {"idle", "last"} => handle[t] = "held"
  BY <1>1, <1>6 DEF Conclusive
<1>8. ASSUME NEW i \in 1 .. Len(ring'), ~ring'[i].written PROVE spc'[ring'[i].by] = "write"
  <2>1. i \in 1 .. Len(ring) /\ ring[i].by \in Senders
    BY <1>3, <1>5 DEF Places
  <2>2. ~ring[i].written /\ ring[i].by # s
    BY <1>4, <1>8, <2>1
  <2>3. spc[ring[i].by] = "write"
    BY <2>1, <2>2 DEF Conclusive
  <2>4. QED
    BY <1>4, <1>6, <2>1, <2>2, <2>3
<1>9. producers # 0
  BY <1>1, NoProducers DEF Conclusive
<1>10. QED
  BY <1>1, <1>5, <1>6, <1>7, <1>8, <1>9 DEF Conclusive

(* Mailbox::clone: one handle more, and one more counted.                  *)
LEMMA CloneConclusive ==
  ASSUME Conclusive, NEW s \in Senders, NEW t \in Senders, Clone(s, t)
  PROVE  Conclusive'
<1>1. /\ handle[s] = "held" /\ handle[t] = "none" /\ producers' = producers + 1
      /\ handle' = [handle EXCEPT ![t] = "held"]
      /\ handle \in [Senders -> {"none", "held", "dropped"}]
      /\ UNCHANGED <<ring, spc, closed, rpc, ret>>
  BY DEF Clone, Conclusive, receiver
<1>2. Held(handle') = Held(handle) \cup {t} /\ t \notin Held(handle)
  BY <1>1 DEF Held
<1>3. /\ IsFiniteSet(Held(handle')) /\ producers' = Cardinality(Held(handle'))
  <2>1. IsFiniteSet(Held(handle)) /\ producers = Cardinality(Held(handle))
    BY DEF Conclusive
  <2>2. /\ IsFiniteSet(Held(handle) \cup {t})
        /\ Cardinality(Held(handle) \cup {t}) = Cardinality(Held(handle)) + 1
    BY <1>2, <2>1, FS_AddElement
  <2>3. QED
    BY <1>1, <1>2, <2>1, <2>2
<1>4. producers # 0
  BY <1>1, NoProducers
<1>5. handle' \in [Senders -> {"none", "held", "dropped"}] /\ \A u \in Senders :
        handle[u] = "held" => handle'[u] = "held"
  BY <1>1
<1>6. QED
  BY <1>1, <1>3, <1>4, <1>5 DEF Conclusive

(* Mailbox::drop: one handle less.                                         *)
LEMMA DropConclusive ==
  ASSUME Conclusive, NEW s \in Senders, DropHandle(s)
  PROVE  Conclusive'
<1>1. /\ spc[s] = "idle" /\ handle[s] = "held" /\ producers' = producers - 1
      /\ handle' = [handle EXCEPT ![s] = "dropped"]
      /\ handle \in [Senders -> {"none", "held", "dropped"}]
      /\ spc \in [Senders -> SenderStages] /\ ring \in Seq(Places)
      /\ UNCHANGED <<ring, closed, rpc, ret>>
      /\ spc' = [spc EXCEPT ![s] = IF producers = 1 THEN "last" ELSE "idle"]
  BY DEF DropHandle, Conclusive, receiver, Goto
<1>2. Held(handle') = Held(handle) \ {s} /\ s \in Held(handle)
  BY <1>1 DEF Held
<1>3. /\ IsFiniteSet(Held(handle')) /\ producers' = Cardinality(Held(handle'))
  <2>1. IsFiniteSet(Held(handle)) /\ producers = Cardinality(Held(handle))
    BY DEF Conclusive
  <2>2. /\ IsFiniteSet(Held(handle) \ {s})
        /\ Cardinality(Held(handle) \ {s}) = Cardinality(Held(handle)) - 1
    BY <1>2, <2>1, FS_RemoveElement
  <2>3. QED
    BY <1>1, <1>2, <2>1, <2>2
<1>4. producers # 0
  BY <1>1, NoProducers
<1>5. /\ handle' \in [Senders -> {"none", "held", "dropped"}]
      /\ spc' \in [Senders -> SenderStages] /\ spc'[s] \in {"idle", "last"}
      /\ \A u \in Senders : u # s => handle'[u] = handle[u] /\ spc'[u] = spc[u]
  BY <1>1 DEF SenderStages
<1>6. \A u \in Senders : spc'[u] \notin {"idle", "last"} => handle'[u] = "held"
  BY <1>5 DEF Conclusive
<1>7. ASSUME NEW i \in 1 .. Len(ring), ~ring[i].written PROVE spc'[ring[i].by] = "write"
  <2>1. ring[i] \in Places
    BY <1>1
  <2>2. ring[i].by \in Senders /\ spc[ring[i].by] = "write"
    BY <1>7, <2>1 DEF Conclusive, Places
  <2>3. QED
    BY <1>1, <1>5, <2>2
<1>8. QED
  BY <1>1, <1>3, <1>4, <1>5, <1>6, <1>7 DEF Conclusive

(* The receiver leaves senders and handles alone, and the ring never grows *)
(* under it.                                                               *)
ReceiverOnly == UNCHANGED <<spc, handle, producers>>

(* The first place is popped, or the ring stays as it is.                  *)
LEMMA PopConclusive ==
  ASSUME Conclusive, ReceiverOnly,
         ring' = ring \/ (ring # <<>> /\ ring' = Tail(ring)),
         closed' \in BOOLEAN, closed' => producers = 0,
         rpc' = "done" \/ ret' = "done" => producers = 0 /\ ring' = <<>>
  PROVE  Conclusive'
<1>1. spc' = spc /\ handle' = handle /\ producers' = producers /\ ring \in Seq(Places)
  BY DEF ReceiverOnly, Conclusive
<1>2. /\ ring' \in Seq(Places)
      /\ \A i \in 1 .. Len(ring') : \E j \in 1 .. Len(ring) : ring'[i] = ring[j]
  <2>1. CASE ring' = ring
    BY <1>1, <2>1
  <2>2. CASE ring # <<>> /\ ring' = Tail(ring)
    <3>1. /\ ring' \in Seq(Places) /\ Len(ring') = Len(ring) - 1 /\ Len(ring) \in Nat
          /\ \A i \in 1 .. Len(ring) - 1 : ring'[i] = ring[i + 1]
      BY <1>1, <2>2
    <3>2. \A i \in 1 .. Len(ring') : i + 1 \in 1 .. Len(ring) /\ ring'[i] = ring[i + 1]
      BY <3>1
    <3>3. QED
      BY <3>1, <3>2
  <2>3. QED
    BY <2>1, <2>2
<1>3. \A i \in 1 .. Len(ring') : ring'[i].written \/ spc[ring'[i].by] = "write"
  BY <1>2 DEF Conclusive
<1>4. QED
  BY <1>1, <1>2, <1>3 DEF Conclusive

(* Every step of the receiver.                                             *)
LEMMA ReceiverConclusive ==
  ASSUME Conclusive, ReceiverStep \/ PollAgain \/ Depart
  PROVE  Conclusive'
<1>1. ReceiverOnly
  BY DEF ReceiverOnly, ReceiverStep, PollRecv, StopDraining, Release, HandOut, WakeSender,
     LoadClosed, Register, ParkReceiver, Look, TryRecv, TryTake, CloseWaiters, WakeAll,
     CloseBell, PollAgain, Depart, shared, sender
<1>2. closed \in BOOLEAN /\ (closed => producers = 0)
  BY DEF Conclusive
<1>3. ASSUME Take, HasItem, closed' \in BOOLEAN, closed' => producers = 0,
             rpc' # "done", ret' = "idle"
      PROVE  Conclusive'
  <2>1. ring # <<>> /\ ring' = Tail(ring)
    BY <1>3 DEF Take, HasItem
  <2>2. QED
    BY <1>1, <1>3, <2>1, PopConclusive
<1>4. ASSUME ring' = ring, closed' = closed, rpc' = ret \/ rpc' # "done", ret' # "done" \/ ret' = ret
      PROVE  Conclusive'
  <2>1. rpc' = "done" \/ ret' = "done" => producers = 0 /\ ring' = <<>>
    BY <1>4 DEF Conclusive
  <2>2. QED
    BY <1>1, <1>2, <1>4, <2>1, PopConclusive
<1>5. CASE PollRecv
  <2>1. CASE HasItem
    <3>1. /\ ring # <<>> /\ ring' = Tail(ring) /\ closed' = closed /\ ret' = ret /\ rpc' = "idle"
      BY <1>5, <2>1 DEF PollRecv, Take, HasItem
    <3>2. ret # "done"
      BY <3>1 DEF Conclusive
    <3>3. QED
      BY <1>1, <1>2, <3>1, <3>2, PopConclusive
  <2>2. CASE ~HasItem
    BY <1>4, <1>5, <2>2 DEF PollRecv
  <2>3. QED
    BY <2>1, <2>2
<1>6. CASE StopDraining \/ Release \/ HandOut \/ WakeSender \/ Register \/ ParkReceiver
  BY <1>4, <1>6 DEF StopDraining, Release, HandOut, WakeSender, Register, ParkReceiver, shared
<1>7. CASE CloseWaiters \/ WakeAll \/ CloseBell \/ PollAgain \/ Depart
  BY <1>4, <1>7 DEF CloseWaiters, WakeAll, CloseBell, PollAgain, Depart, shared
<1>8. CASE LoadClosed
  <2>1. ring' = ring /\ closed' = (producers = 0) /\ rpc' = "register" /\ ret' = "idle"
    BY <1>8 DEF LoadClosed, shared
  <2>2. closed' \in BOOLEAN /\ (closed' => producers = 0)
    BY <2>1
  <2>3. QED
    BY <1>1, <2>1, <2>2, PopConclusive
<1>9. CASE TryRecv
  <2>1. ring' = ring /\ closed' = (producers = 0) /\ rpc' = "try" /\ ret' = ret
    BY <1>9 DEF TryRecv, shared
  <2>2. closed' \in BOOLEAN /\ (closed' => producers = 0)
    BY <2>1
  <2>3. ret' = "done" => producers = 0 /\ ring' = <<>>
    BY <2>1 DEF Conclusive
  <2>4. QED
    BY <1>1, <2>1, <2>2, <2>3, PopConclusive
<1>10. CASE Look
  <2>1. closed' = FALSE
    BY <1>10 DEF Look
  <2>2. CASE HasItem
    BY <1>3, <1>10, <2>1, <2>2 DEF Look
  <2>3. CASE ~HasItem
    <3>1. ring' = ring /\ ret' = ret /\ rpc' = IF closed THEN "done" ELSE "asleep"
      BY <1>10, <2>3 DEF Look
    <3>2. closed => producers = 0 /\ ring = <<>>
      BY <1>2, <2>3, NothingToPop
    <3>3. ret = "done" => producers = 0 /\ ring = <<>>
      BY DEF Conclusive
    <3>4. QED
      BY <1>1, <2>1, <3>1, <3>2, <3>3, PopConclusive
  <2>4. QED
    BY <2>2, <2>3
<1>11. CASE TryTake
  <2>1. closed' = FALSE /\ rpc' = "release"
    BY <1>11 DEF TryTake
  <2>2. CASE HasItem
    BY <1>3, <1>11, <2>1, <2>2 DEF TryTake
  <2>3. CASE ~HasItem
    <3>1. ring' = ring /\ ret' = IF closed THEN "done" ELSE "idle"
      BY <1>11, <2>3 DEF TryTake
    <3>2. closed => producers = 0 /\ ring = <<>>
      BY <1>2, <2>3, NothingToPop
    <3>3. QED
      BY <1>1, <2>1, <3>1, <3>2, PopConclusive
  <2>4. QED
    BY <2>2, <2>3
<1>12. QED
  BY <1>5, <1>6, <1>7, <1>8, <1>9, <1>10, <1>11 DEF ReceiverStep

(* Every step keeps it.                                                    *)
LEMMA ConclusiveStep == Conclusive /\ [Next]_vars => Conclusive'
<1> SUFFICES ASSUME Conclusive, [Next]_vars PROVE Conclusive'
  OBVIOUS
<1>1. ASSUME NEW s \in Senders, SenderStep(s) PROVE Conclusive'
  BY <1>1, PlainSenderSteps, PushConclusive, WriteConclusive DEF SenderStep
<1>2. ASSUME NEW s \in Senders, SenderChoice(s) PROVE Conclusive'
  BY <1>2, PlainSenderSteps, CloneConclusive, DropConclusive DEF SenderChoice
<1>3. CASE UNCHANGED vars
  BY <1>3 DEF vars, shared, sender, receiver, Conclusive
<1>4. QED
  BY <1>1, <1>2, <1>3, ReceiverConclusive DEF Next

(* One sender holds the first handle.                                      *)
LEMMA ConclusiveInit == Init => Conclusive
<1> SUFFICES ASSUME Init PROVE Conclusive
  OBVIOUS
<1>1. /\ ring = <<>> /\ producers = 1 /\ closed = FALSE /\ rpc = "idle" /\ ret = "idle"
      /\ spc = [s \in Senders |-> "idle"]
  BY DEF Init
<1>2. PICK s \in Senders : handle = [t \in Senders |-> IF t = s THEN "held" ELSE "none"]
  BY DEF Init
<1>3. Held(handle) = {s}
  <2>1. \A t \in Senders : handle[t] = IF t = s THEN "held" ELSE "none"
    BY <1>2
  <2>2. QED
    BY <2>1 DEF Held
<1>4. IsFiniteSet(Held(handle)) /\ producers = Cardinality(Held(handle))
  BY <1>1, <1>3, FS_Singleton
<1>5. /\ handle \in [Senders -> {"none", "held", "dropped"}]
      /\ spc \in [Senders -> SenderStages] /\ \A t \in Senders : spc[t] = "idle"
  BY <1>1, <1>2 DEF SenderStages
<1>6. ring \in Seq(Places) /\ Len(ring) = 0
  BY <1>1
<1>7. \A i \in 1 .. Len(ring) : ring[i].written \/ spc[ring[i].by] = "write"
  BY <1>6
<1>8. closed \in BOOLEAN /\ ~closed /\ rpc # "done" /\ ret # "done"
  BY <1>1
<1>9. \A t \in Senders : spc[t] \notin {"idle", "last"} => handle[t] = "held"
  BY <1>5
<1>10. QED
  BY <1>4, <1>5, <1>6, <1>7, <1>8, <1>9 DEF Conclusive

(* The end is conclusive: when poll_recv or try_recv says so, no handle is *)
(* left and the ring is empty, whatever senders did between the reads.     *)
THEOREM ClosedAlwaysConclusive == Spec => []ClosedIsConclusive
<1>1. Conclusive => ClosedIsConclusive
  BY DEF Conclusive, ClosedIsConclusive
<1>2. QED
  BY <1>1, ConclusiveInit, ConclusiveStep, PTL DEF Spec

-----------------------------------------------------------------------------
(* The wakeup.                                                             *)

Listening ==
  /\ bell \in [waker : BOOLEAN, closed : BOOLEAN]
  /\ parked \in BOOLEAN /\ rnotified \in BOOLEAN
  /\ ret \in {"idle", "closed", "done"}
  /\ bell.closed => rpc = "gone"
  /\ rpc \in {"park", "look", "asleep"} => bell.waker \/ rnotified
  /\ rpc \in {"look", "asleep"} => parked
  /\ rpc = "asleep" /\ ~rnotified /\ HasItem =>
       \E s \in Senders : spc[s] \in {"announce", "ring"}

(* Whoever is about to ring finds the waker, unless it was used already.   *)
LEMMA ListeningMeans == Listening => NoItemStranded
  BY DEF Listening, NoItemStranded

(* Steps of a sender on the way to its push or after its announcement.     *)
LEMMA QuietSenderSteps ==
  ASSUME Conclusive, Listening, NEW s \in Senders,
         \/ Begin(s) \/ Check(s) \/ Recheck(s) \/ GiveUp(s) \/ ParkSender(s) \/ Poll(s)
         \/ Finish(s) \/ Abandon(s) \/ Pass(s) \/ PassWake(s) \/ DropHandle(s)
         \/ \E t \in Senders : Clone(s, t)
  PROVE  Listening'
<1>1. UNCHANGED <<ring, bell, parked, rnotified, rpc, ret>>
  BY DEF Begin, Check, Recheck, GiveUp, ParkSender, Poll, Finish, Abandon, Pass, PassWake,
     DropHandle, Clone, shared, receiver
<1>2. \/ spc' = spc
      \/ spc[s] \notin {"announce", "ring"} /\ \E pc \in SenderStages : spc' = [spc EXCEPT ![s] = pc]
  BY DEF Begin, Check, Recheck, GiveUp, ParkSender, Poll, Finish, Abandon, Pass, PassWake,
     DropHandle, Clone, Goto, Decided, SenderStages
<1>3. \A t \in Senders : spc[t] \in {"announce", "ring"} => spc'[t] = spc[t]
  BY <1>2 DEF Conclusive
<1>4. HasItem' <=> HasItem
  BY <1>1 DEF HasItem
<1>5. QED
  BY <1>1, <1>3, <1>4 DEF Listening

(* A push brings no item to pop before it is written.                      *)
LEMMA PushListening ==
  ASSUME Conclusive, Listening, NEW s \in Senders, Push(s)
  PROVE  Listening'
<1>1. /\ spc[s] = "push" /\ UNCHANGED <<bell, parked, rnotified, rpc, ret>>
      /\ ring \in Seq(Places) /\ spc \in [Senders -> SenderStages]
  BY DEF Push, receiver, Conclusive
<1>2. HasItem' => HasItem
  <2>1. CASE ring' = ring
    BY <2>1 DEF HasItem
  <2>2. CASE ring' = Append(ring, [by |-> s, written |-> FALSE])
    <3>1. CASE ring = <<>>
      <4>1. ring'[1] = [by |-> s, written |-> FALSE]
        BY <2>2, <3>1
      <4>2. QED
        BY <4>1 DEF HasItem
    <3>2. CASE ring # <<>>
      <4>1. ring'[1] = ring[1]
        BY <1>1, <2>2, <3>2
      <4>2. QED
        BY <3>2, <4>1 DEF HasItem
    <3>3. QED
      BY <3>1, <3>2
  <2>3. QED
    BY <2>1, <2>2 DEF Push
<1>3. \A t \in Senders : t # s => spc'[t] = spc[t]
  BY <1>1 DEF Push, Goto
<1>4. \A t \in Senders : spc[t] \in {"announce", "ring"} => spc'[t] = spc[t]
  BY <1>1, <1>3
<1>5. QED
  BY <1>1, <1>2, <1>4 DEF Listening

(* A sender that has written, announces, or rings.                         *)
LEMMA TellingSteps ==
  ASSUME Conclusive, Listening, NEW s \in Senders,
         Write(s) \/ Announce(s) \/ Ring(s) \/ LastOut(s)
  PROVE  Listening'
<1>1. rpc' = rpc /\ ret' = ret /\ parked' = parked /\ spc \in [Senders -> SenderStages]
  BY DEF Write, Announce, Ring, LastOut, receiver, shared, Conclusive
<1>2. CASE Write(s)
  <2>1. UNCHANGED <<bell, rnotified>> /\ spc'[s] = "announce"
    BY <1>1, <1>2 DEF Write, Goto
  <2>2. QED
    BY <1>1, <2>1 DEF Listening
<1>3. CASE Announce(s)
  <2>1. UNCHANGED <<ring, bell, rnotified>> /\ (parked => spc'[s] = "ring")
    BY <1>1, <1>3 DEF Announce, Goto, shared
  <2>2. HasItem' <=> HasItem
    BY <2>1 DEF HasItem
  <2>3. rpc = "asleep" => parked
    BY DEF Listening
  <2>4. QED
    BY <1>1, <2>1, <2>2, <2>3 DEF Listening
<1>4. CASE Ring(s) \/ LastOut(s)
  <2>1. RingBell
    BY <1>4 DEF Ring, LastOut
  <2>2. CASE bell.closed
    <3>1. bell' = bell /\ rnotified' = rnotified /\ rpc = "gone"
      BY <2>1, <2>2 DEF RingBell, Listening
    <3>2. QED
      BY <1>1, <3>1 DEF Listening
  <2>3. CASE ~bell.closed
    <3>1. bell' = [bell EXCEPT !.waker = FALSE] /\ rnotified' = (rnotified \/ bell.waker)
      BY <2>1, <2>3 DEF RingBell
    <3>2. bell' \in [waker : BOOLEAN, closed : BOOLEAN] /\ bell'.closed = bell.closed
      BY <3>1 DEF Listening
    <3>3. rnotified' \in BOOLEAN
      BY <3>1
    <3>4. rpc \in {"park", "look", "asleep"} => rnotified'
      BY <3>1 DEF Listening
    <3>5. QED
      BY <1>1, <2>3, <3>2, <3>3, <3>4 DEF Listening
  <2>4. QED
    BY <2>2, <2>3
<1>5. QED
  BY <1>2, <1>3, <1>4

(* The receiver registers, shows itself parked, and looks once more.       *)
LEMMA ReceiverListening ==
  ASSUME Conclusive, Listening, ReceiverStep \/ PollAgain \/ Depart
  PROVE  Listening'
<1>1. spc' = spc
  BY DEF ReceiverStep, PollRecv, StopDraining, Release, HandOut, WakeSender,
     LoadClosed, Register, ParkReceiver, Look, TryRecv, TryTake, CloseWaiters, WakeAll,
     CloseBell, PollAgain, Depart, sender
<1>2. ASSUME UNCHANGED <<bell, rnotified>>, parked' \in BOOLEAN, rpc # "gone",
             rpc' \notin {"park", "look", "asleep"}, ret' \in {"idle", "closed", "done"}
      PROVE  Listening'
  BY <1>2 DEF Listening
<1>3. CASE PollRecv \/ StopDraining \/ LoadClosed \/ TryRecv \/ TryTake
  BY <1>2, <1>3 DEF PollRecv, StopDraining, LoadClosed, TryRecv, TryTake, Take, shared, Listening
<1>4. CASE CloseWaiters \/ WakeAll \/ Depart
  BY <1>2, <1>4 DEF CloseWaiters, WakeAll, Depart, MayDepart, shared, Listening
<1>5. CASE Register
  <2>1. /\ bell' = [bell EXCEPT !.waker = TRUE] /\ rpc = "register" /\ rpc' = "park"
        /\ UNCHANGED <<parked, rnotified, ret>>
    BY <1>5 DEF Register
  <2>2. bell' \in [waker : BOOLEAN, closed : BOOLEAN] /\ bell'.closed = bell.closed /\ bell'.waker
    BY <2>1 DEF Listening
  <2>3. QED
    BY <2>1, <2>2 DEF Listening
<1>6. CASE ParkReceiver
  <2>1. /\ parked' = TRUE /\ rpc = "park" /\ rpc' = "look" /\ UNCHANGED <<bell, rnotified, ret>>
    BY <1>6 DEF ParkReceiver
  <2>2. QED
    BY <2>1 DEF Listening
<1>7. CASE Look
  <2>1. rpc = "look" /\ UNCHANGED <<bell, rnotified>>
    BY <1>7 DEF Look
  <2>2. CASE HasItem
    <3>1. rpc' = "release" /\ ret' = "idle" /\ parked' = FALSE
      BY <1>7, <2>2 DEF Look, Take
    <3>2. QED
      BY <1>2, <2>1, <3>1
  <2>3. CASE ~HasItem /\ closed
    <3>1. rpc' = "done" /\ ret' \in {"idle", "closed", "done"} /\ parked' \in BOOLEAN
      BY <1>7, <2>3 DEF Look, Listening
    <3>2. QED
      BY <1>2, <2>1, <3>1
  <2>4. CASE ~HasItem /\ ~closed
    <3>1. rpc' = "asleep" /\ ret' = ret /\ ring' = ring /\ parked' = (parked /\ ~closed)
      BY <1>7, <2>4 DEF Look
    <3>2. parked
      BY <2>1 DEF Listening
    <3>3. parked' \in BOOLEAN /\ parked'
      BY <2>4, <3>1, <3>2
    <3>4. ~HasItem'
      BY <2>4, <3>1 DEF HasItem
    <3>5. QED
      BY <2>1, <3>1, <3>3, <3>4 DEF Listening
  <2>5. QED
    BY <2>2, <2>3, <2>4
<1>8. CASE Release \/ HandOut \/ WakeSender
  <2>1. /\ UNCHANGED <<bell, parked, rnotified, ret>> /\ rpc # "gone"
        /\ rpc' \in {ret, "handing", "wake"}
    BY <1>8 DEF Release, HandOut, WakeSender, shared
  <2>2. ret \in {"idle", "closed", "done"}
    BY DEF Listening
  <2>3. QED
    BY <1>2, <2>1, <2>2 DEF Listening
<1>9. CASE PollAgain
  BY <1>9 DEF PollAgain, shared, Listening
<1>10. CASE CloseBell
  BY <1>10 DEF CloseBell, Listening
<1>11. QED
  BY <1>3, <1>4, <1>5, <1>6, <1>7, <1>8, <1>9, <1>10 DEF ReceiverStep

(* Every step keeps it.                                                    *)
LEMMA ListeningStep == Conclusive /\ Listening /\ [Next]_vars => Listening'
<1> SUFFICES ASSUME Conclusive, Listening, [Next]_vars PROVE Listening'
  OBVIOUS
<1>1. ASSUME NEW s \in Senders, SenderStep(s) PROVE Listening'
  BY <1>1, QuietSenderSteps, PushListening, TellingSteps DEF SenderStep
<1>2. ASSUME NEW s \in Senders, SenderChoice(s) PROVE Listening'
  BY <1>2, QuietSenderSteps DEF SenderChoice
<1>3. CASE UNCHANGED vars
  BY <1>3 DEF vars, shared, sender, receiver, Listening, HasItem
<1>4. QED
  BY <1>1, <1>2, <1>3, ReceiverListening DEF Next

(* Nobody has asked the receiver to sleep yet.                             *)
LEMMA ListeningInit == ASSUME Init PROVE Listening
<1>1. /\ bell = [waker |-> FALSE, closed |-> FALSE] /\ parked = FALSE /\ rnotified = FALSE
      /\ rpc = "idle" /\ ret = "idle" /\ spc = [s \in Senders |-> "idle"]
  BY DEF Init
<1>2. bell \in [waker : BOOLEAN, closed : BOOLEAN] /\ ~bell.closed
  BY <1>1
<1>3. parked \in BOOLEAN /\ rnotified \in BOOLEAN
  BY <1>1
<1>4. QED
  BY <1>1, <1>2, <1>3 DEF Listening

(* No item is stranded: a receiver that sleeps un-notified on an item it   *)
(* could pop has a sender still to announce it, and the ring will find the *)
(* waker (send against poll_recv of mailbox.rs).                           *)
THEOREM ItemsNeverStranded == Spec => []NoItemStranded
<1>1. Init => Listening
  BY ListeningInit
<1>2. QED
  BY <1>1, ConclusiveInit, ConclusiveStep, ListeningStep, ListeningMeans, PTL DEF Spec

-----------------------------------------------------------------------------
(* Dropping the inbox.                                                     *)

Departing ==
  /\ "closed" \in DOMAIN w
  /\ rpc \in {"close", "wakeall", "closebell", "gone"} => departed
  /\ w.closed => departed

(* No operation of the wait list but close closes it.                      *)
LEMMA StaysOpen ==
  ASSUME NEW v, "closed" \in DOMAIN v
  PROVE  /\ \A t : "closed" \in DOMAIN Park(v, t) /\ Park(v, t).closed = v.closed
         /\ \A t, u : "closed" \in DOMAIN Refresh(v, t, u) /\ Refresh(v, t, u).closed = v.closed
         /\ \A t : "closed" \in DOMAIN Cancel(v, t) /\ Cancel(v, t).closed = v.closed
         /\ "closed" \in DOMAIN WakeOne(v) /\ WakeOne(v).closed = v.closed
         /\ "closed" \in DOMAIN Close(v)
<1>1. ASSUME NEW x, "closed" \in DOMAIN x
      PROVE  "closed" \in DOMAIN Publish(x) /\ Publish(x).closed = x.closed
  BY <1>1 DEF Publish
<1>2. ASSUME NEW x, "closed" \in DOMAIN x
      PROVE  "closed" \in DOMAIN Compact(x) /\ Compact(x).closed = x.closed
  BY <1>2 DEF Compact
<1>3. ASSUME NEW x, "closed" \in DOMAIN x, NEW k
      PROVE  "closed" \in DOMAIN Retire(x, k) /\ Retire(x, k).closed = x.closed
  BY <1>3 DEF Retire
<1>4. ASSUME NEW t PROVE "closed" \in DOMAIN Park(v, t) /\ Park(v, t).closed = v.closed
  BY <1>1, <1>2 DEF Park
<1>5. ASSUME NEW t, NEW u
      PROVE  "closed" \in DOMAIN Refresh(v, t, u) /\ Refresh(v, t, u).closed = v.closed
  BY DEF Refresh
<1>6. ASSUME NEW t PROVE "closed" \in DOMAIN Cancel(v, t) /\ Cancel(v, t).closed = v.closed
  BY <1>1, <1>2, <1>3 DEF Cancel
<1>7. "closed" \in DOMAIN WakeOne(v) /\ WakeOne(v).closed = v.closed
  BY <1>1, <1>3 DEF WakeOne
<1>8. "closed" \in DOMAIN Close(v)
  BY <1>1 DEF Close
<1>9. QED
  BY <1>4, <1>5, <1>6, <1>7, <1>8

(* A step of a sender neither closes the list nor touches departed.        *)
LEMMA SenderDeparting ==
  ASSUME Departing, NEW s \in Senders, SenderStep(s) \/ SenderChoice(s)
  PROVE  Departing'
<1>1. ASSUME "closed" \in DOMAIN w', w'.closed = w.closed, departed' = departed, rpc' = rpc
      PROVE  Departing'
  BY <1>1 DEF Departing
<1>2. departed' = departed /\ rpc' = rpc
  BY DEF SenderStep, SenderChoice, Begin, Check, Push, Write, Announce, Ring, Recheck,
     GiveUp, PassWake, DropHandle, LastOut, Clone, ParkSender, Poll, Finish, Abandon, Pass,
     shared, receiver
<1>3. \/ w' = w \/ w' = Park(w, s) \/ w' = Refresh(w, ticket[s], s)
      \/ w' = Cancel(w, ticket[s]) \/ w' = WakeOne(w)
  BY DEF SenderStep, SenderChoice, Begin, Check, Push, Write, Announce, Ring, Recheck,
     GiveUp, PassWake, DropHandle, LastOut, Clone, ParkSender, Poll, Finish, Abandon, Pass, TakeOne
<1>4. "closed" \in DOMAIN w
  BY DEF Departing
<1>5. "closed" \in DOMAIN w' /\ w'.closed = w.closed
  BY <1>3, <1>4, StaysOpen
<1>6. QED
  BY <1>1, <1>2, <1>5

(* The inbox's drop marks itself before it closes the list.                *)
LEMMA ReceiverDeparting ==
  ASSUME Departing, Listening, ReceiverStep \/ PollAgain \/ Depart
  PROVE  Departing'
<1>1. ASSUME w' = w, departed' = departed, rpc' \notin {"close", "wakeall", "closebell", "gone"}
      PROVE  Departing'
  BY <1>1 DEF Departing
<1>2. ret \in {"idle", "closed", "done"}
  BY DEF Listening
<1>3. CASE PollRecv \/ StopDraining \/ Release \/ WakeSender \/ LoadClosed
  BY <1>1, <1>2, <1>3 DEF PollRecv, StopDraining, Release, WakeSender, LoadClosed, shared
<1>4. CASE Register \/ ParkReceiver \/ Look \/ TryRecv \/ TryTake \/ PollAgain
  BY <1>1, <1>4 DEF Register, ParkReceiver, Look, TryRecv, TryTake, PollAgain, shared
<1>5. CASE HandOut
  <2>1. /\ departed' = departed /\ w' = WakeOne(w) /\ "closed" \in DOMAIN w
        /\ rpc' \in {ret, "wake"}
    BY <1>5 DEF HandOut, TakeOne, shared, Departing
  <2>2. "closed" \in DOMAIN w' /\ w'.closed = w.closed
    BY <2>1, StaysOpen
  <2>3. QED
    BY <1>2, <2>1, <2>2 DEF Departing
<1>6. CASE CloseWaiters
  <2>1. departed' = departed /\ w' = Close(w) /\ rpc = "close" /\ "closed" \in DOMAIN w
    BY <1>6 DEF CloseWaiters, shared, Departing
  <2>2. departed' /\ "closed" \in DOMAIN w'
    BY <2>1, StaysOpen DEF Departing
  <2>3. QED
    BY <2>2 DEF Departing
<1>7. CASE WakeAll \/ CloseBell
  <2>1. w' = w /\ departed' = departed /\ rpc \in {"wakeall", "closebell"}
    BY <1>7 DEF WakeAll, CloseBell, shared
  <2>2. departed'
    BY <2>1 DEF Departing
  <2>3. QED
    BY <2>1, <2>2 DEF Departing
<1>8. CASE Depart
  BY <1>8 DEF Depart, Departing
<1>9. QED
  BY <1>3, <1>4, <1>5, <1>6, <1>7, <1>8 DEF ReceiverStep

(* A sender suspends only after it saw departed clear.                     *)
LEMMA SuspendsOnOpen ==
  ASSUME Conclusive, Departing, [Next]_vars, NEW t \in Senders,
         spc[t] # "asleep", spc'[t] = "asleep"
  PROVE  ~w.closed
<1>1. ASSUME spc' = spc PROVE FALSE
  BY <1>1
<1>2. ASSUME NEW s \in Senders, NEW pc, Goto(s, pc), pc # "asleep" PROVE FALSE
  BY <1>2 DEF Goto, Conclusive
<1>3. ASSUME NEW s \in Senders, Decided(s) PROVE FALSE
  BY <1>2, <1>3 DEF Decided
<1>4. ASSUME NEW s \in Senders, Recheck(s) PROVE ~departed
  BY <1>3, <1>4 DEF Recheck
<1>5. ASSUME NEW s \in Senders, Check(s) \/ Announce(s) \/ Ring(s) PROVE FALSE
  BY <1>2, <1>3, <1>5 DEF Check, Announce, Ring
<1>6. ASSUME NEW s \in Senders, Push(s) PROVE FALSE
  BY <1>2, <1>6 DEF Push
<1>7. ASSUME NEW s \in Senders,
             Write(s) \/ ParkSender(s) \/ Finish(s) \/ PassWake(s) \/ LastOut(s)
      PROVE  FALSE
  BY <1>2, <1>7 DEF Write, ParkSender, Finish, PassWake, LastOut
<1>8. ASSUME NEW s \in Senders, Pass(s) \/ Abandon(s) \/ DropHandle(s) PROVE FALSE
  BY <1>2, <1>8 DEF Pass, Abandon, DropHandle
<1>9. ASSUME NEW s \in Senders,
             Begin(s) \/ GiveUp(s) \/ Poll(s) \/ \E u \in Senders : Clone(s, u)
      PROVE  FALSE
  BY <1>1, <1>2, <1>9 DEF Begin, GiveUp, Poll, Clone
<1>10. ASSUME ReceiverStep \/ PollAgain \/ Depart PROVE FALSE
  <2>1. spc' = spc
    BY <1>10 DEF ReceiverStep, PollRecv, StopDraining, Release, HandOut, WakeSender,
       LoadClosed, Register, ParkReceiver, Look, TryRecv, TryTake, CloseWaiters, WakeAll,
       CloseBell, PollAgain, Depart, sender
  <2>2. QED
    BY <1>1, <2>1
<1>11. ASSUME UNCHANGED vars PROVE FALSE
  BY <1>1, <1>11 DEF vars, sender
<1>12. PICK s \in Senders : SenderStep(s) \/ SenderChoice(s)
  BY <1>10, <1>11 DEF Next
<1>13. Recheck(s)
  BY <1>5, <1>6, <1>7, <1>8, <1>9, <1>12 DEF SenderStep, SenderChoice
<1>14. QED
  BY <1>4, <1>13 DEF Departing

(* Nobody suspends on a closed list: Inbox::drop stores departed before it *)
(* closes the wait list, and a sender that finds the ring full looks at    *)
(* departed again before it suspends (park_until and Inbox::drop).         *)
THEOREM NobodySuspendsOnClosed == Spec => NobodySleepsOnClosed
<1> DEFINE Inv == Conclusive /\ Listening /\ Departing
<1>1. Init => Inv
  <2>1. Init => Listening
    BY ListeningInit
  <2>2. Init => Departing
    BY DEF Init, Fresh, Departing
  <2>3. QED
    BY <2>1, <2>2, ConclusiveInit
<1>2. Inv /\ [Next]_vars => Inv'
  <2>1. ASSUME Departing, Listening, [Next]_vars PROVE Departing'
    <3>1. CASE UNCHANGED vars
      BY <2>1, <3>1 DEF vars, shared, receiver, Departing
    <3>2. QED
      BY <2>1, <3>1, SenderDeparting, ReceiverDeparting DEF Next
  <2>2. QED
    BY <2>1, ConclusiveStep, ListeningStep
<1>3. Inv /\ [Next]_vars =>
        [\A s \in Senders : spc[s] # "asleep" /\ spc'[s] = "asleep" => ~w.closed]_vars
  BY SuspendsOnOpen
<1>4. QED
  BY <1>1, <1>2, <1>3, PTL DEF Spec, NobodySleepsOnClosed

-----------------------------------------------------------------------------
(* The wait list and the tickets its callers hold.                         *)

(* Where a sender has no ticket.                                           *)
Unregistered == {"idle", "park", "pass", "wake", "last"}

Registered ==
  /\ Sound(w) /\ WellFormed(w)
  /\ Owned(w, ticket, w.next_generation)
  /\ \A s \in Senders : spc[s] \in Unregistered => ticket[s] = NoTicket
  /\ \A s \in Senders : spc[s] \in {"asleep", "finish"} => ticket[s] # NoTicket

(* A sender moves without touching the list.                               *)
LEMMA RegisteredMoves ==
  ASSUME Registered, Conclusive, NEW s \in Senders, NEW pc, Goto(s, pc), UNCHANGED <<w, ticket>>,
         pc \in Unregistered => ticket[s] = NoTicket,
         pc \in {"asleep", "finish"} => ticket[s] # NoTicket
  PROVE  Registered'
<1>1. spc \in [Senders -> SenderStages] /\ spc' = [spc EXCEPT ![s] = pc]
  BY DEF Conclusive, Goto
<1>2. \A t \in Senders : spc'[t] = IF t = s THEN pc ELSE spc[t]
  BY <1>1
<1>3. QED
  BY <1>2 DEF Registered

(* park registers its caller under a ticket of its own.                    *)
LEMMA RegisteredPark ==
  ASSUME Registered, Conclusive, NEW s \in Senders, ParkSender(s)
  PROVE  Registered' /\ \A r \in Senders : Live(w', ticket[r]) <=> Live(w, ticket[r])
<1>1. spc[s] = "park" /\ spc \in [Senders -> SenderStages]
  BY DEF ParkSender, Conclusive
<1>2. ticket[s] = NoTicket
  BY <1>1 DEF Registered, Unregistered
<1>3. CASE w.closed
  BY <1>2, <1>3, RegisteredMoves DEF ParkSender, Unregistered
<1>4. CASE ~w.closed
  <2>1. PICK t : t = ParkTicket(w)
    OBVIOUS
  <2>2. /\ w' = Park(w, s) /\ ticket' = [ticket EXCEPT ![s] = t]
        /\ spc' = [spc EXCEPT ![s] = "check"]
    BY <1>4, <2>1 DEF ParkSender, Goto
  <2>3. Sound(w) /\ Owned(w, ticket, w.next_generation) /\ ticket \in [Senders -> Tickets]
    BY DEF Registered, Owned, Senders
  <2>4. /\ Sound(w') /\ WellFormed(w') /\ t \in Tickets /\ t # NoTicket
        /\ Owned(w', ticket', w'.next_generation)
        /\ \A r \in Senders : Live(w', ticket[r]) <=> Live(w, ticket[r])
    BY <1>2, <2>1, <2>2, <2>3, OwnedParks DEF Senders
  <2>5. \A r \in Senders : /\ spc'[r] = IF r = s THEN "check" ELSE spc[r]
                           /\ ticket'[r] = IF r = s THEN t ELSE ticket[r]
    BY <1>1, <2>2, <2>3
  <2>6. QED
    BY <2>4, <2>5 DEF Registered, Unregistered
<1>5. QED
  BY <1>3, <1>4

(* A poll finds its own task registered.                                   *)
LEMMA PollKeepsList ==
  ASSUME Registered, NEW s \in Senders, Poll(s)
  PROVE  w' = w
BY OwnedRefreshes DEF Poll, Registered, Senders

(* The end of a registration, by its holder.                               *)
LEMMA RegisteredEnds ==
  ASSUME Registered, Conclusive, NEW s \in Senders, Finish(s) \/ Abandon(s)
  PROVE  /\ Registered'
         /\ \A r \in Senders : r # s =>
              ticket'[r] = ticket[r] /\ (Live(w', ticket[r]) <=> Live(w, ticket[r]))
<1>1. /\ w' = Cancel(w, ticket[s]) /\ ticket' = [ticket EXCEPT ![s] = NoTicket]
      /\ \E pc \in {"idle", "pass"} : spc' = [spc EXCEPT ![s] = pc]
      /\ spc[s] \in {"asleep", "finish"}
  BY DEF Finish, Abandon, Goto
<1>2. /\ Sound(w) /\ WellFormed(w) /\ Owned(w, ticket, w.next_generation)
      /\ ticket \in [Senders -> Tickets] /\ ticket[s] # NoTicket
  BY <1>1 DEF Registered, Owned, Senders
<1>3. /\ Sound(w') /\ WellFormed(w') /\ Owned(w', ticket', w'.next_generation)
      /\ \A r \in Senders : r # s => (Live(w', ticket[r]) <=> Live(w, ticket[r]))
  <2>1. PICK v, x, held : v = w /\ x = w' /\ held = ticket
    OBVIOUS
  <2>2. /\ Sound(x) /\ WellFormed(x)
        /\ Owned(x, [held EXCEPT ![s] = NoTicket], x.next_generation)
        /\ \A r \in Tasks : r # s => (Live(x, held[r]) <=> Live(v, held[r]))
    BY <1>1, <1>2, <2>1, OwnedEnds DEF Senders
  <2>3. QED
    BY <1>1, <2>1, <2>2 DEF Senders
<1>4. PICK pc \in {"idle", "pass"} : spc' = [spc EXCEPT ![s] = pc]
  BY <1>1
<1>5. \A r \in Senders : /\ spc'[r] = IF r = s THEN pc ELSE spc[r]
                         /\ ticket'[r] = IF r = s THEN NoTicket ELSE ticket[r]
  BY <1>1, <1>2, <1>4 DEF Conclusive
<1>6. QED
  BY <1>3, <1>5 DEF Registered, Unregistered

(* What taking a waker out of the list does.                               *)
LEMMA RegisteredTakes ==
  ASSUME Registered, w' = WakeOne(w), ticket' = ticket
  PROVE  /\ Sound(w') /\ WellFormed(w') /\ Owned(w', ticket', w'.next_generation)
         /\ \/ Woken(w) = NoWaker /\ \A u \in Tickets : ~Live(w', u)
            \/ /\ Woken(w) \in Senders /\ Woken(w) # NoWaker
               /\ Live(w, ticket[Woken(w)]) /\ ~Live(w', ticket[Woken(w)])
               /\ ticket[Woken(w)] # NoTicket
               /\ \A r \in Senders : r # Woken(w) => (Live(w', ticket[r]) <=> Live(w, ticket[r]))
BY OwnedTakes DEF Registered, Senders

(* A caller takes a waker out of the list and stays where it is, or goes   *)
(* from one stage without a ticket to another.                             *)
LEMMA RegisteredWakes ==
  ASSUME Registered, Conclusive,
         \/ HandOut
         \/ \E s \in Senders : Pass(s)
  PROVE  Registered'
<1>1. w' = WakeOne(w) /\ ticket' = ticket
  BY DEF HandOut, Pass, TakeOne, sender
<1>2. Sound(w') /\ WellFormed(w') /\ Owned(w', ticket', w'.next_generation)
  BY <1>1, RegisteredTakes
<1>3. CASE HandOut
  <2>1. spc' = spc
    BY <1>3 DEF HandOut, sender
  <2>2. QED
    BY <1>1, <1>2, <2>1 DEF Registered
<1>4. ASSUME NEW s \in Senders, Pass(s) PROVE Registered'
  <2>1. PICK pc \in {"idle", "wake"} : spc[s] = "pass" /\ spc' = [spc EXCEPT ![s] = pc]
    BY <1>4 DEF Pass, Goto
  <2>2. \A r \in Senders : spc'[r] = IF r = s THEN pc ELSE spc[r]
    BY <2>1 DEF Conclusive
  <2>3. QED
    BY <1>1, <1>2, <2>1, <2>2 DEF Registered, Unregistered
<1>5. QED
  BY <1>3, <1>4

(* Every step keeps the list and the tickets in agreement.                 *)
LEMMA RegisteredStep ==
  ASSUME Registered, Conclusive, [Next]_vars
  PROVE  Registered'
<1>1. ASSUME UNCHANGED <<w, ticket, spc>> PROVE Registered'
  BY <1>1 DEF Registered
<1>2. ASSUME NEW s \in Senders, Decided(s), spc[s] \notin Unregistered, UNCHANGED <<w, ticket>>
      PROVE  Registered'
  BY <1>2, RegisteredMoves DEF Decided, Unregistered
<1>3. ASSUME NEW s \in Senders, Begin(s) \/ GiveUp(s) \/ DropHandle(s) \/ LastOut(s) \/ PassWake(s)
      PROVE  Registered'
  <2>1. /\ spc[s] \in Unregistered /\ UNCHANGED <<w, ticket>>
        /\ \E pc \in {"idle", "check", "last"} : Goto(s, pc)
    BY <1>3 DEF Begin, GiveUp, DropHandle, LastOut, PassWake, Unregistered
  <2>2. ticket[s] = NoTicket
    BY <2>1 DEF Registered
  <2>3. QED
    BY <2>1, <2>2, RegisteredMoves
<1>4. ASSUME NEW s \in Senders, Check(s) \/ Announce(s) \/ Ring(s) PROVE Registered'
  <2>1. /\ spc[s] \notin Unregistered /\ UNCHANGED <<w, ticket>>
        /\ Decided(s) \/ \E pc \in {"push", "ring"} : Goto(s, pc)
    BY <1>4 DEF Check, Announce, Ring, Unregistered
  <2>2. QED
    BY <1>2, <2>1, RegisteredMoves DEF Unregistered
<1>5. ASSUME NEW s \in Senders, Push(s) \/ Write(s) PROVE Registered'
  <2>1. /\ UNCHANGED <<w, ticket>>
        /\ \E pc \in {"write", "recheck", "announce"} : Goto(s, pc)
    BY <1>5 DEF Push, Write
  <2>2. QED
    BY <2>1, RegisteredMoves DEF Unregistered
<1>6. ASSUME NEW s \in Senders, Recheck(s) PROVE Registered'
  <2>1. /\ spc[s] = "recheck" /\ UNCHANGED <<w, ticket>>
        /\ Decided(s) \/ Goto(s, IF ticket[s] = NoTicket THEN "park" ELSE "asleep")
    BY <1>6 DEF Recheck
  <2>2. ASSUME Goto(s, IF ticket[s] = NoTicket THEN "park" ELSE "asleep") PROVE Registered'
    BY <2>1, <2>2, RegisteredMoves DEF Unregistered
  <2>3. QED
    BY <1>2, <2>1, <2>2 DEF Unregistered
<1>7. ASSUME NEW s \in Senders, Poll(s) PROVE Registered'
  <2>1. ticket' = ticket /\ Goto(s, "check")
    BY <1>7 DEF Poll
  <2>2. QED
    BY <1>7, <2>1, PollKeepsList, RegisteredMoves DEF Unregistered
<1>8. ASSUME NEW s \in Senders, \E t \in Senders : Clone(s, t) PROVE Registered'
  BY <1>1, <1>8 DEF Clone
<1>9. ASSUME NEW s \in Senders, SenderStep(s) \/ SenderChoice(s) PROVE Registered'
  BY <1>3, <1>4, <1>5, <1>6, <1>7, <1>8, <1>9, RegisteredPark, RegisteredEnds, RegisteredWakes
     DEF SenderStep, SenderChoice
<1>10. CASE CloseWaiters
  <2>1. w' = Close(w) /\ UNCHANGED <<ticket, spc>> /\ Sound(w) /\ Owned(w, ticket, w.next_generation)
    BY <1>10 DEF CloseWaiters, sender, Registered
  <2>2. Sound(w') /\ WellFormed(w') /\ Owned(w', ticket', w'.next_generation)
    BY <2>1, OwnedCloses
  <2>3. QED
    BY <2>1, <2>2 DEF Registered
<1>11. CASE ReceiverStep \/ PollAgain \/ Depart
  <2>1. HandOut \/ CloseWaiters \/ UNCHANGED <<w, ticket, spc>>
    BY <1>11 DEF ReceiverStep, PollRecv, StopDraining, Release, WakeSender,
       LoadClosed, Register, ParkReceiver, Look, TryRecv, TryTake, WakeAll,
       CloseBell, PollAgain, Depart, sender
  <2>2. QED
    BY <1>1, <1>10, <2>1, RegisteredWakes
<1>12. CASE UNCHANGED vars
  BY <1>1, <1>12 DEF vars, sender
<1>13. QED
  BY <1>9, <1>11, <1>12 DEF Next

(* At first nobody is registered.                                          *)
LEMMA RegisteredInit == ASSUME Init PROVE Registered
<1>1. /\ w = Fresh /\ ticket = [s \in Senders |-> NoTicket] /\ spc = [s \in Senders |-> "idle"]
  BY DEF Init
<1>2. Sound(w) /\ WellFormed(w) /\ Owned(w, ticket, w.next_generation)
  BY <1>1, Opens, OwnedOpens DEF Senders
<1>3. QED
  BY <1>1, <1>2 DEF Registered

(* The wait list stays well formed through parking, cancellation, wakes,   *)
(* compaction and close, for any number of senders: every registration has *)
(* its place in the queue, every slot is taken or free, once, and the      *)
(* count that the shard reads without the lock is exact (waiters.rs).      *)
THEOREM WaitersAlwaysAgree == Spec => []WaitersAgree
<1> DEFINE Inv == Conclusive /\ Registered
<1>1. Init => Inv
  BY ConclusiveInit, RegisteredInit
<1>2. Inv /\ [Next]_vars => Inv'
  BY ConclusiveStep, RegisteredStep
<1>3. Inv => WaitersAgree
  BY DEF Registered, WaitersAgree
<1>4. QED
  BY <1>1, <1>2, <1>3, PTL DEF Spec

-----------------------------------------------------------------------------
(* Room.                                                                   *)

Callers == Senders \cup {Receiver}

(* Who holds wakers, and that a hand-out under way has one to give.        *)
Handing ==
  /\ notified \in [Senders -> BOOLEAN]
  /\ waking \in [Callers -> SUBSET Senders]
  /\ freed \in Nat /\ owed \in Nat
  /\ \A s \in Senders : spc[s] # "wake" => waking[s] = {}
  /\ rpc \notin {"wake", "wakeall"} => waking[Receiver] = {}
  /\ rpc = "wake" => waking[Receiver] # {}
  /\ rpc = "handing" => owed > 0

(* The wakers in a caller's hands are taken, and used, by that caller.     *)
LEMMA HandingStep ==
  ASSUME Handing, Registered, Conclusive, Listening, [Next]_vars
  PROVE  Handing'
<1>1. /\ Receiver \in Callers /\ Receiver \notin Senders /\ Senders \subseteq Callers
      /\ waking \in [Callers -> SUBSET Senders] /\ notified \in [Senders -> BOOLEAN]
      /\ spc \in [Senders -> SenderStages] /\ freed \in Nat /\ owed \in Nat
  BY ReceiverIsNoSender DEF Callers, Handing, Conclusive
<1>2. ASSUME NEW s \in Senders, NEW pc, spc' = [spc EXCEPT ![s] = pc], pc # "wake", spc[s] # "wake",
             UNCHANGED <<waking, rpc, freed, owed>>, notified' \in [Senders -> BOOLEAN]
      PROVE  Handing'
  <2>1. \A t \in Senders : spc'[t] # "wake" => spc[t] # "wake"
    BY <1>1, <1>2
  <2>2. QED
    BY <1>2, <2>1 DEF Handing
<1>3. ASSUME NEW s \in Senders, Decided(s), spc[s] # "wake",
             UNCHANGED <<waking, rpc, freed, owed, notified>>
      PROVE  Handing'
  <2>1. PICK pc \in {"idle", "finish"} : spc' = [spc EXCEPT ![s] = pc]
    BY <1>3 DEF Decided, Goto
  <2>2. notified' \in [Senders -> BOOLEAN]
    BY <1>1, <1>3
  <2>3. QED
    BY <1>2, <1>3, <2>1, <2>2
<1>4. ASSUME NEW s \in Senders, Begin(s) \/ GiveUp(s) \/ DropHandle(s) \/ LastOut(s)
             \/ Push(s) \/ Write(s) \/ Finish(s)
      PROVE  Handing'
  BY <1>1, <1>2, <1>4 DEF Begin, GiveUp, DropHandle, LastOut, Push, Write, Finish, Goto, receiver
<1>5. ASSUME NEW s \in Senders, Check(s) \/ Announce(s) \/ Ring(s) PROVE Handing'
  BY <1>1, <1>2, <1>3, <1>5 DEF Check, Announce, Ring, Goto, receiver
<1>6. ASSUME NEW s \in Senders, Recheck(s) \/ ParkSender(s) \/ Abandon(s) PROVE Handing'
  BY <1>1, <1>2, <1>3, <1>6 DEF Recheck, ParkSender, Abandon, Goto, receiver
<1>7. ASSUME NEW s \in Senders, Poll(s) PROVE Handing'
  <2>1. notified' \in [Senders -> BOOLEAN]
    BY <1>1, <1>7 DEF Poll
  <2>2. QED
    BY <1>1, <1>2, <1>7, <2>1 DEF Poll, Goto, receiver
<1>8. ASSUME NEW s \in Senders, \E t \in Senders : Clone(s, t) PROVE Handing'
  BY <1>8 DEF Clone, receiver, Handing
<1>9. w' = WakeOne(w) /\ ticket' = ticket => {Woken(w)} \ {NoWaker} \subseteq Senders
  BY RegisteredTakes
<1>10. ASSUME NEW s \in Senders, Pass(s) PROVE Handing'
  <2>1. PICK hand : hand = {Woken(w)} \ {NoWaker}
    OBVIOUS
  <2>2. /\ waking' = [waking EXCEPT ![s] = hand] /\ hand \subseteq Senders
        /\ UNCHANGED <<notified, rpc, freed, owed>>
        /\ spc' = [spc EXCEPT ![s] = IF Woken(w) = NoWaker THEN "idle" ELSE "wake"]
    BY <1>9, <1>10, <2>1 DEF Pass, TakeOne, Goto, receiver
  <2>3. \A t \in Senders : spc'[t] = IF t = s THEN (IF Woken(w) = NoWaker THEN "idle" ELSE "wake")
                                     ELSE spc[t]
    BY <1>1, <2>2
  <2>4. \A c \in Callers : waking'[c] = IF c = s THEN hand ELSE waking[c]
    BY <1>1, <2>2
  <2>5. waking' \in [Callers -> SUBSET Senders]
    BY <1>1, <2>2
  <2>6. Woken(w) = NoWaker => hand = {}
    BY <2>1
  <2>7. QED
    BY <1>1, <2>2, <2>3, <2>4, <2>5, <2>6 DEF Handing
<1>11. ASSUME NEW c \in Callers, UseWakers(c)
       PROVE  /\ notified' \in [Senders -> BOOLEAN] /\ waking' \in [Callers -> SUBSET Senders]
              /\ \A d \in Callers : waking'[d] = IF d = c THEN {} ELSE waking[d]
  <2>1. notified' = [s \in Senders |-> notified[s] \/ s \in waking[c]]
        /\ waking' = [waking EXCEPT ![c] = {}]
    BY <1>11 DEF UseWakers
  <2>2. QED
    BY <1>1, <2>1
<1>12. ASSUME NEW s \in Senders, PassWake(s) PROVE Handing'
  <2>1. UseWakers(s) /\ spc' = [spc EXCEPT ![s] = "idle"] /\ UNCHANGED <<rpc, freed, owed>>
    BY <1>12 DEF PassWake, Goto, receiver
  <2>2. \A t \in Senders : spc'[t] = IF t = s THEN "idle" ELSE spc[t]
    BY <1>1, <2>1
  <2>3. QED
    BY <1>1, <1>11, <2>1, <2>2 DEF Handing
<1>13. ASSUME NEW s \in Senders, SenderStep(s) \/ SenderChoice(s) PROVE Handing'
  BY <1>4, <1>5, <1>6, <1>7, <1>8, <1>10, <1>12, <1>13 DEF SenderStep, SenderChoice
<1>14. ASSUME UNCHANGED <<spc, waking, notified>>, freed' \in Nat, owed' \in Nat,
              rpc \notin {"wake", "wakeall"}, rpc' # "wake", rpc' = "handing" => owed' > 0
       PROVE  Handing'
  BY <1>14 DEF Handing
<1>15. ret \in {"idle", "closed", "done"}
  BY DEF Listening
<1>16. CASE PollRecv \/ StopDraining \/ LoadClosed \/ Register \/ ParkReceiver
  BY <1>1, <1>14, <1>16
     DEF PollRecv, StopDraining, LoadClosed, Register, ParkReceiver, Take, sender
<1>17. CASE Look \/ TryRecv \/ TryTake \/ PollAgain \/ Depart
  BY <1>1, <1>14, <1>17 DEF Look, TryRecv, TryTake, PollAgain, Depart, MayDepart, Take, sender
<1>18. CASE Release
  <2>1. /\ rpc = "release" /\ freed' = 0 /\ UNCHANGED <<spc, waking, notified>>
        /\ \/ rpc' = ret /\ owed' = owed
           \/ rpc' = "handing" /\ owed' = freed /\ freed # 0
    BY <1>18 DEF Release, sender
  <2>2. QED
    BY <1>1, <1>14, <1>15, <2>1
<1>19. CASE HandOut
  <2>1. PICK hand : hand = {Woken(w)} \ {NoWaker}
    OBVIOUS
  <2>2. /\ waking' = [waking EXCEPT ![Receiver] = hand] /\ hand \subseteq Senders
        /\ rpc = "handing" /\ UNCHANGED <<notified, spc, freed>>
        /\ \/ Woken(w) = NoWaker /\ rpc' = ret /\ owed' = 0
           \/ Woken(w) # NoWaker /\ rpc' = "wake" /\ owed' = owed - 1
    BY <1>9, <1>19, <2>1 DEF HandOut, TakeOne, sender
  <2>3. \A c \in Callers : waking'[c] = IF c = Receiver THEN hand ELSE waking[c]
    BY <1>1, <2>2
  <2>4. waking' \in [Callers -> SUBSET Senders]
    BY <1>1, <2>2
  <2>5. (Woken(w) = NoWaker => hand = {}) /\ (Woken(w) # NoWaker => hand # {})
    BY <2>1
  <2>6. owed' \in Nat
    BY <1>1, <2>2 DEF Handing
  <2>7. QED
    BY <1>1, <1>15, <2>2, <2>3, <2>4, <2>5, <2>6 DEF Handing
<1>20. CASE WakeSender \/ WakeAll
  <2>1. /\ UseWakers(Receiver) /\ UNCHANGED <<spc, freed, owed>>
        /\ rpc' \in {ret, "handing", "closebell"} /\ (rpc' = "handing" => owed # 0)
    BY <1>15, <1>20 DEF WakeSender, WakeAll, sender
  <2>2. QED
    BY <1>1, <1>11, <1>15, <2>1 DEF Handing
<1>21. CASE CloseWaiters
  <2>1. /\ waking' = [waking EXCEPT ![Receiver] = Parked(w)] /\ rpc' = "wakeall"
        /\ UNCHANGED <<spc, notified, freed, owed>>
    BY <1>21 DEF CloseWaiters, sender
  <2>2. Parked(w) \subseteq Senders
    BY OwnedCloses DEF Registered, Senders
  <2>3. \A c \in Callers : waking'[c] = IF c = Receiver THEN Parked(w) ELSE waking[c]
    BY <1>1, <2>1
  <2>4. waking' \in [Callers -> SUBSET Senders]
    BY <1>1, <2>1, <2>2
  <2>5. QED
    BY <1>1, <2>1, <2>3, <2>4 DEF Handing
<1>22. CASE CloseBell
  BY <1>1, <1>22 DEF CloseBell, sender, Handing
<1>23. CASE UNCHANGED vars
  BY <1>23 DEF vars, sender, receiver, Handing
<1>24. QED
  BY <1>13, <1>16, <1>17, <1>18, <1>19, <1>20, <1>21, <1>22, <1>23 DEF Next, ReceiverStep

(* At first nobody holds a waker.                                          *)
LEMMA HandingInit == ASSUME Init PROVE Handing
<1>1. /\ notified = [s \in Senders |-> FALSE] /\ waking = [a \in Callers |-> {}]
      /\ freed = 0 /\ owed = 0 /\ rpc = "idle"
  BY DEF Init, Callers
<1>2. \A s \in Senders : s \in Callers
  BY DEF Callers
<1>3. Receiver \in Callers
  BY DEF Callers
<1>4. QED
  BY <1>1, <1>2, <1>3 DEF Handing

(* A sender that was woken and has yet to use it: it will try the ring, or *)
(* pass the wake on.                                                       *)
Promised(s) ==
  \/ spc[s] = "pass"
  \/ /\ ticket[s] # NoTicket /\ ~Live(w, ticket[s])
     /\ \/ spc[s] \in {"check", "push"}
        \/ spc[s] \in {"recheck", "asleep"} /\ (notified[s] \/ \E c \in Callers : s \in waking[c])

Promises == {s \in Senders : Promised(s)}

(* The wakes the shard has yet to hand out.                                *)
Due == freed + (IF rpc \in {"handing", "wake"} THEN owed ELSE 0)

(* A sender that found the ring full and relies on being woken.            *)
Waits(s) == spc[s] \in {"recheck", "asleep"} /\ Live(w, ticket[s])

(* While anyone relies on it, there is a wake under way for every free     *)
(* place, unless one was spent on a sender that had already got in.        *)
Enough ==
  \/ misspent
  \/ departed
  \/ (\E s \in Senders : Waits(s)) => Due + Cardinality(Promises) >= Capacity - Len(ring)

(* Promised senders hold their handles, so there are finitely many.        *)
LEMMA PromisesCount ==
  Conclusive => IsFiniteSet(Promises) /\ Cardinality(Promises) \in Nat
<1> HAVE Conclusive
<1>1. Promises \subseteq Held(handle)
  <2> SUFFICES ASSUME NEW s \in Senders, Promised(s) PROVE handle[s] = "held"
    BY DEF Promises, Held
  <2>1. spc[s] \notin {"idle", "last"}
    BY DEF Promised
  <2>2. QED
    BY <2>1 DEF Conclusive
<1>2. IsFiniteSet(Held(handle))
  BY DEF Conclusive
<1>3. IsFiniteSet(Promises)
  BY <1>1, <1>2, FS_Subset
<1>4. QED
  BY <1>3, FS_CardinalityType

(* The books balance over a step that changes what is due by d, the room   *)
(* by r and the promises by p.                                             *)
LEMMA EnoughBalances ==
  ASSUME Enough, Handing, Conclusive, NEW d \in Int, NEW r \in Int, NEW p \in Int,
         Conclusive',
         misspent => misspent', departed => departed',
         ~departed' => ((\E s \in Senders : Waits(s)') => (\E s \in Senders : Waits(s))),
         Due' = Due + d, Len(ring') = Len(ring) - r,
         Cardinality(Promises') >= Cardinality(Promises) + p, d + p >= r
  PROVE  Enough'
<1>1. Cardinality(Promises) \in Nat
  BY PromisesCount
<1>2. (Conclusive => IsFiniteSet(Promises) /\ Cardinality(Promises) \in Nat)'
  BY PromisesCount, PTL
<1>3. Due \in Nat
  BY DEF Due, Handing
<1>4. Len(ring) \in Nat /\ Capacity \in Nat
  BY MailboxConstants DEF Conclusive
<1>5. ASSUME ~misspent', ~departed', \E s \in Senders : Waits(s)'
      PROVE  Due' + Cardinality(Promises') >= Capacity - Len(ring')
  <2>1. Due + Cardinality(Promises) >= Capacity - Len(ring)
    BY <1>5 DEF Enough
  <2>2. QED
    BY <1>1, <1>2, <1>3, <1>4, <2>1
<1>6. QED
  BY <1>5 DEF Enough

(* A step that leaves nobody registered owes nothing more.                 *)
LEMMA NobodyWaits ==
  ASSUME \A u \in Tickets : ~Live(w', u), ticket' \in [Senders -> Tickets]
  PROVE  Enough'
<1>1. \A s \in Senders : ~Waits(s)'
  BY DEF Waits
<1>2. QED
  BY <1>1 DEF Enough

(* What is promised to a sender depends on its own state only.             *)
LEMMA PromiseStays ==
  ASSUME NEW t \in Senders, spc'[t] = spc[t], ticket'[t] = ticket[t],
         Live(w', ticket[t]) <=> Live(w, ticket[t])
  PROVE  /\ Waits(t)' <=> Waits(t)
         /\ notified'[t] = notified[t] /\ waking' = waking => (Promised(t)' <=> Promised(t))
         /\ /\ Promised(t)
            /\ notified[t] => notified'[t]
            /\ (\E c \in Callers : t \in waking[c]) => (notified'[t] \/ \E c \in Callers : t \in waking'[c])
            => Promised(t)'
<1>1. Waits(t)' <=> Waits(t)
  BY DEF Waits
<1>2. notified'[t] = notified[t] /\ waking' = waking => (Promised(t)' <=> Promised(t))
  BY DEF Promised
<1>3. ASSUME Promised(t), notified[t] => notified'[t],
             (\E c \in Callers : t \in waking[c]) => (notified'[t] \/ \E c \in Callers : t \in waking'[c])
      PROVE  Promised(t)'
  BY <1>3 DEF Promised
<1>4. QED
  BY <1>1, <1>2, <1>3

(* A sender takes a step that leaves the others' registrations alone: it   *)
(* may lose its promise only for the place it claimed, and may come to     *)
(* rely on a wake only if the ring is full.                                *)
LEMMA SenderEnough ==
  ASSUME Enough, Handing, Conclusive, Conclusive', NEW s \in Senders,
         \A t \in Senders : t # s =>
           /\ spc'[t] = spc[t] /\ ticket'[t] = ticket[t] /\ notified'[t] = notified[t]
           /\ Live(w', ticket[t]) <=> Live(w, ticket[t]),
         UNCHANGED <<waking, freed, rpc, owed, departed, misspent>>,
         \/ /\ Len(ring') = Len(ring)
            /\ Promised(s) => Promised(s)'
            /\ Waits(s)' => Waits(s)
         \/ Len(ring') = Len(ring) + 1 /\ ~Waits(s)'
         \/ Len(ring') >= Capacity
  PROVE  Enough'
<1>1. \A t \in Senders : t # s => (Waits(t)' <=> Waits(t)) /\ (Promised(t)' <=> Promised(t))
  BY PromiseStays
<1>2. IsFiniteSet(Promises) /\ Cardinality(Promises) \in Nat
  BY PromisesCount
<1>3. (Conclusive => IsFiniteSet(Promises) /\ Cardinality(Promises) \in Nat)'
  BY PromisesCount, PTL
<1>4. Due' = Due + 0 /\ Due \in Nat
  BY DEF Due, Handing
<1>5. Len(ring) \in Nat /\ Len(ring') \in Nat
  BY DEF Conclusive
<1>6. PICK P, Q : P = Promises /\ Q = Promises'
  OBVIOUS
<1>7. /\ P \subseteq Q => Cardinality(Q) >= Cardinality(P)
      /\ P \ {s} \subseteq Q => Cardinality(Q) + 1 >= Cardinality(P)
  <2>1. Receiver \notin P
    BY <1>6, ReceiverIsNoSender DEF Promises
  <2>2. QED
    BY <1>2, <1>3, <1>6, <2>1, Balances
<1>8. P \ {s} \subseteq Q /\ (Promised(s)' => s \in Q) /\ (s \in P => Promised(s))
  BY <1>1, <1>6 DEF Promises
<1>9. CASE /\ Len(ring') = Len(ring)
           /\ Promised(s) => Promised(s)'
           /\ Waits(s)' => Waits(s)
  <2>1. P \subseteq Q
    BY <1>8, <1>9
  <2>2. Cardinality(Promises') >= Cardinality(Promises) + 0 /\ Len(ring') = Len(ring) - 0
    BY <1>2, <1>3, <1>5, <1>6, <1>7, <1>9, <2>1
  <2>3. (\E x \in Senders : Waits(x)') => (\E x \in Senders : Waits(x))
    BY <1>1, <1>9
  <2>4. PICK d \in Int, r \in Int, p \in Int : d = 0 /\ r = 0 /\ p = 0
    OBVIOUS
  <2>5. /\ (misspent => misspent') /\ (departed => departed')
        /\ Due' = Due + d /\ Len(ring') = Len(ring) - r /\ d + p >= r
        /\ Cardinality(Promises') >= Cardinality(Promises) + p
    BY <1>4, <2>2, <2>4
  <2>6. QED
    BY <2>3, <2>5, EnoughBalances
<1>10. CASE Len(ring') = Len(ring) + 1 /\ ~Waits(s)'
  <2>1. Cardinality(Promises') >= Cardinality(Promises) + (-1) /\ Len(ring') = Len(ring) - (-1)
    BY <1>2, <1>3, <1>5, <1>6, <1>7, <1>8, <1>10
  <2>2. (\E x \in Senders : Waits(x)') => (\E x \in Senders : Waits(x))
    BY <1>1, <1>10
  <2>3. PICK d \in Int, r \in Int, p \in Int : d = 0 /\ r = -1 /\ p = -1
    OBVIOUS
  <2>4. /\ (misspent => misspent') /\ (departed => departed')
        /\ Due' = Due + d /\ Len(ring') = Len(ring) - r /\ d + p >= r
        /\ Cardinality(Promises') >= Cardinality(Promises) + p
    BY <1>4, <2>1, <2>3
  <2>5. QED
    BY <2>2, <2>4, EnoughBalances
<1>11. CASE Len(ring') >= Capacity
  <2>1. Due' + Cardinality(Promises') >= Capacity - Len(ring')
    BY <1>2, <1>3, <1>4, <1>5, <1>11, MailboxConstants
  <2>2. QED
    BY <2>1 DEF Enough
<1>12. QED
  BY <1>9, <1>10, <1>11

(* The steps of a sender that leave the list alone.                        *)
LEMMA PlainEnough ==
  ASSUME Enough, Handing, Conclusive, Conclusive', Registered, NEW s \in Senders,
         \/ Begin(s) \/ Check(s) \/ Push(s) \/ Write(s) \/ Announce(s) \/ Ring(s) \/ Recheck(s)
         \/ GiveUp(s) \/ DropHandle(s) \/ LastOut(s)
  PROVE  Enough'
<1>1. UNCHANGED <<w, ticket, notified, waking, freed, rpc, owed, departed, misspent>>
  BY DEF Begin, Check, Push, Write, Announce, Ring, Recheck, GiveUp, DropHandle, LastOut,
     shared, receiver
<1>2. CASE departed
  BY <1>1, <1>2 DEF Enough
<1>3. CASE ~departed
  <2>1. PICK pc : spc' = [spc EXCEPT ![s] = pc]
    BY DEF Begin, Check, Push, Write, Announce, Ring, Recheck, GiveUp, DropHandle, LastOut,
       Decided, Goto
  <2>2. \A t \in Senders : spc'[t] = IF t = s THEN pc ELSE spc[t]
    BY <2>1 DEF Conclusive
  <2>3. \A t \in Senders : t # s =>
          /\ spc'[t] = spc[t] /\ ticket'[t] = ticket[t] /\ notified'[t] = notified[t]
          /\ Live(w', ticket[t]) <=> Live(w, ticket[t])
    BY <1>1, <2>2
  <2>4. ASSUME spc[s] \notin {"pass", "check", "push", "recheck", "asleep"},
               spc'[s] \notin {"recheck", "asleep"}
        PROVE  ~Promised(s) /\ ~Waits(s)'
    BY <2>4 DEF Promised, Waits
  <2>5. ASSUME Begin(s) \/ Announce(s) \/ Ring(s) \/ GiveUp(s) \/ DropHandle(s) \/ LastOut(s)
        PROVE  Enough'
    <3>1. ring' = ring
      BY <2>5 DEF Begin, Announce, Ring, GiveUp, DropHandle, LastOut, shared
    <3>2. /\ spc[s] \in {"idle", "announce", "ring", "park", "last"}
          /\ pc \in {"idle", "check", "ring", "finish", "last"}
      BY <2>1, <2>5 DEF Begin, Announce, Ring, GiveUp, DropHandle, LastOut, Decided, Goto, Conclusive
    <3>3. QED
      BY <1>1, <2>2, <2>3, <2>4, <3>1, <3>2, SenderEnough
  <2>6. ASSUME Write(s) PROVE Enough'
    <3>1. spc[s] = "write" /\ pc = "announce" /\ Len(ring') = Len(ring)
      BY <2>1, <2>6 DEF Write, Goto, Conclusive
    <3>2. QED
      BY <1>1, <2>2, <2>3, <2>4, <3>1, SenderEnough
  <2>7. ASSUME Check(s) PROVE Enough'
    <3>1. spc[s] = "check" /\ spc'[s] = "push" /\ ring' = ring
      BY <1>3, <2>7 DEF Check, Goto, Conclusive, shared
    <3>2. (Promised(s) => Promised(s)') /\ ~Waits(s)'
      BY <1>1, <3>1 DEF Promised, Waits
    <3>3. QED
      BY <1>1, <2>3, <3>1, <3>2, SenderEnough
  <2>8. ASSUME Recheck(s) PROVE Enough'
    <3>1. /\ spc[s] = "recheck" /\ ring' = ring
          /\ spc'[s] = IF ticket[s] = NoTicket THEN "park" ELSE "asleep"
      BY <1>3, <2>8 DEF Recheck, Goto, Conclusive, shared
    <3>2. (Promised(s) => Promised(s)') /\ (Waits(s)' => Waits(s))
      BY <1>1, <3>1 DEF Promised, Waits
    <3>3. QED
      BY <1>1, <2>3, <3>1, <3>2, SenderEnough
  <2>9. ASSUME Push(s) PROVE Enough'
    <3>1. CASE Len(ring) < Capacity
      <4>1. spc'[s] = "write" /\ Len(ring') = Len(ring) + 1
        BY <2>9, <3>1 DEF Push, Goto, Conclusive
      <4>2. ~Waits(s)'
        BY <4>1 DEF Waits
      <4>3. QED
        BY <1>1, <2>3, <4>1, <4>2, SenderEnough
    <3>2. CASE ~(Len(ring) < Capacity)
      <4>1. Len(ring') >= Capacity
        BY <2>9, <3>2, MailboxConstants DEF Push, Conclusive
      <4>2. QED
        BY <1>1, <2>3, <4>1, SenderEnough
    <3>3. QED
      BY <3>1, <3>2
  <2>10. QED
    BY <2>5, <2>6, <2>7, <2>8, <2>9
<1>4. QED
  BY <1>2, <1>3

(* The steps of a sender that register it, name it again, or end its       *)
(* registration: a dropped send that had been woken keeps its promise.     *)
LEMMA ListEnough ==
  ASSUME Enough, Handing, Conclusive, Conclusive', Registered, NEW s \in Senders,
         ParkSender(s) \/ Poll(s) \/ Finish(s) \/ Abandon(s)
  PROVE  Enough'
<1>1. /\ UNCHANGED <<ring, waking, freed, rpc, owed, departed, misspent>>
      /\ spc \in [Senders -> SenderStages]
  BY DEF ParkSender, Poll, Finish, Abandon, shared, receiver, Conclusive
<1>2. /\ Sound(w) /\ Owned(w, ticket, w.next_generation) /\ ticket \in [Senders -> Tickets]
      /\ notified \in [Senders -> BOOLEAN]
  BY DEF Registered, Owned, Senders, Handing
<1>3. CASE Poll(s)
  <2>1. /\ w' = w /\ ticket' = ticket /\ spc[s] = "asleep"
        /\ spc' = [spc EXCEPT ![s] = "check"] /\ notified' = [notified EXCEPT ![s] = FALSE]
    BY <1>3, PollKeepsList DEF Poll, Goto
  <2>2. \A t \in Senders : t # s => spc'[t] = spc[t] /\ notified'[t] = notified[t]
    BY <1>1, <1>2, <2>1
  <2>3. spc'[s] = "check"
    BY <1>1, <2>1
  <2>4. (Promised(s) => Promised(s)') /\ ~Waits(s)'
    BY <2>1, <2>3 DEF Promised, Waits
  <2>5. QED
    BY <1>1, <2>1, <2>2, <2>4, SenderEnough
<1>4. CASE ParkSender(s)
  <2>1. /\ spc[s] = "park" /\ notified' = notified /\ ~Promised(s)
    BY <1>4 DEF ParkSender, Promised
  <2>2. CASE w.closed
    <3>1. w' = w /\ ticket' = ticket /\ spc' = [spc EXCEPT ![s] = "idle"]
      BY <1>4, <2>2 DEF ParkSender, Goto
    <3>2. \A t \in Senders : spc'[t] = IF t = s THEN "idle" ELSE spc[t]
      BY <1>1, <3>1
    <3>3. ~Waits(s)'
      BY <3>2 DEF Waits
    <3>4. QED
      BY <1>1, <2>1, <3>1, <3>2, <3>3, SenderEnough
  <2>3. CASE ~w.closed
    <3>1. /\ ticket' = [ticket EXCEPT ![s] = ParkTicket(w)] /\ spc' = [spc EXCEPT ![s] = "check"]
      BY <1>4, <2>3 DEF ParkSender, Goto
    <3>2. \A t \in Senders : Live(w', ticket[t]) <=> Live(w, ticket[t])
      BY <1>4, RegisteredPark
    <3>3. \A t \in Senders : t # s => spc'[t] = spc[t] /\ ticket'[t] = ticket[t]
      BY <1>1, <1>2, <3>1
    <3>4. spc'[s] = "check"
      BY <1>1, <3>1
    <3>5. ~Waits(s)'
      BY <3>4 DEF Waits
    <3>6. QED
      BY <1>1, <2>1, <3>2, <3>3, <3>5, SenderEnough
  <2>4. QED
    BY <2>2, <2>3
<1>5. CASE Finish(s) \/ Abandon(s)
  <2>1. notified' = notified
    BY <1>5 DEF Finish, Abandon
  <2>2. \A t \in Senders : t # s =>
          ticket'[t] = ticket[t] /\ (Live(w', ticket[t]) <=> Live(w, ticket[t]))
    BY <1>5, RegisteredEnds
  <2>3. CASE Finish(s)
    <3>1. spc[s] = "finish" /\ spc' = [spc EXCEPT ![s] = "idle"]
      BY <2>3 DEF Finish, Goto
    <3>2. \A t \in Senders : spc'[t] = IF t = s THEN "idle" ELSE spc[t]
      BY <1>1, <3>1
    <3>3. ~Promised(s) /\ ~Waits(s)'
      BY <3>1, <3>2 DEF Promised, Waits
    <3>4. QED
      BY <1>1, <2>1, <2>2, <3>2, <3>3, SenderEnough
  <2>4. CASE Abandon(s)
    <3>1. spc[s] = "asleep" /\ spc' = [spc EXCEPT ![s] = IF Live(w, ticket[s]) THEN "idle" ELSE "pass"]
      BY <2>4 DEF Abandon, Goto
    <3>2. \A t \in Senders : spc'[t] = IF t = s THEN (IF Live(w, ticket[s]) THEN "idle" ELSE "pass")
                                       ELSE spc[t]
      BY <1>1, <3>1
    <3>3. (Promised(s) => Promised(s)') /\ ~Waits(s)'
      BY <3>1, <3>2 DEF Promised, Waits
    <3>4. QED
      BY <1>1, <2>1, <2>2, <3>2, <3>3, SenderEnough
  <2>5. QED
    BY <1>5, <2>3, <2>4
<1>6. QED
  BY <1>3, <1>4, <1>5

(* wake_one: the promise goes from the caller to the sender it takes out   *)
(* of the list, unless nobody is there or that sender got in already.      *)
LEMMA TakingPromises ==
  ASSUME Handing, Conclusive, Registered, NEW c \in Callers, TakeOne(c), waking[c] = {},
         ticket' = ticket, notified' = notified, NEW gone \in SUBSET Senders,
         \A t \in Senders : t \in gone => Promised(t) /\ ticket[t] = NoTicket /\ ~Waits(t)',
         \A t \in Senders : t \notin gone => spc'[t] = spc[t]
  PROVE  \/ \A u \in Tickets : ~Live(w', u)
         \/ misspent'
         \/ /\ \A t \in Senders : Waits(t)' => Waits(t)
            /\ \E t \in Senders : t \notin Promises /\ (Promises \ gone) \cup {t} \subseteq Promises'
<1>1. /\ w' = WakeOne(w) /\ waking' = [waking EXCEPT ![c] = {Woken(w)} \ {NoWaker}]
      /\ misspent' = (misspent \/ \E s \in Senders :
            s = Woken(w) /\ spc[s] \in {"write", "announce", "ring", "finish"})
  BY DEF TakeOne
<1>2. \/ \A u \in Tickets : ~Live(w', u)
      \/ /\ Woken(w) \in Senders /\ Woken(w) # NoWaker
         /\ Live(w, ticket[Woken(w)]) /\ ~Live(w', ticket[Woken(w)]) /\ ticket[Woken(w)] # NoTicket
         /\ \A r \in Senders : r # Woken(w) => (Live(w', ticket[r]) <=> Live(w, ticket[r]))
  BY <1>1, RegisteredTakes
<1>3. ASSUME ~misspent', NEW z \in Senders, z = Woken(w), z # NoWaker,
             Live(w, ticket[z]), ~Live(w', ticket[z]), ticket[z] # NoTicket,
             \A r \in Senders : r # z => (Live(w', ticket[r]) <=> Live(w, ticket[r]))
      PROVE  /\ \A t \in Senders : Waits(t)' => Waits(t)
             /\ \E t \in Senders : t \notin Promises /\ (Promises \ gone) \cup {t} \subseteq Promises'
  <2>1. z \notin gone /\ spc'[z] = spc[z]
    BY <1>3
  <2>2. spc[z] \in {"check", "push", "recheck", "asleep"}
    <3>1. spc[z] \notin Unregistered /\ spc[z] \in SenderStages
      BY <1>3 DEF Registered, Conclusive
    <3>2. spc[z] \notin {"write", "announce", "ring", "finish"}
      BY <1>1, <1>3
    <3>3. QED
      BY <3>1, <3>2 DEF Unregistered, SenderStages
  <2>3. z \notin Promises
    BY <1>3, <2>2 DEF Promises, Promised
  <2>4. z \in waking'[c] /\ \A d \in Callers : waking[d] \subseteq waking'[d]
    BY <1>1, <1>3 DEF Handing
  <2>5. Promised(z)'
    BY <1>3, <2>1, <2>2, <2>4 DEF Promised, Callers
  <2>6. ASSUME NEW t \in Senders, t # z, t \notin gone
        PROVE  (Promised(t) => Promised(t)') /\ (Waits(t)' => Waits(t))
    <3>1. /\ Live(w', ticket[t]) <=> Live(w, ticket[t])
          /\ spc'[t] = spc[t] /\ ticket'[t] = ticket[t] /\ notified'[t] = notified[t]
      BY <1>3, <2>6
    <3>2. (\E d \in Callers : t \in waking[d]) => \E d \in Callers : t \in waking'[d]
      BY <2>4
    <3>3. QED
      BY <3>1, <3>2, PromiseStays
  <2>7. ~Waits(z)'
    BY <1>3 DEF Waits
  <2>8. \A t \in Senders : Waits(t)' => Waits(t)
    BY <2>6, <2>7
  <2>9. (Promises \ gone) \cup {z} \subseteq Promises'
    BY <2>5, <2>6 DEF Promises
  <2>10. QED
    BY <2>3, <2>8, <2>9
<1>4. QED
  BY <1>2, <1>3

(* Using the wakers in hand keeps every promise: who was in a caller's     *)
(* hands is notified.                                                      *)
LEMMA UsingEnough ==
  ASSUME Enough, Handing, Conclusive, Conclusive', NEW c \in Callers, UseWakers(c),
         UNCHANGED <<w, ticket, ring, departed, misspent>>, Due' = Due,
         \A t \in Senders : spc'[t] = spc[t] \/ (spc[t] = "wake" /\ spc'[t] = "idle")
  PROVE  Enough'
<1>1. /\ notified' = [t \in Senders |-> notified[t] \/ t \in waking[c]]
      /\ waking' = [waking EXCEPT ![c] = {}] /\ waking \in [Callers -> SUBSET Senders]
      /\ notified \in [Senders -> BOOLEAN]
  BY DEF UseWakers, Handing
<1>2. ASSUME NEW t \in Senders PROVE (Promised(t) => Promised(t)') /\ (Waits(t)' => Waits(t))
  <2>1. CASE spc'[t] = spc[t]
    <3>1. /\ notified[t] => notified'[t]
          /\ (\E d \in Callers : t \in waking[d]) => (notified'[t] \/ \E d \in Callers : t \in waking'[d])
      BY <1>1
    <3>2. QED
      BY <2>1, <3>1, PromiseStays
  <2>2. CASE spc[t] = "wake" /\ spc'[t] = "idle"
    BY <2>2 DEF Promised, Waits
  <2>3. QED
    BY <2>1, <2>2
<1>3. IsFiniteSet(Promises) /\ Cardinality(Promises) \in Nat
  BY PromisesCount
<1>4. (Conclusive => IsFiniteSet(Promises) /\ Cardinality(Promises) \in Nat)'
  BY PromisesCount, PTL
<1>5. PICK P, Q : P = Promises /\ Q = Promises'
  OBVIOUS
<1>6. P \subseteq Q /\ Receiver \notin P
  BY <1>2, <1>5, ReceiverIsNoSender DEF Promises
<1>7. Cardinality(Q) >= Cardinality(P)
  BY <1>3, <1>4, <1>5, <1>6, Balances
<1>8. Due \in Nat /\ Len(ring) \in Nat
  BY DEF Due, Handing, Conclusive
<1>9. PICK d \in Int, r \in Int, p \in Int : d = 0 /\ r = 0 /\ p = 0
  OBVIOUS
<1>10. /\ (misspent => misspent') /\ (departed => departed')
       /\ Due' = Due + d /\ Len(ring') = Len(ring) - r /\ d + p >= r
       /\ Cardinality(Promises') >= Cardinality(Promises) + p
  BY <1>3, <1>4, <1>5, <1>7, <1>8, <1>9
<1>11. QED
  BY <1>2, <1>10, EnoughBalances

(* Passing a wake on: the promise moves to the next in line.               *)
LEMMA PassEnough ==
  ASSUME Enough, Handing, Conclusive, Conclusive', Registered, Registered', NEW s \in Senders,
         Pass(s) \/ PassWake(s)
  PROVE  Enough'
<1>1. /\ UNCHANGED <<ring, ticket, departed, freed, rpc, owed>> /\ s \in Callers
      /\ spc \in [Senders -> SenderStages] /\ Due' = Due /\ Due \in Nat
  BY DEF Pass, PassWake, shared, receiver, Callers, Conclusive, Due, Handing
<1>2. CASE PassWake(s)
  <2>1. /\ UseWakers(s) /\ spc[s] = "wake" /\ spc' = [spc EXCEPT ![s] = "idle"]
        /\ UNCHANGED <<w, misspent>>
    BY <1>2 DEF PassWake, Goto
  <2>2. \A t \in Senders : spc'[t] = spc[t] \/ (spc[t] = "wake" /\ spc'[t] = "idle")
    BY <1>1, <2>1
  <2>3. QED
    BY <1>1, <2>1, <2>2, UsingEnough
<1>3. CASE Pass(s)
  <2>1. PICK pc \in {"idle", "wake"} :
          TakeOne(s) /\ spc[s] = "pass" /\ spc' = [spc EXCEPT ![s] = pc] /\ notified' = notified
    BY <1>3 DEF Pass, Goto
  <2>2. waking[s] = {} /\ ticket[s] = NoTicket /\ Promised(s)
    BY <2>1 DEF Handing, Registered, Unregistered, Promised
  <2>3. \A t \in Senders : spc'[t] = IF t = s THEN pc ELSE spc[t]
    BY <1>1, <2>1
  <2>4. ~Waits(s)'
    BY <2>3 DEF Waits
  <2>5. PICK gone \in SUBSET Senders : gone = {s}
    OBVIOUS
  <2>6. \/ \A u \in Tickets : ~Live(w', u)
        \/ misspent'
        \/ /\ \A t \in Senders : Waits(t)' => Waits(t)
           /\ \E t \in Senders : t \notin Promises /\ (Promises \ gone) \cup {t} \subseteq Promises'
    BY <1>1, <2>1, <2>2, <2>3, <2>4, <2>5, TakingPromises
  <2>7. CASE \A u \in Tickets : ~Live(w', u)
    BY <1>1, <2>7, NobodyWaits DEF Registered, Owned, Senders
  <2>8. CASE misspent'
    BY <2>8 DEF Enough
  <2>9. CASE /\ \A t \in Senders : Waits(t)' => Waits(t)
             /\ \E t \in Senders : t \notin Promises /\ (Promises \ gone) \cup {t} \subseteq Promises'
    <3>1. IsFiniteSet(Promises) /\ Cardinality(Promises) \in Nat
      BY PromisesCount
    <3>2. (Conclusive => IsFiniteSet(Promises) /\ Cardinality(Promises) \in Nat)'
      BY PromisesCount, PTL
    <3>3. PICK P, Q : P = Promises /\ Q = Promises'
      OBVIOUS
    <3>4. PICK t \in Senders : t \notin P /\ (P \ {s}) \cup {t} \subseteq Q
      BY <2>5, <2>9, <3>3
    <3>5. Cardinality(Q) >= Cardinality(P)
      BY <3>1, <3>2, <3>3, <3>4, Balances
    <3>6. PICK d \in Int, r \in Int, p \in Int : d = 0 /\ r = 0 /\ p = 0
      OBVIOUS
    <3>7. misspent => misspent'
      BY <2>1 DEF TakeOne
    <3>8. /\ (departed => departed') /\ Due' = Due + d /\ Len(ring') = Len(ring) - r /\ d + p >= r
          /\ Cardinality(Promises') >= Cardinality(Promises) + p
      <4>1. Len(ring) \in Nat
        BY DEF Conclusive
      <4>2. QED
        BY <1>1, <3>1, <3>2, <3>3, <3>5, <3>6, <4>1
    <3>9. QED
      BY <2>9, <3>7, <3>8, EnoughBalances
  <2>10. QED
    BY <2>6, <2>7, <2>8, <2>9
<1>4. QED
  BY <1>2, <1>3

(* Every step of a sender keeps enough wakes under way.                    *)
LEMMA SendersEnough ==
  ASSUME Enough, Handing, Conclusive, Conclusive', Registered, Registered', NEW s \in Senders,
         SenderStep(s) \/ SenderChoice(s)
  PROVE  Enough'
<1>1. ASSUME NEW t \in Senders, Clone(s, t) PROVE Enough'
  <2>1. UNCHANGED <<w, spc, ticket, notified, waking, ring, freed, rpc, owed, departed, misspent>>
    BY <1>1 DEF Clone, receiver
  <2>2. /\ (Promised(s) <=> Promised(s)') /\ (Waits(s)' <=> Waits(s))
    BY <2>1 DEF Promised, Waits
  <2>3. QED
    BY <2>1, <2>2, SenderEnough
<1>2. QED
  BY <1>1, PlainEnough, ListEnough, PassEnough DEF SenderStep, SenderChoice

(* The receiver moves on without taking a waker: every place it frees is   *)
(* due, and what it gives up is owed to nobody.                            *)
LEMMA DueEnough ==
  ASSUME Enough, Handing, Conclusive, Conclusive', NEW d \in Int,
         UNCHANGED <<w, spc, ticket, notified, waking, departed, misspent>>,
         Due' = Due + d, Len(ring') = Len(ring) - d
  PROVE  Enough'
<1>1. \A t \in Senders : (Promised(t)' <=> Promised(t)) /\ (Waits(t)' <=> Waits(t))
  BY PromiseStays
<1>2. Promises' = Promises
  BY <1>1 DEF Promises
<1>3. Cardinality(Promises) \in Nat
  BY PromisesCount
<1>4. PICK p \in Int : p = 0
  OBVIOUS
<1>5. /\ (misspent => misspent') /\ (departed => departed') /\ d + p >= d
      /\ Cardinality(Promises') >= Cardinality(Promises) + p
  BY <1>2, <1>3, <1>4
<1>6. QED
  BY <1>1, <1>5, EnoughBalances

(* Every step of the receiver keeps enough wakes under way: a drain that   *)
(* frees a place owes a wake, and stops owing it only if nobody is parked. *)
LEMMA ReceiverEnough ==
  ASSUME Enough, Handing, Conclusive, Conclusive', Registered, Registered', Listening,
         Departing, Departing', ReceiverStep \/ PollAgain \/ Depart
  PROVE  Enough'
<1>1. /\ ret \in {"idle", "closed", "done"} /\ freed \in Nat /\ owed \in Nat
      /\ Due \in Nat /\ Len(ring) \in Nat
  BY DEF Listening, Handing, Due, Conclusive
<1>2. CASE departed'
  BY <1>2 DEF Enough
<1>3. CASE /\ UNCHANGED <<w, spc, ticket, notified, waking, departed, misspent>>
           /\ \/ Due' = Due /\ ring' = ring
              \/ Due' = Due + 1 /\ HasItem /\ ring' = Tail(ring)
  <2>1. PICK d \in Int : Due' = Due + d /\ Len(ring') = Len(ring) - d
    <3>1. CASE Due' = Due /\ ring' = ring
      <4>1. Due' = Due + 0 /\ Len(ring') = Len(ring) - 0
        BY <1>1, <3>1
      <4>2. QED
        BY <4>1
    <3>2. CASE Due' = Due + 1 /\ HasItem /\ ring' = Tail(ring)
      <4>1. ring \in Seq(Places) /\ ring # <<>>
        BY <3>2 DEF HasItem, Conclusive
      <4>2. Len(ring') = Len(ring) - 1
        BY <3>2, <4>1
      <4>3. QED
        BY <3>2, <4>2
    <3>3. QED
      BY <1>3, <3>1, <3>2
  <2>2. QED
    BY <1>3, <2>1, DueEnough
<1>4. CASE PollRecv \/ StopDraining \/ LoadClosed \/ Register \/ ParkReceiver
  <2>1. UNCHANGED <<w, spc, ticket, notified, waking, departed, misspent>>
    BY <1>4 DEF PollRecv, StopDraining, LoadClosed, Register, ParkReceiver, sender, shared
  <2>2. \/ Due' = Due /\ ring' = ring
        \/ Due' = Due + 1 /\ HasItem /\ ring' = Tail(ring)
    BY <1>1, <1>4 DEF PollRecv, StopDraining, LoadClosed, Register, ParkReceiver, Take, Due, shared
  <2>3. QED
    BY <1>3, <2>1, <2>2
<1>5. CASE Look \/ TryRecv \/ TryTake \/ PollAgain
  <2>1. UNCHANGED <<w, spc, ticket, notified, waking, departed, misspent>>
    BY <1>5 DEF Look, TryRecv, TryTake, PollAgain, sender, shared
  <2>2. \/ Due' = Due /\ ring' = ring
        \/ Due' = Due + 1 /\ HasItem /\ ring' = Tail(ring)
    BY <1>1, <1>5 DEF Look, TryRecv, TryTake, PollAgain, Take, Due, shared
  <2>3. QED
    BY <1>3, <2>1, <2>2
<1>6. CASE Release
  <2>1. /\ rpc = "release" /\ freed' = 0
        /\ UNCHANGED <<ring, w, spc, ticket, notified, waking, departed, misspent>>
        /\ IF freed = 0 \/ w.waiting = 0 THEN rpc' = ret /\ owed' = owed
           ELSE rpc' = "handing" /\ owed' = freed
    BY <1>6 DEF Release, sender, shared
  <2>2. CASE freed # 0 /\ w.waiting = 0
    <3>1. \A u \in Tickets : ~Live(w, u)
      BY <2>2, NobodyWaiting DEF Registered, Sound
    <3>2. QED
      BY <2>1, <3>1, NobodyWaits DEF Registered, Owned, Senders
  <2>3. CASE freed = 0
    <3>1. Due' = Due
      BY <1>1, <2>1, <2>3 DEF Due
    <3>2. QED
      BY <1>3, <2>1, <3>1
  <2>4. CASE freed # 0 /\ w.waiting # 0
    <3>1. Due' = Due
      BY <1>1, <2>1, <2>4 DEF Due
    <3>2. QED
      BY <1>3, <2>1, <3>1
  <2>5. QED
    BY <2>2, <2>3, <2>4
<1>7. CASE WakeSender
  <2>1. /\ UseWakers(Receiver) /\ rpc = "wake" /\ rpc' = IF owed = 0 THEN ret ELSE "handing"
        /\ UNCHANGED <<w, ticket, ring, departed, misspent, spc, freed, owed>>
    BY <1>7 DEF WakeSender, sender, shared
  <2>2. Due' = Due /\ Receiver \in Callers
    BY <1>1, <2>1 DEF Due, Callers
  <2>3. QED
    BY <2>1, <2>2, UsingEnough
<1>8. CASE HandOut
  <2>1. /\ TakeOne(Receiver) /\ rpc = "handing" /\ Receiver \in Callers
        /\ UNCHANGED <<ring, departed, spc, ticket, notified, freed>>
        /\ IF Woken(w) = NoWaker THEN rpc' = ret /\ owed' = 0 ELSE rpc' = "wake" /\ owed' = owed - 1
    BY <1>8 DEF HandOut, sender, shared, Callers
  <2>2. waking[Receiver] = {}
    BY <2>1 DEF Handing
  <2>3. PICK gone \in SUBSET Senders : gone = {}
    OBVIOUS
  <2>4. \/ \A u \in Tickets : ~Live(w', u)
        \/ misspent'
        \/ /\ \A t \in Senders : Waits(t)' => Waits(t)
           /\ \E t \in Senders : t \notin Promises /\ (Promises \ gone) \cup {t} \subseteq Promises'
    BY <2>1, <2>2, <2>3, TakingPromises
  <2>5. CASE \A u \in Tickets : ~Live(w', u)
    BY <2>1, <2>5, NobodyWaits DEF Registered, Owned, Senders
  <2>6. CASE misspent'
    BY <2>6 DEF Enough
  <2>7. CASE /\ ~ \A u \in Tickets : ~Live(w', u)
             /\ \A t \in Senders : Waits(t)' => Waits(t)
             /\ \E t \in Senders : t \notin Promises /\ (Promises \ gone) \cup {t} \subseteq Promises'
    <3>1. Woken(w) # NoWaker
      BY <2>1, <2>7, RegisteredTakes DEF TakeOne
    <3>2. IsFiniteSet(Promises) /\ Cardinality(Promises) \in Nat
      BY PromisesCount
    <3>3. (Conclusive => IsFiniteSet(Promises) /\ Cardinality(Promises) \in Nat)'
      BY PromisesCount, PTL
    <3>4. PICK P, Q : P = Promises /\ Q = Promises'
      OBVIOUS
    <3>5. PICK t \in Senders : t \notin P /\ P \cup {t} \subseteq Q
      BY <2>3, <2>7, <3>4
    <3>6. Cardinality(Q) >= Cardinality(P) + 1
      BY <3>2, <3>3, <3>4, <3>5, Balances
    <3>7. PICK d \in Int, r \in Int, p \in Int : d = -1 /\ r = 0 /\ p = 1
      OBVIOUS
    <3>8. misspent => misspent'
      BY <2>1 DEF TakeOne
    <3>9. Due' = Due + d
      BY <1>1, <2>1, <3>1, <3>7 DEF Due
    <3>10. /\ (departed => departed') /\ Len(ring') = Len(ring) - r /\ d + p >= r
           /\ Cardinality(Promises') >= Cardinality(Promises) + p
      BY <1>1, <2>1, <3>2, <3>3, <3>4, <3>6, <3>7
    <3>11. QED
      BY <2>7, <3>8, <3>9, <3>10, EnoughBalances
  <2>8. QED
    BY <2>4, <2>5, <2>6, <2>7
<1>9. CASE CloseWaiters \/ WakeAll \/ CloseBell \/ Depart
  <2>1. departed'
    BY <1>9 DEF CloseWaiters, WakeAll, CloseBell, Depart, Departing
  <2>2. QED
    BY <1>2, <2>1
<1>10. QED
  BY <1>4, <1>5, <1>6, <1>7, <1>8, <1>9 DEF ReceiverStep

(* A wake under way is one the property counts.                            *)
LEMMA EnoughMeans ==
  ASSUME Enough, Handing, Conclusive
  PROVE  RoomReachesTheNext
<1> SUFFICES ASSUME ~misspent, Len(ring) < Capacity, ~departed,
                    \E s \in Senders : spc[s] = "asleep" /\ Live(w, ticket[s])
             PROVE  freed > 0 \/ rpc = "handing" \/ \E s \in Senders : Granted(s)
  BY DEF RoomReachesTheNext, NoRoomStranded
<1>1. \E s \in Senders : Waits(s)
  BY DEF Waits
<1>2. Due + Cardinality(Promises) >= Capacity - Len(ring)
  BY <1>1 DEF Enough
<1>3. Cardinality(Promises) \in Nat /\ IsFiniteSet(Promises)
  BY PromisesCount
<1>4. Len(ring) \in Nat /\ Capacity \in Nat /\ freed \in Nat /\ owed \in Nat
  BY MailboxConstants DEF Conclusive, Handing
<1>5. freed > 0 \/ rpc \in {"handing", "wake"} \/ Cardinality(Promises) # 0
  BY <1>2, <1>3, <1>4 DEF Due
<1>6. ASSUME rpc = "wake" PROVE \E s \in Senders : Granted(s)
  <2>1. PICK s \in waking[Receiver] : s \in Senders
    BY <1>6 DEF Handing, Callers
  <2>2. QED
    BY <2>1 DEF Granted
<1>7. ASSUME Cardinality(Promises) # 0 PROVE \E s \in Senders : Granted(s)
  <2>1. PICK s \in Senders : Promised(s)
    BY <1>3, <1>7, FS_EmptySet DEF Promises
  <2>2. QED
    BY <2>1 DEF Promised, Granted, Callers
<1>8. QED
  BY <1>5, <1>6, <1>7

(* Room reaches the next in line, for any number of senders and any        *)
(* capacity: release_capacity's hand-out and the wakes that cancelled      *)
(* sends pass on leave no registered sender asleep beside a free place     *)
(* with no wake under way, unless a wake was spent on a sender that had    *)
(* pushed and not yet given up its registration.                           *)
THEOREM RoomAlwaysReachesTheNext == Spec => []RoomReachesTheNext
<1> DEFINE Inv == Conclusive /\ Listening /\ Departing /\ Registered /\ Handing /\ Enough
<1>1. Init => Inv
  <2> SUFFICES ASSUME Init PROVE Inv
    OBVIOUS
  <2>1. Departing
    BY DEF Init, Fresh, Departing
  <2>2. Conclusive /\ Listening /\ Registered /\ Handing
    BY ConclusiveInit, ListeningInit, RegisteredInit, HandingInit
  <2>3. \A s \in Senders : ~Waits(s)
    BY DEF Init, Waits
  <2>4. QED
    BY <2>1, <2>2, <2>3 DEF Enough
<1>2. Inv /\ [Next]_vars => Inv'
  <2> SUFFICES ASSUME Inv, [Next]_vars PROVE Inv'
    OBVIOUS
  <2>1. Conclusive' /\ Listening' /\ Registered' /\ Handing'
    BY ConclusiveStep, ListeningStep, RegisteredStep, HandingStep
  <2>2. CASE UNCHANGED vars
    BY <2>1, <2>2 DEF vars, sender, shared, receiver, Departing, Enough, Waits, Due, Promises,
       Promised
  <2>3. CASE \E s \in Senders : SenderStep(s) \/ SenderChoice(s)
    BY <2>1, <2>3, SenderDeparting, SendersEnough
  <2>4. CASE ReceiverStep \/ PollAgain \/ Depart
    BY <2>1, <2>4, ReceiverDeparting, ReceiverEnough
  <2>5. QED
    BY <2>2, <2>3, <2>4 DEF Next
<1>3. Inv => RoomReachesTheNext
  BY EnoughMeans
<1>4. QED
  BY <1>1, <1>2, <1>3, PTL DEF Spec

=============================================================================
