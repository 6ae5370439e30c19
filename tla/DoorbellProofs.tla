--------------------------- MODULE DoorbellProofs ---------------------------
(***************************************************************************)
(* Safety of the waker cell and the doorbell, for any number of notifiers  *)
(* and wakers.                                                             *)
(***************************************************************************)
EXTENDS Doorbell, TLAPS

(* Notifiers that moved the state out of WAITING and not yet back.         *)
Holds(n) == npc[n] \in {"take", "clear"}

Closing == {"closetake", "closeclear"}

(* The two bits tell who has the cell: the REGISTERING bit is the owner's  *)
(* between its two exchanges, the WAKING bit outside a registration is     *)
(* that of exactly one notifier or of the closing owner.                   *)
BitsAgree ==
  /\ registering <=> opc \in Registering
  /\ \A m, n \in Notifiers : Holds(m) /\ Holds(n) => m = n
  /\ \A n \in Notifiers : Holds(n) => wakingbit /\ ~registering /\ opc \notin Closing
  /\ opc \in Closing \cup {"honour", "swap"} => wakingbit
  /\ wakingbit /\ ~registering /\ opc \notin Closing => \E n \in Notifiers : Holds(n)

(* What the cell holds: a taker leaves it empty, a registration leaves the *)
(* owner's waker in it until somebody takes it to wake it.                 *)
CellAgrees ==
  /\ \A n \in Notifiers : npc[n] = "clear" => cell = NoWaker
  /\ opc = "closeclear" => cell = NoWaker
  /\ opc = "release" => cell = cur
  /\ opc \in {"test", "asleep"} /\ cur \notin notified =>
       \/ cell = cur
       \/ \E n \in Notifiers : npc[n] \in {"clear", "wake"} /\ held[n] = cur

(* The doorbell is closed only by an owner that is leaving.                *)
ClosedAgrees == closed => opc \in {"closeor", "closetake", "closeclear", "gone"}

DoorbellInv ==
  /\ TypeOK
  /\ BitsAgree
  /\ CellAgrees
  /\ ClosedAgrees
  /\ NoLostWake
  /\ CloseReleases

(* Every step keeps the types.                                             *)
LEMMA TypeStep == TypeOK /\ [Next]_vars => TypeOK'
<1> SUFFICES ASSUME TypeOK, [Next]_vars PROVE TypeOK'
  OBVIOUS
<1>1. ASSUME NEW n \in Notifiers, Notify(n) \/ NotifierStep(n) PROVE TypeOK'
  BY <1>1 DEF TypeOK, Notify, NotifierStep, RingBell, FetchOr, TakeWaker,
     FetchAnd, Wake, Goto, bits
<1>2. CASE OwnerStep
  BY <1>2 DEF TypeOK, OwnerStep, BeginPoll, Acquire, Store, Release, Honour,
     Swap, Deliver, Test, Awake, CloseOr, CloseTake, CloseClear, bits,
     OwnerStates, Registering
<1>3. CASE Close
  BY <1>3 DEF TypeOK, Close, bits, OwnerStates
<1>4. CASE UNCHANGED vars
  BY <1>4 DEF TypeOK, vars, bits
<1>5. QED
  BY <1>1, <1>2, <1>3, <1>4 DEF Next

(* A notifier's steps keep the invariant.                                  *)
LEMMA NotifierKeeps ==
  ASSUME DoorbellInv, TypeOK', NEW n \in Notifiers, Notify(n) \/ NotifierStep(n)
  PROVE  DoorbellInv'
<1> USE DoorbellConstants DEF Holds, Closing
<1>0. /\ TypeOK /\ npc \in [Notifiers -> {"idle", "ring", "or", "take", "clear", "wake"}]
      /\ held \in [Notifiers -> Wakers \cup {NoWaker}] /\ cur \in Wakers
  BY DEF DoorbellInv, TypeOK
<1>1. CASE Notify(n)
  <2>1. /\ npc' = [npc EXCEPT ![n] = "ring"] /\ npc[n] = "idle"
        /\ UNCHANGED <<registering, wakingbit, cell, closed, opc, cur, held, notified>>
    BY <1>1 DEF Notify, Goto, bits
  <2>2. BitsAgree' /\ CellAgrees' /\ ClosedAgrees' /\ CloseReleases' /\ NoLostWake'
    BY <1>0, <2>1 DEF DoorbellInv, BitsAgree, CellAgrees, ClosedAgrees,
       CloseReleases, NoLostWake, WakeUnderWay
  <2>3. QED
    BY <2>2 DEF DoorbellInv
<1>2. CASE RingBell(n)
  <2>1. /\ npc' = [npc EXCEPT ![n] = IF closed THEN "idle" ELSE "or"] /\ npc[n] = "ring"
        /\ UNCHANGED <<registering, wakingbit, cell, closed, signal, opc, cur, held, notified>>
    BY <1>2 DEF RingBell, Goto, bits
  <2>2. BitsAgree' /\ CellAgrees' /\ ClosedAgrees' /\ CloseReleases'
    BY <1>0, <2>1 DEF DoorbellInv, BitsAgree, CellAgrees, ClosedAgrees, CloseReleases
  <2>3. NoLostWake'
    BY <1>0, <2>1 DEF DoorbellInv, NoLostWake, WakeUnderWay, ClosedAgrees
  <2>4. QED
    BY <2>2, <2>3 DEF DoorbellInv
<1>3. CASE FetchOr(n)
  <2>1. /\ npc' = [npc EXCEPT ![n] = IF registering \/ wakingbit THEN "idle" ELSE "take"]
        /\ npc[n] = "or" /\ wakingbit' = TRUE
        /\ UNCHANGED <<registering, cell, closed, signal, opc, cur, held, notified>>
    BY <1>3 DEF FetchOr, Goto
  <2>2. BitsAgree'
    BY <1>0, <2>1 DEF DoorbellInv, BitsAgree
  <2>3. CellAgrees' /\ ClosedAgrees' /\ CloseReleases'
    BY <1>0, <2>1 DEF DoorbellInv, CellAgrees, ClosedAgrees, CloseReleases
  <2>4. NoLostWake'
    <3>1. SUFFICES ASSUME opc = "asleep", cur \notin notified, signal
                   PROVE  WakeUnderWay'
      BY <2>1 DEF NoLostWake
    <3>2. CASE ~registering /\ ~wakingbit
      BY <1>0, <2>1, <3>2 DEF WakeUnderWay
    <3>3. CASE registering \/ wakingbit
      <4>1. PICK m \in Notifiers : Holds(m)
        BY <3>1, <3>3 DEF DoorbellInv, BitsAgree, Registering
      <4>2. CASE npc[m] = "take"
        BY <1>0, <2>1, <4>2 DEF WakeUnderWay
      <4>3. CASE npc[m] = "clear"
        BY <1>0, <2>1, <3>1, <4>3 DEF DoorbellInv, CellAgrees, WakeUnderWay
      <4>4. QED
        BY <4>1, <4>2, <4>3
    <3>4. QED
      BY <3>2, <3>3
  <2>5. QED
    BY <2>2, <2>3, <2>4 DEF DoorbellInv
<1>4. CASE TakeWaker(n)
  <2>1. /\ npc' = [npc EXCEPT ![n] = "clear"] /\ npc[n] = "take"
        /\ held' = [held EXCEPT ![n] = cell] /\ cell' = NoWaker
        /\ UNCHANGED <<registering, wakingbit, closed, signal, opc, cur, notified>>
    BY <1>4 DEF TakeWaker, Goto, bits
  <2>2. BitsAgree' /\ ClosedAgrees' /\ CloseReleases'
    BY <1>0, <2>1 DEF DoorbellInv, BitsAgree, ClosedAgrees, CloseReleases
  <2>3. CellAgrees'
    BY <1>0, <2>1 DEF DoorbellInv, CellAgrees, BitsAgree, Registering
  <2>4. NoLostWake'
    BY <1>0, <2>1 DEF DoorbellInv, NoLostWake, WakeUnderWay, CellAgrees
  <2>5. QED
    BY <2>2, <2>3, <2>4 DEF DoorbellInv
<1>5. CASE FetchAnd(n)
  <2>1. /\ npc' = [npc EXCEPT ![n] = "wake"] /\ npc[n] = "clear" /\ wakingbit' = FALSE
        /\ UNCHANGED <<registering, cell, closed, signal, opc, cur, held, notified>>
    BY <1>5 DEF FetchAnd, Goto
  <2>2. BitsAgree'
    BY <1>0, <2>1 DEF DoorbellInv, BitsAgree, Registering
  <2>3. CellAgrees' /\ ClosedAgrees' /\ CloseReleases' /\ NoLostWake'
    BY <1>0, <2>1 DEF DoorbellInv, CellAgrees, ClosedAgrees, CloseReleases,
       NoLostWake, WakeUnderWay
  <2>4. QED
    BY <2>2, <2>3 DEF DoorbellInv
<1>6. CASE Wake(n)
  <2>1. /\ npc' = [npc EXCEPT ![n] = "idle"] /\ npc[n] = "wake"
        /\ held' = [held EXCEPT ![n] = NoWaker]
        /\ notified' = notified \cup ({held[n]} \ {NoWaker})
        /\ UNCHANGED <<registering, wakingbit, cell, closed, signal, opc, cur>>
    BY <1>6 DEF Wake, Goto, bits
  <2>2. BitsAgree' /\ ClosedAgrees' /\ CloseReleases'
    BY <1>0, <2>1 DEF DoorbellInv, BitsAgree, ClosedAgrees, CloseReleases
  <2>3. CellAgrees' /\ NoLostWake'
    BY <1>0, <2>1 DEF DoorbellInv, CellAgrees, NoLostWake, WakeUnderWay
  <2>4. QED
    BY <2>2, <2>3 DEF DoorbellInv
<1>7. QED
  BY <1>1, <1>2, <1>3, <1>4, <1>5, <1>6 DEF NotifierStep

(* The owner's steps, closing included, keep the invariant.                *)
LEMMA OwnerKeeps ==
  ASSUME DoorbellInv, TypeOK', OwnerStep \/ Close
  PROVE  DoorbellInv'
<1> USE DoorbellConstants DEF Holds, Closing
<1>0. /\ TypeOK /\ npc' = npc /\ held' = held
  BY DEF DoorbellInv, OwnerStep, BeginPoll, Acquire, Store, Release, Honour,
     Swap, Deliver, Test, Awake, Close, CloseOr, CloseTake, CloseClear
<1>1. BitsAgree'
  BY <1>0 DEF DoorbellInv, TypeOK, BitsAgree, Registering, OwnerStep, BeginPoll,
     Acquire, Store, Release, Honour, Swap, Deliver, Test, Awake, Close,
     CloseOr, CloseTake, CloseClear, bits
<1>2. CellAgrees'
  <2>1. CASE \E v \in Wakers : BeginPoll(v)
    BY <1>0, <2>1 DEF BeginPoll, DoorbellInv, CellAgrees, bits
  <2>2. CASE Acquire \/ Store \/ Release \/ Honour \/ Swap \/ Deliver
    BY <1>0, <2>2 DEF Acquire, Store, Release, Honour, Swap, Deliver,
       DoorbellInv, CellAgrees, BitsAgree, Registering, bits
  <2>3. CASE Test \/ Awake \/ Close \/ CloseOr \/ CloseTake \/ CloseClear
    BY <1>0, <2>3 DEF Test, Awake, Close, CloseOr, CloseTake, CloseClear,
       DoorbellInv, CellAgrees, BitsAgree, bits
  <2>4. QED
    BY <2>1, <2>2, <2>3 DEF OwnerStep
<1>3. ClosedAgrees' /\ NoLostWake'
  BY <1>0 DEF DoorbellInv, ClosedAgrees, NoLostWake, OwnerStep, BeginPoll,
     Acquire, Store, Release, Honour, Swap, Deliver, Test, Awake, Close,
     CloseOr, CloseTake, CloseClear, bits
<1>4. CloseReleases'
  BY <1>0 DEF DoorbellInv, CloseReleases, CellAgrees, BitsAgree, Registering,
     OwnerStep, BeginPoll, Acquire, Store, Release, Honour, Swap, Deliver,
     Test, Awake, Close, CloseOr, CloseTake, CloseClear, bits
<1>5. QED
  BY <1>1, <1>2, <1>3, <1>4 DEF DoorbellInv

(* The inductive invariant holds of every reachable state.                 *)
LEMMA DoorbellInvariant == Spec => []DoorbellInv
<1>1. Init => DoorbellInv
  BY DEF Init, DoorbellInv, TypeOK, BitsAgree, CellAgrees, ClosedAgrees,
     NoLostWake, CloseReleases, Registering, OwnerStates, Holds, Closing
<1>2. DoorbellInv /\ [Next]_vars => DoorbellInv'
  <2> SUFFICES ASSUME DoorbellInv, [Next]_vars PROVE DoorbellInv'
    OBVIOUS
  <2>1. TypeOK'
    BY TypeStep DEF DoorbellInv
  <2>2. CASE UNCHANGED vars
    BY <2>1, <2>2 DEF vars, bits, DoorbellInv, BitsAgree, CellAgrees,
       ClosedAgrees, NoLostWake, WakeUnderWay, CloseReleases, Holds
  <2>3. QED
    BY <2>1, <2>2, NotifierKeeps, OwnerKeeps DEF Next
<1>3. QED
  BY <1>1, <1>2, PTL DEF Spec

(* No ring is lost: an owner that registers before it tests never sleeps   *)
(* on a true predicate with nobody left to wake it.                        *)
THEOREM NoWakeIsLost == Spec => []NoLostWake
<1>1. DoorbellInv => NoLostWake
  BY DEF DoorbellInv
<1>2. QED
  BY <1>1, DoorbellInvariant, PTL

(* The waker cell of waker_slot.rs is never accessed by two threads at     *)
(* once, however many threads ring, which is what its unsafe blocks rely   *)
(* on; and closing leaves no waker behind, also when it races a ring.      *)
THEOREM CellAlwaysOwned == Spec => []CellIsOwned
<1>1. DoorbellInv => ExclusiveCell
  BY DEF DoorbellInv, BitsAgree, ExclusiveCell, OwnerInCell, Holds, Closing, Registering
<1>2. DoorbellInv => CloseReleases
  BY DEF DoorbellInv
<1>3. DoorbellInv => CellIsOwned
  BY <1>1, <1>2 DEF CellIsOwned
<1>4. QED
  BY <1>3, DoorbellInvariant, PTL

=============================================================================
