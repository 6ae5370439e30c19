------------------------------ MODULE Doorbell ------------------------------
(***************************************************************************)
(* How a sleeping shard is woken: the waker cell of                        *)
(* crates/grommet-core/src/waker_slot.rs under the doorbell of             *)
(* crates/grommet/src/doorbell.rs, one access to shared memory per step.   *)
(*                                                                         *)
(* The owner is the single registrar.  It follows the discipline           *)
(* doorbell.rs asks of it: register, then test the predicate it would      *)
(* sleep on, then sleep; and it closes the doorbell on its way out.  A     *)
(* notifier makes `signal` true and rings.  The predicate is whatever the  *)
(* user of the doorbell waits for (an item, a ready bit), here a flag the  *)
(* owner consumes.                                                         *)
(***************************************************************************)
EXTENDS Integers, FiniteSets

CONSTANTS
  Notifiers,   \* threads that ring
  Wakers,      \* the wakers the owner may register, one per poll
  NoWaker      \* Option::None

ASSUME DoorbellConstants == NoWaker \notin Wakers

VARIABLES
  registering,  \* the REGISTERING bit of WakerSlot::state
  wakingbit,    \* the WAKING bit of WakerSlot::state
  cell,         \* WakerSlot::waker
  closed,       \* Doorbell::closed
  signal,       \* the predicate the owner tests
  opc,          \* where the owner is
  cur,          \* the waker of the owner's current poll
  npc,          \* where each notifier is
  held,         \* the waker each notifier took out of the cell
  notified      \* wakers that were woken and not yet polled

bits == <<registering, wakingbit>>
vars == <<bits, cell, closed, signal, opc, cur, npc, held, notified>>

Init ==
  /\ registering = FALSE
  /\ wakingbit = FALSE
  /\ cell = NoWaker
  /\ closed = FALSE
  /\ signal = FALSE
  /\ opc = "idle"
  /\ cur \in Wakers
  /\ npc = [n \in Notifiers |-> "idle"]
  /\ held = [n \in Notifiers |-> NoWaker]
  /\ notified = {}

-----------------------------------------------------------------------------
(* The owner: WakerSlot::register, then the test.                          *)

(* The poll begins, with a waker that need not be the last one.            *)
BeginPoll(v) ==
  /\ opc = "idle"
  /\ cur' = v
  /\ notified' = notified \ {v}
  /\ opc' = "acquire"
  /\ UNCHANGED <<bits, cell, closed, signal, npc, held>>

Acquire_Declines ==
  /\ opc = "acquire"
  /\ ~registering
  /\ IF wakingbit
     THEN opc' = "test" /\ UNCHANGED registering
     ELSE opc' = "store" /\ registering' = TRUE
  /\ UNCHANGED <<wakingbit, cell, closed, signal, cur, npc, held, notified>>

(* compare_exchange(WAITING, REGISTERING), or the wake already in flight   *)
(* is delivered to the incoming waker.  With one registrar the exchange    *)
(* never finds REGISTERING.                                                *)
Acquire ==
  /\ opc = "acquire"
  /\ ~registering
  /\ IF wakingbit
     THEN /\ notified' = notified \cup {cur}
          /\ opc' = "test"
          /\ UNCHANGED registering
     ELSE /\ registering' = TRUE
          /\ opc' = "store"
          /\ UNCHANGED notified
  /\ UNCHANGED <<wakingbit, cell, closed, signal, cur, npc, held>>

(* The waker replaces whoever was there.                                   *)
Store ==
  /\ opc = "store"
  /\ cell' = cur
  /\ opc' = "release"
  /\ UNCHANGED <<bits, closed, signal, cur, npc, held, notified>>

(* compare_exchange(REGISTERING, WAITING) fails if a wake landed meanwhile.*)
Release ==
  /\ opc = "release"
  /\ registering' = wakingbit
  /\ opc' = IF wakingbit THEN "honour" ELSE "test"
  /\ UNCHANGED <<wakingbit, cell, closed, signal, cur, npc, held, notified>>

(* The registrar takes its own waker back, ...                             *)
Honour ==
  /\ opc = "honour"
  /\ cell' = NoWaker
  /\ opc' = "swap"
  /\ UNCHANGED <<bits, closed, signal, cur, npc, held, notified>>

(* ... gives up both bits, ...                                             *)
Swap ==
  /\ opc = "swap"
  /\ registering' = FALSE
  /\ wakingbit' = FALSE
  /\ opc' = "deliver"
  /\ UNCHANGED <<cell, closed, signal, cur, npc, held, notified>>

(* ... and wakes it on the notifier's behalf.                              *)
Deliver ==
  /\ opc = "deliver"
  /\ notified' = notified \cup {cur}
  /\ opc' = "test"
  /\ UNCHANGED <<bits, cell, closed, signal, cur, npc, held>>

(* The test: consume the signal and go on, or sleep.                       *)
Test ==
  /\ opc = "test"
  /\ signal' = FALSE
  /\ opc' = IF signal THEN "idle" ELSE "asleep"
  /\ UNCHANGED <<bits, cell, closed, cur, npc, held, notified>>

(* The task sleeps until the waker of its last poll is woken.              *)
Awake ==
  /\ opc = "asleep"
  /\ cur \in notified
  /\ opc' = "idle"
  /\ UNCHANGED <<bits, cell, closed, signal, cur, npc, held, notified>>

-----------------------------------------------------------------------------
(* The owner: Doorbell::close.                                             *)

Close ==
  /\ opc \in {"idle", "asleep"}
  /\ closed' = TRUE
  /\ opc' = "closeor"
  /\ UNCHANGED <<bits, cell, signal, cur, npc, held, notified>>

(* WakerSlot::take, as close calls it: the waker is dropped, not woken.    *)
CloseOr ==
  /\ opc = "closeor"
  /\ wakingbit' = TRUE
  /\ opc' = IF wakingbit THEN "gone" ELSE "closetake"
  /\ UNCHANGED <<registering, cell, closed, signal, cur, npc, held, notified>>

CloseTake ==
  /\ opc = "closetake"
  /\ cell' = NoWaker
  /\ opc' = "closeclear"
  /\ UNCHANGED <<bits, closed, signal, cur, npc, held, notified>>

CloseClear ==
  /\ opc = "closeclear"
  /\ wakingbit' = FALSE
  /\ opc' = "gone"
  /\ UNCHANGED <<registering, cell, closed, signal, cur, npc, held, notified>>

-----------------------------------------------------------------------------
(* A notifier: make the work visible, then Doorbell::ring.                 *)

Goto(n, pc) == npc' = [npc EXCEPT ![n] = pc]

Notify(n) ==
  /\ npc[n] = "idle"
  /\ signal' = TRUE
  /\ Goto(n, "ring")
  /\ UNCHANGED <<bits, cell, closed, opc, cur, held, notified>>

RingBell(n) ==
  /\ npc[n] = "ring"
  /\ Goto(n, IF closed THEN "idle" ELSE "or")
  /\ UNCHANGED <<bits, cell, closed, signal, opc, cur, held, notified>>

FetchOr_IgnoresState(n) ==
  /\ npc[n] = "or"
  /\ wakingbit' = TRUE
  /\ Goto(n, "take")
  /\ UNCHANGED <<registering, cell, closed, signal, opc, cur, held, notified>>

(* WakerSlot::take, fetch_or(WAKING): whoever moved the state out of       *)
(* WAITING has the cell; anyone else leaves the wake to the holder.        *)
FetchOr(n) ==
  /\ npc[n] = "or"
  /\ wakingbit' = TRUE
  /\ Goto(n, IF registering \/ wakingbit THEN "idle" ELSE "take")
  /\ UNCHANGED <<registering, cell, closed, signal, opc, cur, held, notified>>

TakeWaker(n) ==
  /\ npc[n] = "take"
  /\ held' = [held EXCEPT ![n] = cell]
  /\ cell' = NoWaker
  /\ Goto(n, "clear")
  /\ UNCHANGED <<bits, closed, signal, opc, cur, notified>>

(* fetch_and(!WAKING).                                                     *)
FetchAnd(n) ==
  /\ npc[n] = "clear"
  /\ wakingbit' = FALSE
  /\ Goto(n, "wake")
  /\ UNCHANGED <<registering, cell, closed, signal, opc, cur, held, notified>>

(* WakerSlot::wake.                                                        *)
Wake(n) ==
  /\ npc[n] = "wake"
  /\ notified' = notified \cup ({held[n]} \ {NoWaker})
  /\ held' = [held EXCEPT ![n] = NoWaker]
  /\ Goto(n, "idle")
  /\ UNCHANGED <<bits, cell, closed, signal, opc, cur>>

-----------------------------------------------------------------------------

OwnerStep ==
  \/ \E v \in Wakers : BeginPoll(v)
  \/ Acquire \/ Store \/ Release \/ Honour \/ Swap \/ Deliver \/ Test \/ Awake
  \/ CloseOr \/ CloseTake \/ CloseClear

NotifierStep(n) ==
  RingBell(n) \/ FetchOr(n) \/ TakeWaker(n) \/ FetchAnd(n) \/ Wake(n)

Next ==
  \/ OwnerStep
  \/ Close
  \/ \E n \in Notifiers : Notify(n) \/ NotifierStep(n)

(* A running thread goes on.  Nothing makes a notifier ring, or the owner  *)
(* close.                                                                  *)
Fairness ==
  /\ WF_vars(OwnerStep)
  /\ \A n \in Notifiers : WF_vars(NotifierStep(n))

Spec == Init /\ [][Next]_vars /\ Fairness

-----------------------------------------------------------------------------

Registering == {"store", "release", "honour", "swap"}
OwnerStates == Registering \cup {"idle", "acquire", "deliver", "test", "asleep",
                                 "closeor", "closetake", "closeclear", "gone"}

(* Every variable keeps its type; in particular only a real waker is ever  *)
(* woken.                                                                  *)
TypeOK ==
  /\ registering \in BOOLEAN
  /\ wakingbit \in BOOLEAN
  /\ cell \in Wakers \cup {NoWaker}
  /\ closed \in BOOLEAN
  /\ signal \in BOOLEAN
  /\ opc \in OwnerStates
  /\ cur \in Wakers
  /\ npc \in [Notifiers -> {"idle", "ring", "or", "take", "clear", "wake"}]
  /\ held \in [Notifiers -> Wakers \cup {NoWaker}]
  /\ notified \in SUBSET Wakers

OwnerInCell == opc \in {"store", "honour", "closetake"}

(* Somebody is on the way to wake the owner: has not yet looked at the     *)
(* cell, holds it, or carries the owner's waker.                           *)
WakeUnderWay ==
  \E n \in Notifiers :
    \/ npc[n] \in {"ring", "or", "take"}
    \/ npc[n] \in {"clear", "wake"} /\ held[n] = cur

(* The owner never sleeps on a signal: when it sleeps un-notified while    *)
(* the predicate is true, its wake is under way (doorbell.rs, "Registering *)
(* before the check").                                                     *)
NoLostWake == opc = "asleep" /\ cur \notin notified /\ signal => WakeUnderWay

ExclusiveCell ==
  /\ \A m, n \in Notifiers : npc[m] = "take" /\ npc[n] = "take" => m = n
  /\ OwnerInCell => \A n \in Notifiers : npc[n] # "take"

CloseReleases ==
  opc = "gone" /\ cell # NoWaker => \E n \in Notifiers : npc[n] = "take"

(* The cell has one owner at a time: it is never touched by two threads at *)
(* once, the invariant the unsafe blocks of waker_slot.rs rest on, and     *)
(* once the doorbell is closed it keeps no waker, except for a notifier    *)
(* that is about to take it out (Doorbell::close).                         *)
CellIsOwned == ExclusiveCell /\ CloseReleases

(* Every signal is consumed, unless the owner goes away.                   *)
SignalsAreSeen == signal ~> (~signal \/ closed)

=============================================================================
