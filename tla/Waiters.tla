------------------------------ MODULE Waiters ------------------------------
(***************************************************************************)
(* The wait list of crates/grommet/src/waiters.rs: the callers parked on a *)
(* full mailbox or an exhausted semaphore, in arrival order.  Everything   *)
(* the mutex protects is one record w, so each method that takes the lock  *)
(* is an operator from w to w, atomic in the modules that use it:          *)
(*                                                                         *)
(*   slots    registrations: the parked task, or NoWaker once it is over,  *)
(*            and the generation that tells its ticket from older ones     *)
(*   free     recycled slots, a stack                                      *)
(*   order    registration order, as tickets; entries outlive their        *)
(*            registrations as tombstones                                  *)
(*   next_generation, closed                                               *)
(*   waiting  the live count published for the gate that takes no lock     *)
(***************************************************************************)
EXTENDS Integers, Sequences, FiniteSets

CONSTANTS
  Tasks,         \* the tasks that may park
  NoWaker,       \* Option::None of a waker
  CompactFloor   \* the queue length below which compact does nothing (8)

ASSUME WaitersConstants ==
  /\ NoWaker \notin Tasks
  /\ CompactFloor \in Nat

NoTicket == [slot |-> 0, generation |-> 0]

Fresh == [slots |-> <<>>, free |-> <<>>, order |-> <<>>,
          next_generation |-> 0, closed |-> FALSE, waiting |-> 0]

(* Inner::live: whether a ticket still names a live registration.          *)
Live(w, t) ==
  /\ t.slot \in DOMAIN w.slots
  /\ w.slots[t.slot].generation = t.generation
  /\ w.slots[t.slot].waker # NoWaker

(* publish: the live count, recomputed from what the lock protects.        *)
Publish(w) == [w EXCEPT !.waiting = Len(w.slots) - Len(w.free)]

(* retire: end the live registration in a slot and recycle the slot.       *)
Retire(w, slot) ==
  [w EXCEPT !.slots[slot] = [waker |-> NoWaker, generation |-> @.generation + 1],
            !.free = Append(@, slot)]

LiveEntries(w) == {i \in DOMAIN w.order : Live(w, w.order[i])}

(* What is left of a queue if it retains the positions S: they move up to  *)
(* their rank among them.                                                  *)
Rank(S, i) == Cardinality({j \in S : j <= i})
Retained(queue, S) ==
  [k \in 1 .. Cardinality(S) |-> queue[CHOOSE i \in S : Rank(S, i) = k]]

Compact_KeepsTombstones(w) ==
  IF Len(w.order) <= CompactFloor \/ Len(w.order) < 2 * Len(w.free) THEN w
  ELSE [w EXCEPT !.order = Retained(@, DOMAIN @ \ LiveEntries(w))]

(* compact: drop the tombstones, once the queue is long enough.            *)
Compact(w) ==
  IF Len(w.order) <= CompactFloor \/ Len(w.order) < 2 * Len(w.free) THEN w
  ELSE [w EXCEPT !.order = Retained(@, LiveEntries(w))]

(* The slot a new registration takes, and its ticket.                      *)
ParkSlot(w) == IF w.free = <<>> THEN Len(w.slots) + 1 ELSE w.free[Len(w.free)]

ParkTicket(w) == [slot |-> ParkSlot(w), generation |-> w.next_generation]

(* park, on a list that is not closed.                                     *)
Park(w, task) ==
  LET reg == [waker |-> task, generation |-> w.next_generation]
  IN Publish(Compact(
       [w EXCEPT
          !.slots = IF w.free = <<>> THEN Append(@, reg)
                    ELSE [@ EXCEPT ![ParkSlot(w)] = reg],
          !.free = IF @ = <<>> THEN @ ELSE SubSeq(@, 1, Len(@) - 1),
          !.order = Append(@, ParkTicket(w)),
          !.next_generation = @ + 1]))

(* refresh: name the task to wake again; nothing if the registration is    *)
(* over.                                                                   *)
Refresh(w, t, task) ==
  IF Live(w, t) THEN [w EXCEPT !.slots[t.slot].waker = task] ELSE w

(* cancel: end a registration that is still live; otherwise nothing, and   *)
(* the caller learns that its wake was already sent.                       *)
Cancel(w, t) ==
  IF Live(w, t) THEN Publish(Compact(Retire(w, t.slot))) ELSE w

(* The entry wake_one stops at: the first that is not a tombstone.         *)
Oldest(w) == CHOOSE i \in LiveEntries(w) : \A j \in LiveEntries(w) : i <= j

(* The task wake_one wakes, NoWaker when nobody is parked.                 *)
Woken(w) ==
  IF LiveEntries(w) = {} THEN NoWaker
  ELSE w.slots[w.order[Oldest(w)].slot].waker

(* wake_one: pop the queue up to and including the first live entry.       *)
WakeOne(w) ==
  IF LiveEntries(w) = {} THEN Publish([w EXCEPT !.order = <<>>])
  ELSE Publish(Retire([w EXCEPT !.order = SubSeq(@, Oldest(w) + 1, Len(@))],
                      w.order[Oldest(w)].slot))

(* Everyone close wakes.                                                   *)
Parked(w) == {w.slots[w.order[i].slot].waker : i \in LiveEntries(w)}

(* close: nobody may park again, and every registration is over.           *)
Close(w) ==
  LET live == {w.order[i].slot : i \in LiveEntries(w)}
      left == [i \in DOMAIN w.slots |->
                 IF i \in live
                 THEN [waker |-> NoWaker, generation |-> w.slots[i].generation + 1]
                 ELSE w.slots[i]]
      pops == Retained(w.order, LiveEntries(w))
  IN Publish([w EXCEPT !.slots = left,
                       !.free = @ \o [i \in DOMAIN pops |-> pops[i].slot],
                       !.order = <<>>,
                       !.closed = TRUE])

-----------------------------------------------------------------------------
(* What the structure keeps true between critical sections.                *)

WaitersType(w) ==
  /\ w.slots \in Seq([waker : Tasks \cup {NoWaker}, generation : Nat])
  /\ w.free \in Seq(Nat)
  /\ w.order \in Seq([slot : Nat, generation : Nat])
  /\ w.next_generation \in Nat
  /\ w.closed \in BOOLEAN
  /\ w.waiting \in Int

(* Every live registration has exactly one entry in the queue, entries are *)
(* in arrival order, the free stack holds exactly the slots whose          *)
(* registration is over, each once, and the published count is right.      *)
WellFormed(w) ==
  /\ \A s \in DOMAIN w.slots : w.slots[s].waker # NoWaker =>
       \E i \in DOMAIN w.order :
         w.order[i] = [slot |-> s, generation |-> w.slots[s].generation]
  /\ \A i, j \in DOMAIN w.order : i < j =>
       w.order[i].generation < w.order[j].generation
  /\ \A i \in DOMAIN w.order :
       /\ w.order[i].slot \in DOMAIN w.slots
       /\ w.order[i].generation < w.next_generation
  /\ \A s \in DOMAIN w.slots :
       (w.slots[s].waker = NoWaker) <=> (\E i \in DOMAIN w.free : w.free[i] = s)
  /\ \A i, j \in DOMAIN w.free : w.free[i] = w.free[j] => i = j
  /\ w.waiting = Cardinality({s \in DOMAIN w.slots : w.slots[s].waker # NoWaker})

=============================================================================
