-------------------------------- MODULE Ring --------------------------------
(***************************************************************************)
(* The bounded multi-producer single-consumer ring of                      *)
(* crates/grommet-core/src/ring.rs, one access to shared memory per step.  *)
(* A position is a lap and an index in one word; positions are naturals    *)
(* here, so a producer never meets its own stale position again after the  *)
(* word has wrapped.                                                       *)
(***************************************************************************)
EXTENDS Integers, Sequences, FiniteSets

CONSTANTS
  Producers,   \* the threads that push
  Capacity,    \* slots in the ring
  Empty,       \* Option::None of a value cell
  MaxPushes    \* bound of the model: calls of try_push per producer

ASSUME RingConstants == Capacity \in Nat \ {0} /\ MaxPushes \in Nat

Indexes == 0 .. Capacity - 1

(* (capacity + 1).next_power_of_two().                                     *)
OneLap ==
  CHOOSE l \in {2 ^ i : i \in 0 .. Capacity + 1} :
    l > Capacity /\ (l = 1 \/ l \div 2 <= Capacity)

(* Such a power exists; the provers know nothing of powers.                *)
ASSUME OneLapExists == OneLap \in Nat /\ OneLap > Capacity

Index(position) == position % OneLap

(* The position after this one, carrying into the lap.                     *)
Advance(position) ==
  IF Index(position) + 1 < Capacity THEN position + 1
  ELSE position - Index(position) + OneLap

VARIABLES
  tail,      \* the next position to be claimed
  head,      \* Consumer::head
  stamp,     \* Slot::stamp
  value,     \* Slot::value
  ppc,       \* where each producer is in try_push
  mytail,    \* its local `tail`
  calls,     \* its calls so far; the last one's number names its value
  cpc,       \* where the consumer is in pop
  claimed,   \* values in the order their positions were claimed (history)
  popped,    \* values in the order pop returned them (history)
  sawfull    \* whether the ring was full during the current call (history)

ringVars == <<tail, head, stamp, value, ppc, mytail, calls, cpc, claimed, popped, sawfull>>

Item(p) == [by |-> p, nth |-> calls[p]]

RingInit ==
  /\ tail = 0
  /\ head = 0
  /\ stamp = [i \in Indexes |-> i]
  /\ value = [i \in Indexes |-> Empty]
  /\ ppc = [p \in Producers |-> "idle"]
  /\ mytail = [p \in Producers |-> 0]
  /\ calls = [p \in Producers |-> 0]
  /\ cpc = "idle"
  /\ claimed = <<>>
  /\ popped = <<>>
  /\ sawfull = [p \in Producers |-> FALSE]

(* Places claimed and not yet given back by the consumer.                  *)
Freed == Len(popped) - (IF cpc = "free" THEN 1 ELSE 0)
IsFull == Len(claimed) - Freed = Capacity

(* Each producer inside a call notes whether the ring is full now.         *)
NoteFull ==
  sawfull' = [p \in Producers |-> ppc'[p] # "idle" /\ (sawfull[p] \/ IsFull')]

Goto(p, pc) == ppc' = [ppc EXCEPT ![p] = pc]

-----------------------------------------------------------------------------
(* Producer::try_push.                                                     *)

LoadTail(p) ==
  /\ ppc[p] = "idle"
  /\ calls[p] < MaxPushes
  /\ calls' = [calls EXCEPT ![p] = @ + 1]
  /\ mytail' = [mytail EXCEPT ![p] = tail]
  /\ Goto(p, "stamp")
  /\ UNCHANGED <<tail, head, stamp, value, cpc, claimed, popped>>

(* What a stamp says of a position: free, still holding the last lap's     *)
(* value, or neither.                                                      *)
StampSays(s, t) ==
  IF s = t THEN "cas" ELSE IF s + OneLap = t + 1 THEN "full" ELSE "reload"

LoadStamp(p) ==
  /\ ppc[p] = "stamp"
  /\ Goto(p, StampSays(stamp[Index(mytail[p])], mytail[p]))
  /\ UNCHANGED <<tail, head, stamp, value, mytail, calls, cpc, claimed, popped>>

Claims_Unconditionally(p) == TRUE

(* compare_exchange_weak succeeds only on the tail this producer read.     *)
Claims(p) == tail = mytail[p]

ClaimTail(p) ==
  /\ ppc[p] = "cas"
  /\ Claims(p)
  /\ tail' = Advance(mytail[p])
  /\ claimed' = Append(claimed, Item(p))
  /\ Goto(p, "write")
  /\ UNCHANGED <<head, stamp, value, mytail, calls, cpc, popped>>

(* It fails when another producer was first, or for no reason at all.      *)
LoseClaim(p) ==
  /\ ppc[p] = "cas"
  /\ mytail' = [mytail EXCEPT ![p] = tail]
  /\ Goto(p, "stamp")
  /\ UNCHANGED <<tail, head, stamp, value, calls, cpc, claimed, popped>>

WriteValue(p) ==
  /\ ppc[p] = "write"
  /\ value' = [value EXCEPT ![Index(mytail[p])] = Item(p)]
  /\ Goto(p, "publish")
  /\ UNCHANGED <<tail, head, stamp, mytail, calls, cpc, claimed, popped>>

PublishStamp(p) ==
  /\ ppc[p] = "publish"
  /\ stamp' = [stamp EXCEPT ![Index(mytail[p])] = mytail[p] + 1]
  /\ Goto(p, "idle")
  /\ UNCHANGED <<tail, head, value, mytail, calls, cpc, claimed, popped>>

StillCurrent_Assumed(p) == TRUE

(* Neither free nor visibly full: the position is spoken for if the tail   *)
(* has not moved, and the view was stale if it has.                        *)
StillCurrent(p) == tail = mytail[p]

ReloadTail(p) ==
  /\ ppc[p] = "reload"
  /\ mytail' = [mytail EXCEPT ![p] = tail]
  /\ Goto(p, IF StillCurrent(p) THEN "full" ELSE "stamp")
  /\ UNCHANGED <<tail, head, stamp, value, calls, cpc, claimed, popped>>

(* The value is handed back.                                               *)
ReturnFull(p) ==
  /\ ppc[p] = "full"
  /\ Goto(p, "idle")
  /\ UNCHANGED <<tail, head, stamp, value, mytail, calls, cpc, claimed, popped>>

-----------------------------------------------------------------------------
(* Consumer::pop.  Finding nothing published changes nothing.              *)

PopLook ==
  /\ cpc = "idle"
  /\ stamp[Index(head)] = head + 1
  /\ cpc' = "take"
  /\ UNCHANGED ppc
  /\ UNCHANGED <<tail, head, stamp, value, mytail, calls, claimed, popped>>

PopTake ==
  /\ cpc = "take"
  /\ popped' = Append(popped, value[Index(head)])
  /\ value' = [value EXCEPT ![Index(head)] = Empty]
  /\ cpc' = "free"
  /\ UNCHANGED ppc
  /\ UNCHANGED <<tail, head, stamp, mytail, calls, claimed>>

(* Release the slot for the next lap.                                      *)
PopFree ==
  /\ cpc = "free"
  /\ stamp' = [stamp EXCEPT ![Index(head)] = head + OneLap]
  /\ head' = Advance(head)
  /\ cpc' = "idle"
  /\ UNCHANGED ppc
  /\ UNCHANGED <<tail, value, mytail, calls, claimed, popped>>

ProducerStep(p) ==
  \/ LoadTail(p) \/ LoadStamp(p) \/ ClaimTail(p) \/ LoseClaim(p)
  \/ WriteValue(p) \/ PublishStamp(p) \/ ReloadTail(p) \/ ReturnFull(p)

ConsumerStep == PopLook \/ PopTake \/ PopFree

RingNext ==
  /\ (\E p \in Producers : ProducerStep(p)) \/ ConsumerStep
  /\ NoteFull

RingSpec == RingInit /\ [][RingNext]_ringVars

-----------------------------------------------------------------------------

Items == [by : Producers, nth : 1 .. MaxPushes]

(* Every variable keeps its type; in particular the index part of a        *)
(* position always names a slot.                                           *)
RingTypeOK ==
  /\ tail \in Nat /\ Index(tail) \in Indexes
  /\ head \in Nat /\ Index(head) \in Indexes
  /\ stamp \in [Indexes -> Nat]
  /\ value \in [Indexes -> Items \cup {Empty}]
  /\ ppc \in [Producers -> {"idle", "stamp", "cas", "write", "publish", "reload", "full"}]
  /\ mytail \in [Producers -> Nat]
  /\ calls \in [Producers -> 0 .. MaxPushes]
  /\ cpc \in {"idle", "take", "free"}
  /\ claimed \in Seq(Items)
  /\ popped \in Seq(Items \cup {Empty})
  /\ sawfull \in [Producers -> BOOLEAN]

(* A push is refused only if the ring was full at some instant of the call *)
(* (ring.rs, try_push: "`Err` means the ring was full at some instant      *)
(* during the call").                                                      *)
FullIsHonest == \A p \in Producers : ppc[p] = "full" => sawfull[p]

-----------------------------------------------------------------------------

Position[n \in Nat] == IF n = 0 THEN 0 ELSE Advance(Position[n - 1])

(* The value a published place holds, also while it is being popped.       *)
Published(i, at) ==
  IF i = 1 /\ cpc = "free" THEN popped[Len(popped)] ELSE value[Index(at)]

(* The places of the queue the ring implements.                            *)
Places ==
  [i \in 1 .. Len(claimed) - Freed |->
     LET at == Position[Freed + i - 1]
         written == stamp[Index(at)] = at + 1
     IN [item |-> IF written THEN Published(i, at) ELSE claimed[Freed + i],
         written |-> written]]

Queue == INSTANCE Fifo WITH fifo <- Places

(* The ring implements the bounded queue of claimed and written places     *)
(* that the mailbox is built on: values come out in the order their places *)
(* were claimed, none lost, none twice, none overtaken, across laps.       *)
ImplementsFifo == Queue!Spec

=============================================================================
