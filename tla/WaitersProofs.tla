--------------------------- MODULE WaitersProofs ---------------------------
(***************************************************************************)
(* What the operations of the wait list preserve, for any tasks and any    *)
(* threshold of compaction; MailboxProofs and PartsProofs build on it.     *)
(*                                                                         *)
(* Retained filters by ranks, so filtering is shown to keep the order and  *)
(* to lose nothing that is wanted without induction.  Sound is the list's  *)
(* own invariant, WellFormed with what it takes to be preserved: a live    *)
(* registration has its entry (Lined), entries are in the order of arrival *)
(* (Arrival), the generation alone tells a tombstone (Named), and the free *)
(* stack holds exactly the slots that are over (Recycled).  Owned relates  *)
(* the list to the tickets that tasks hold: every registration is that of  *)
(* one task's ticket, so whoever holds a live ticket is found, and no      *)
(* operation of one task ends the registration of another but a wake.      *)
(***************************************************************************)
EXTENDS Waiters, FiniteSetTheorems, SequenceTheorems, TLAPS

(* Ranks within a finite set of positions: they grow with the position and *)
(* take every value up to the size of the set.                             *)
LEMMA Ranks ==
  ASSUME NEW n \in Nat, NEW S \in SUBSET (1 .. n)
  PROVE  /\ IsFiniteSet(S) /\ Cardinality(S) \in Nat
         /\ \A i \in S : Rank(S, i) \in 1 .. Cardinality(S)
         /\ \A i, j \in S : i < j => Rank(S, i) < Rank(S, j)
         /\ \A k \in 1 .. Cardinality(S) : \E i \in S : Rank(S, i) = k
<1>1. IsFiniteSet(S)
  <2>1. IsFiniteSet(1 .. n)
    BY FS_Interval
  <2>2. QED
    BY <2>1, FS_Subset
<1>2. Cardinality(S) \in Nat
  BY <1>1, FS_CardinalityType
<1> DEFINE Upto(i) == {x \in S : x <= i}
<1>3. \A i \in S : /\ Upto(i) \in SUBSET S /\ IsFiniteSet(Upto(i))
                   /\ Cardinality(Upto(i)) \in Nat
                   /\ Cardinality(Upto(i)) <= Cardinality(S)
  BY <1>1, FS_Subset, FS_CardinalityType
<1>4. \A i \in S : Rank(S, i) = Cardinality(Upto(i))
  BY DEF Rank
<1>5. ASSUME NEW i \in S PROVE Rank(S, i) \in 1 .. Cardinality(S)
  <2>1. i \in Upto(i)
    OBVIOUS
  <2>2. Cardinality(Upto(i)) # 0
    BY <2>1, <1>3, FS_EmptySet
  <2>3. QED
    BY <2>2, <1>2, <1>3, <1>4
<1>6. ASSUME NEW i \in S, NEW j \in S, i < j PROVE Rank(S, i) < Rank(S, j)
  <2>1. Upto(i) \in SUBSET Upto(j)
    <3>1. \A x \in S : x \in Nat
      OBVIOUS
    <3>2. \A x \in S : x <= i => x <= j
      BY <1>6, <3>1
    <3>3. QED
      BY <3>2
  <2>2. j \in Upto(j) /\ j \notin Upto(i)
    BY <1>6
  <2>3. IsFiniteSet(Upto(j))
    BY <1>3
  <2>4. /\ Cardinality(Upto(i)) <= Cardinality(Upto(j))
        /\ Cardinality(Upto(j)) = Cardinality(Upto(i)) => Upto(j) = Upto(i)
    BY <2>1, <2>3, FS_Subset
  <2>5. Upto(i) # Upto(j)
    BY <2>2
  <2> HIDE DEF Upto
  <2>6. QED
    BY <2>4, <2>5, <1>3, <1>4
<1>7. ASSUME NEW k \in 1 .. Cardinality(S) PROVE \E i \in S : Rank(S, i) = k
  <2> DEFINE r == [i \in S |-> Rank(S, i)]
             T == 1 .. Cardinality(S)
  <2>1. r \in [S -> T]
    BY <1>5
  <2>2. \A i, j \in S : r[i] = r[j] => i = j
    <3>1. \A i, j \in S : i < j \/ j < i \/ i = j
      OBVIOUS
    <3>2. \A i \in S : r[i] \in Nat
      BY <1>5, <1>2
    <3>3. \A i, j \in S : i < j => r[i] < r[j]
      BY <1>6
    <3> HIDE DEF r
    <3>4. QED
      BY <3>1, <3>2, <3>3
  <2>3. r \in Injection(S, T)
    BY <2>1, <2>2 DEF Injection, IsInjective
  <2>4. IsFiniteSet(T) /\ Cardinality(T) = Cardinality(S)
    BY <1>2, FS_Interval
  <2> HIDE DEF T
  <2>5. r \in Surjection(S, T)
    BY <2>3, <2>4, FS_Injection
  <2>6. \E i \in S : r[i] = k
    BY <2>5 DEF Surjection, T
  <2>7. QED
    BY <2>6
<1>8. QED
  BY <1>1, <1>2, <1>5, <1>6, <1>7

(* r has the entries of q at the positions S, each once and in order.      *)
Chosen(r, q, S) ==
  \E at \in [1 .. Cardinality(S) -> S] :
    /\ \A k \in 1 .. Cardinality(S) : r[k] = q[at[k]]
    /\ \A k, l \in 1 .. Cardinality(S) : k < l => at[k] < at[l]
    /\ \A i \in S : \E k \in 1 .. Cardinality(S) : at[k] = i

(* What a queue retains: the entries at the positions S, each once and in  *)
(* their order.                                                            *)
LEMMA Retaining ==
  ASSUME NEW X, NEW q \in Seq(X), NEW S \in SUBSET (1 .. Len(q))
  PROVE  /\ Cardinality(S) \in Nat
         /\ Retained(q, S) \in Seq(X) /\ Len(Retained(q, S)) = Cardinality(S)
         /\ Chosen(Retained(q, S), q, S)
<1> DEFINE n == Cardinality(S)
           at == [k \in 1 .. n |-> CHOOSE i \in S : Rank(S, i) = k]
<1>1. Len(q) \in Nat
  OBVIOUS
<1>2. /\ n \in Nat
      /\ \A i \in S : Rank(S, i) \in 1 .. n
      /\ \A i, j \in S : i < j => Rank(S, i) < Rank(S, j)
      /\ \A k \in 1 .. n : \E i \in S : Rank(S, i) = k
  BY <1>1, Ranks
<1>3. \A i \in S : i \in Nat
  BY <1>1
<1> HIDE DEF n
<1>4. \A k \in 1 .. n : at[k] \in S /\ Rank(S, at[k]) = k
  BY <1>2
<1>5. at \in [1 .. n -> S]
  BY <1>4
<1>6. \A i, j \in S : Rank(S, i) = Rank(S, j) => i = j
  BY <1>2, <1>3
<1>7. Retained(q, S) = [k \in 1 .. n |-> q[at[k]]]
  BY DEF Retained, n
<1> HIDE DEF at
<1>8. \A k \in 1 .. n : q[at[k]] \in X
  <2>1. \A k \in 1 .. n : at[k] \in 1 .. Len(q)
    BY <1>4
  <2>2. \A i \in 1 .. Len(q) : q[i] \in X
    OBVIOUS
  <2>3. QED
    BY <2>1, <2>2
<1>9. Retained(q, S) \in Seq(X) /\ Len(Retained(q, S)) = n
  BY <1>2, <1>7, <1>8
<1>10. ASSUME NEW k \in 1 .. n, NEW l \in 1 .. n, k < l PROVE at[k] < at[l]
  <2>1. at[l] # at[k]
    BY <1>4, <1>10
  <2>2. ~(at[l] < at[k])
    <3>1. at[l] < at[k] => Rank(S, at[l]) < Rank(S, at[k])
      BY <1>2, <1>4
    <3>2. Rank(S, at[l]) = l /\ Rank(S, at[k]) = k /\ k \in Int /\ l \in Int
      BY <1>4
    <3>3. QED
      BY <1>10, <3>1, <3>2
  <2>3. at[k] \in Nat /\ at[l] \in Nat
    BY <1>3, <1>4
  <2>4. QED
    BY <2>1, <2>2, <2>3
<1>11. ASSUME NEW i \in S PROVE \E k \in 1 .. n : at[k] = i
  <2>1. Rank(S, i) \in 1 .. n
    BY <1>2
  <2>2. at[Rank(S, i)] = i
    BY <2>1, <1>4, <1>6
  <2>3. QED
    BY <2>1, <2>2
<1>12. QED
  BY <1>2, <1>5, <1>7, <1>9, <1>10, <1>11 DEF n, Chosen

-----------------------------------------------------------------------------
(* The invariant of the list, in the parts that each operation touches.    *)

Regs == [waker : Tasks \cup {NoWaker}, generation : Nat]
Tickets == [slot : Nat, generation : Nat]
WaitLists == [slots : Seq(Regs), free : Seq(Nat), order : Seq(Tickets),
              next_generation : Nat, closed : BOOLEAN, waiting : Int]

Taken(slots, s) == slots[s].waker # NoWaker

(* A live registration has its entry in the queue.                         *)
Lined(slots, order) ==
  \A s \in 1 .. Len(slots) : Taken(slots, s) =>
    \E i \in 1 .. Len(order) : order[i] = [slot |-> s, generation |-> slots[s].generation]

(* The queue is in the order of arrival.                                   *)
Arrival(order) ==
  \A i, j \in 1 .. Len(order) : i < j => order[i].generation < order[j].generation

(* An entry names a slot, and is never ahead of it: the generation alone   *)
(* tells a tombstone, which is all that wake_one and close look at.        *)
Named(slots, order, gen) ==
  \A i \in 1 .. Len(order) :
    /\ order[i].slot \in 1 .. Len(slots)
    /\ order[i].generation < gen
    /\ order[i].generation <= slots[order[i].slot].generation
    /\ ~Taken(slots, order[i].slot) => order[i].generation < slots[order[i].slot].generation

(* The free stack holds the slots whose registration is over, each once.   *)
Recycled(slots, free) ==
  /\ \A i \in 1 .. Len(free) : free[i] \in 1 .. Len(slots) /\ ~Taken(slots, free[i])
  /\ \A s \in 1 .. Len(slots) : ~Taken(slots, s) => \E i \in 1 .. Len(free) : free[i] = s
  /\ \A i, j \in 1 .. Len(free) : free[i] = free[j] => i = j

Sound(v) ==
  /\ v \in WaitLists
  /\ Lined(v.slots, v.order)
  /\ Arrival(v.order)
  /\ Named(v.slots, v.order, v.next_generation)
  /\ Recycled(v.slots, v.free)

(* The numbers up to n are n.                                              *)
LEMMA Initial ==
  ASSUME NEW n \in Nat
  PROVE  IsFiniteSet(1 .. n) /\ Cardinality(1 .. n) = n
<1>1. IsFiniteSet(1 .. n) /\ Cardinality(1 .. n) = IF 1 > n THEN 0 ELSE n - 1 + 1
  BY FS_Interval
<1>2. QED
  BY <1>1

(* The count that publish computes is that of the live registrations.      *)
LEMMA Counting ==
  ASSUME NEW slots \in Seq(Regs), NEW free \in Seq(Nat), Recycled(slots, free)
  PROVE  Len(slots) - Len(free) = Cardinality({s \in 1 .. Len(slots) : Taken(slots, s)})
<1> DEFINE All == 1 .. Len(slots)
           Over == {s \in All : ~Taken(slots, s)}
           Live_ == {s \in All : Taken(slots, s)}
           Places == 1 .. Len(free)
<1>1. Len(slots) \in Nat /\ Len(free) \in Nat
  OBVIOUS
<1>2. IsFiniteSet(All) /\ Cardinality(All) = Len(slots)
  BY <1>1, Initial
<1>3. IsFiniteSet(Places) /\ Cardinality(Places) = Len(free)
  BY <1>1, Initial
<1>4. free \in [Places -> Over]
  BY DEF Recycled
<1>5. free \in Bijection(Places, Over)
  BY <1>4 DEF Recycled, Bijection, Injection, IsInjective, Surjection
<1>6. ExistsBijection(Places, Over)
  BY <1>5 DEF ExistsBijection
<1> HIDE DEF All, Places, Over
<1>7. IsFiniteSet(Over) /\ Cardinality(Over) = Len(free)
  BY <1>3, <1>6, FS_Bijection
<1>8. All \ Over = Live_ /\ All \cap Over = Over
  BY DEF Over
<1>9. Cardinality(Live_) = Len(slots) - Len(free)
  <2>1. Cardinality(All \ Over) = Cardinality(All) - Cardinality(All \cap Over)
    BY <1>2, FS_Difference
  <2>2. QED
    BY <1>2, <1>7, <1>8, <2>1
<1>10. QED
  BY <1>9 DEF All

(* After publish the list is well formed.                                  *)
LEMMA Publishing ==
  ASSUME NEW v, Sound(v)
  PROVE  /\ Sound(Publish(v)) /\ WellFormed(Publish(v))
         /\ Publish(v).slots = v.slots /\ Publish(v).order = v.order
         /\ Publish(v).next_generation = v.next_generation /\ Publish(v).closed = v.closed
<1> DEFINE p == Publish(v)
<1>1. v \in WaitLists
  BY DEF Sound
<1>2. /\ v.slots \in Seq(Regs) /\ v.free \in Seq(Nat) /\ v.order \in Seq(Tickets)
      /\ Len(v.slots) \in Nat /\ Len(v.free) \in Nat
  BY <1>1 DEF WaitLists
<1> DEFINE live == Len(v.slots) - Len(v.free)
<1>a. live \in Int
  BY <1>2
<1>b. p = [v EXCEPT !.waiting = live]
  BY DEF Publish
<1> HIDE DEF live
<1>3. /\ p \in WaitLists
      /\ p.slots = v.slots /\ p.free = v.free /\ p.order = v.order
      /\ p.next_generation = v.next_generation /\ p.closed = v.closed
      /\ p.waiting = live
  BY <1>1, <1>a, <1>b DEF WaitLists
<1>4. p.waiting = Cardinality({s \in 1 .. Len(v.slots) : Taken(v.slots, s)})
  BY <1>2, <1>3, Counting DEF Sound, live
<1>5. Sound(p)
  BY <1>3 DEF Sound
<1>6. WellFormed(p)
  <2>1. /\ DOMAIN p.slots = 1 .. Len(p.slots) /\ DOMAIN p.free = 1 .. Len(p.free)
        /\ DOMAIN p.order = 1 .. Len(p.order)
    BY <1>2, <1>3
  <2>2. Lined(p.slots, p.order) /\ Arrival(p.order) /\ Recycled(p.slots, p.free)
        /\ Named(p.slots, p.order, p.next_generation)
    BY <1>5 DEF Sound
  <2>3. {s \in DOMAIN p.slots : p.slots[s].waker # NoWaker}
        = {s \in 1 .. Len(v.slots) : Taken(v.slots, s)}
    BY <2>1, <1>3 DEF Taken
  <2>4. p.waiting = Cardinality({s \in DOMAIN p.slots : p.slots[s].waker # NoWaker})
    BY <2>3, <1>4
  <2> HIDE DEF p
  <2>5. \A s \in DOMAIN p.slots : p.slots[s].waker # NoWaker =>
          \E i \in DOMAIN p.order : p.order[i] = [slot |-> s, generation |-> p.slots[s].generation]
    BY <2>1, <2>2 DEF Lined, Taken
  <2>6. \A i, j \in DOMAIN p.order : i < j => p.order[i].generation < p.order[j].generation
    BY <2>1, <2>2 DEF Arrival
  <2>7. \A i \in DOMAIN p.order :
          p.order[i].slot \in DOMAIN p.slots /\ p.order[i].generation < p.next_generation
    BY <2>1, <2>2 DEF Named
  <2>8. \A s \in DOMAIN p.slots :
          (p.slots[s].waker = NoWaker) <=> (\E i \in DOMAIN p.free : p.free[i] = s)
    BY <2>1, <2>2 DEF Recycled, Taken
  <2>9. \A i, j \in DOMAIN p.free : p.free[i] = p.free[j] => i = j
    BY <2>1, <2>2 DEF Recycled
  <2>10. QED
    BY <2>4, <2>5, <2>6, <2>7, <2>8, <2>9 DEF WellFormed
<1>7. QED
  BY <1>3, <1>5, <1>6

(* What Live means for an entry of the queue.                              *)
LEMMA LiveMeans ==
  ASSUME NEW v \in WaitLists, NEW u \in Tickets
  PROVE  Live(v, u) <=> /\ u.slot \in 1 .. Len(v.slots)
                        /\ v.slots[u.slot].generation = u.generation
                        /\ Taken(v.slots, u.slot)
<1>1. DOMAIN v.slots = 1 .. Len(v.slots)
  BY DEF WaitLists
<1>2. QED
  BY <1>1 DEF Live, Taken

(* Compaction drops tombstones only.                                       *)
LEMMA Compacting ==
  ASSUME NEW v, Sound(v)
  PROVE  /\ Sound(Compact(v))
         /\ Compact(v).slots = v.slots /\ Compact(v).free = v.free
         /\ Compact(v).next_generation = v.next_generation /\ Compact(v).closed = v.closed
<1>1. /\ v \in WaitLists /\ Lined(v.slots, v.order) /\ Arrival(v.order)
      /\ Named(v.slots, v.order, v.next_generation) /\ Recycled(v.slots, v.free)
  BY DEF Sound
<1>2. v.order \in Seq(Tickets) /\ DOMAIN v.order = 1 .. Len(v.order) /\ Len(v.order) \in Nat
  BY <1>1 DEF WaitLists
<1>3. CASE Compact(v) = v
  BY <1>3
<1>4. CASE Compact(v) # v
  <2> DEFINE L == LiveEntries(v)
             q == Retained(v.order, L)
             n == Cardinality(L)
  <2>1. Compact(v) = [v EXCEPT !.order = q]
    BY <1>4 DEF Compact
  <2>2. L \in SUBSET (1 .. Len(v.order))
    BY <1>2 DEF LiveEntries
  <2>3. /\ n \in Nat /\ q \in Seq(Tickets) /\ Len(q) = n
        /\ \E at \in [1 .. n -> L] :
             /\ \A k \in 1 .. n : q[k] = v.order[at[k]]
             /\ \A k, l \in 1 .. n : k < l => at[k] < at[l]
             /\ \A i \in L : \E k \in 1 .. n : at[k] = i
    <3> HIDE DEF L
    <3>1. PICK o \in Seq(Tickets) : o = v.order
      BY <1>2
    <3>2. L \in SUBSET (1 .. Len(o))
      BY <2>2, <3>1
    <3>3. /\ Cardinality(L) \in Nat
          /\ Retained(o, L) \in Seq(Tickets) /\ Len(Retained(o, L)) = Cardinality(L)
          /\ Chosen(Retained(o, L), o, L)
      BY <3>2, Retaining
    <3>4. QED
      BY <3>1, <3>3 DEF Chosen
  <2> HIDE DEF q, n
  <2>4. PICK at \in [1 .. n -> L] :
             /\ \A k \in 1 .. n : q[k] = v.order[at[k]]
             /\ \A k, l \in 1 .. n : k < l => at[k] < at[l]
             /\ \A i \in L : \E k \in 1 .. n : at[k] = i
    BY <2>3
  <2>5. \A k \in 1 .. n : at[k] \in L /\ at[k] \in 1 .. Len(v.order)
    BY <2>2
  <2>6. Lined(v.slots, q)
    <3> SUFFICES ASSUME NEW s \in 1 .. Len(v.slots), Taken(v.slots, s)
                 PROVE  \E k \in 1 .. Len(q) :
                          q[k] = [slot |-> s, generation |-> v.slots[s].generation]
      BY DEF Lined
    <3>1. PICK i \in 1 .. Len(v.order) :
            v.order[i] = [slot |-> s, generation |-> v.slots[s].generation]
      BY <1>1 DEF Lined
    <3>2. v.order[i] \in Tickets /\ v.order[i].slot = s
          /\ v.order[i].generation = v.slots[s].generation
      BY <1>2, <3>1
    <3>3. Live(v, v.order[i])
      BY <1>1, <3>2, LiveMeans
    <3>4. i \in L
      BY <1>2, <3>3 DEF LiveEntries
    <3>5. QED
      BY <2>3, <2>4, <3>1, <3>4
  <2> HIDE DEF L
  <2>7. Arrival(q)
    <3> SUFFICES ASSUME NEW k \in 1 .. n, NEW l \in 1 .. n, k < l
                 PROVE  q[k].generation < q[l].generation
      BY <2>3 DEF Arrival
    <3>1. at[k] < at[l] /\ at[k] \in 1 .. Len(v.order) /\ at[l] \in 1 .. Len(v.order)
      BY <2>4, <2>5
    <3>2. v.order[at[k]].generation < v.order[at[l]].generation
      BY <1>1, <3>1 DEF Arrival
    <3>3. QED
      BY <2>4, <3>2
  <2>8. Named(v.slots, q, v.next_generation)
    <3>1. \A k \in 1 .. Len(q) : \E i \in 1 .. Len(v.order) : q[k] = v.order[i]
      BY <2>3, <2>4, <2>5
    <3>2. QED
      BY <1>1, <3>1 DEF Named
  <2>9. /\ Compact(v) \in WaitLists
        /\ Compact(v).slots = v.slots /\ Compact(v).free = v.free
        /\ Compact(v).next_generation = v.next_generation /\ Compact(v).closed = v.closed
        /\ Compact(v).order = q
    BY <1>1, <2>1, <2>3 DEF WaitLists
  <2>10. QED
    BY <1>1, <2>6, <2>7, <2>8, <2>9 DEF Sound
<1>5. QED
  BY <1>3, <1>4

(* A slot is retired: its entries become tombstones and it is recycled.    *)
Ended(slots, s) == [slots EXCEPT ![s] = [waker |-> NoWaker, generation |-> slots[s].generation + 1]]

(* What retiring a slot makes of the slots.                                *)
LEMMA Ending ==
  ASSUME NEW slots \in Seq(Regs), NEW s \in 1 .. Len(slots)
  PROVE  /\ Ended(slots, s) \in Seq(Regs) /\ Len(Ended(slots, s)) = Len(slots)
         /\ ~Taken(Ended(slots, s), s) /\ Ended(slots, s)[s].generation = slots[s].generation + 1
         /\ slots[s].generation \in Nat
         /\ \A r \in 1 .. Len(slots) : r # s => Ended(slots, s)[r] = slots[r]
<1>1. slots[s] \in Regs /\ slots[s].generation \in Nat
  <2>1. slots[s] \in Regs
    OBVIOUS
  <2>2. QED
    BY <2>1 DEF Regs
<1>2. [waker |-> NoWaker, generation |-> slots[s].generation + 1] \in Regs
  BY <1>1 DEF Regs
<1>3. Len(slots) \in Nat /\ DOMAIN slots = 1 .. Len(slots)
  OBVIOUS
<1>4. /\ Ended(slots, s) \in Seq(Regs) /\ Len(Ended(slots, s)) = Len(slots)
  BY <1>2, <1>3 DEF Ended
<1>5. /\ Ended(slots, s)[s] = [waker |-> NoWaker, generation |-> slots[s].generation + 1]
      /\ \A r \in 1 .. Len(slots) : r # s => Ended(slots, s)[r] = slots[r]
  BY <1>3 DEF Ended
<1>6. QED
  BY <1>1, <1>4, <1>5 DEF Taken

(* Retiring a live registration keeps the parts of the invariant that do   *)
(* not ask for entries, and asks for entries of the others only.           *)
LEMMA Retiring ==
  ASSUME NEW v \in WaitLists, NEW s \in 1 .. Len(v.slots), Taken(v.slots, s),
         Recycled(v.slots, v.free), Named(v.slots, v.order, v.next_generation)
  PROVE  /\ Retire(v, s) \in WaitLists
         /\ Retire(v, s).slots = Ended(v.slots, s) /\ Retire(v, s).order = v.order
         /\ Retire(v, s).next_generation = v.next_generation
         /\ Retire(v, s).closed = v.closed
         /\ Recycled(Retire(v, s).slots, Retire(v, s).free)
         /\ Named(Retire(v, s).slots, v.order, v.next_generation)
<1> DEFINE e == Ended(v.slots, s)
           f == Append(v.free, s)
<1>1. /\ v.slots \in Seq(Regs) /\ v.free \in Seq(Nat) /\ v.order \in Seq(Tickets)
      /\ Len(v.slots) \in Nat /\ Len(v.free) \in Nat /\ s \in Nat
  BY DEF WaitLists
<1>2. /\ e \in Seq(Regs) /\ Len(e) = Len(v.slots) /\ ~Taken(e, s)
      /\ e[s].generation = v.slots[s].generation + 1 /\ v.slots[s].generation \in Nat
      /\ \A r \in 1 .. Len(v.slots) : r # s => e[r] = v.slots[r]
  BY <1>1, Ending
<1>3. /\ f \in Seq(Nat) /\ Len(f) = Len(v.free) + 1 /\ f[Len(v.free) + 1] = s
      /\ \A i \in 1 .. Len(v.free) : f[i] = v.free[i]
  BY <1>1
<1>4. Retire(v, s) = [v EXCEPT !.slots = e, !.free = f]
  BY DEF Retire, Ended, WaitLists
<1> HIDE DEF e, f
<1>5. /\ Retire(v, s) \in WaitLists /\ Retire(v, s).slots = e /\ Retire(v, s).free = f
      /\ Retire(v, s).order = v.order /\ Retire(v, s).next_generation = v.next_generation
      /\ Retire(v, s).closed = v.closed
  BY <1>2, <1>3, <1>4 DEF WaitLists
<1>6. Recycled(e, f)
  <2>1. \A i \in 1 .. Len(v.free) : v.free[i] \in 1 .. Len(v.slots) /\ v.free[i] # s
    BY DEF Recycled
  <2>2. \A i \in 1 .. Len(f) : i \in 1 .. Len(v.free) \/ i = Len(v.free) + 1
    BY <1>1, <1>3
  <2>3. \A i \in 1 .. Len(f) : f[i] \in 1 .. Len(e) /\ ~Taken(e, f[i])
    <3> SUFFICES ASSUME NEW i \in 1 .. Len(f) PROVE f[i] \in 1 .. Len(e) /\ ~Taken(e, f[i])
      OBVIOUS
    <3>1. CASE i \in 1 .. Len(v.free)
      <4>1. f[i] = v.free[i] /\ v.free[i] \in 1 .. Len(v.slots) /\ v.free[i] # s
        BY <1>3, <2>1, <3>1
      <4>2. ~Taken(v.slots, v.free[i])
        BY <3>1 DEF Recycled
      <4>3. e[v.free[i]] = v.slots[v.free[i]]
        BY <1>2, <4>1
      <4>4. QED
        BY <1>2, <4>1, <4>2, <4>3 DEF Taken
    <3>2. CASE i = Len(v.free) + 1
      BY <1>2, <1>3, <3>2
    <3>3. QED
      BY <2>2, <3>1, <3>2
  <2>4. \A r \in 1 .. Len(e) : ~Taken(e, r) => \E i \in 1 .. Len(f) : f[i] = r
    <3> SUFFICES ASSUME NEW r \in 1 .. Len(e), ~Taken(e, r)
                 PROVE  \E i \in 1 .. Len(f) : f[i] = r
      OBVIOUS
    <3>1. CASE r = s
      <4>1. Len(v.free) + 1 \in 1 .. Len(f)
        BY <1>1, <1>3
      <4>2. QED
        BY <1>3, <3>1, <4>1
    <3>2. CASE r # s
      <4>1. ~Taken(v.slots, r)
        BY <1>2, <3>2 DEF Taken
      <4>2. PICK i \in 1 .. Len(v.free) : v.free[i] = r
        BY <1>2, <4>1 DEF Recycled
      <4>3. i \in 1 .. Len(f)
        BY <1>1, <1>3
      <4>4. QED
        BY <1>3, <4>2, <4>3
    <3>3. QED
      BY <3>1, <3>2
  <2>5. \A i, j \in 1 .. Len(f) : f[i] = f[j] => i = j
    <3>1. \A i, j \in 1 .. Len(v.free) : v.free[i] = v.free[j] => i = j
      BY DEF Recycled
    <3>2. QED
      BY <1>3, <2>1, <2>2, <3>1
  <2>6. QED
    BY <2>3, <2>4, <2>5 DEF Recycled
<1>7. Named(e, v.order, v.next_generation)
  <2> SUFFICES ASSUME NEW i \in 1 .. Len(v.order)
               PROVE  /\ v.order[i].slot \in 1 .. Len(e)
                      /\ v.order[i].generation < v.next_generation
                      /\ v.order[i].generation <= e[v.order[i].slot].generation
                      /\ ~Taken(e, v.order[i].slot) =>
                           v.order[i].generation < e[v.order[i].slot].generation
    BY DEF Named
  <2>1. /\ v.order[i].slot \in 1 .. Len(v.slots)
        /\ v.order[i].generation < v.next_generation
        /\ v.order[i].generation <= v.slots[v.order[i].slot].generation
        /\ ~Taken(v.slots, v.order[i].slot) =>
             v.order[i].generation < v.slots[v.order[i].slot].generation
    BY DEF Named
  <2>2. v.order[i] \in Tickets /\ v.order[i].generation \in Nat
    <3>1. v.order[i] \in Tickets
      BY <1>1
    <3>2. QED
      BY <3>1 DEF Tickets
  <2>3. CASE v.order[i].slot = s
    BY <1>2, <2>1, <2>2, <2>3
  <2>4. CASE v.order[i].slot # s
    <3>1. e[v.order[i].slot] = v.slots[v.order[i].slot]
      BY <1>2, <2>1, <2>4
    <3>2. QED
      BY <1>2, <2>1, <3>1 DEF Taken
  <2>5. QED
    BY <2>3, <2>4
<1>8. QED
  BY <1>5, <1>6, <1>7 DEF e

(* A registration that is over in c and was live in v; nothing else        *)
(* differs in who is registered.                                           *)
Without(c, v, u) ==
  \A x \in Tickets :
    /\ Live(c, x) <=> Live(v, x) /\ x # u
    /\ Live(c, x) => c.slots[x.slot].waker = v.slots[x.slot].waker

(* Retiring its slot ends a registration and no other.                     *)
LEMMA EndingOne ==
  ASSUME NEW v \in WaitLists, NEW c \in WaitLists, NEW u \in Tickets, Live(v, u),
         c.slots = Ended(v.slots, u.slot)
  PROVE  Without(c, v, u)
<1>1. v.slots \in Seq(Regs) /\ u.slot \in 1 .. Len(v.slots)
      /\ v.slots[u.slot].generation = u.generation
  BY LiveMeans DEF WaitLists
<1>2. /\ Len(c.slots) = Len(v.slots) /\ ~Taken(c.slots, u.slot)
      /\ \A r \in 1 .. Len(v.slots) : r # u.slot => c.slots[r] = v.slots[r]
  BY <1>1, Ending
<1>3. ASSUME NEW x \in Tickets
      PROVE  /\ Live(c, x) <=> Live(v, x) /\ x # u
             /\ Live(c, x) => c.slots[x.slot].waker = v.slots[x.slot].waker
  <2>1. CASE x.slot = u.slot
    <3>1. ~Live(c, x)
      BY <1>2, <2>1, LiveMeans
    <3>2. Live(v, x) => x.generation = u.generation
      BY <1>1, <2>1, LiveMeans
    <3>3. x.generation = u.generation => x = u
      BY <2>1 DEF Tickets
    <3>4. QED
      BY <3>1, <3>2, <3>3
  <2>2. CASE x.slot # u.slot
    <3>1. x # u
      BY <2>2
    <3>2. x.slot \in 1 .. Len(v.slots) => c.slots[x.slot] = v.slots[x.slot]
      BY <1>2, <2>2
    <3>3. Live(c, x) <=> Live(v, x)
      BY <1>2, <3>2, LiveMeans DEF Taken
    <3>4. QED
      BY <1>2, <3>1, <3>2, <3>3, LiveMeans
  <2>3. QED
    BY <2>1, <2>2
<1>4. QED
  BY <1>3 DEF Without

(* cancel ends the registration of its ticket, if that is still live, and  *)
(* no other.                                                               *)
LEMMA Cancelling ==
  ASSUME NEW v, Sound(v), NEW u \in Tickets
  PROVE  /\ Sound(Cancel(v, u)) /\ (WellFormed(v) => WellFormed(Cancel(v, u)))
         /\ Cancel(v, u).next_generation = v.next_generation
         /\ Cancel(v, u).closed = v.closed
         /\ Without(Cancel(v, u), v, u)
<1>1. CASE ~Live(v, u)
  <2>1. Cancel(v, u) = v
    BY <1>1 DEF Cancel
  <2>2. \A x \in Tickets : Live(v, x) => x # u
    BY <1>1
  <2>3. QED
    BY <2>1, <2>2 DEF Without
<1>2. CASE Live(v, u)
  <2> DEFINE r == Retire(v, u.slot)
             c == Cancel(v, u)
  <2>1. /\ v \in WaitLists /\ Lined(v.slots, v.order) /\ Arrival(v.order)
        /\ Named(v.slots, v.order, v.next_generation) /\ Recycled(v.slots, v.free)
    BY DEF Sound
  <2>2. u.slot \in 1 .. Len(v.slots) /\ Taken(v.slots, u.slot)
    BY <1>2, <2>1, LiveMeans
  <2>3. /\ r \in WaitLists /\ r.slots = Ended(v.slots, u.slot) /\ r.order = v.order
        /\ r.next_generation = v.next_generation /\ r.closed = v.closed
        /\ Recycled(r.slots, r.free) /\ Named(r.slots, v.order, v.next_generation)
    BY <2>1, <2>2, Retiring
  <2> HIDE DEF r
  <2>4. Lined(r.slots, r.order)
    <3>1. v.slots \in Seq(Regs)
      BY <2>1 DEF WaitLists
    <3>2. /\ Len(r.slots) = Len(v.slots) /\ ~Taken(r.slots, u.slot)
          /\ \A k \in 1 .. Len(v.slots) : k # u.slot => r.slots[k] = v.slots[k]
      <4> DEFINE e == Ended(v.slots, u.slot)
      <4>1. /\ Len(e) = Len(v.slots) /\ ~Taken(e, u.slot)
            /\ \A k \in 1 .. Len(v.slots) : k # u.slot => e[k] = v.slots[k]
        BY <3>1, <2>2, Ending
      <4>2. QED
        BY <2>3, <4>1
    <3>3. QED
      BY <2>1, <2>3, <3>2 DEF Lined, Taken
  <2>5. Sound(r)
    BY <2>1, <2>3, <2>4 DEF Sound
  <2>6. c = Publish(Compact(r))
    BY <1>2 DEF Cancel, r
  <2>7. /\ Sound(Compact(r)) /\ Compact(r).slots = r.slots
        /\ Compact(r).next_generation = r.next_generation /\ Compact(r).closed = r.closed
    BY <2>5, Compacting
  <2> HIDE DEF c
  <2>8. /\ Sound(c) /\ WellFormed(c) /\ c.slots = r.slots
        /\ c.next_generation = r.next_generation /\ c.closed = r.closed
    BY <2>6, <2>7, Publishing
  <2>9. Without(c, v, u)
    BY <1>2, <2>1, <2>3, <2>8, EndingOne DEF Sound
  <2>10. QED
    BY <2>3, <2>8, <2>9 DEF c
<1>3. QED
  BY <1>1, <1>2

(* With no live entry in the queue nobody is registered.                   *)
LEMMA NobodyQueued ==
  ASSUME NEW v, Sound(v), LiveEntries(v) = {}
  PROVE  \A u \in Tickets : ~Live(v, u)
<1> SUFFICES ASSUME NEW u \in Tickets, Live(v, u) PROVE FALSE
  OBVIOUS
<1>1. v \in WaitLists /\ Lined(v.slots, v.order)
  BY DEF Sound
<1>2. /\ u.slot \in 1 .. Len(v.slots) /\ Taken(v.slots, u.slot)
      /\ v.slots[u.slot].generation = u.generation
  BY <1>1, LiveMeans
<1>3. PICK i \in 1 .. Len(v.order) :
        v.order[i] = [slot |-> u.slot, generation |-> v.slots[u.slot].generation]
  BY <1>1, <1>2 DEF Lined
<1>4. v.order[i] = u
  BY <1>2, <1>3 DEF Tickets
<1>5. i \in LiveEntries(v)
  BY <1>1, <1>4 DEF LiveEntries, WaitLists
<1>6. QED
  BY <1>5

(* Nor is anybody queued if nobody is registered.                          *)
LEMMA NoEntries ==
  ASSUME NEW v \in WaitLists, \A u \in Tickets : ~Live(v, u)
  PROVE  LiveEntries(v) = {}
<1> SUFFICES ASSUME NEW i \in LiveEntries(v) PROVE FALSE
  OBVIOUS
<1>1. v.order \in Seq(Tickets) /\ i \in DOMAIN v.order /\ Live(v, v.order[i])
  BY DEF WaitLists, LiveEntries
<1>2. v.order[i] \in Tickets
  BY <1>1
<1>3. QED
  BY <1>1, <1>2

(* A published count of zero means that nobody is registered.              *)
LEMMA NobodyWaiting ==
  ASSUME NEW v \in WaitLists, WellFormed(v), v.waiting = 0
  PROVE  \A u \in Tickets : ~Live(v, u)
<1> DEFINE T == {s \in DOMAIN v.slots : v.slots[s].waker # NoWaker}
<1>1. Cardinality(T) = 0
  BY DEF WellFormed
<1>2. IsFiniteSet(T)
  <2>1. DOMAIN v.slots = 1 .. Len(v.slots) /\ Len(v.slots) \in Nat
    BY DEF WaitLists
  <2>2. T \in SUBSET (1 .. Len(v.slots)) /\ IsFiniteSet(1 .. Len(v.slots))
    BY <2>1, Initial
  <2> HIDE DEF T
  <2>3. QED
    BY <2>2, FS_Subset
<1>3. T = {}
  BY <1>1, <1>2, FS_EmptySet
<1>4. QED
  BY <1>3 DEF Live

(* A set of positions that is not empty has a least one.                   *)
LEMMA LeastPosition ==
  ASSUME NEW n \in Nat, NEW S \in SUBSET (1 .. n), S # {}
  PROVE  \E i \in S : \A j \in S : i <= j
<1>1. /\ IsFiniteSet(S) /\ Cardinality(S) \in Nat
      /\ \A i \in S : Rank(S, i) \in 1 .. Cardinality(S)
      /\ \A i, j \in S : i < j => Rank(S, i) < Rank(S, j)
      /\ \A k \in 1 .. Cardinality(S) : \E i \in S : Rank(S, i) = k
  BY Ranks
<1>2. 1 \in 1 .. Cardinality(S)
  BY <1>1, FS_EmptySet
<1>3. PICK i \in S : Rank(S, i) = 1
  BY <1>1, <1>2
<1>4. ASSUME NEW j \in S PROVE i <= j
  <2>1. i \in Nat /\ j \in Nat
    OBVIOUS
  <2>2. ~(j < i)
    <3>1. j < i => Rank(S, j) < Rank(S, i)
      BY <1>1
    <3>2. Rank(S, j) \in Nat /\ Rank(S, j) >= 1
      BY <1>1
    <3>3. QED
      BY <1>3, <3>1, <3>2
  <2>3. QED
    BY <2>1, <2>2
<1>5. QED
  BY <1>4

(* wake_one on a queue without a live entry only clears it.                *)
LEMMA WakingNobody ==
  ASSUME NEW v, Sound(v), LiveEntries(v) = {}
  PROVE  /\ Sound(WakeOne(v)) /\ WellFormed(WakeOne(v))
         /\ WakeOne(v).next_generation = v.next_generation /\ WakeOne(v).closed = v.closed
         /\ Woken(v) = NoWaker
         /\ \A x \in Tickets : ~Live(WakeOne(v), x)
<1> DEFINE none == <<>>
           z == [v EXCEPT !.order = none]
<1>0. none \in Seq(Tickets) /\ Len(none) = 0
  OBVIOUS
<1>1. v \in WaitLists /\ Lined(v.slots, v.order) /\ Recycled(v.slots, v.free)
  BY DEF Sound
<1>2. /\ z \in WaitLists /\ z.slots = v.slots /\ z.free = v.free /\ z.order = none
      /\ z.next_generation = v.next_generation /\ z.closed = v.closed
  <2> HIDE DEF none
  <2>1. QED
    BY <1>0, <1>1 DEF WaitLists
<1>3. WakeOne(v) = Publish(z) /\ Woken(v) = NoWaker
  BY DEF WakeOne, Woken
<1> HIDE DEF z, none
<1>4. \A s \in 1 .. Len(v.slots) : ~Taken(v.slots, s)
  <2> SUFFICES ASSUME NEW s \in 1 .. Len(v.slots), Taken(v.slots, s) PROVE FALSE
    OBVIOUS
  <2> DEFINE u == [slot |-> s, generation |-> v.slots[s].generation]
  <2>1. v.slots[s] \in Regs
    <3>1. v.slots \in Seq(Regs)
      BY <1>1 DEF WaitLists
    <3>2. QED
      BY <3>1
  <2>2. u \in Tickets
    <3>1. v.slots[s].generation \in Nat /\ s \in Nat
      BY <2>1 DEF Regs
    <3>2. QED
      BY <3>1 DEF Tickets
  <2>3. u.slot = s /\ u.generation = v.slots[s].generation
    OBVIOUS
  <2> HIDE DEF u
  <2>4. Live(v, u)
    BY <1>1, <2>2, <2>3, LiveMeans
  <2>5. QED
    BY <2>2, <2>4, NobodyQueued
<1>5. Sound(z)
  <2>1. Lined(z.slots, z.order)
    BY <1>2, <1>4 DEF Lined
  <2>2. Arrival(z.order) /\ Named(z.slots, z.order, z.next_generation)
    BY <1>0, <1>2 DEF Arrival, Named
  <2>3. QED
    BY <1>1, <1>2, <2>1, <2>2 DEF Sound
<1>6. /\ Sound(Publish(z)) /\ WellFormed(Publish(z)) /\ Publish(z).slots = z.slots
      /\ Publish(z).next_generation = z.next_generation /\ Publish(z).closed = z.closed
  BY <1>5, Publishing
<1>7. \A x \in Tickets : ~Live(Publish(z), x)
  <2>1. Publish(z) \in WaitLists /\ Publish(z).slots = v.slots
    BY <1>2, <1>6 DEF Sound
  <2>2. QED
    BY <1>4, <2>1, LiveMeans
<1>8. QED
  BY <1>2, <1>3, <1>6, <1>7

(* wake_one ends the registration that arrived first and no other.         *)
LEMMA WakingTheOldest ==
  ASSUME NEW v, Sound(v), LiveEntries(v) # {}
  PROVE  /\ Sound(WakeOne(v)) /\ WellFormed(WakeOne(v))
         /\ WakeOne(v).next_generation = v.next_generation /\ WakeOne(v).closed = v.closed
         /\ \E u \in Tickets : /\ Live(v, u) /\ Woken(v) = v.slots[u.slot].waker
                               /\ Without(WakeOne(v), v, u)
<1>1. /\ v \in WaitLists /\ Lined(v.slots, v.order) /\ Arrival(v.order)
      /\ Named(v.slots, v.order, v.next_generation) /\ Recycled(v.slots, v.free)
  BY DEF Sound
<1>2. /\ v.order \in Seq(Tickets) /\ v.slots \in Seq(Regs) /\ Len(v.order) \in Nat
      /\ DOMAIN v.order = 1 .. Len(v.order)
  BY <1>1 DEF WaitLists
<1>3. LiveEntries(v) \in SUBSET (1 .. Len(v.order))
  BY <1>2 DEF LiveEntries
<1>4. \E i \in LiveEntries(v) : \A j \in LiveEntries(v) : i <= j
  BY <1>2, <1>3, LeastPosition
<1>5. PICK k : k = Oldest(v)
  OBVIOUS
<1>6. k \in LiveEntries(v) /\ \A j \in LiveEntries(v) : k <= j
  BY <1>4, <1>5 DEF Oldest
<1>7. k \in 1 .. Len(v.order) /\ Live(v, v.order[k])
  BY <1>2, <1>6 DEF LiveEntries
<1>8. PICK u \in Tickets : u = v.order[k]
  BY <1>2, <1>7
<1>9. Live(v, u) /\ Woken(v) = v.slots[u.slot].waker
  BY <1>5, <1>7, <1>8 DEF Woken
<1>10. u.slot \in 1 .. Len(v.slots) /\ Taken(v.slots, u.slot)
  BY <1>1, <1>9, LiveMeans
<1> DEFINE o == SubSeq(v.order, k + 1, Len(v.order))
           z == [v EXCEPT !.order = o]
           r == Retire(z, u.slot)
<1>11. /\ o \in Seq(Tickets) /\ Len(o) = Len(v.order) - k
       /\ \A i \in 1 .. Len(o) : o[i] = v.order[k + i]
  BY <1>2, <1>7
<1>12. WakeOne(v) = Publish(r)
  BY <1>5, <1>8 DEF WakeOne
<1> HIDE DEF o
<1>13. /\ z \in WaitLists /\ z.slots = v.slots /\ z.free = v.free /\ z.order = o
       /\ z.next_generation = v.next_generation /\ z.closed = v.closed
  BY <1>1, <1>11 DEF WaitLists
<1> HIDE DEF z
<1>14. \A i \in 1 .. Len(o) : k + i \in 1 .. Len(v.order) /\ k + i \in Int /\ i \in Int
  BY <1>2, <1>7, <1>11
<1>15. Named(z.slots, z.order, z.next_generation) /\ Recycled(z.slots, z.free)
  BY <1>1, <1>11, <1>13, <1>14 DEF Named
<1>16. /\ r \in WaitLists /\ r.slots = Ended(v.slots, u.slot) /\ r.order = o
       /\ r.next_generation = v.next_generation /\ r.closed = v.closed
       /\ Recycled(r.slots, r.free) /\ Named(r.slots, r.order, r.next_generation)
  <2>1. /\ r \in WaitLists /\ r.slots = Ended(z.slots, u.slot) /\ r.order = z.order
        /\ r.next_generation = z.next_generation /\ r.closed = z.closed
        /\ Recycled(r.slots, r.free) /\ Named(r.slots, z.order, z.next_generation)
    BY <1>10, <1>13, <1>15, Retiring
  <2>2. QED
    BY <1>13, <2>1
<1> HIDE DEF r
<1>17. Arrival(r.order)
  <2> SUFFICES ASSUME NEW i \in 1 .. Len(o), NEW j \in 1 .. Len(o), i < j
               PROVE  o[i].generation < o[j].generation
    BY <1>16 DEF Arrival
  <2>1. k + i < k + j
    BY <1>7, <1>14
  <2>2. v.order[k + i].generation < v.order[k + j].generation
    BY <1>1, <1>14, <2>1 DEF Arrival
  <2>3. QED
    BY <1>11, <2>2
<1>18. Lined(r.slots, r.order)
  <2> DEFINE e == Ended(v.slots, u.slot)
  <2>1. /\ Len(e) = Len(v.slots) /\ ~Taken(e, u.slot)
        /\ \A s \in 1 .. Len(v.slots) : s # u.slot => e[s] = v.slots[s]
    BY <1>2, <1>10, Ending
  <2> HIDE DEF e
  <2> SUFFICES ASSUME NEW s \in 1 .. Len(e), Taken(e, s)
               PROVE  \E i \in 1 .. Len(o) : o[i] = [slot |-> s, generation |-> e[s].generation]
    BY <1>16 DEF Lined, e
  <2>2. s # u.slot /\ s \in 1 .. Len(v.slots) /\ e[s] = v.slots[s] /\ Taken(v.slots, s)
    BY <2>1 DEF Taken
  <2>3. PICK i \in 1 .. Len(v.order) :
          v.order[i] = [slot |-> s, generation |-> v.slots[s].generation]
    BY <1>1, <2>2 DEF Lined
  <2>4. v.order[i] \in Tickets /\ v.order[i].slot = s
        /\ v.order[i].generation = v.slots[s].generation
    BY <1>2, <2>3
  <2>5. Live(v, v.order[i])
    BY <1>1, <2>2, <2>4, LiveMeans
  <2>6. i \in LiveEntries(v) /\ i # k
    BY <1>2, <1>8, <2>2, <2>4, <2>5 DEF LiveEntries
  <2>7. k < i
    BY <1>6, <1>7, <2>6
  <2>8. i - k \in 1 .. Len(o) /\ k + (i - k) = i
    BY <1>2, <1>7, <1>11, <2>7
  <2>9. o[i - k] = v.order[i]
    BY <1>11, <2>8
  <2>10. QED
    BY <2>2, <2>3, <2>8, <2>9
<1>19. Sound(r)
  BY <1>16, <1>17, <1>18 DEF Sound
<1>20. /\ Sound(Publish(r)) /\ WellFormed(Publish(r)) /\ Publish(r).slots = r.slots
       /\ Publish(r).next_generation = r.next_generation /\ Publish(r).closed = r.closed
  BY <1>19, Publishing
<1>21. Without(Publish(r), v, u)
  <2>1. Publish(r) \in WaitLists /\ Publish(r).slots = Ended(v.slots, u.slot)
    BY <1>16, <1>20 DEF Sound
  <2>2. QED
    BY <1>1, <1>9, <2>1, EndingOne
<1>22. QED
  BY <1>9, <1>12, <1>16, <1>20, <1>21

(* The slots and the free stack once a registration took a slot.           *)
Opened(v, reg) ==
  IF v.free = <<>> THEN Append(v.slots, reg) ELSE [v.slots EXCEPT ![ParkSlot(v)] = reg]
Popped(v) == IF v.free = <<>> THEN v.free ELSE SubSeq(v.free, 1, Len(v.free) - 1)

(* A registration takes a slot that was over, or a new one.                *)
LEMMA Opening ==
  ASSUME NEW v, Sound(v), NEW reg \in Regs, reg.waker # NoWaker
  PROVE  /\ Opened(v, reg) \in Seq(Regs) /\ Popped(v) \in Seq(Nat)
         /\ ParkSlot(v) \in 1 .. Len(Opened(v, reg))
         /\ Opened(v, reg)[ParkSlot(v)] = reg
         /\ 1 .. Len(v.slots) \subseteq 1 .. Len(Opened(v, reg))
         /\ \A s \in 1 .. Len(Opened(v, reg)) : s # ParkSlot(v) =>
              s \in 1 .. Len(v.slots) /\ Opened(v, reg)[s] = v.slots[s]
         /\ ParkSlot(v) \in 1 .. Len(v.slots) => ~Taken(v.slots, ParkSlot(v))
         /\ Recycled(Opened(v, reg), Popped(v))
<1> DEFINE k == ParkSlot(v)
           o == Opened(v, reg)
           f == Popped(v)
<1>1. v \in WaitLists /\ Recycled(v.slots, v.free)
  BY DEF Sound
<1>2. /\ v.slots \in Seq(Regs) /\ v.free \in Seq(Nat)
      /\ Len(v.slots) \in Nat /\ Len(v.free) \in Nat
  BY <1>1 DEF WaitLists
<1>3. CASE v.free = <<>>
  <2>1. k = Len(v.slots) + 1 /\ o = Append(v.slots, reg) /\ f = v.free /\ Len(f) = 0
    BY <1>3 DEF ParkSlot, Opened, Popped
  <2> HIDE DEF k, o, f
  <2>2. /\ o \in Seq(Regs) /\ Len(o) = Len(v.slots) + 1 /\ o[k] = reg
        /\ \A s \in 1 .. Len(v.slots) : o[s] = v.slots[s]
    BY <1>2, <2>1
  <2>3. /\ k \in 1 .. Len(o) /\ k \notin 1 .. Len(v.slots)
        /\ 1 .. Len(v.slots) \subseteq 1 .. Len(o)
        /\ \A s \in 1 .. Len(o) : s # k => s \in 1 .. Len(v.slots)
    BY <1>2, <2>1, <2>2
  <2>4. \A s \in 1 .. Len(v.slots) : Taken(v.slots, s)
    BY <1>1, <2>1 DEF Recycled
  <2>5. \A s \in 1 .. Len(o) : Taken(o, s)
    BY <2>2, <2>3, <2>4 DEF Taken
  <2>6. Recycled(o, f)
    BY <2>1, <2>5 DEF Recycled
  <2>7. QED
    BY <1>2, <2>1, <2>2, <2>3, <2>6 DEF k, o, f
<1>4. CASE v.free # <<>>
  <2>1. k = v.free[Len(v.free)] /\ o = [v.slots EXCEPT ![k] = reg]
        /\ f = SubSeq(v.free, 1, Len(v.free) - 1)
    BY <1>4 DEF ParkSlot, Opened, Popped
  <2>2. Len(v.free) \in 1 .. Len(v.free)
    BY <1>2, <1>4
  <2> HIDE DEF k, o, f
  <2>3. k \in 1 .. Len(v.slots) /\ ~Taken(v.slots, k)
    BY <1>1, <2>1, <2>2 DEF Recycled
  <2>4. /\ o \in Seq(Regs) /\ Len(o) = Len(v.slots) /\ o[k] = reg
        /\ \A s \in 1 .. Len(v.slots) : s # k => o[s] = v.slots[s]
    BY <1>2, <2>1, <2>3
  <2>5. /\ f \in Seq(Nat) /\ Len(f) = Len(v.free) - 1
        /\ \A i \in 1 .. Len(f) : f[i] = v.free[i] /\ i \in 1 .. Len(v.free) /\ i # Len(v.free)
    <3> DEFINE m == Len(v.free) - 1
    <3>1. m \in Nat /\ m <= Len(v.free) /\ f = SubSeq(v.free, 1, m)
      BY <1>2, <2>1, <2>2
    <3> HIDE DEF m
    <3>2. f \in Seq(Nat) /\ Len(f) = m /\ \A i \in 1 .. m : f[i] = v.free[i]
      BY <1>2, <3>1
    <3>3. \A i \in 1 .. m : i \in 1 .. Len(v.free) /\ i # Len(v.free)
      BY <1>2, <3>1 DEF m
    <3>4. QED
      BY <3>2, <3>3 DEF m
  <2>6. \A i \in 1 .. Len(f) : f[i] # k
    BY <1>1, <2>1, <2>2, <2>5 DEF Recycled
  <2>7. Recycled(o, f)
    <3>1. \A i \in 1 .. Len(f) : f[i] \in 1 .. Len(o) /\ ~Taken(o, f[i])
      <4> SUFFICES ASSUME NEW i \in 1 .. Len(f) PROVE f[i] \in 1 .. Len(o) /\ ~Taken(o, f[i])
        OBVIOUS
      <4>1. v.free[i] \in 1 .. Len(v.slots) /\ ~Taken(v.slots, v.free[i])
        BY <1>1, <2>5 DEF Recycled
      <4>2. f[i] = v.free[i] /\ f[i] # k
        BY <2>5, <2>6
      <4>3. QED
        BY <2>4, <4>1, <4>2 DEF Taken
    <3>2. \A s \in 1 .. Len(o) : ~Taken(o, s) => \E i \in 1 .. Len(f) : f[i] = s
      <4> SUFFICES ASSUME NEW s \in 1 .. Len(o), ~Taken(o, s)
                   PROVE  \E i \in 1 .. Len(f) : f[i] = s
        OBVIOUS
      <4>1. s # k /\ s \in 1 .. Len(v.slots) /\ ~Taken(v.slots, s)
        BY <2>4 DEF Taken
      <4>2. PICK i \in 1 .. Len(v.free) : v.free[i] = s
        BY <1>1, <4>1 DEF Recycled
      <4>3. i # Len(v.free)
        BY <2>1, <4>1, <4>2
      <4>4. i \in 1 .. Len(f)
        BY <1>2, <2>5, <4>3
      <4>5. QED
        BY <2>5, <4>2, <4>4
    <3>3. \A i, j \in 1 .. Len(f) : f[i] = f[j] => i = j
      BY <1>1, <2>5 DEF Recycled
    <3>4. QED
      BY <3>1, <3>2, <3>3 DEF Recycled
  <2>8. QED
    BY <2>3, <2>4, <2>5, <2>7 DEF k, o, f
<1>5. QED
  BY <1>3, <1>4

(* p has one registration more than v: that of task under ticket t.        *)
With(p, v, t, task) ==
  \A x \in Tickets :
    /\ Live(p, x) <=> Live(v, x) \/ x = t
    /\ Live(p, x) => p.slots[x.slot].waker = IF x = t THEN task ELSE v.slots[x.slot].waker

(* park adds the registration of its ticket and ends none.                 *)
LEMMA Parking ==
  ASSUME NEW v, Sound(v), NEW task \in Tasks
  PROVE  /\ Sound(Park(v, task)) /\ WellFormed(Park(v, task))
         /\ Park(v, task).next_generation = v.next_generation + 1
         /\ Park(v, task).closed = v.closed
         /\ ParkTicket(v) \in Tickets /\ ParkTicket(v).slot # 0
         /\ ParkTicket(v).generation = v.next_generation
         /\ ~Live(v, ParkTicket(v))
         /\ With(Park(v, task), v, ParkTicket(v), task)
<1> DEFINE reg == [waker |-> task, generation |-> v.next_generation]
           k == ParkSlot(v)
           t == ParkTicket(v)
           s1 == Opened(v, reg)
           f1 == Popped(v)
           o1 == Append(v.order, t)
           g1 == v.next_generation + 1
           y == [v EXCEPT !.slots = s1, !.free = f1, !.order = o1, !.next_generation = g1]
<1>1. /\ v \in WaitLists /\ Lined(v.slots, v.order) /\ Arrival(v.order)
      /\ Named(v.slots, v.order, v.next_generation)
  BY DEF Sound
<1>2. /\ v.order \in Seq(Tickets) /\ Len(v.order) \in Nat /\ v.next_generation \in Nat
      /\ v.slots \in Seq(Regs) /\ v.closed \in BOOLEAN /\ Len(v.slots) \in Nat
  BY <1>1 DEF WaitLists
<1>3. reg \in Regs /\ reg.waker # NoWaker /\ reg.generation = v.next_generation
  BY <1>2, WaitersConstants DEF Regs
<1>4. Park(v, task) = Publish(Compact(y))
  BY <1>1 DEF Park, Opened, Popped, WaitLists
<1> HIDE DEF reg
<1>5. /\ s1 \in Seq(Regs) /\ f1 \in Seq(Nat) /\ k \in 1 .. Len(s1) /\ s1[k] = reg
      /\ 1 .. Len(v.slots) \subseteq 1 .. Len(s1)
      /\ \A s \in 1 .. Len(s1) : s # k => s \in 1 .. Len(v.slots) /\ s1[s] = v.slots[s]
      /\ k \in 1 .. Len(v.slots) => ~Taken(v.slots, k)
      /\ Recycled(s1, f1)
  BY <1>3, Opening
<1> HIDE DEF s1, f1, k
<1>6. t = [slot |-> k, generation |-> v.next_generation] /\ k \in Nat /\ k # 0
  BY <1>5 DEF ParkTicket, k
<1> HIDE DEF t
<1>7. t \in Tickets /\ t.slot = k /\ t.generation = v.next_generation
  BY <1>2, <1>6 DEF Tickets
<1>8. /\ o1 \in Seq(Tickets) /\ Len(o1) = Len(v.order) + 1 /\ o1[Len(v.order) + 1] = t
      /\ \A i \in 1 .. Len(v.order) : o1[i] = v.order[i]
      /\ \A i \in 1 .. Len(o1) : i \in 1 .. Len(v.order) \/ i = Len(v.order) + 1
      /\ \A i \in 1 .. Len(v.order) : i \in 1 .. Len(o1)
      /\ Len(v.order) + 1 \in 1 .. Len(o1)
  BY <1>2, <1>7
<1>9. g1 \in Nat
  BY <1>2
<1> HIDE DEF o1, g1
<1>10. /\ y \in WaitLists /\ y.slots = s1 /\ y.free = f1 /\ y.order = o1
       /\ y.next_generation = g1 /\ y.closed = v.closed
  BY <1>1, <1>5, <1>8, <1>9 DEF WaitLists
<1> HIDE DEF y
<1>11. Lined(s1, o1)
  <2> SUFFICES ASSUME NEW s \in 1 .. Len(s1), Taken(s1, s)
               PROVE  \E i \in 1 .. Len(o1) : o1[i] = [slot |-> s, generation |-> s1[s].generation]
    BY DEF Lined
  <2>1. CASE s = k
    BY <1>3, <1>5, <1>6, <1>8, <2>1
  <2>2. CASE s # k
    <3>1. s \in 1 .. Len(v.slots) /\ s1[s] = v.slots[s] /\ Taken(v.slots, s)
      BY <1>5, <2>2 DEF Taken
    <3>2. PICK i \in 1 .. Len(v.order) :
            v.order[i] = [slot |-> s, generation |-> v.slots[s].generation]
      BY <1>1, <3>1 DEF Lined
    <3>3. QED
      BY <1>8, <3>1, <3>2
  <2>3. QED
    BY <2>1, <2>2
<1>12. \A i \in 1 .. Len(v.order) :
         /\ v.order[i] \in Tickets /\ v.order[i].generation \in Nat
         /\ v.order[i].slot \in 1 .. Len(v.slots) /\ v.order[i].generation < v.next_generation
  <2>1. \A i \in 1 .. Len(v.order) : v.order[i] \in Tickets
    BY <1>2
  <2>2. \A i \in 1 .. Len(v.order) :
          v.order[i].slot \in 1 .. Len(v.slots) /\ v.order[i].generation < v.next_generation
    BY <1>1 DEF Named
  <2>3. QED
    BY <2>1, <2>2 DEF Tickets
<1>13. Arrival(o1)
  <2> SUFFICES ASSUME NEW i \in 1 .. Len(o1), NEW j \in 1 .. Len(o1), i < j
               PROVE  o1[i].generation < o1[j].generation
    BY DEF Arrival
  <2>1. i \in 1 .. Len(v.order)
    BY <1>2, <1>8
  <2>2. CASE j \in 1 .. Len(v.order)
    BY <1>1, <1>8, <2>1, <2>2 DEF Arrival
  <2>3. CASE j = Len(v.order) + 1
    BY <1>7, <1>8, <1>12, <2>1, <2>3
  <2>4. QED
    BY <1>8, <2>2, <2>3
<1>14. Named(s1, o1, g1)
  <2> SUFFICES ASSUME NEW i \in 1 .. Len(o1)
               PROVE  /\ o1[i].slot \in 1 .. Len(s1)
                      /\ o1[i].generation < g1
                      /\ o1[i].generation <= s1[o1[i].slot].generation
                      /\ ~Taken(s1, o1[i].slot) => o1[i].generation < s1[o1[i].slot].generation
    BY DEF Named
  <2>1. Taken(s1, k) /\ s1[k].generation = v.next_generation
    BY <1>3, <1>5 DEF Taken
  <2>2. CASE i = Len(v.order) + 1
    <3>1. o1[i] = t
      BY <1>8, <2>2
    <3>2. v.next_generation < g1 /\ v.next_generation <= v.next_generation
      BY <1>2 DEF g1
    <3>3. QED
      BY <1>5, <1>7, <2>1, <3>1, <3>2
  <2>3. CASE i \in 1 .. Len(v.order)
    <3>1. o1[i] = v.order[i] /\ v.order[i].slot \in 1 .. Len(s1)
          /\ v.order[i].generation < v.next_generation /\ v.order[i].generation \in Nat
      BY <1>5, <1>8, <1>12, <2>3
    <3>2. v.order[i].generation < g1
      BY <1>2, <3>1 DEF g1
    <3>3. CASE v.order[i].slot = k
      BY <1>2, <2>1, <3>1, <3>2, <3>3
    <3>4. CASE v.order[i].slot # k
      <4>1. s1[v.order[i].slot] = v.slots[v.order[i].slot]
        BY <1>5, <3>1, <3>4
      <4>2. /\ v.order[i].generation <= v.slots[v.order[i].slot].generation
            /\ ~Taken(v.slots, v.order[i].slot) =>
                 v.order[i].generation < v.slots[v.order[i].slot].generation
        BY <1>1, <2>3 DEF Named
      <4>3. QED
        BY <3>1, <3>2, <4>1, <4>2 DEF Taken
    <3>5. QED
      BY <3>3, <3>4
  <2>4. QED
    BY <1>8, <2>2, <2>3
<1>15. Sound(y)
  BY <1>5, <1>10, <1>11, <1>13, <1>14 DEF Sound
<1>16. /\ Sound(Compact(y)) /\ Compact(y).slots = y.slots
       /\ Compact(y).next_generation = y.next_generation /\ Compact(y).closed = y.closed
  BY <1>15, Compacting
<1> DEFINE p == Park(v, task)
<1>17. /\ Sound(p) /\ WellFormed(p) /\ p.slots = s1
       /\ p.next_generation = g1 /\ p.closed = v.closed
  BY <1>4, <1>10, <1>16, Publishing
<1> HIDE DEF p
<1>18. p \in WaitLists
  BY <1>17 DEF Sound
<1>19. ASSUME NEW x \in Tickets
       PROVE  /\ Live(p, x) <=> Live(v, x) \/ x = t
              /\ Live(p, x) => p.slots[x.slot].waker
                                 = IF x = t THEN task ELSE v.slots[x.slot].waker
              /\ x = t => ~Live(v, x)
  <2>1. CASE x.slot = k
    <3>1. ~Live(v, x)
      BY <1>1, <1>5, <2>1, LiveMeans
    <3>2. x = t <=> x.generation = v.next_generation
      BY <1>7, <2>1 DEF Tickets
    <3>3. Taken(s1, k) /\ s1[k].generation = v.next_generation /\ s1[k].waker = task
      BY <1>3, <1>5 DEF Taken, reg
    <3>4. Live(p, x) <=> x = t
      BY <1>5, <1>17, <1>18, <2>1, <3>2, <3>3, LiveMeans
    <3>5. QED
      BY <1>17, <2>1, <3>1, <3>3, <3>4
  <2>2. CASE x.slot # k
    <3>1. x # t
      BY <1>7, <2>2
    <3>2. x.slot \in 1 .. Len(s1) <=> x.slot \in 1 .. Len(v.slots)
      BY <1>5, <2>2
    <3>3. x.slot \in 1 .. Len(s1) => s1[x.slot] = v.slots[x.slot]
      BY <1>5, <2>2
    <3>4. Live(p, x) <=> Live(v, x)
      BY <1>1, <1>17, <1>18, <3>2, <3>3, LiveMeans DEF Taken
    <3>5. Live(p, x) => x.slot \in 1 .. Len(s1)
      BY <1>17, <1>18, LiveMeans
    <3>6. QED
      BY <1>17, <3>1, <3>3, <3>4, <3>5
  <2>3. QED
    BY <2>1, <2>2
<1>20. With(p, v, t, task) /\ ~Live(v, t)
  BY <1>7, <1>19 DEF With
<1>21. QED
  BY <1>6, <1>7, <1>17, <1>20 DEF p, t, g1

(* The slots that close frees, in the order of the queue.                  *)
LEMMA LastSlots ==
  ASSUME NEW v, Sound(v), NEW pops, pops = Retained(v.order, LiveEntries(v))
  PROVE  /\ pops \in Seq(Tickets)
         /\ \A k \in 1 .. Len(pops) :
              /\ pops[k].slot \in 1 .. Len(v.slots) /\ Taken(v.slots, pops[k].slot)
              /\ \E i \in LiveEntries(v) : pops[k] = v.order[i]
         /\ \A s \in 1 .. Len(v.slots) : Taken(v.slots, s) =>
              /\ \E k \in 1 .. Len(pops) : pops[k].slot = s
              /\ \E i \in LiveEntries(v) : v.order[i].slot = s
         /\ \A k, l \in 1 .. Len(pops) : pops[k].slot = pops[l].slot => k = l
<1>1. /\ v \in WaitLists /\ Lined(v.slots, v.order) /\ Arrival(v.order)
  BY DEF Sound
<1>2. v.order \in Seq(Tickets) /\ DOMAIN v.order = 1 .. Len(v.order) /\ Len(v.order) \in Nat
  BY <1>1 DEF WaitLists
<1>3. PICK L : L = LiveEntries(v)
  OBVIOUS
<1>4. L \in SUBSET (1 .. Len(v.order))
  BY <1>2, <1>3 DEF LiveEntries
<1>5. PICK n : n = Cardinality(L)
  OBVIOUS
<1>6. n \in Nat /\ pops \in Seq(Tickets) /\ Len(pops) = n /\ Chosen(pops, v.order, L)
  <2>1. PICK o \in Seq(Tickets) : o = v.order
    BY <1>2
  <2>2. L \in SUBSET (1 .. Len(o))
    BY <1>4, <2>1
  <2>3. /\ Cardinality(L) \in Nat /\ Retained(o, L) \in Seq(Tickets)
        /\ Len(Retained(o, L)) = Cardinality(L) /\ Chosen(Retained(o, L), o, L)
    BY <2>2, Retaining
  <2>4. QED
    BY <1>3, <1>5, <2>1, <2>3
<1>7. PICK at \in [1 .. n -> L] :
             /\ \A k \in 1 .. n : pops[k] = v.order[at[k]]
             /\ \A k, l \in 1 .. n : k < l => at[k] < at[l]
             /\ \A i \in L : \E k \in 1 .. n : at[k] = i
  BY <1>5, <1>6 DEF Chosen
<1>8. \A i \in L : /\ i \in 1 .. Len(v.order) /\ i \in Int /\ v.order[i] \in Tickets
                   /\ Live(v, v.order[i])
  BY <1>2, <1>3, <1>4 DEF LiveEntries
<1>9. \A i \in L : /\ v.order[i].slot \in 1 .. Len(v.slots) /\ Taken(v.slots, v.order[i].slot)
                   /\ v.slots[v.order[i].slot].generation = v.order[i].generation
                   /\ v.order[i].generation \in Nat
  <2> SUFFICES ASSUME NEW i \in L
               PROVE  /\ v.order[i].slot \in 1 .. Len(v.slots)
                      /\ Taken(v.slots, v.order[i].slot)
                      /\ v.slots[v.order[i].slot].generation = v.order[i].generation
                      /\ v.order[i].generation \in Nat
    OBVIOUS
  <2>1. v.order[i] \in Tickets /\ Live(v, v.order[i])
    BY <1>8
  <2>2. v.order[i].generation \in Nat
    BY <2>1 DEF Tickets
  <2>3. QED
    BY <1>1, <2>1, <2>2, LiveMeans
<1>10. ASSUME NEW k \in 1 .. n
       PROVE  /\ pops[k].slot \in 1 .. Len(v.slots) /\ Taken(v.slots, pops[k].slot)
              /\ \E i \in L : pops[k] = v.order[i]
  BY <1>7, <1>9
<1>11. ASSUME NEW s \in 1 .. Len(v.slots), Taken(v.slots, s)
       PROVE  /\ \E k \in 1 .. n : pops[k].slot = s
              /\ \E i \in L : v.order[i].slot = s
  <2>1. PICK i \in 1 .. Len(v.order) :
          v.order[i] = [slot |-> s, generation |-> v.slots[s].generation]
    BY <1>1, <1>11 DEF Lined
  <2>2. v.order[i] \in Tickets /\ v.order[i].slot = s
        /\ v.order[i].generation = v.slots[s].generation
    BY <1>2, <2>1
  <2>3. Live(v, v.order[i])
    BY <1>1, <1>11, <2>2, LiveMeans
  <2>4. i \in L
    BY <1>2, <1>3, <2>3 DEF LiveEntries
  <2>5. QED
    BY <1>7, <2>2, <2>4
<1>12. ASSUME NEW k \in 1 .. n, NEW l \in 1 .. n, pops[k].slot = pops[l].slot PROVE k = l
  <2>1. /\ pops[k] = v.order[at[k]] /\ pops[l] = v.order[at[l]] /\ at[k] \in L /\ at[l] \in L
    BY <1>7
  <2>2. v.order[at[k]].generation = v.order[at[l]].generation
    BY <1>9, <1>12, <2>1
  <2>3. ~(at[k] < at[l]) /\ ~(at[l] < at[k])
    <3>1. at[k] \in 1 .. Len(v.order) /\ at[l] \in 1 .. Len(v.order)
      BY <1>8, <2>1
    <3>2. v.order[at[k]].generation \in Nat /\ v.order[at[l]].generation \in Nat
      BY <1>9, <2>1
    <3>3. /\ at[k] < at[l] => v.order[at[k]].generation < v.order[at[l]].generation
          /\ at[l] < at[k] => v.order[at[l]].generation < v.order[at[k]].generation
      BY <1>1, <3>1 DEF Arrival
    <3>4. QED
      BY <2>2, <3>2, <3>3
  <2>4. ~(k < l) /\ ~(l < k)
    BY <1>7, <2>3
  <2>5. QED
    BY <1>6, <2>4
<1>13. QED
  BY <1>3, <1>6, <1>10, <1>11, <1>12

(* close ends every registration.                                          *)
LEMMA Closing ==
  ASSUME NEW v, Sound(v)
  PROVE  /\ Sound(Close(v)) /\ WellFormed(Close(v))
         /\ Close(v).next_generation = v.next_generation /\ Close(v).closed = TRUE
         /\ \A x \in Tickets : ~Live(Close(v), x)
<1> DEFINE live == {v.order[i].slot : i \in LiveEntries(v)}
           left == [i \in DOMAIN v.slots |->
                      IF i \in live
                      THEN [waker |-> NoWaker, generation |-> v.slots[i].generation + 1]
                      ELSE v.slots[i]]
           pops == Retained(v.order, LiveEntries(v))
           tail == [i \in DOMAIN pops |-> pops[i].slot]
           f == v.free \o tail
           none == <<>>
           z == [v EXCEPT !.slots = left, !.free = f, !.order = none, !.closed = TRUE]
<1>1. v \in WaitLists /\ Recycled(v.slots, v.free)
  BY DEF Sound
<1>2. /\ v.slots \in Seq(Regs) /\ v.free \in Seq(Nat) /\ DOMAIN v.slots = 1 .. Len(v.slots)
      /\ Len(v.slots) \in Nat /\ Len(v.free) \in Nat
  BY <1>1 DEF WaitLists
<1>3. Close(v) = Publish(z)
  BY <1>1 DEF Close, WaitLists
<1>4. /\ pops \in Seq(Tickets)
      /\ \A k \in 1 .. Len(pops) :
           pops[k].slot \in 1 .. Len(v.slots) /\ Taken(v.slots, pops[k].slot)
      /\ \A s \in 1 .. Len(v.slots) : Taken(v.slots, s) =>
              /\ \E k \in 1 .. Len(pops) : pops[k].slot = s
              /\ \E i \in LiveEntries(v) : v.order[i].slot = s
      /\ \A k, l \in 1 .. Len(pops) : pops[k].slot = pops[l].slot => k = l
  <2>1. PICK r : r = Retained(v.order, LiveEntries(v))
    OBVIOUS
  <2>2. /\ r \in Seq(Tickets)
        /\ \A k \in 1 .. Len(r) :
             r[k].slot \in 1 .. Len(v.slots) /\ Taken(v.slots, r[k].slot)
        /\ \A s \in 1 .. Len(v.slots) : Taken(v.slots, s) =>
                /\ \E k \in 1 .. Len(r) : r[k].slot = s
                /\ \E i \in LiveEntries(v) : v.order[i].slot = s
        /\ \A k, l \in 1 .. Len(r) : r[k].slot = r[l].slot => k = l
    BY <2>1, LastSlots
  <2>3. r = pops
    BY <2>1
  <2> HIDE DEF pops
  <2>4. QED
    BY <2>2, <2>3
<1> HIDE DEF pops
<1>5. /\ tail \in Seq(Nat) /\ Len(tail) = Len(pops) /\ Len(pops) \in Nat
      /\ \A k \in 1 .. Len(pops) : tail[k] = pops[k].slot
  <2>1. DOMAIN pops = 1 .. Len(pops) /\ Len(pops) \in Nat
    BY <1>4
  <2>2. \A k \in 1 .. Len(pops) : pops[k].slot \in Nat
    BY <1>2, <1>4
  <2>3. QED
    BY <2>1, <2>2
<1> HIDE DEF tail
<1>6. /\ f \in Seq(Nat) /\ Len(f) = Len(v.free) + Len(pops)
      /\ \A i \in 1 .. Len(v.free) : f[i] = v.free[i]
      /\ \A k \in 1 .. Len(pops) : f[Len(v.free) + k] = pops[k].slot
  <2>1. PICK a \in Seq(Nat), b \in Seq(Nat) : a = v.free /\ b = tail
    BY <1>2, <1>5
  <2>2. /\ a \o b \in Seq(Nat) /\ Len(a \o b) = Len(a) + Len(b)
        /\ \A i \in 1 .. Len(a) + Len(b) :
             (a \o b)[i] = IF i <= Len(a) THEN a[i] ELSE b[i - Len(a)]
    BY ConcatProperties
  <2>3. f = a \o b
    BY <2>1
  <2> HIDE DEF f
  <2>4. f \in Seq(Nat) /\ Len(f) = Len(v.free) + Len(tail)
    BY <2>1, <2>2, <2>3
  <2>5. \A i \in 1 .. Len(v.free) + Len(tail) :
          f[i] = IF i <= Len(v.free) THEN v.free[i] ELSE tail[i - Len(v.free)]
    BY <2>1, <2>2, <2>3
  <2>6. ASSUME NEW i \in 1 .. Len(v.free) PROVE f[i] = v.free[i]
    BY <1>2, <1>5, <2>5
  <2>7. ASSUME NEW k \in 1 .. Len(pops) PROVE f[Len(v.free) + k] = pops[k].slot
    <3>1. Len(v.free) + k \in 1 .. Len(v.free) + Len(tail) /\ ~(Len(v.free) + k <= Len(v.free))
          /\ (Len(v.free) + k) - Len(v.free) = k
      BY <1>2, <1>5
    <3>2. QED
      BY <1>5, <2>5, <3>1
  <2>8. QED
    BY <1>5, <2>4, <2>6, <2>7
<1> HIDE DEF f
<1>7. /\ left \in Seq(Regs) /\ Len(left) = Len(v.slots)
      /\ \A s \in 1 .. Len(left) : ~Taken(left, s)
  <2>1. \A s \in 1 .. Len(v.slots) : v.slots[s] \in Regs
    BY <1>2
  <2>2. \A s \in 1 .. Len(v.slots) :
          /\ v.slots[s].generation \in Nat
          /\ [waker |-> NoWaker, generation |-> v.slots[s].generation + 1] \in Regs
    BY <2>1 DEF Regs
  <2>3. \A s \in 1 .. Len(v.slots) : s \notin live => ~Taken(v.slots, s)
    BY <1>4
  <2> HIDE DEF live
  <2>4. \A s \in 1 .. Len(v.slots) : left[s] \in Regs /\ left[s].waker = NoWaker
    BY <1>2, <2>1, <2>2, <2>3 DEF Taken
  <2>5. left \in [1 .. Len(v.slots) -> Regs]
    BY <1>2, <2>4
  <2> HIDE DEF left
  <2>6. left \in Seq(Regs) /\ Len(left) = Len(v.slots)
    BY <1>2, <2>5
  <2>7. QED
    BY <2>4, <2>6 DEF Taken
<1> HIDE DEF left
<1>8. none \in Seq(Tickets) /\ Len(none) = 0
  OBVIOUS
<1> HIDE DEF none
<1>9. /\ z \in WaitLists /\ z.slots = left /\ z.free = f /\ z.order = none
      /\ z.next_generation = v.next_generation /\ z.closed = TRUE
  BY <1>1, <1>6, <1>7, <1>8 DEF WaitLists
<1> HIDE DEF z
<1>10. \A j \in 1 .. Len(f) : j \in 1 .. Len(v.free) \/ \E k \in 1 .. Len(pops) : j = Len(v.free) + k
  <2> SUFFICES ASSUME NEW j \in 1 .. Len(f), j \notin 1 .. Len(v.free)
               PROVE  \E k \in 1 .. Len(pops) : j = Len(v.free) + k
    OBVIOUS
  <2>1. j - Len(v.free) \in 1 .. Len(pops) /\ j = Len(v.free) + (j - Len(v.free))
    BY <1>2, <1>5, <1>6
  <2>2. QED
    BY <2>1
<1>11. /\ \A i \in 1 .. Len(v.free) : i \in 1 .. Len(f)
       /\ \A k \in 1 .. Len(pops) : Len(v.free) + k \in 1 .. Len(f)
  BY <1>2, <1>5, <1>6
<1>12. Recycled(left, f)
  <2>1. \A j \in 1 .. Len(f) : f[j] \in 1 .. Len(left) /\ ~Taken(left, f[j])
    <3>1. \A i \in 1 .. Len(v.free) : v.free[i] \in 1 .. Len(v.slots)
      BY <1>1 DEF Recycled
    <3>2. \A i \in 1 .. Len(v.free) : f[i] \in 1 .. Len(v.slots)
      BY <1>6, <3>1
    <3>3. \A k \in 1 .. Len(pops) : f[Len(v.free) + k] \in 1 .. Len(v.slots)
      BY <1>4, <1>6
    <3>4. \A j \in 1 .. Len(f) : f[j] \in 1 .. Len(v.slots)
      BY <1>10, <3>2, <3>3
    <3>5. QED
      BY <1>7, <3>4
  <2>2. ASSUME NEW s \in 1 .. Len(left) PROVE \E j \in 1 .. Len(f) : f[j] = s
    <3>1. CASE Taken(v.slots, s)
      <4>1. PICK k \in 1 .. Len(pops) : pops[k].slot = s
        BY <1>4, <1>7, <3>1
      <4>2. f[Len(v.free) + k] = s /\ Len(v.free) + k \in 1 .. Len(f)
        BY <1>6, <1>11, <4>1
      <4>3. QED
        BY <4>2
    <3>2. CASE ~Taken(v.slots, s)
      <4>1. \E i \in 1 .. Len(v.free) : v.free[i] = s
        BY <1>1, <1>7, <3>2 DEF Recycled
      <4>2. QED
        BY <1>6, <1>11, <4>1
    <3>3. QED
      BY <3>1, <3>2
  <2>3. ASSUME NEW i \in 1 .. Len(f), NEW j \in 1 .. Len(f), f[i] = f[j] PROVE i = j
    <3>1. \A a, b \in 1 .. Len(v.free) : v.free[a] = v.free[b] => a = b
      BY <1>1 DEF Recycled
    <3>2. \A a \in 1 .. Len(v.free) : ~Taken(v.slots, f[a])
      BY <1>1, <1>6 DEF Recycled
    <3>3. \A k \in 1 .. Len(pops) : Taken(v.slots, f[Len(v.free) + k])
      BY <1>4, <1>6
    <3>4. CASE i \in 1 .. Len(v.free) /\ j \in 1 .. Len(v.free)
      BY <1>6, <2>3, <3>1, <3>4
    <3>5. CASE i \notin 1 .. Len(v.free) /\ j \notin 1 .. Len(v.free)
      <4>1. PICK k \in 1 .. Len(pops) : i = Len(v.free) + k
        BY <1>10, <3>5
      <4>2. PICK l \in 1 .. Len(pops) : j = Len(v.free) + l
        BY <1>10, <3>5
      <4>3. pops[k].slot = pops[l].slot
        BY <1>6, <2>3, <4>1, <4>2
      <4>4. QED
        BY <1>4, <4>1, <4>2, <4>3
    <3>6. QED
      BY <1>10, <2>3, <3>2, <3>3, <3>4, <3>5
  <2>4. QED
    BY <2>1, <2>2, <2>3 DEF Recycled
<1>13. Sound(z)
  <2>1. Lined(left, none)
    BY <1>7 DEF Lined
  <2>2. Arrival(none) /\ Named(left, none, v.next_generation)
    BY <1>8 DEF Arrival, Named
  <2>3. QED
    BY <1>9, <1>12, <2>1, <2>2 DEF Sound
<1>14. /\ Sound(Publish(z)) /\ WellFormed(Publish(z)) /\ Publish(z).slots = z.slots
       /\ Publish(z).next_generation = z.next_generation /\ Publish(z).closed = z.closed
  BY <1>13, Publishing
<1>15. ASSUME NEW x \in Tickets PROVE ~Live(Publish(z), x)
  <2>1. Publish(z) \in WaitLists /\ Publish(z).slots = left
    BY <1>9, <1>14 DEF Sound
  <2>2. QED
    BY <1>7, <2>1, LiveMeans
<1>16. QED
  BY <1>3, <1>9, <1>14, <1>15

(* A list nobody has used.                                                 *)
LEMMA Opens == Sound(Fresh) /\ WellFormed(Fresh) /\ \A x \in Tickets : ~Live(Fresh, x)
<1> DEFINE none == <<>>
<1>1. none \in Seq(Regs) /\ none \in Seq(Nat) /\ none \in Seq(Tickets) /\ Len(none) = 0
      /\ DOMAIN none = {}
  OBVIOUS
<1>2. /\ Fresh.slots = none /\ Fresh.free = none /\ Fresh.order = none
      /\ Fresh.next_generation = 0 /\ Fresh.closed = FALSE /\ Fresh.waiting = 0
  BY DEF Fresh
<1>3. Fresh \in WaitLists
  <2>1. Fresh = [slots |-> none, free |-> none, order |-> none,
                 next_generation |-> 0, closed |-> FALSE, waiting |-> 0]
    BY DEF Fresh
  <2> HIDE DEF none
  <2>2. QED
    BY <1>1, <2>1 DEF WaitLists
<1> HIDE DEF none
<1>4. Sound(Fresh)
  BY <1>1, <1>2, <1>3 DEF Sound, Lined, Arrival, Named, Recycled
<1>5. WellFormed(Fresh)
  <2>1. {s \in DOMAIN Fresh.slots : Fresh.slots[s].waker # NoWaker} = {}
    BY <1>1, <1>2
  <2>2. Cardinality({s \in DOMAIN Fresh.slots : Fresh.slots[s].waker # NoWaker}) = 0
    BY <2>1, FS_EmptySet
  <2>3. QED
    BY <1>1, <1>2, <2>2 DEF WellFormed
<1>6. \A x \in Tickets : ~Live(Fresh, x)
  BY <1>1, <1>2 DEF Live
<1>7. QED
  BY <1>4, <1>5, <1>6

(* refresh by the task that is registered changes nothing.                 *)
LEMMA Refreshing ==
  ASSUME NEW v \in WaitLists, NEW u \in Tickets, NEW task,
         Live(v, u) => v.slots[u.slot].waker = task
  PROVE  Refresh(v, u, task) = v
<1>1. CASE ~Live(v, u)
  BY <1>1 DEF Refresh
<1>2. CASE Live(v, u)
  <2>1. v.slots \in Seq(Regs) /\ u.slot \in 1 .. Len(v.slots) /\ v.slots[u.slot].waker = task
    BY <1>2, LiveMeans DEF WaitLists
  <2>2. v.slots[u.slot] \in Regs
    BY <2>1
  <2>3. [v.slots[u.slot] EXCEPT !.waker = task] = v.slots[u.slot]
    BY <2>1, <2>2 DEF Regs
  <2>4. [v.slots EXCEPT ![u.slot] = v.slots[u.slot]] = v.slots
    BY <2>1
  <2>5. [v EXCEPT !.slots = v.slots] = v
    BY DEF WaitLists
  <2>6. Refresh(v, u, task)
          = [v EXCEPT !.slots = [v.slots EXCEPT ![u.slot] = [v.slots[u.slot] EXCEPT !.waker = task]]]
    BY <1>2 DEF Refresh
  <2>7. QED
    BY <2>3, <2>4, <2>5, <2>6
<1>3. QED
  BY <1>1, <1>2

(* Nobody holds the ticket of slot 0.                                      *)
LEMMA NoTicketIsDead ==
  ASSUME NEW v \in WaitLists
  PROVE  NoTicket \in Tickets /\ ~Live(v, NoTicket)
<1>1. NoTicket \in Tickets /\ NoTicket.slot = 0
  BY DEF NoTicket, Tickets
<1>2. QED
  BY <1>1, LiveMeans

-----------------------------------------------------------------------------
(* Tickets, and the tasks that hold them.                                  *)

(* Every registration is that of the ticket its task holds; tickets are    *)
(* older than the next, and nobody shares one.                             *)
Owned(v, held, next) ==
  /\ held \in [Tasks -> Tickets]
  /\ \A u \in Tickets : Live(v, u) =>
       v.slots[u.slot].waker \in Tasks /\ held[v.slots[u.slot].waker] = u
  /\ \A s \in Tasks : held[s] # NoTicket => held[s].generation < next
  /\ \A s, t \in Tasks : held[s] = held[t] /\ s # t => held[s] = NoTicket

(* The list loses registrations, and the task that gave up its ticket, if  *)
(* one did, has none there.                                                *)
LEMMA OwnedShrinks ==
  ASSUME NEW v, NEW x, NEW held, NEW next, Owned(v, held, next), NEW s \in Tasks,
         \A u \in Tickets : Live(x, u) =>
           Live(v, u) /\ x.slots[u.slot].waker = v.slots[u.slot].waker,
         ~Live(x, held[s])
  PROVE  Owned(x, held, next) /\ Owned(x, [held EXCEPT ![s] = NoTicket], next)
<1>1. Owned(x, held, next)
  BY DEF Owned
<1>2. held \in [Tasks -> Tickets] /\ NoTicket \in Tickets
  BY DEF Owned, NoTicket, Tickets
<1> DEFINE h == [held EXCEPT ![s] = NoTicket]
<1>3. h \in [Tasks -> Tickets] /\ \A t \in Tasks : h[t] = IF t = s THEN NoTicket ELSE held[t]
  BY <1>2
<1> HIDE DEF h
<1>4. \A u \in Tickets : Live(x, u) => x.slots[u.slot].waker \in Tasks /\ h[x.slots[u.slot].waker] = u
  BY <1>1, <1>3 DEF Owned
<1>5. \A t \in Tasks : h[t] # NoTicket => h[t].generation < next
  BY <1>1, <1>3 DEF Owned
<1>6. \A r, t \in Tasks : h[r] = h[t] /\ r # t => h[r] = NoTicket
  BY <1>1, <1>3 DEF Owned
<1>7. Owned(x, h, next)
  BY <1>3, <1>4, <1>5, <1>6 DEF Owned
<1>8. QED
  BY <1>1, <1>7 DEF h

(* park registers its caller under a ticket of its own.                    *)
LEMMA OwnedParks ==
  ASSUME NEW v, Sound(v), NEW held, Owned(v, held, v.next_generation), NEW s \in Tasks,
         held[s] = NoTicket, NEW p, p = Park(v, s), NEW t, t = ParkTicket(v)
  PROVE  /\ Sound(p) /\ WellFormed(p) /\ t \in Tickets /\ t # NoTicket
         /\ Owned(p, [held EXCEPT ![s] = t], p.next_generation)
         /\ \A r \in Tasks : Live(p, held[r]) <=> Live(v, held[r])
<1>1. held \in [Tasks -> Tickets]
  BY DEF Owned
<1> DEFINE h == [held EXCEPT ![s] = t]
<1>2. /\ Sound(p) /\ WellFormed(p) /\ p.next_generation = v.next_generation + 1
      /\ t \in Tickets /\ t.slot # 0 /\ t.generation = v.next_generation
      /\ ~Live(v, t) /\ With(p, v, t, s)
  BY Parking
<1>3. h \in [Tasks -> Tickets] /\ \A r \in Tasks : h[r] = IF r = s THEN t ELSE held[r]
  BY <1>1, <1>2
<1> HIDE DEF h
<1>4. v.next_generation \in Nat
  BY DEF Sound, WaitLists
<1>5. t # NoTicket
  BY <1>2 DEF NoTicket
<1>6. \A r \in Tasks : held[r] # t
  <2> SUFFICES ASSUME NEW r \in Tasks, held[r] = t PROVE FALSE
    OBVIOUS
  <2>1. t.generation < v.next_generation
    BY <1>5 DEF Owned
  <2>2. QED
    BY <1>2, <1>4, <2>1
<1>7. ASSUME NEW u \in Tickets, Live(p, u)
      PROVE  p.slots[u.slot].waker \in Tasks /\ h[p.slots[u.slot].waker] = u
  <2>1. CASE u = t
    BY <1>2, <1>3, <1>7, <2>1 DEF With
  <2>2. CASE u # t
    <3>1. Live(v, u) /\ p.slots[u.slot].waker = v.slots[u.slot].waker
      BY <1>2, <1>7, <2>2 DEF With
    <3>2. v.slots[u.slot].waker \in Tasks /\ held[v.slots[u.slot].waker] = u
      BY <3>1 DEF Owned
    <3>3. ~Live(v, NoTicket)
      BY NoTicketIsDead DEF Sound
    <3>4. QED
      BY <1>3, <3>1, <3>2, <3>3
  <2>3. QED
    BY <2>1, <2>2
<1>8. ASSUME NEW r \in Tasks, h[r] # NoTicket PROVE h[r].generation < p.next_generation
  <2>1. CASE r = s
    BY <1>2, <1>3, <1>4, <2>1
  <2>2. CASE r # s
    <3>1. h[r] = held[r] /\ held[r].generation < v.next_generation /\ held[r] \in Tickets
      BY <1>1, <1>3, <1>8, <2>2 DEF Owned
    <3>2. held[r].generation \in Nat
      BY <3>1 DEF Tickets
    <3>3. QED
      BY <1>2, <1>4, <3>1, <3>2
  <2>3. QED
    BY <2>1, <2>2
<1>9. \A r, q \in Tasks : h[r] = h[q] /\ r # q => h[r] = NoTicket
  BY <1>3, <1>6 DEF Owned
<1>10. Owned(p, h, p.next_generation)
  BY <1>3, <1>7, <1>8, <1>9 DEF Owned
<1>11. \A r \in Tasks : Live(p, held[r]) <=> Live(v, held[r])
  BY <1>1, <1>2, <1>6 DEF With
<1>12. QED
  BY <1>2, <1>5, <1>10, <1>11 DEF h

(* A registration that is still live names its own task.                   *)
LEMMA OwnedRefreshes ==
  ASSUME NEW v, Sound(v), NEW held, NEW next, Owned(v, held, next), NEW s \in Tasks
  PROVE  Refresh(v, held[s], s) = v
<1>1. v \in WaitLists
  BY DEF Sound
<1>2. PICK u \in Tickets : u = held[s]
  BY DEF Owned
<1>3. ASSUME Live(v, u) PROVE v.slots[u.slot].waker = s
  <2>1. PICK r \in Tasks : r = v.slots[u.slot].waker /\ held[r] = held[s]
    BY <1>2, <1>3 DEF Owned
  <2>2. held[s] # NoTicket
    BY <1>1, <1>2, <1>3, NoTicketIsDead
  <2>3. QED
    BY <2>1, <2>2 DEF Owned
<1>4. QED
  BY <1>1, <1>2, <1>3, Refreshing

(* A task gives up its own registration and nobody else's.                 *)
LEMMA OwnedEnds ==
  ASSUME NEW v, Sound(v), WellFormed(v), NEW held, Owned(v, held, v.next_generation),
         NEW s \in Tasks, held[s] # NoTicket, NEW x, x = Cancel(v, held[s])
  PROVE  /\ Sound(x) /\ WellFormed(x)
         /\ Owned(x, [held EXCEPT ![s] = NoTicket], x.next_generation)
         /\ \A r \in Tasks : r # s => (Live(x, held[r]) <=> Live(v, held[r]))
<1>1. PICK u \in Tickets : u = held[s]
  BY DEF Owned
<1>2. /\ Sound(x) /\ WellFormed(x) /\ x.next_generation = v.next_generation /\ Without(x, v, u)
  BY <1>1, Cancelling
<1>3. /\ \A y \in Tickets : Live(x, y) => Live(v, y) /\ x.slots[y.slot].waker = v.slots[y.slot].waker
      /\ ~Live(x, held[s])
  BY <1>1, <1>2 DEF Without
<1>4. PICK next : next = v.next_generation
  OBVIOUS
<1>5. Owned(x, [held EXCEPT ![s] = NoTicket], next)
  BY <1>3, <1>4, OwnedShrinks
<1>6. \A r \in Tasks : r # s => held[r] # u /\ held[r] \in Tickets
  BY <1>1 DEF Owned
<1>7. \A r \in Tasks : r # s => (Live(x, held[r]) <=> Live(v, held[r]))
  BY <1>2, <1>6 DEF Without
<1>8. QED
  BY <1>2, <1>4, <1>5, <1>7

(* wake_one takes out the oldest registration, or finds nobody.            *)
LEMMA OwnedTakes ==
  ASSUME NEW v, Sound(v), NEW held, Owned(v, held, v.next_generation), NEW x, x = WakeOne(v)
  PROVE  /\ Sound(x) /\ WellFormed(x) /\ Owned(x, held, x.next_generation)
         /\ \/ Woken(v) = NoWaker /\ \A u \in Tickets : ~Live(v, u) /\ ~Live(x, u)
            \/ /\ Woken(v) \in Tasks /\ Woken(v) # NoWaker
               /\ Live(v, held[Woken(v)]) /\ ~Live(x, held[Woken(v)])
               /\ held[Woken(v)] # NoTicket
               /\ \A r \in Tasks : r # Woken(v) => (Live(x, held[r]) <=> Live(v, held[r]))
<1>1. CASE LiveEntries(v) = {}
  <2>1. /\ Sound(x) /\ WellFormed(x) /\ x.next_generation = v.next_generation
        /\ Woken(v) = NoWaker /\ \A u \in Tickets : ~Live(x, u)
    BY <1>1, WakingNobody
  <2>2. \A u \in Tickets : ~Live(v, u)
    BY <1>1, NobodyQueued
  <2>3. Owned(x, held, x.next_generation)
    BY <2>1 DEF Owned
  <2>4. QED
    BY <2>1, <2>2, <2>3
<1>2. CASE LiveEntries(v) # {}
  <2>1. /\ Sound(x) /\ WellFormed(x) /\ x.next_generation = v.next_generation
        /\ \E u \in Tickets : /\ Live(v, u) /\ Woken(v) = v.slots[u.slot].waker
                              /\ Without(x, v, u)
    BY <1>2, WakingTheOldest
  <2>2. PICK u \in Tickets : /\ Live(v, u) /\ Woken(v) = v.slots[u.slot].waker
                             /\ Without(x, v, u)
    BY <2>1
  <2>3. Woken(v) \in Tasks /\ held[Woken(v)] = u
    BY <2>2 DEF Owned
  <2>4. Woken(v) # NoWaker
    BY <2>3, WaitersConstants
  <2>5. u # NoTicket
    BY <2>2, NoTicketIsDead DEF Sound
  <2>6. Owned(x, held, x.next_generation)
    BY <2>1, <2>2 DEF Owned, Without
  <2>7. \A r \in Tasks : r # Woken(v) => held[r] # u /\ held[r] \in Tickets
    BY <2>3, <2>5 DEF Owned
  <2>8. \A r \in Tasks : r # Woken(v) => (Live(x, held[r]) <=> Live(v, held[r]))
    BY <2>2, <2>7 DEF Without
  <2>9. ~Live(x, u)
    BY <2>2 DEF Without
  <2>10. QED
    BY <2>1, <2>2, <2>3, <2>4, <2>5, <2>6, <2>8, <2>9
<1>3. QED
  BY <1>1, <1>2

(* close leaves nobody registered; whom it wakes was.                      *)
LEMMA OwnedCloses ==
  ASSUME NEW v, Sound(v), NEW held, Owned(v, held, v.next_generation), NEW x, x = Close(v)
  PROVE  /\ Sound(x) /\ WellFormed(x) /\ Owned(x, held, x.next_generation)
         /\ \A u \in Tickets : ~Live(x, u)
         /\ Parked(v) \subseteq Tasks
<1>1. /\ Sound(x) /\ WellFormed(x) /\ x.next_generation = v.next_generation
      /\ \A u \in Tickets : ~Live(x, u)
  BY Closing
<1>2. Owned(x, held, x.next_generation)
  BY <1>1 DEF Owned
<1>3. ASSUME NEW i \in LiveEntries(v) PROVE v.slots[v.order[i].slot].waker \in Tasks
  <2>1. v.order \in Seq(Tickets) /\ i \in DOMAIN v.order /\ Live(v, v.order[i])
    BY DEF Sound, WaitLists, LiveEntries
  <2>2. v.order[i] \in Tickets
    BY <2>1
  <2>3. QED
    BY <2>1, <2>2 DEF Owned
<1>4. QED
  BY <1>1, <1>2, <1>3 DEF Parked

(* At first nobody holds a ticket.                                         *)
LEMMA OwnedOpens == Owned(Fresh, [s \in Tasks |-> NoTicket], Fresh.next_generation)
<1>1. \A x \in Tickets : ~Live(Fresh, x)
  BY Opens
<1>2. NoTicket \in Tickets
  BY DEF NoTicket, Tickets
<1>3. QED
  BY <1>1, <1>2 DEF Owned

-----------------------------------------------------------------------------
(* Wakes are counted as the tasks they were promised to.                   *)

(* How much smaller a set may be for having lost or gained an element.     *)
LEMMA Balances ==
  ASSUME NEW P, NEW Q, IsFiniteSet(P), IsFiniteSet(Q), NEW s, NEW t, t \notin P
  PROVE  /\ Cardinality(P) \in Nat /\ Cardinality(Q) \in Nat
         /\ P \subseteq Q => Cardinality(Q) >= Cardinality(P)
         /\ P \ {s} \subseteq Q => Cardinality(Q) + 1 >= Cardinality(P)
         /\ P \cup {t} \subseteq Q => Cardinality(Q) >= Cardinality(P) + 1
         /\ (P \ {s}) \cup {t} \subseteq Q => Cardinality(Q) >= Cardinality(P)
<1>1. Cardinality(P) \in Nat /\ Cardinality(Q) \in Nat
  BY FS_CardinalityType
<1>2. \A R \in SUBSET Q : Cardinality(R) <= Cardinality(Q)
  BY FS_Subset
<1> DEFINE L == P \ {s}
<1>3. /\ IsFiniteSet(L) /\ Cardinality(L) = IF s \in P THEN Cardinality(P) - 1 ELSE Cardinality(P)
      /\ t \notin L
  BY FS_RemoveElement
<1> HIDE DEF L
<1>4. Cardinality(P \cup {t}) = Cardinality(P) + 1
  BY FS_AddElement
<1>5. Cardinality(L \cup {t}) = Cardinality(L) + 1
  BY <1>3, FS_AddElement
<1>6. P \subseteq Q => Cardinality(Q) >= Cardinality(P)
  BY <1>1, <1>2
<1>7. L \subseteq Q => Cardinality(Q) + 1 >= Cardinality(P)
  <2>1. L \subseteq Q => Cardinality(L) <= Cardinality(Q)
    BY <1>2
  <2>2. QED
    BY <1>1, <1>3, <2>1
<1>8. P \cup {t} \subseteq Q => Cardinality(Q) >= Cardinality(P) + 1
  <2>1. P \cup {t} \subseteq Q => Cardinality(P \cup {t}) <= Cardinality(Q)
    BY <1>2
  <2>2. QED
    BY <1>1, <1>4, <2>1
<1>9. L \cup {t} \subseteq Q => Cardinality(Q) >= Cardinality(P)
  <2>1. L \cup {t} \subseteq Q => Cardinality(L \cup {t}) <= Cardinality(Q)
    BY <1>2
  <2>2. QED
    BY <1>1, <1>3, <1>5, <2>1
<1>10. QED
  BY <1>1, <1>6, <1>7, <1>8, <1>9 DEF L

=============================================================================
