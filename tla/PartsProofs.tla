----------------------------- MODULE PartsProofs ----------------------------
(***************************************************************************)
(* Proofs about the components that share nothing and that MCParts checks  *)
(* together: Ring, Timer, Offload, Metrics and Layout, each for every value *)
(* of its constants, and each from an inductive invariant of its own.      *)
(*                                                                         *)
(* Ring.  Position is recursive; its closed form (the n-th position is n   *)
(* written in laps) comes first, with the arithmetic it takes.  RingInv    *)
(* then says who may be where: stamps and cursors are positions, what a    *)
(* slot's stamp makes of it (vacant, being written, full, being read)      *)
(* agrees with who holds it, every value is the one claimed at its         *)
(* position, and a thread holding a stale stamp or a stale cursor knows    *)
(* how stale it may be.  FullIsHonest is that last part.                   *)
(*                                                                         *)
(* Timer.  The argument is about blocks: at each level time is cut into    *)
(* blocks of the level's width, and an entry is filed so that its block is *)
(* ahead of the cursor's while, below the top level, both are in one block *)
(* of the level above.  That is TimerInv's main part; an entry filed       *)
(* behind the cursor is in its slot instead.  It follows when each slot    *)
(* wakes, hence what the cached event must be; that at the earliest wakeup *)
(* a cascade leaves in the cursor's lowest slot what is due and nothing    *)
(* else; and that every entry which is left wakes later.                   *)
(*                                                                         *)
(* Offload.  Served says which runs are in the wait list, and Enough       *)
(* counts: while anyone relies on being woken, as many wakes are under way *)
(* as permits are free, or as many as there are runs to wake.              *)
(*                                                                         *)
(* Metrics.  Honest says that a slot that is alive holds the start of a    *)
(* dispatch in flight and none holds too early a start, that completions   *)
(* and dispatches in flight add up to those there were, and that while a   *)
(* report is being stored what it is stored from does not change.          *)
(*                                                                         *)
(* Layout.  Planned says that the plan is the one made for the machine,    *)
(* the quota and the workload as it is now.  That such a plan is sound     *)
(* takes two facts: cores lie apart and each on one node, and a choice of  *)
(* the best is a sequence in which each core stands once, at its rank.     *)
(***************************************************************************)
EXTENDS Ring, Timer, Offload, Metrics, Layout, WaitersProofs, NaturalsInduction, WellFoundedInduction

-----------------------------------------------------------------------------
(* Ring.                                                                   *)

(* Multiples of a width are at least a width apart.                        *)
LEMMA Apart ==
  ASSUME NEW w \in Nat \ {0}, NEW a \in Nat, NEW b \in Nat, a < b
  PROVE  a * w + w <= b * w
<1>1. PICK d \in Nat : b = a + 1 + d
  <2>1. b - a - 1 \in Nat /\ b = a + 1 + (b - a - 1)
    OBVIOUS
  <2>2. QED
    BY <2>1
<1>2. b * w = a * w + w + d * w
  BY <1>1
<1>3. d * w \in Nat /\ a * w \in Nat
  OBVIOUS
<1>4. QED
  BY <1>2, <1>3

(* What quotient and remainder are.                                        *)
LEMMA Division ==
  ASSUME NEW w \in Nat \ {0}, NEW n \in Nat
  PROVE  /\ n \div w \in Nat
         /\ n % w \in 0 .. w - 1
         /\ n = (n \div w) * w + (n % w)
<1>1. n \div w \in Int
  OBVIOUS
<1>2. n % w \in 0 .. w - 1
  OBVIOUS
<1>3. n = w * (n \div w) + (n % w)
  OBVIOUS
<1>3a. n = (n \div w) * w + (n % w)
  BY <1>1, <1>2, <1>3
<1>4. n \div w \in Nat
  BY <1>1, <1>2, <1>3
<1> QED BY <1>1, <1>2, <1>3a, <1>4

(* A number has one quotient and one remainder.                            *)
LEMMA DivisionUnique ==
  ASSUME NEW w \in Nat \ {0}, NEW q \in Nat, NEW r \in 0 .. w - 1,
         NEW p \in Nat, NEW s \in 0 .. w - 1, q * w + r = p * w + s
  PROVE  q = p /\ r = s
<1>1. ~ (q < p)
  <2>1. q < p => q * w + w <= p * w
    BY Apart
  <2>2. QED
    BY <2>1
<1>2. ~ (p < q)
  <2>1. p < q => p * w + w <= q * w
    BY Apart
  <2>2. QED
    BY <2>1
<1>3. QED
  BY <1>1, <1>2

(* The quotient and the remainder of a number written with them.           *)
LEMMA Remainder ==
  ASSUME NEW w \in Nat \ {0}, NEW q \in Nat, NEW r \in 0 .. w - 1
  PROVE  (q * w + r) % w = r /\ (q * w + r) \div w = q
<1>1. PICK n \in Nat : n = q * w + r
  OBVIOUS
<1>2. n \div w \in Nat /\ n % w \in 0 .. w - 1 /\ n = (n \div w) * w + (n % w)
  BY Division
<1>3. QED
  BY <1>1, <1>2, DivisionUnique

-----------------------------------------------------------------------------
(* Positions.  The n-th position has lap n \div Capacity and index         *)
(* n % Capacity.                                                           *)

Lapped(n) == (n \div Capacity) * OneLap + (n % Capacity)

(* The n-th position in terms of its lap and its index.                    *)
LEMMA LappedParts ==
  ASSUME NEW q \in Nat, NEW r \in Indexes
  PROVE  /\ q * Capacity + r \in Nat
         /\ Lapped(q * Capacity + r) = q * OneLap + r
         /\ q * OneLap + r \in Nat
         /\ Index(q * OneLap + r) = r
<1>1. Capacity \in Nat \ {0} /\ OneLap \in Nat \ {0} /\ r \in 0 .. Capacity - 1
      /\ r \in 0 .. OneLap - 1
  BY RingConstants, OneLapExists DEF Indexes
<1>2. q * Capacity + r \in Nat /\ q * OneLap + r \in Nat
  BY <1>1
<1>3. (q * Capacity + r) % Capacity = r /\ (q * Capacity + r) \div Capacity = q
  BY <1>1, Remainder
<1>4. (q * OneLap + r) % OneLap = r
  BY <1>1, Remainder
<1>5. QED
  BY <1>2, <1>3, <1>4 DEF Lapped, Index

(* Every number has a lap and an index.                                    *)
LEMMA Parts ==
  ASSUME NEW n \in Nat
  PROVE  \E q \in Nat, r \in Indexes : n = q * Capacity + r /\ Lapped(n) = q * OneLap + r
<1>1. Capacity \in Nat \ {0}
  BY RingConstants
<1>2. n \div Capacity \in Nat /\ n % Capacity \in Indexes
      /\ n = (n \div Capacity) * Capacity + (n % Capacity)
  BY <1>1, Division DEF Indexes
<1>3. QED
  BY <1>2 DEF Lapped

(* Advance goes from each position to the next.                            *)
LEMMA LappedAdvances ==
  ASSUME NEW n \in Nat
  PROVE  Lapped(n) \in Nat /\ Advance(Lapped(n)) = Lapped(n + 1)
<1>0. Capacity \in Nat \ {0} /\ OneLap \in Nat
  BY RingConstants, OneLapExists
<1>1. PICK q \in Nat, r \in Indexes : n = q * Capacity + r /\ Lapped(n) = q * OneLap + r
  BY Parts
<1>2. Lapped(n) \in Nat /\ Index(Lapped(n)) = r
  BY <1>1, LappedParts
<1>3. CASE r + 1 < Capacity
  <2>1. r + 1 \in Indexes /\ n + 1 = q * Capacity + (r + 1)
    BY <1>0, <1>1, <1>3 DEF Indexes
  <2>2. Lapped(n + 1) = q * OneLap + (r + 1)
    BY <2>1, LappedParts
  <2>3. Advance(Lapped(n)) = Lapped(n) + 1
    BY <1>2, <1>3 DEF Advance
  <2>4. QED
    BY <1>0, <1>1, <1>2, <2>2, <2>3 DEF Indexes
<1>4. CASE ~ (r + 1 < Capacity)
  <2>1. r = Capacity - 1 /\ r \in Nat
    BY <1>0, <1>4 DEF Indexes
  <2>2. n + 1 = (q + 1) * Capacity + 0 /\ 0 \in Indexes /\ q + 1 \in Nat
    BY <1>0, <1>1, <2>1 DEF Indexes
  <2>3. Lapped(n + 1) = (q + 1) * OneLap + 0
    BY <2>2, LappedParts
  <2>4. Advance(Lapped(n)) = Lapped(n) - r + OneLap
    BY <1>2, <1>4 DEF Advance
  <2>5. Lapped(n) - r + OneLap = (q + 1) * OneLap + 0
    BY <1>0, <1>1, <2>1
  <2>6. QED
    BY <1>2, <2>3, <2>4, <2>5
<1>5. QED
  BY <1>3, <1>4

(* A set of natural numbers has a least element.                           *)
LEMMA LeastNatural ==
  ASSUME NEW T, T \subseteq Nat, T # {}
  PROVE  \E x \in T : \A y \in T : x <= y
<1> DEFINE R == OpToRel(<, Nat)
<1>1. IsWellFoundedOn(R, Nat)
  BY NatLessThanWellFounded
<1>2. \A x, y \in Nat : y < x => <<y, x>> \in R
  BY DEF OpToRel
<1> HIDE DEF R
<1>3. \E x \in T : \A y \in T : ~ (<<y, x>> \in R)
  BY <1>1, WFMin
<1>4. PICK x \in T : \A y \in T : ~ (<<y, x>> \in R)
  BY <1>3
<1>5. ASSUME NEW y \in T PROVE x <= y
  <2>1. x \in Nat /\ y \in Nat /\ ~ (<<y, x>> \in R)
    BY <1>4
  <2>2. ~ (y < x)
    BY <1>2, <2>1
  <2>3. QED
    BY <2>1, <2>2
<1>6. QED
  BY <1>5

(* Position is what its recursive definition says, and so the n-th         *)
(* position.                                                               *)
LEMMA PositionLapped == \A n \in Nat : Position[n] = Lapped(n)
<1> DEFINE G == [n \in Nat |-> Lapped(n)]
           F(g) == [n \in Nat |-> IF n = 0 THEN 0 ELSE Advance(g[n - 1])]
<1>1. Lapped(0) = 0
  <2>1. 0 = 0 * Capacity + 0 /\ 0 \in Indexes /\ 0 * OneLap + 0 = 0
    BY RingConstants, OneLapExists DEF Indexes
  <2>2. QED
    BY <2>1, LappedParts
<1>2. ASSUME NEW n \in Nat PROVE Lapped(n) = IF n = 0 THEN 0 ELSE Advance(G[n - 1])
  <2>1. CASE n = 0
    BY <1>1, <2>1
  <2>2. CASE n # 0
    <3>1. n - 1 \in Nat /\ (n - 1) + 1 = n
      BY <2>2
    <3>2. G[n - 1] = Lapped(n - 1)
      BY <3>1
    <3>3. Advance(Lapped(n - 1)) = Lapped((n - 1) + 1)
      BY <3>1, LappedAdvances
    <3>4. QED
      BY <2>2, <3>1, <3>2, <3>3
  <2>3. QED
    BY <2>1, <2>2
<1>3. G = F(G)
  BY <1>2
<1>4. Position = CHOOSE g : g = F(g)
  BY DEF Position
<1>5. Position = F(Position)
  BY <1>3, <1>4
<1>6. ASSUME NEW n \in Nat PROVE Position[n] = IF n = 0 THEN 0 ELSE Advance(Position[n - 1])
  BY <1>5
<1> HIDE DEF G, F
<1> DEFINE T == {n \in Nat : Position[n] # Lapped(n)}
<1>7. SUFFICES ASSUME T # {} PROVE FALSE
  OBVIOUS
<1>8. PICK n \in T : \A m \in T : n <= m
  BY <1>7, LeastNatural
<1>9. n # 0
  BY <1>1, <1>6, <1>8
<1>10. n - 1 \in Nat /\ n \in Nat /\ (n - 1) + 1 = n /\ n - 1 \notin T
  BY <1>8, <1>9
<1>11. Position[n - 1] = Lapped(n - 1)
  BY <1>10
<1>12. Position[n] = Advance(Lapped(n - 1))
  BY <1>6, <1>9, <1>10, <1>11
<1>13. Advance(Lapped(n - 1)) = Lapped(n)
  <2>1. Advance(Lapped(n - 1)) = Lapped((n - 1) + 1)
    BY <1>10, LappedAdvances
  <2>2. QED
    BY <2>1, <1>10
<1>14. QED
  BY <1>8, <1>12, <1>13

(* The positions in order, and the slots they name.                        *)
LEMMA PositionSteps ==
  ASSUME NEW n \in Nat
  PROVE  /\ Position[n] \in Nat
         /\ Index(Position[n]) \in Indexes
         /\ Advance(Position[n]) = Position[n + 1]
<1>1. PICK q \in Nat, r \in Indexes : n = q * Capacity + r /\ Lapped(n) = q * OneLap + r
  BY Parts
<1>2. Index(Lapped(n)) = r
  BY <1>1, LappedParts
<1>3. Position[n] = Lapped(n) /\ Position[n + 1] = Lapped(n + 1)
  BY PositionLapped
<1>4. QED
  BY <1>2, <1>3, LappedAdvances

(* The first position is zero.                                             *)
LEMMA FirstPosition == Position[0] = 0
<1>1. 0 = 0 * Capacity + 0 /\ 0 \in Indexes /\ 0 * OneLap + 0 = 0
  BY RingConstants, OneLapExists DEF Indexes
<1>2. Lapped(0) = 0
  BY <1>1, LappedParts
<1>3. QED
  BY <1>2, PositionLapped

(* The first positions are the indexes themselves.                         *)
LEMMA FirstLap ==
  ASSUME NEW n \in Indexes
  PROVE  Position[n] = n /\ Index(Position[n]) = n
<1>1. n \in Nat /\ n = 0 * Capacity + n /\ 0 * OneLap + n = n
  BY RingConstants, OneLapExists DEF Indexes
<1>2. Lapped(n) = n /\ Index(n) = n
  BY <1>1, LappedParts
<1>3. QED
  BY <1>1, <1>2, PositionLapped

(* Capacity positions later the same slot comes up again, a lap later.     *)
LEMMA NextLap ==
  ASSUME NEW n \in Nat
  PROVE  /\ n + Capacity \in Nat
         /\ Position[n + Capacity] = Position[n] + OneLap
         /\ Index(Position[n + Capacity]) = Index(Position[n])
<1>0. Capacity \in Nat /\ OneLap \in Nat
  BY RingConstants, OneLapExists
<1>1. PICK q \in Nat, r \in Indexes : n = q * Capacity + r /\ Lapped(n) = q * OneLap + r
  BY Parts
<1>2. n + Capacity = (q + 1) * Capacity + r /\ q + 1 \in Nat /\ n + Capacity \in Nat
  BY <1>0, <1>1 DEF Indexes
<1>3. /\ Lapped(n + Capacity) = (q + 1) * OneLap + r
      /\ Index((q + 1) * OneLap + r) = r
      /\ Index(q * OneLap + r) = r
  BY <1>2, LappedParts
<1>4. (q + 1) * OneLap + r = q * OneLap + r + OneLap
  BY <1>0 DEF Indexes
<1>5. Position[n] = Lapped(n) /\ Position[n + Capacity] = Lapped(n + Capacity)
  BY <1>2, PositionLapped
<1>6. QED
  BY <1>1, <1>2, <1>3, <1>4, <1>5

(* Two positions of one slot are a whole number of laps apart, so a stamp  *)
(* of one, free or published, is never taken for a stamp of the other.     *)
LEMMA SameSlot ==
  ASSUME NEW m \in Nat, NEW n \in Nat, Index(Position[m]) = Index(Position[n])
  PROVE  /\ Position[m] = Position[n] => m = n
         /\ Position[m] + 1 # Position[n]
         /\ m < n => m + Capacity <= n
<1>0. Capacity \in Nat \ {0} /\ OneLap \in Nat \ {0} /\ OneLap > 1
  BY RingConstants, OneLapExists
<1>1. PICK q \in Nat, r \in Indexes : m = q * Capacity + r /\ Lapped(m) = q * OneLap + r
  BY Parts
<1>2. PICK p \in Nat, s \in Indexes : n = p * Capacity + s /\ Lapped(n) = p * OneLap + s
  BY Parts
<1>3. Position[m] = q * OneLap + r /\ Position[n] = p * OneLap + s
  BY <1>1, <1>2, PositionLapped
<1>4. r = s /\ r \in Nat
  <2>1. Index(q * OneLap + r) = r /\ Index(p * OneLap + s) = s
    BY LappedParts
  <2>2. QED
    BY <1>3, <2>1 DEF Indexes
<1>5. CASE q = p
  BY <1>0, <1>1, <1>2, <1>3, <1>4, <1>5
<1>6. CASE q < p
  <2>1. q * OneLap + OneLap <= p * OneLap /\ q * Capacity + Capacity <= p * Capacity
    BY <1>0, <1>6, Apart
  <2>2. q * OneLap \in Nat /\ p * OneLap \in Nat /\ q * Capacity \in Nat /\ p * Capacity \in Nat
    BY <1>0
  <2>3. QED
    BY <1>0, <1>1, <1>2, <1>3, <1>4, <2>1, <2>2
<1>7. CASE p < q
  <2>1. p * OneLap + OneLap <= q * OneLap /\ p * Capacity + Capacity <= q * Capacity
    BY <1>0, <1>7, Apart
  <2>2. q * OneLap \in Nat /\ p * OneLap \in Nat /\ q * Capacity \in Nat /\ p * Capacity \in Nat
    BY <1>0
  <2>3. QED
    BY <1>0, <1>1, <1>2, <1>3, <1>4, <2>1, <2>2
<1>8. QED
  BY <1>5, <1>6, <1>7

(* Equal positions are the same place in the order.                        *)
LEMMA PositionInjective ==
  ASSUME NEW m \in Nat, NEW n \in Nat, Position[m] = Position[n]
  PROVE  m = n
BY SameSlot

(* Any Capacity positions in a row name every slot.                        *)
LEMMA Resident ==
  ASSUME NEW f \in Nat, NEW i \in Indexes
  PROVE  \E m \in Nat : f <= m /\ m < f + Capacity /\ Index(Position[m]) = i
<1>0. Capacity \in Nat \ {0} /\ OneLap \in Nat
  BY RingConstants, OneLapExists
<1>1. PICK q \in Nat, r \in Indexes : f = q * Capacity + r
  BY Parts
<1>2. CASE r <= i
  <2>1. PICK m \in Nat : m = q * Capacity + i
    BY LappedParts
  <2>2. Lapped(m) = q * OneLap + i /\ Index(q * OneLap + i) = i
    BY <2>1, LappedParts
  <2>3. Index(Position[m]) = i
    BY <2>2, PositionLapped
  <2>4. q * Capacity \in Nat /\ f <= m /\ m < f + Capacity
    BY <1>0, <1>1, <1>2, <2>1 DEF Indexes
  <2>5. QED
    BY <2>3, <2>4
<1>3. CASE i < r
  <2>0. q + 1 \in Nat
    OBVIOUS
  <2>1. PICK m \in Nat : m = (q + 1) * Capacity + i
    BY <2>0, LappedParts
  <2>2. Lapped(m) = (q + 1) * OneLap + i /\ Index((q + 1) * OneLap + i) = i
    BY <2>0, <2>1, LappedParts
  <2>3. Index(Position[m]) = i
    BY <2>2, PositionLapped
  <2>4. (q + 1) * Capacity = q * Capacity + Capacity /\ q * Capacity \in Nat
    BY <1>0
  <2>5. f <= m /\ m < f + Capacity
    BY <1>0, <1>1, <1>3, <2>1, <2>4 DEF Indexes
  <2>6. QED
    BY <2>3, <2>5
<1>4. QED
  BY <1>2, <1>3 DEF Indexes

-----------------------------------------------------------------------------
(* The inductive invariant.  Positions are counted: Len(claimed) were      *)
(* claimed and Freed of them given back, so the places in the ring are     *)
(* those from Freed on, and the Capacity places from there on each have a  *)
(* slot of their own.                                                      *)

SlotAt(n) == Index(Position[n])

(* The types of the variables.                                             *)
RingTypes ==
  /\ stamp \in [Indexes -> Nat]
  /\ value \in [Indexes -> Items \cup {Empty}]
  /\ ppc \in [Producers -> {"idle", "stamp", "cas", "write", "publish", "reload", "full"}]
  /\ mytail \in [Producers -> Nat]
  /\ calls \in [Producers -> 0 .. MaxPushes]
  /\ cpc \in {"idle", "take", "free"}
  /\ claimed \in Seq(Items)
  /\ popped \in Seq(Items \cup {Empty})
  /\ sawfull \in [Producers -> BOOLEAN]

(* The cursors are the positions of the two counts, less than a lap apart. *)
Cursors ==
  /\ Freed \in Nat
  /\ Freed <= Len(claimed) /\ Len(claimed) <= Freed + Capacity
  /\ tail = Position[Len(claimed)] /\ head = Position[Freed]

(* What was popped is what was claimed, in that order.                     *)
InOrder ==
  /\ Len(popped) <= Len(claimed)
  /\ \A k \in 1 .. Len(popped) : popped[k] = claimed[k]

(* A slot is free for the next place it will hold, claimed for it and not  *)
(* yet written, or published with that place's value.                      *)
Slots ==
  \A n \in Freed .. Freed + Capacity - 1 :
    \/ stamp[SlotAt(n)] = Position[n]
    \/ n < Len(claimed) /\ stamp[SlotAt(n)] = Position[n] + 1

Values ==
  \A n \in Freed .. Len(claimed) - 1 :
    stamp[SlotAt(n)] = Position[n] + 1 =>
      value[SlotAt(n)] = claimed[n + 1] \/ (cpc = "free" /\ n = Freed)

Consumer == cpc # "idle" => Freed < Len(claimed) /\ stamp[SlotAt(Freed)] = head + 1

(* A producer between its claim and its publication owns one place.        *)
WriterAt(p, n) ==
  /\ Freed <= n /\ n < Len(claimed)
  /\ mytail[p] = Position[n]
  /\ stamp[SlotAt(n)] = Position[n]
  /\ claimed[n + 1] = Item(p)
  /\ ppc[p] = "publish" => value[SlotAt(n)] = Item(p)

Writers ==
  \A p \in Producers : ppc[p] \in {"write", "publish"} =>
    \E n \in 0 .. Len(claimed) : WriterAt(p, n)

(* A producer that looks for a place has seen the tail at one that may be  *)
(* taken by now.  If that place was a whole lap ahead then, the ring was   *)
(* full; if it is still the next, what the stamp said of it still holds.   *)
LookerAt(p, n) ==
  /\ mytail[p] = Position[n]
  /\ Freed + Capacity <= n => sawfull[p]
  /\ ppc[p] = "cas" /\ n = Len(claimed) => n < Freed + Capacity
  /\ ppc[p] = "reload" /\ n = Len(claimed) => sawfull[p]
  /\ ppc[p] = "full" => sawfull[p]

Lookers ==
  \A p \in Producers : ppc[p] \in {"stamp", "cas", "reload", "full"} =>
    \E n \in 0 .. Len(claimed) : LookerAt(p, n)

Calling == \A p \in Producers : ppc[p] # "idle" => calls[p] \in 1 .. MaxPushes

RingInv ==
  /\ RingTypes /\ Cursors /\ InOrder /\ Slots /\ Values /\ Consumer
  /\ Writers /\ Lookers /\ Calling

(* Places less than a lap apart have slots of their own.                   *)
LEMMA OwnSlots ==
  ASSUME NEW f \in Nat, NEW m \in Nat, NEW n \in Nat,
         f <= m, m < f + Capacity, f <= n, n < f + Capacity, SlotAt(m) = SlotAt(n)
  PROVE  m = n
<1>1. Capacity \in Nat
  BY RingConstants
<1>2. (m < n => m + Capacity <= n) /\ (n < m => n + Capacity <= m)
  BY SameSlot DEF SlotAt
<1>3. QED
  BY <1>1, <1>2

(* The positions and slots of natural numbers.                             *)
LEMMA SlotTypes ==
  ASSUME NEW n \in Nat
  PROVE  Position[n] \in Nat /\ SlotAt(n) \in Indexes /\ Index(Position[n]) = SlotAt(n)
BY PositionSteps DEF SlotAt

(* Freed is Len(popped), less one while the consumer has yet to free it.   *)
LEMMA FreedIs ==
  ASSUME RingTypes
  PROVE  /\ Len(popped) \in Nat /\ Len(claimed) \in Nat /\ Freed \in Int
         /\ cpc = "free" => Freed = Len(popped) - 1
         /\ cpc # "free" => Freed = Len(popped)
BY DEF RingTypes, Freed

(* The invariant holds of an empty ring.                                   *)
LEMMA RingInvInit == RingInit => RingInv
<1> SUFFICES ASSUME RingInit PROVE RingInv
  OBVIOUS
<1> USE DEF RingInit
<1>0. Capacity \in Nat \ {0} /\ MaxPushes \in Nat
  BY RingConstants
<1>1. RingTypes
  <2>1. stamp \in [Indexes -> Nat]
    BY <1>0 DEF Indexes
  <2>2. QED
    BY <1>0, <2>1 DEF RingTypes
<1>2. Freed = 0 /\ Len(claimed) = 0 /\ Len(popped) = 0
  BY DEF Freed
<1>3. Cursors
  BY <1>0, <1>2, FirstPosition DEF Cursors
<1>4. InOrder
  BY <1>2 DEF InOrder
<1>5. Slots
  <2>1. ASSUME NEW n \in 0 .. Capacity - 1 PROVE stamp[SlotAt(n)] = Position[n]
    <3>1. n \in Indexes
      BY DEF Indexes
    <3>2. Position[n] = n /\ SlotAt(n) = n
      BY <3>1, FirstLap DEF SlotAt
    <3>3. QED
      BY <3>1, <3>2
  <2>2. Freed .. Freed + Capacity - 1 = 0 .. Capacity - 1
    BY <1>0, <1>2
  <2> HIDE DEF RingInit
  <2>3. QED
    BY <2>1, <2>2 DEF Slots
<1>6. Values /\ Consumer
  BY <1>2 DEF Values, Consumer
<1>7. Writers /\ Lookers /\ Calling
  BY DEF Writers, Lookers, Calling
<1>8. QED
  BY <1>1, <1>3, <1>4, <1>5, <1>6, <1>7 DEF RingInv

(* A producer inside a call remembers that the ring was full.              *)
LEMMA NotesFull ==
  ASSUME NoteFull, NEW q \in Producers, ppc'[q] # "idle", sawfull[q] \/ IsFull'
  PROVE  sawfull'[q] = TRUE
BY DEF NoteFull

(* A producer that did not move itself is still where it was: what it      *)
(* knows of the tail only grows older, and its place is its own.           *)
LEMMA LookerKept ==
  ASSUME RingInv, RingTypes', NoteFull, NEW q \in Producers,
         ppc[q] \in {"stamp", "cas", "reload", "full"},
         ppc'[q] = ppc[q], mytail'[q] = mytail[q],
         Freed' \in Nat, Freed <= Freed', Len(claimed) <= Len(claimed')
  PROVE  \E n \in 0 .. Len(claimed') : LookerAt(q, n)'
<1>0. Capacity \in Nat /\ Freed \in Nat /\ Len(claimed) \in Nat /\ Len(claimed') \in Nat
  BY RingConstants DEF RingInv, RingTypes, Cursors
<1> DEFINE f == Freed  g == Freed'
<1>a. /\ f \in Nat /\ g \in Nat /\ f <= g
      /\ Freed = f /\ Freed' = g
  BY <1>0
<1> HIDE DEF f, g
<1>1. PICK n \in 0 .. Len(claimed) : LookerAt(q, n)
  BY DEF RingInv, Lookers
<1>2. ppc'[q] # "idle"
  OBVIOUS
<1>3. sawfull[q] => sawfull'[q]
  BY <1>2, NotesFull
<1>4. n \in 0 .. Len(claimed')
  BY <1>0
<1>5. mytail'[q] = Position[n]
  BY <1>1 DEF LookerAt
<1>6. Freed' + Capacity <= n => sawfull'[q]
  <2>1. g + Capacity <= n => f + Capacity <= n
    BY <1>0, <1>a
  <2>2. QED
    BY <1>1, <1>3, <1>a, <2>1 DEF LookerAt
<1>7. ppc'[q] = "cas" /\ n = Len(claimed') => n < Freed' + Capacity
  <2>1. n = Len(claimed') => n = Len(claimed)
    BY <1>0
  <2>2. n < f + Capacity => n < g + Capacity
    BY <1>0, <1>a
  <2>3. QED
    BY <1>1, <1>a, <2>1, <2>2 DEF LookerAt
<1>8. ppc'[q] = "reload" /\ n = Len(claimed') => sawfull'[q]
  <2>1. n = Len(claimed') => n = Len(claimed)
    BY <1>0
  <2>2. QED
    BY <1>1, <1>3, <2>1 DEF LookerAt
<1>9. ppc'[q] = "full" => sawfull'[q]
  BY <1>1, <1>3 DEF LookerAt
<1>10. QED
  BY <1>4, <1>5, <1>6, <1>7, <1>8, <1>9 DEF LookerAt

(* A writer whose slot and whose own state a step leaves alone stays one.  *)
LEMMA WriterKept ==
  ASSUME NEW q \in Producers, NEW n \in Nat, WriterAt(q, n),
         ppc'[q] = ppc[q], mytail'[q] = mytail[q], calls'[q] = calls[q],
         Freed' <= n, n < Len(claimed'), claimed'[n + 1] = claimed[n + 1],
         stamp'[SlotAt(n)] = stamp[SlotAt(n)],
         ppc[q] = "publish" => value'[SlotAt(n)] = value[SlotAt(n)]
  PROVE  WriterAt(q, n)'
BY DEF WriterAt, Item

-----------------------------------------------------------------------------
(* Steps.  First the types.                                                *)

(* A value that a producer pushes is an item.                              *)
LEMMA ItemType ==
  ASSUME RingInv, NEW p \in Producers, ppc[p] # "idle"
  PROVE  Item(p) \in Items
BY DEF RingInv, Calling, Item, Items

(* The note of a full ring is a Boolean.                                   *)
LEMMA NoteType == NoteFull => sawfull' \in [Producers -> BOOLEAN]
BY DEF NoteFull

(* Every step of a producer keeps the types.                               *)
LEMMA ProducerTypes ==
  ASSUME RingInv, NEW p \in Producers, ProducerStep(p), NoteFull
  PROVE  RingTypes'
<1>0. RingTypes /\ MaxPushes \in Nat /\ Capacity \in Nat
  BY RingConstants DEF RingInv
<1>1. tail \in Nat /\ sawfull' \in [Producers -> BOOLEAN]
  <2>1. Len(claimed) \in Nat
    BY <1>0 DEF RingTypes
  <2>2. QED
    BY <2>1, NoteType, PositionSteps DEF RingInv, Cursors
<1> USE DEF RingTypes, Goto
<1>2. CASE LoadTail(p)
  BY <1>0, <1>1, <1>2 DEF LoadTail
<1>3. CASE LoadStamp(p)
  <2>1. StampSays(stamp[Index(mytail[p])], mytail[p]) \in {"cas", "full", "reload"}
    BY DEF StampSays
  <2>2. QED
    BY <1>0, <1>1, <1>3, <2>1 DEF LoadStamp
<1>4. CASE ClaimTail(p)
  <2>1. Item(p) \in Items
    BY <1>4, ItemType DEF ClaimTail
  <2>2. claimed' \in Seq(Items)
    BY <1>0, <1>4, <2>1 DEF ClaimTail
  <2>3. QED
    BY <1>0, <1>1, <1>4, <2>2 DEF ClaimTail
<1>5. CASE LoseClaim(p)
  BY <1>0, <1>1, <1>5 DEF LoseClaim
<1>6. CASE WriteValue(p)
  <2>1. Item(p) \in Items
    BY <1>6, ItemType DEF WriteValue
  <2>2. QED
    BY <1>0, <1>1, <1>6, <2>1 DEF WriteValue
<1>7. CASE PublishStamp(p)
  <2>1. mytail[p] + 1 \in Nat
    BY <1>0
  <2>2. stamp' \in [Indexes -> Nat]
    BY <1>0, <1>7, <2>1 DEF PublishStamp
  <2>3. QED
    BY <1>0, <1>1, <1>7, <2>2 DEF PublishStamp
<1>8. CASE ReloadTail(p)
  BY <1>0, <1>1, <1>8 DEF ReloadTail
<1>9. CASE ReturnFull(p)
  BY <1>0, <1>1, <1>9 DEF ReturnFull
<1>10. QED
  BY <1>2, <1>3, <1>4, <1>5, <1>6, <1>7, <1>8, <1>9 DEF ProducerStep

(* Every step of the consumer keeps the types.                             *)
LEMMA ConsumerTypes ==
  ASSUME RingInv, ConsumerStep, NoteFull
  PROVE  RingTypes'
<1>0. RingTypes /\ Freed \in Nat /\ head = Position[Freed]
  BY DEF RingInv, Cursors
<1>1. head \in Nat /\ sawfull' \in [Producers -> BOOLEAN] /\ Index(head) \in Indexes
  BY <1>0, NoteType, PositionSteps
<1>2. CASE PopLook
  BY <1>0, <1>1, <1>2 DEF RingTypes, PopLook
<1>3. CASE PopTake
  <2>1. value[Index(head)] \in Items \cup {Empty}
    BY <1>0, <1>1 DEF RingTypes
  <2>2. popped' \in Seq(Items \cup {Empty})
    BY <1>0, <1>3, <2>1 DEF RingTypes, PopTake
  <2>3. value' \in [Indexes -> Items \cup {Empty}]
    BY <1>0, <1>3 DEF RingTypes, PopTake
  <2>4. QED
    BY <1>0, <1>1, <1>3, <2>2, <2>3 DEF RingTypes, PopTake
<1>4. CASE PopFree
  <2>1. head + OneLap \in Nat
    BY <1>1, OneLapExists
  <2>2. QED
    BY <1>0, <1>1, <1>4, <2>1 DEF RingTypes, PopFree
<1>5. QED
  BY <1>2, <1>3, <1>4 DEF ConsumerStep

-----------------------------------------------------------------------------
(* Steps of a producer that only looks.                                    *)

(* The places stay as they are.                                            *)
LEMMA PlacesStay ==
  ASSUME RingInv, UNCHANGED <<tail, head, stamp, value, cpc, claimed, popped>>
  PROVE  /\ Freed' = Freed /\ IsFull' = IsFull
         /\ Cursors' /\ InOrder' /\ Slots' /\ Values' /\ Consumer'
<1>1. Freed' = Freed /\ IsFull' = IsFull
  BY DEF Freed, IsFull
<1>2. Cursors' /\ InOrder'
  BY <1>1 DEF RingInv, Cursors, InOrder
<1>3. Slots' /\ Values' /\ Consumer'
  BY <1>1 DEF RingInv, Slots, Values, Consumer
<1>4. QED
  BY <1>1, <1>2, <1>3

(* The rest is up to the producer that moved.                              *)
LEMMA LookingKeeps ==
  ASSUME RingInv, RingTypes', NoteFull, NEW p \in Producers,
         UNCHANGED <<tail, head, stamp, value, cpc, claimed, popped>>,
         \A q \in Producers : q # p =>
           ppc'[q] = ppc[q] /\ mytail'[q] = mytail[q] /\ calls'[q] = calls[q],
         ppc'[p] # "idle" => calls'[p] \in 1 .. MaxPushes,
         ppc'[p] \notin {"write", "publish"},
         ppc'[p] # "idle" => \E n \in 0 .. Len(claimed') : LookerAt(p, n)'
  PROVE  RingInv'
<1>1. Freed' = Freed /\ Cursors' /\ InOrder' /\ Slots' /\ Values' /\ Consumer'
  BY PlacesStay
<1>2. Freed \in Nat /\ Len(claimed) \in Nat
  BY DEF RingInv, RingTypes, Cursors
<1>3. Calling'
  BY DEF RingInv, Calling
<1>4. Lookers'
  <2>1. ASSUME NEW q \in Producers, ppc'[q] \in {"stamp", "cas", "reload", "full"}, q # p
        PROVE  \E n \in 0 .. Len(claimed') : LookerAt(q, n)'
    <3>1. ppc'[q] = ppc[q] /\ mytail'[q] = mytail[q]
      BY <2>1
    <3>2. Freed' \in Nat /\ Freed <= Freed' /\ Len(claimed) <= Len(claimed')
      BY <1>1, <1>2
    <3>3. QED
      BY <2>1, <3>1, <3>2, LookerKept
  <2>2. QED
    BY <2>1 DEF Lookers
<1>5. Writers'
  <2>1. ASSUME NEW q \in Producers, ppc'[q] \in {"write", "publish"}
        PROVE  \E n \in 0 .. Len(claimed') : WriterAt(q, n)'
    <3>1. ppc'[q] = ppc[q] /\ mytail'[q] = mytail[q] /\ calls'[q] = calls[q]
      BY <2>1
    <3>2. PICK n \in 0 .. Len(claimed) : WriterAt(q, n)
      BY <2>1, <3>1 DEF RingInv, Writers
    <3>3. n \in Nat /\ Freed' <= n /\ n < Len(claimed') /\ n \in 0 .. Len(claimed')
      BY <1>1, <1>2, <3>2 DEF WriterAt
    <3>4. WriterAt(q, n)'
      BY <3>1, <3>2, <3>3, WriterKept
    <3>5. QED
      BY <3>3, <3>4
  <2>2. QED
    BY <2>1 DEF Writers
<1>6. QED
  BY <1>1, <1>3, <1>4, <1>5 DEF RingInv

(* A producer that has just read the tail knows all there is to know.      *)
LEMMA ReadsTail ==
  ASSUME RingInv, RingTypes', NoteFull, NEW p \in Producers,
         UNCHANGED <<tail, head, stamp, value, cpc, claimed, popped>>,
         mytail'[p] = tail, ppc'[p] \in {"stamp", "full"}, ppc'[p] = "full" => sawfull[p]
  PROVE  \E n \in 0 .. Len(claimed') : LookerAt(p, n)'
<1>1. Freed' = Freed /\ Freed \in Nat /\ Len(claimed) \in Nat /\ Capacity \in Nat
  BY PlacesStay, RingConstants DEF RingInv, Cursors, RingTypes
<1>2. PICK n \in 0 .. Len(claimed') : n = Len(claimed)
  BY <1>1
<1>3. mytail'[p] = Position[n]
  BY <1>2 DEF RingInv, Cursors
<1>4. Freed + Capacity <= n => Len(claimed) - Freed = Capacity
  BY <1>1, <1>2 DEF RingInv, Cursors
<1>5. Freed' + Capacity <= n => IsFull'
  BY <1>1, <1>4 DEF IsFull
<1>6. Freed' + Capacity <= n => sawfull'[p]
  BY <1>5, NotesFull
<1>7. ppc'[p] = "full" => sawfull'[p]
  BY NotesFull
<1>8. ppc'[p] # "cas" /\ ppc'[p] # "reload"
  OBVIOUS
<1>9. QED
  BY <1>3, <1>6, <1>7, <1>8 DEF LookerAt

(* try_push begins.                                                        *)
LEMMA LoadTailKeeps ==
  ASSUME RingInv, RingTypes', NoteFull, NEW p \in Producers, LoadTail(p)
  PROVE  RingInv'
<1>0. /\ ppc \in [Producers -> {"idle", "stamp", "cas", "write", "publish", "reload", "full"}]
      /\ mytail \in [Producers -> Nat] /\ calls \in [Producers -> 0 .. MaxPushes]
      /\ MaxPushes \in Nat
  BY RingConstants DEF RingInv, RingTypes
<1>1. /\ UNCHANGED <<tail, head, stamp, value, cpc, claimed, popped>>
      /\ ppc'[p] = "stamp" /\ mytail'[p] = tail /\ calls'[p] = calls[p] + 1
      /\ calls[p] < MaxPushes
  BY <1>0 DEF LoadTail, Goto
<1>2. \A q \in Producers : q # p =>
        ppc'[q] = ppc[q] /\ mytail'[q] = mytail[q] /\ calls'[q] = calls[q]
  BY <1>0 DEF LoadTail, Goto
<1>3. calls'[p] \in 1 .. MaxPushes
  BY <1>0, <1>1
<1>4. \E n \in 0 .. Len(claimed') : LookerAt(p, n)'
  BY <1>1, ReadsTail
<1>5. QED
  BY <1>1, <1>2, <1>3, <1>4, LookingKeeps

(* A lost claim starts over from the tail it found.                        *)
LEMMA LoseClaimKeeps ==
  ASSUME RingInv, RingTypes', NoteFull, NEW p \in Producers, LoseClaim(p)
  PROVE  RingInv'
<1>0. /\ ppc \in [Producers -> {"idle", "stamp", "cas", "write", "publish", "reload", "full"}]
      /\ mytail \in [Producers -> Nat]
  BY DEF RingInv, RingTypes
<1>1. /\ UNCHANGED <<tail, head, stamp, value, cpc, claimed, popped>>
      /\ ppc'[p] = "stamp" /\ mytail'[p] = tail /\ calls' = calls /\ ppc[p] # "idle"
  BY <1>0 DEF LoseClaim, Goto
<1>2. \A q \in Producers : q # p =>
        ppc'[q] = ppc[q] /\ mytail'[q] = mytail[q] /\ calls'[q] = calls[q]
  BY <1>0, <1>1 DEF LoseClaim, Goto
<1>3. calls'[p] \in 1 .. MaxPushes
  BY <1>1 DEF RingInv, Calling
<1>4. \E n \in 0 .. Len(claimed') : LookerAt(p, n)'
  BY <1>1, ReadsTail
<1>5. QED
  BY <1>1, <1>2, <1>3, <1>4, LookingKeeps

(* Reading the tail again tells a full ring from a stale view.             *)
LEMMA ReloadTailKeeps ==
  ASSUME RingInv, RingTypes', NoteFull, NEW p \in Producers, ReloadTail(p)
  PROVE  RingInv'
<1>0. /\ ppc \in [Producers -> {"idle", "stamp", "cas", "write", "publish", "reload", "full"}]
      /\ mytail \in [Producers -> Nat]
  BY DEF RingInv, RingTypes
<1>1. /\ UNCHANGED <<tail, head, stamp, value, cpc, claimed, popped>>
      /\ ppc[p] = "reload"
      /\ ppc'[p] = (IF StillCurrent(p) THEN "full" ELSE "stamp")
      /\ mytail'[p] = tail /\ calls' = calls
  BY <1>0 DEF ReloadTail, Goto
<1>2. \A q \in Producers : q # p =>
        ppc'[q] = ppc[q] /\ mytail'[q] = mytail[q] /\ calls'[q] = calls[q]
  BY <1>0, <1>1 DEF ReloadTail, Goto
<1>3. calls'[p] \in 1 .. MaxPushes
  BY <1>1 DEF RingInv, Calling
<1>4. StillCurrent(p) => sawfull[p]
  <2>1. PICK n \in 0 .. Len(claimed) : LookerAt(p, n)
    BY <1>1 DEF RingInv, Lookers
  <2>2. n \in Nat /\ Len(claimed) \in Nat
    BY DEF RingInv, RingTypes
  <2>3. StillCurrent(p) => Position[Len(claimed)] = Position[n]
    BY <2>1 DEF StillCurrent, LookerAt, RingInv, Cursors
  <2>4. StillCurrent(p) => Len(claimed) = n
    BY <2>2, <2>3, PositionInjective
  <2>5. QED
    BY <1>1, <2>1, <2>4 DEF LookerAt
<1>5. \E n \in 0 .. Len(claimed') : LookerAt(p, n)'
  <2>1. ppc'[p] \in {"stamp", "full"} /\ (ppc'[p] = "full" => sawfull[p])
    BY <1>1, <1>4
  <2>2. QED
    BY <1>1, <2>1, ReadsTail
<1>6. ppc'[p] \notin {"write", "publish"}
  BY <1>1
<1>7. QED
  BY <1>1, <1>2, <1>3, <1>5, <1>6, LookingKeeps

(* A refused push ends.                                                    *)
LEMMA ReturnFullKeeps ==
  ASSUME RingInv, RingTypes', NoteFull, NEW p \in Producers, ReturnFull(p)
  PROVE  RingInv'
<1>0. ppc \in [Producers -> {"idle", "stamp", "cas", "write", "publish", "reload", "full"}]
  BY DEF RingInv, RingTypes
<1>1. /\ UNCHANGED <<tail, head, stamp, value, cpc, claimed, popped>>
      /\ ppc'[p] = "idle" /\ mytail' = mytail /\ calls' = calls
  BY <1>0 DEF ReturnFull, Goto
<1>2. \A q \in Producers : q # p =>
        ppc'[q] = ppc[q] /\ mytail'[q] = mytail[q] /\ calls'[q] = calls[q]
  BY <1>0, <1>1 DEF ReturnFull, Goto
<1>3. QED
  BY <1>1, <1>2, LookingKeeps

(* What the stamp of a slot says of the place a producer looks at: it is   *)
(* free, or the ring was full when the tail was read, or the tail has      *)
(* moved.                                                                  *)
LEMMA StampIsRight ==
  ASSUME RingInv, NEW p \in Producers, NEW n \in Nat, n <= Len(claimed), LookerAt(p, n),
         NEW s, s = stamp[SlotAt(n)]
  PROVE  /\ s = Position[n] /\ n = Len(claimed) => n < Freed + Capacity
         /\ s + OneLap = Position[n] + 1 => sawfull[p]
         /\ s # Position[n] /\ n = Len(claimed) => sawfull[p]
<1>0. /\ Freed \in Nat /\ Len(claimed) \in Nat /\ Capacity \in Nat \ {0} /\ OneLap \in Nat
      /\ Freed <= Len(claimed) /\ Len(claimed) <= Freed + Capacity
  BY RingConstants, OneLapExists DEF RingInv, RingTypes, Cursors
<1>1. SlotAt(n) \in Indexes /\ Position[n] \in Nat
  BY SlotTypes
<1>2. PICK m \in Nat : Freed <= m /\ m < Freed + Capacity /\ SlotAt(m) = SlotAt(n)
  BY <1>0, <1>1, Resident DEF SlotAt
<1>3. m \in Freed .. Freed + Capacity - 1
  BY <1>0, <1>2
<1>4. s = Position[m] \/ (m < Len(claimed) /\ s = Position[m] + 1)
  BY <1>2, <1>3 DEF RingInv, Slots
<1>5. /\ Position[m] \in Nat /\ Position[m + Capacity] = Position[m] + OneLap
      /\ m + Capacity \in Nat /\ SlotAt(m + Capacity) = SlotAt(n)
  BY <1>2, NextLap, SlotTypes DEF SlotAt
<1>6. Position[m] + 1 # Position[n] /\ (Position[m] = Position[n] => m = n)
      /\ (m < n => m + Capacity <= n)
  BY <1>2, SameSlot DEF SlotAt
<1>7. Position[m + Capacity] # Position[n] + 1
  BY <1>5, SameSlot DEF SlotAt
<1>8. Position[m + Capacity] = Position[n] => m + Capacity = n
  BY <1>5, PositionInjective
<1>9. s = Position[n] /\ n = Len(claimed) => n < Freed + Capacity
  BY <1>0, <1>2, <1>4, <1>6
<1>10. s + OneLap = Position[n] + 1 => Freed + Capacity <= n
  <2>1. SUFFICES ASSUME s + OneLap = Position[n] + 1 PROVE Freed + Capacity <= n
    OBVIOUS
  <2>2. s # Position[m]
    BY <2>1, <1>5, <1>7
  <2>3. Position[m] + 1 + OneLap = Position[n] + 1
    BY <2>1, <2>2, <1>4
  <2>4. Position[m + Capacity] = Position[n]
    <3> DEFINE a == Position[m]  b == Position[n]  c == Position[m + Capacity]
    <3>1. a \in Nat /\ b \in Nat /\ c = a + OneLap /\ a + 1 + OneLap = b + 1
      BY <2>3, <1>1, <1>5
    <3> HIDE DEF a, b, c
    <3>2. c = b
      BY <3>1, <1>0
    <3>3. QED
      BY <3>2 DEF b, c
  <2>5. QED
    BY <2>4, <1>0, <1>2, <1>8
<1>11. s # Position[n] /\ n = Len(claimed) => Freed + Capacity <= n
  <2>1. SUFFICES ASSUME s # Position[n], n = Len(claimed), n < Freed + Capacity PROVE FALSE
    BY <1>0
  <2>2. m = n
    BY <2>1, <1>0, <1>2, OwnSlots
  <2>3. QED
    BY <2>1, <2>2, <1>0, <1>4
<1>12. Freed + Capacity <= n => sawfull[p]
  BY DEF LookerAt
<1>13. QED
  BY <1>9, <1>10, <1>11, <1>12

(* The verdict on the stamp is acted on.                                   *)
LEMMA LoadStampKeeps ==
  ASSUME RingInv, RingTypes', NoteFull, NEW p \in Producers, LoadStamp(p)
  PROVE  RingInv'
<1>0. /\ ppc \in [Producers -> {"idle", "stamp", "cas", "write", "publish", "reload", "full"}]
  BY DEF RingInv, RingTypes
<1> DEFINE v == StampSays(stamp[Index(mytail[p])], mytail[p])
<1>1. /\ UNCHANGED <<tail, head, stamp, value, cpc, claimed, popped>>
      /\ ppc[p] = "stamp" /\ ppc'[p] = v /\ mytail' = mytail /\ calls' = calls
  BY <1>0 DEF LoadStamp, Goto
<1>2. \A q \in Producers : q # p =>
        ppc'[q] = ppc[q] /\ mytail'[q] = mytail[q] /\ calls'[q] = calls[q]
  BY <1>0, <1>1 DEF LoadStamp, Goto
<1>3. calls'[p] \in 1 .. MaxPushes
  BY <1>1 DEF RingInv, Calling
<1>4. PICK n \in 0 .. Len(claimed) : LookerAt(p, n)
  BY <1>1 DEF RingInv, Lookers
<1>5. n \in Nat /\ Len(claimed) \in Nat /\ n <= Len(claimed) /\ Freed' = Freed
  BY PlacesStay, <1>1 DEF RingInv, RingTypes
<1>6. mytail[p] = Position[n] /\ Index(mytail[p]) = SlotAt(n)
  BY <1>4 DEF LookerAt, SlotAt
<1> DEFINE s == stamp[SlotAt(n)]
<1>7. v = IF s = Position[n] THEN "cas"
          ELSE IF s + OneLap = Position[n] + 1 THEN "full" ELSE "reload"
  BY <1>6 DEF StampSays
<1>8. /\ s = Position[n] /\ n = Len(claimed) => n < Freed + Capacity
      /\ s + OneLap = Position[n] + 1 => sawfull[p]
      /\ s # Position[n] /\ n = Len(claimed) => sawfull[p]
  BY <1>4, <1>5, StampIsRight
<1> HIDE DEF s, v
<1>9. ppc'[p] \in {"cas", "full", "reload"}
  BY <1>1, <1>7
<1>10. sawfull[p] => sawfull'[p]
  BY <1>9, NotesFull
<1>11. LookerAt(p, n)'
  <2>1. mytail'[p] = Position[n] /\ (Freed' + Capacity <= n => sawfull'[p])
    BY <1>1, <1>4, <1>5, <1>10 DEF LookerAt
  <2>2. ppc'[p] = "cas" /\ n = Len(claimed') => n < Freed' + Capacity
    BY <1>1, <1>5, <1>7, <1>8
  <2>3. ppc'[p] = "reload" /\ n = Len(claimed') => sawfull'[p]
    BY <1>1, <1>5, <1>7, <1>8, <1>10
  <2>4. ppc'[p] = "full" => sawfull'[p]
    BY <1>1, <1>5, <1>7, <1>8, <1>10
  <2>5. QED
    BY <2>1, <2>2, <2>3, <2>4 DEF LookerAt
<1>12. \E k \in 0 .. Len(claimed') : LookerAt(p, k)'
  BY <1>1, <1>11
<1>13. ppc'[p] \notin {"write", "publish"}
  BY <1>9
<1>14. QED
  BY <1>1, <1>2, <1>3, <1>12, <1>13, LookingKeeps

-----------------------------------------------------------------------------
(* Steps that move a place along.                                          *)

(* The numbers and the places' slots, for reference.                       *)
LEMMA RingNumbers ==
  ASSUME RingInv
  PROVE  /\ Freed \in Nat /\ Len(claimed) \in Nat /\ Len(popped) \in Nat
         /\ Capacity \in Nat \ {0} /\ OneLap \in Nat
         /\ Freed <= Len(claimed) /\ Len(claimed) <= Freed + Capacity
         /\ tail = Position[Len(claimed)] /\ head = Position[Freed]
BY RingConstants, OneLapExists DEF RingInv, RingTypes, Cursors

(* Two producers never own the same place, nor do the consumer and a       *)
(* producer.                                                               *)
LEMMA WritersDiffer ==
  ASSUME NEW p, NEW q, NEW n, NEW m, p # q, WriterAt(p, n), WriterAt(q, m)
  PROVE  m # n
BY DEF WriterAt, Item

(* A claim is granted only while there is room.                            *)
LEMMA ClaimHasRoom ==
  ASSUME RingInv, NEW p \in Producers, ClaimTail(p)
  PROVE  Len(claimed) < Freed + Capacity
<1>1. PICK n \in 0 .. Len(claimed) : LookerAt(p, n)
  BY DEF RingInv, Lookers, ClaimTail
<1>2. n \in Nat /\ Len(claimed) \in Nat /\ tail = Position[Len(claimed)]
  BY RingNumbers
<1>3. Position[Len(claimed)] = Position[n]
  BY <1>1, <1>2 DEF ClaimTail, Claims, LookerAt
<1>4. Len(claimed) = n
  BY <1>2, <1>3, PositionInjective
<1>5. QED
  BY <1>1, <1>4 DEF ClaimTail, LookerAt

(* A claim appends a place that is not written.                            *)
LEMMA ClaimTailKeeps ==
  ASSUME RingInv, RingTypes', NoteFull, NEW p \in Producers, ClaimTail(p)
  PROVE  RingInv'
<1>6. PICK L \in Nat, f \in Nat : Freed = f /\ Len(claimed) = L
  BY RingNumbers
<1>0. /\ ppc \in [Producers -> {"idle", "stamp", "cas", "write", "publish", "reload", "full"}]
      /\ claimed \in Seq(Items) /\ Item(p) \in Items
  BY ItemType DEF RingInv, RingTypes, ClaimTail
<1>1. /\ f \in Nat /\ L \in Nat /\ Capacity \in Nat \ {0}
      /\ f <= L /\ L < f + Capacity /\ tail = Position[L] /\ head = Position[f]
  BY <1>6, RingNumbers, ClaimHasRoom
<1>2. /\ UNCHANGED <<head, stamp, value, mytail, calls, cpc, popped>>
      /\ ppc'[p] = "write" /\ ppc[p] = "cas" /\ mytail[p] = tail /\ tail' = Advance(tail)
      /\ \A q \in Producers : q # p => ppc'[q] = ppc[q]
  BY <1>0 DEF ClaimTail, Goto, Claims
<1>3. Freed' = f /\ Item(p)' = Item(p)
  BY <1>2, <1>6 DEF Freed, Item
<1>4. /\ Len(claimed') = L + 1 /\ claimed'[L + 1] = Item(p)
      /\ \A k \in 1 .. L : claimed'[k] = claimed[k]
  BY <1>0, <1>6 DEF ClaimTail
<1>5. stamp[SlotAt(L)] = Position[L]
  <2>1. L \in Freed .. Freed + Capacity - 1 /\ ~ (L < Len(claimed))
    BY <1>1, <1>6
  <2>2. QED
    BY <2>1 DEF RingInv, Slots
<1>7. Cursors'
  <2>1. tail' = Position[L + 1]
    BY <1>1, <1>2, PositionSteps
  <2>2. QED
    BY <1>1, <1>2, <1>3, <1>4, <2>1 DEF Cursors
<1>8. InOrder'
  <2>1. Len(popped) <= L /\ \A k \in 1 .. Len(popped) : popped[k] = claimed[k]
    BY <1>6 DEF RingInv, InOrder
  <2>2. Len(popped) \in Nat
    BY RingNumbers
  <2>3. \A k \in 1 .. Len(popped) : k \in 1 .. L
    BY <1>1, <2>1, <2>2
  <2>4. \A k \in 1 .. Len(popped) : popped[k] = claimed'[k]
    BY <1>4, <2>1, <2>3
  <2>5. Len(popped) <= L + 1 /\ popped' = popped
    BY <1>1, <1>2, <2>1, <2>2
  <2>6. QED
    BY <1>4, <2>4, <2>5 DEF InOrder
<1>9. Slots'
  <2>1. ASSUME NEW n \in f .. f + Capacity - 1
        PROVE  \/ stamp[SlotAt(n)] = Position[n]
               \/ n < L + 1 /\ stamp[SlotAt(n)] = Position[n] + 1
    BY <1>1, <1>6 DEF RingInv, Slots
  <2>2. QED
    BY <1>2, <1>3, <1>4, <2>1 DEF Slots
<1>10. Values'
  <2>1. ASSUME NEW n \in f .. L, stamp[SlotAt(n)] = Position[n] + 1
        PROVE  value[SlotAt(n)] = claimed'[n + 1] \/ (cpc = "free" /\ n = f)
    <3>1. Position[L] \in Nat
      BY <1>1, SlotTypes
    <3>2. n # L
      BY <1>5, <2>1, <3>1
    <3>3. n \in f .. L - 1 /\ n + 1 \in 1 .. L
      BY <1>1, <3>2
    <3>4. QED
      BY <1>4, <1>6, <2>1, <3>3 DEF RingInv, Values
  <2>2. (L + 1) - 1 = L
    BY <1>1
  <2>3. QED
    BY <1>2, <1>3, <1>4, <2>1, <2>2 DEF Values
<1>11. Consumer'
  <2>1. f < L => f < L + 1
    BY <1>1
  <2>2. QED
    BY <1>2, <1>3, <1>4, <1>6, <2>1 DEF RingInv, Consumer
<1>12. Calling'
  BY <1>2 DEF RingInv, Calling
<1>13. Lookers'
  <2>1. ASSUME NEW q \in Producers, ppc'[q] \in {"stamp", "cas", "reload", "full"}
        PROVE  \E n \in 0 .. Len(claimed') : LookerAt(q, n)'
    <3>1. q # p /\ ppc'[q] = ppc[q] /\ mytail'[q] = mytail[q]
      BY <1>2, <2>1
    <3>2. Freed' \in Nat /\ Freed <= Freed' /\ Len(claimed) <= Len(claimed')
      BY <1>1, <1>3, <1>4, <1>6
    <3>3. QED
      BY <2>1, <3>1, <3>2, LookerKept
  <2>2. QED
    BY <2>1 DEF Lookers
<1>14. Writers'
  <2>1. WriterAt(p, L)'
    BY <1>1, <1>2, <1>3, <1>4, <1>5 DEF WriterAt
  <2>2. ASSUME NEW q \in Producers, ppc'[q] \in {"write", "publish"}, q # p
        PROVE  \E n \in 0 .. Len(claimed') : WriterAt(q, n)'
    <3>1. ppc'[q] = ppc[q] /\ mytail'[q] = mytail[q] /\ calls'[q] = calls[q]
      BY <1>2, <2>2
    <3>2. PICK n \in 0 .. Len(claimed) : WriterAt(q, n)
      BY <2>2, <3>1 DEF RingInv, Writers
    <3>3. f <= n /\ n < L /\ n \in Nat
      BY <1>1, <1>6, <3>2 DEF WriterAt
    <3>4. n \in 0 .. L + 1 /\ n < L + 1 /\ n + 1 \in 1 .. L
      BY <1>1, <3>3
    <3>5. Freed' <= n /\ n < Len(claimed') /\ claimed'[n + 1] = claimed[n + 1]
      BY <1>3, <1>4, <3>3, <3>4
    <3>6. stamp'[SlotAt(n)] = stamp[SlotAt(n)] /\ value'[SlotAt(n)] = value[SlotAt(n)]
      BY <1>2
    <3>7. WriterAt(q, n)'
      BY <3>1, <3>2, <3>3, <3>5, <3>6, WriterKept
    <3>8. QED
      BY <1>4, <3>4, <3>7
  <2>3. L \in 0 .. Len(claimed')
    BY <1>1, <1>4
  <2>4. QED
    BY <2>1, <2>2, <2>3 DEF Writers
<1>15. QED
  BY <1>7, <1>8, <1>9, <1>10, <1>11, <1>12, <1>13, <1>14 DEF RingInv

(* The place of a writer, and that its slot is nobody else's.              *)
LEMMA WriterOwns ==
  ASSUME RingInv, NEW p \in Producers, NEW n \in Nat, WriterAt(p, n),
         NEW m \in Freed .. Freed + Capacity - 1, m # n
  PROVE  SlotAt(m) # SlotAt(n)
<1>1. /\ Freed \in Nat /\ Len(claimed) \in Nat /\ Capacity \in Nat
      /\ Len(claimed) <= Freed + Capacity
  BY RingNumbers
<1>2. Freed <= n /\ n < Len(claimed)
  BY DEF WriterAt
<1>3. m \in Nat /\ Freed <= m /\ m < Freed + Capacity /\ n < Freed + Capacity
  BY <1>1, <1>2
<1>4. QED
  BY <1>1, <1>2, <1>3, OwnSlots

(* A value is written into a slot that is not yet published.               *)
LEMMA WriteValueKeeps ==
  ASSUME RingInv, RingTypes', NoteFull, NEW p \in Producers, WriteValue(p)
  PROVE  RingInv'
<1>0. /\ ppc \in [Producers -> {"idle", "stamp", "cas", "write", "publish", "reload", "full"}]
      /\ value \in [Indexes -> Items \cup {Empty}]
  BY DEF RingInv, RingTypes
<1>1. PICK L \in Nat, f \in Nat : Freed = f /\ Len(claimed) = L
  BY RingNumbers
<1>2. f <= L /\ L <= f + Capacity /\ Capacity \in Nat \ {0}
  BY <1>1, RingNumbers
<1>3. PICK n \in 0 .. Len(claimed) : WriterAt(p, n)
  BY DEF RingInv, Writers, WriteValue
<1>4. n \in Nat /\ f <= n /\ n < L /\ Position[n] \in Nat /\ SlotAt(n) \in Indexes
  BY <1>1, <1>3, SlotTypes DEF WriterAt
<1>5. /\ UNCHANGED <<tail, head, stamp, mytail, calls, cpc, claimed, popped>>
      /\ ppc[p] = "write" /\ ppc'[p] = "publish"
      /\ \A q \in Producers : q # p => ppc'[q] = ppc[q]
  BY <1>0 DEF WriteValue, Goto
<1>6. /\ value'[SlotAt(n)] = Item(p)
      /\ \A i \in Indexes : i # SlotAt(n) => value'[i] = value[i]
  BY <1>0, <1>3, <1>4 DEF WriteValue, WriterAt, SlotAt
<1>7. Freed' = f /\ Len(claimed') = L /\ \A q \in Producers : Item(q)' = Item(q)
  BY <1>1, <1>5 DEF Freed, Item
<1>8. Cursors' /\ InOrder' /\ Slots' /\ Consumer' /\ Calling'
  <2>1. Cursors' /\ InOrder'
    BY <1>1, <1>5, <1>7 DEF RingInv, Cursors, InOrder
  <2>2. Slots' /\ Consumer'
    BY <1>1, <1>5, <1>7 DEF RingInv, Slots, Consumer
  <2>3. Calling'
    BY <1>5 DEF RingInv, Calling
  <2>4. QED
    BY <2>1, <2>2, <2>3
<1>9. ASSUME NEW m \in Nat, f <= m, m < L, m # n
      PROVE  value'[SlotAt(m)] = value[SlotAt(m)]
  <2>1. m \in Freed .. Freed + Capacity - 1
    BY <1>1, <1>2, <1>9
  <2>2. SlotAt(m) # SlotAt(n) /\ SlotAt(m) \in Indexes
    BY <1>3, <1>4, <1>9, <2>1, WriterOwns, SlotTypes
  <2>3. QED
    BY <1>6, <2>2
<1>10. Values'
  <2>1. ASSUME NEW m \in f .. L - 1, stamp[SlotAt(m)] = Position[m] + 1
        PROVE  value'[SlotAt(m)] = claimed[m + 1] \/ (cpc = "free" /\ m = f)
    <3>1. m # n
      BY <1>3, <1>4, <2>1 DEF WriterAt
    <3>2. m \in Nat /\ f <= m /\ m < L
      BY <1>1
    <3>3. QED
      BY <1>1, <1>9, <2>1, <3>1, <3>2 DEF RingInv, Values
  <2>2. QED
    BY <1>5, <1>7, <2>1 DEF Values
<1>11. Lookers'
  <2>1. ASSUME NEW q \in Producers, ppc'[q] \in {"stamp", "cas", "reload", "full"}
        PROVE  \E k \in 0 .. Len(claimed') : LookerAt(q, k)'
    <3>1. ppc'[q] = ppc[q] /\ mytail'[q] = mytail[q]
      BY <1>5, <2>1
    <3>2. Freed' \in Nat /\ Freed <= Freed' /\ Len(claimed) <= Len(claimed')
      BY <1>1, <1>7
    <3>3. QED
      BY <2>1, <3>1, <3>2, LookerKept
  <2>2. QED
    BY <2>1 DEF Lookers
<1>12. Writers'
  <2>1. WriterAt(p, n)'
    BY <1>3, <1>4, <1>5, <1>6, <1>7 DEF WriterAt
  <2>2. ASSUME NEW q \in Producers, ppc'[q] \in {"write", "publish"}, q # p
        PROVE  \E k \in 0 .. Len(claimed') : WriterAt(q, k)'
    <3>1. ppc'[q] = ppc[q] /\ mytail'[q] = mytail[q] /\ calls'[q] = calls[q]
      BY <1>5, <2>2
    <3>2. PICK m \in 0 .. Len(claimed) : WriterAt(q, m)
      BY <2>2, <3>1 DEF RingInv, Writers
    <3>3. f <= m /\ m < L /\ m \in Nat /\ m # n
      BY <1>1, <1>3, <2>2, <3>2, WritersDiffer DEF WriterAt
    <3>4. Freed' <= m /\ m < Len(claimed') /\ m \in 0 .. Len(claimed')
      BY <1>7, <3>3
    <3>5. WriterAt(q, m)'
      BY <1>5, <1>9, <3>1, <3>2, <3>3, <3>4, WriterKept
    <3>6. QED
      BY <3>4, <3>5
  <2>3. n \in 0 .. Len(claimed')
    BY <1>4, <1>7
  <2>4. QED
    BY <2>1, <2>2, <2>3 DEF Writers
<1>13. QED
  BY <1>8, <1>10, <1>11, <1>12 DEF RingInv

(* A value is published once it is there.                                  *)
LEMMA PublishStampKeeps ==
  ASSUME RingInv, RingTypes', NoteFull, NEW p \in Producers, PublishStamp(p)
  PROVE  RingInv'
<1>0. /\ ppc \in [Producers -> {"idle", "stamp", "cas", "write", "publish", "reload", "full"}]
      /\ stamp \in [Indexes -> Nat]
  BY DEF RingInv, RingTypes
<1>1. PICK L \in Nat, f \in Nat : Freed = f /\ Len(claimed) = L
  BY RingNumbers
<1>2. f <= L /\ L <= f + Capacity /\ Capacity \in Nat \ {0} /\ head = Position[f]
  BY <1>1, RingNumbers
<1>3. PICK n \in 0 .. Len(claimed) : WriterAt(p, n)
  BY DEF RingInv, Writers, PublishStamp
<1>4. n \in Nat /\ f <= n /\ n < L /\ Position[n] \in Nat /\ SlotAt(n) \in Indexes
  BY <1>1, <1>3, SlotTypes DEF WriterAt
<1>5. /\ UNCHANGED <<tail, head, value, mytail, calls, cpc, claimed, popped>>
      /\ ppc[p] = "publish" /\ ppc'[p] = "idle"
      /\ \A q \in Producers : q # p => ppc'[q] = ppc[q]
  BY <1>0 DEF PublishStamp, Goto
<1>6. /\ stamp'[SlotAt(n)] = Position[n] + 1
      /\ \A i \in Indexes : i # SlotAt(n) => stamp'[i] = stamp[i]
  BY <1>0, <1>3, <1>4 DEF PublishStamp, WriterAt, SlotAt
<1>7. Freed' = f /\ Len(claimed') = L /\ \A q \in Producers : Item(q)' = Item(q)
  BY <1>1, <1>5 DEF Freed, Item
<1>8. Cursors' /\ InOrder' /\ Calling'
  BY <1>1, <1>5, <1>7 DEF RingInv, Cursors, InOrder, Calling
<1>9. ASSUME NEW m \in f .. f + Capacity - 1, m # n
      PROVE  stamp'[SlotAt(m)] = stamp[SlotAt(m)]
  <2>1. m \in Freed .. Freed + Capacity - 1 /\ m \in Nat
    BY <1>1
  <2>2. SlotAt(m) # SlotAt(n) /\ SlotAt(m) \in Indexes
    BY <1>3, <1>4, <1>9, <2>1, WriterOwns, SlotTypes
  <2>3. QED
    BY <1>6, <2>2
<1>10. Slots'
  <2>1. ASSUME NEW m \in f .. f + Capacity - 1
        PROVE  \/ stamp'[SlotAt(m)] = Position[m]
               \/ m < L /\ stamp'[SlotAt(m)] = Position[m] + 1
    <3>1. CASE m = n
      BY <1>4, <1>6, <3>1
    <3>2. CASE m # n
      BY <1>1, <1>9, <3>2 DEF RingInv, Slots
    <3>3. QED
      BY <3>1, <3>2
  <2>2. QED
    BY <1>7, <2>1 DEF Slots
<1>11. Values'
  <2>1. ASSUME NEW m \in f .. L - 1, stamp'[SlotAt(m)] = Position[m] + 1
        PROVE  value[SlotAt(m)] = claimed[m + 1] \/ (cpc = "free" /\ m = f)
    <3>1. CASE m = n
      BY <1>3, <1>5, <3>1 DEF WriterAt
    <3>2. CASE m # n
      <4>1. m \in f .. f + Capacity - 1
        BY <1>2
      <4>2. stamp[SlotAt(m)] = Position[m] + 1
        BY <1>9, <2>1, <3>2, <4>1
      <4>3. QED
        BY <1>1, <4>2 DEF RingInv, Values
    <3>3. QED
      BY <3>1, <3>2
  <2>2. QED
    BY <1>5, <1>7, <2>1 DEF Values
<1>12. Consumer'
  <2>1. SUFFICES ASSUME cpc # "idle" PROVE f < L /\ stamp'[SlotAt(f)] = head + 1
    BY <1>5, <1>7 DEF Consumer
  <2>2. f < L /\ stamp[SlotAt(f)] = Position[f] + 1
    BY <1>1, <1>2, <2>1 DEF RingInv, Consumer
  <2>3. f # n
    BY <1>3, <1>4, <2>2 DEF WriterAt
  <2>4. f \in f .. f + Capacity - 1
    BY <1>2
  <2>5. stamp'[SlotAt(f)] = stamp[SlotAt(f)]
    BY <1>9, <2>3, <2>4
  <2>6. QED
    BY <1>2, <2>2, <2>5
<1>13. Lookers'
  <2>1. ASSUME NEW q \in Producers, ppc'[q] \in {"stamp", "cas", "reload", "full"}
        PROVE  \E k \in 0 .. Len(claimed') : LookerAt(q, k)'
    <3>1. ppc'[q] = ppc[q] /\ mytail'[q] = mytail[q]
      BY <1>5, <2>1
    <3>2. Freed' \in Nat /\ Freed <= Freed' /\ Len(claimed) <= Len(claimed')
      BY <1>1, <1>7
    <3>3. QED
      BY <2>1, <3>1, <3>2, LookerKept
  <2>2. QED
    BY <2>1 DEF Lookers
<1>14. Writers'
  <2>1. ASSUME NEW q \in Producers, ppc'[q] \in {"write", "publish"}
        PROVE  \E k \in 0 .. Len(claimed') : WriterAt(q, k)'
    <3>1. q # p /\ ppc'[q] = ppc[q] /\ mytail'[q] = mytail[q] /\ calls'[q] = calls[q]
      BY <1>5, <2>1
    <3>2. PICK m \in 0 .. Len(claimed) : WriterAt(q, m)
      BY <2>1, <3>1 DEF RingInv, Writers
    <3>3. f <= m /\ m < L /\ m \in Nat /\ m # n
      BY <1>1, <1>3, <3>1, <3>2, WritersDiffer DEF WriterAt
    <3>4. Freed' <= m /\ m < Len(claimed') /\ m \in 0 .. Len(claimed')
          /\ m \in f .. f + Capacity - 1
      BY <1>2, <1>7, <3>3
    <3>5. stamp'[SlotAt(m)] = stamp[SlotAt(m)]
      BY <1>9, <3>3, <3>4
    <3>6. WriterAt(q, m)'
      BY <1>5, <3>1, <3>2, <3>3, <3>4, <3>5, WriterKept
    <3>7. QED
      BY <3>4, <3>6
  <2>2. QED
    BY <2>1 DEF Writers
<1>15. QED
  BY <1>8, <1>10, <1>11, <1>12, <1>13, <1>14 DEF RingInv

(* Producers wait for nothing the consumer does: what they know stays      *)
(* true, if no writer's place is touched.                                  *)
LEMMA ConsumerLeaves ==
  ASSUME RingInv, RingTypes', NoteFull, UNCHANGED <<ppc, mytail, calls, claimed>>,
         Freed' \in Nat, Freed <= Freed',
         \A n \in Nat : \A q \in Producers : WriterAt(q, n) =>
           /\ Freed' <= n
           /\ stamp'[SlotAt(n)] = stamp[SlotAt(n)] /\ value'[SlotAt(n)] = value[SlotAt(n)]
  PROVE  Lookers' /\ Writers' /\ Calling'
<1>0. Len(claimed) \in Nat
  BY RingNumbers
<1>1. Calling'
  BY DEF RingInv, Calling
<1>2. Lookers'
  <2>1. ASSUME NEW q \in Producers, ppc'[q] \in {"stamp", "cas", "reload", "full"}
        PROVE  \E k \in 0 .. Len(claimed') : LookerAt(q, k)'
    <3>1. ppc'[q] = ppc[q] /\ mytail'[q] = mytail[q] /\ Len(claimed) <= Len(claimed')
      BY <1>0
    <3>2. QED
      BY <2>1, <3>1, LookerKept
  <2>2. QED
    BY <2>1 DEF Lookers
<1>3. Writers'
  <2>1. ASSUME NEW q \in Producers, ppc'[q] \in {"write", "publish"}
        PROVE  \E k \in 0 .. Len(claimed') : WriterAt(q, k)'
    <3>1. PICK m \in 0 .. Len(claimed) : WriterAt(q, m)
      BY <2>1 DEF RingInv, Writers
    <3>2. m \in Nat /\ m < Len(claimed') /\ m \in 0 .. Len(claimed')
      BY <1>0, <3>1 DEF WriterAt
    <3>3. /\ Freed' <= m
          /\ stamp'[SlotAt(m)] = stamp[SlotAt(m)] /\ value'[SlotAt(m)] = value[SlotAt(m)]
      BY <3>1, <3>2
    <3>4. ppc'[q] = ppc[q] /\ mytail'[q] = mytail[q] /\ calls'[q] = calls[q]
          /\ claimed'[m + 1] = claimed[m + 1]
      OBVIOUS
    <3>5. WriterAt(q, m)'
      BY <3>1, <3>2, <3>3, <3>4, WriterKept
    <3>6. QED
      BY <3>2, <3>5
  <2>2. QED
    BY <2>1 DEF Writers
<1>4. QED
  BY <1>1, <1>2, <1>3

(* The consumer finds the front place published.                           *)
LEMMA PopLookKeeps ==
  ASSUME RingInv, RingTypes', NoteFull, PopLook
  PROVE  RingInv'
<1>1. PICK L \in Nat, f \in Nat : Freed = f /\ Len(claimed) = L
  BY RingNumbers
<1>2. f <= L /\ L <= f + Capacity /\ Capacity \in Nat \ {0} /\ head = Position[f]
      /\ Position[f] \in Nat
  BY <1>1, RingNumbers, SlotTypes
<1>3. /\ UNCHANGED <<ppc, tail, head, stamp, value, mytail, calls, claimed, popped>>
      /\ cpc = "idle" /\ cpc' = "take" /\ stamp[SlotAt(f)] = Position[f] + 1
  BY <1>2 DEF PopLook, SlotAt
<1>4. Freed' = f /\ Len(claimed') = L
  BY <1>1, <1>3 DEF Freed
<1>5. f < L
  <2>1. f \in Freed .. Freed + Capacity - 1
    BY <1>1, <1>2
  <2>2. QED
    BY <1>1, <1>2, <1>3, <2>1 DEF RingInv, Slots
<1>6. Cursors' /\ InOrder' /\ Slots'
  BY <1>1, <1>3, <1>4 DEF RingInv, Cursors, InOrder, Slots
<1>7. Values' /\ Consumer'
  <2>1. Values'
    BY <1>1, <1>3, <1>4 DEF RingInv, Values
  <2>2. Consumer'
    BY <1>2, <1>3, <1>4, <1>5 DEF Consumer
  <2>3. QED
    BY <2>1, <2>2
<1>8. Lookers' /\ Writers' /\ Calling'
  <2>1. \A n \in Nat : \A q \in Producers : WriterAt(q, n) =>
          /\ Freed' <= n
          /\ stamp'[SlotAt(n)] = stamp[SlotAt(n)] /\ value'[SlotAt(n)] = value[SlotAt(n)]
    BY <1>1, <1>3, <1>4 DEF WriterAt
  <2>2. Freed' \in Nat /\ Freed <= Freed'
    BY <1>1, <1>4
  <2>3. QED
    BY <1>3, <2>1, <2>2, ConsumerLeaves
<1>9. QED
  BY <1>6, <1>7, <1>8 DEF RingInv

(* The consumer takes the value of the front place.                        *)
LEMMA PopTakeKeeps ==
  ASSUME RingInv, RingTypes', NoteFull, PopTake
  PROVE  RingInv'
<1>0. value \in [Indexes -> Items \cup {Empty}] /\ popped \in Seq(Items \cup {Empty})
  BY DEF RingInv, RingTypes
<1>1. PICK L \in Nat, f \in Nat : Freed = f /\ Len(claimed) = L
  BY RingNumbers
<1>2. f <= L /\ L <= f + Capacity /\ Capacity \in Nat \ {0} /\ head = Position[f]
      /\ Position[f] \in Nat /\ SlotAt(f) \in Indexes
  BY <1>1, RingNumbers, SlotTypes
<1>3. /\ UNCHANGED <<ppc, tail, head, stamp, mytail, calls, claimed>>
      /\ cpc = "take" /\ cpc' = "free"
  BY DEF PopTake
<1>4. Len(popped) = f
  BY <1>1, <1>3 DEF Freed
<1>5. f < L /\ stamp[SlotAt(f)] = Position[f] + 1
  BY <1>1, <1>2, <1>3 DEF RingInv, Consumer
<1>6. value[SlotAt(f)] = claimed[f + 1] /\ value[SlotAt(f)] \in Items \cup {Empty}
  <2>1. f \in Freed .. Len(claimed) - 1
    BY <1>1, <1>5
  <2>2. QED
    BY <1>0, <1>2, <1>3, <1>5, <2>1 DEF RingInv, Values
<1>7. popped' = Append(popped, value[SlotAt(f)])
  BY <1>2 DEF PopTake, SlotAt
<1>8. /\ Len(popped') = f + 1 /\ popped'[f + 1] = claimed[f + 1]
      /\ \A k \in 1 .. f : popped'[k] = popped[k]
  BY <1>0, <1>4, <1>6, <1>7
<1>9. Freed' = f /\ Len(claimed') = L
  BY <1>1, <1>3, <1>8 DEF Freed
<1>10. \A i \in Indexes : i # SlotAt(f) => value'[i] = value[i]
  BY <1>0, <1>2 DEF PopTake, SlotAt
<1>11. ASSUME NEW m \in Nat, f <= m, m < L, m # f
       PROVE  value'[SlotAt(m)] = value[SlotAt(m)]
  <2>1. m < f + Capacity /\ f < f + Capacity
    BY <1>2, <1>11
  <2>2. SlotAt(m) # SlotAt(f) /\ SlotAt(m) \in Indexes
    BY <1>11, <2>1, OwnSlots, SlotTypes
  <2>3. QED
    BY <1>10, <2>2
<1>12. Cursors' /\ Slots' /\ Consumer'
  <2>1. Cursors'
    BY <1>1, <1>3, <1>9 DEF RingInv, Cursors
  <2>2. Slots'
    BY <1>1, <1>3, <1>9 DEF RingInv, Slots
  <2>3. Consumer'
    BY <1>2, <1>3, <1>5, <1>9 DEF Consumer
  <2>4. QED
    BY <2>1, <2>2, <2>3
<1>13. InOrder'
  <2>1. ASSUME NEW k \in 1 .. f + 1 PROVE popped'[k] = claimed[k]
    <3>1. CASE k = f + 1
      BY <1>8, <3>1
    <3>2. CASE k # f + 1
      <4>1. k \in 1 .. f
        BY <3>2
      <4>2. QED
        BY <1>4, <1>8, <4>1 DEF RingInv, InOrder
    <3>3. QED
      BY <3>1, <3>2
  <2>2. f + 1 <= L
    BY <1>5
  <2>3. QED
    BY <1>3, <1>8, <1>9, <2>1, <2>2 DEF InOrder
<1>14. Values'
  <2>1. ASSUME NEW m \in f .. L - 1, stamp[SlotAt(m)] = Position[m] + 1
        PROVE  value'[SlotAt(m)] = claimed[m + 1] \/ m = f
    <3>1. SUFFICES ASSUME m # f PROVE value'[SlotAt(m)] = claimed[m + 1]
      OBVIOUS
    <3>2. m \in Nat /\ f <= m /\ m < L
      BY <1>1
    <3>3. QED
      BY <1>1, <1>3, <1>11, <2>1, <3>1, <3>2 DEF RingInv, Values
  <2>2. QED
    BY <1>3, <1>9, <2>1 DEF Values
<1>15. Lookers' /\ Writers' /\ Calling'
  <2>1. ASSUME NEW n \in Nat, NEW q \in Producers, WriterAt(q, n)
        PROVE  /\ Freed' <= n
               /\ stamp'[SlotAt(n)] = stamp[SlotAt(n)] /\ value'[SlotAt(n)] = value[SlotAt(n)]
    <3>1. f <= n /\ n < L /\ stamp[SlotAt(n)] = Position[n]
      BY <1>1, <2>1 DEF WriterAt
    <3>2. n # f
      BY <1>2, <1>5, <3>1
    <3>3. QED
      BY <1>3, <1>9, <1>11, <3>1, <3>2
  <2>2. Freed' \in Nat /\ Freed <= Freed'
    BY <1>1, <1>9
  <2>3. QED
    BY <1>3, <2>1, <2>2, ConsumerLeaves
<1>16. QED
  BY <1>12, <1>13, <1>14, <1>15 DEF RingInv

(* The consumer frees the front slot for the place a lap later.            *)
LEMMA PopFreeKeeps ==
  ASSUME RingInv, RingTypes', NoteFull, PopFree
  PROVE  RingInv'
<1>0. stamp \in [Indexes -> Nat]
  BY DEF RingInv, RingTypes
<1>1. PICK L \in Nat, f \in Nat : Freed = f /\ Len(claimed) = L
  BY RingNumbers
<1>2. f <= L /\ L <= f + Capacity /\ Capacity \in Nat \ {0} /\ head = Position[f]
      /\ Position[f] \in Nat /\ SlotAt(f) \in Indexes
  BY <1>1, RingNumbers, SlotTypes
<1>3. /\ UNCHANGED <<ppc, tail, value, mytail, calls, claimed, popped>>
      /\ cpc = "free" /\ cpc' = "idle" /\ head' = Advance(head)
  BY DEF PopFree
<1>4. Len(popped) = f + 1
  <2>1. Len(popped) \in Nat
    BY RingNumbers
  <2>2. QED
    BY <1>1, <1>3, <2>1 DEF Freed
<1>5. f < L /\ stamp[SlotAt(f)] = Position[f] + 1
  BY <1>1, <1>2, <1>3 DEF RingInv, Consumer
<1>6. Freed' = f + 1 /\ Len(claimed') = L
  BY <1>1, <1>3, <1>4 DEF Freed
<1>7. /\ stamp'[SlotAt(f)] = Position[f + Capacity]
      /\ SlotAt(f + Capacity) = SlotAt(f)
      /\ \A i \in Indexes : i # SlotAt(f) => stamp'[i] = stamp[i]
  BY <1>0, <1>2, NextLap DEF PopFree, SlotAt
<1>8. ASSUME NEW m \in Nat, f <= m, m < f + Capacity, m # f
      PROVE  stamp'[SlotAt(m)] = stamp[SlotAt(m)]
  <2>1. f < f + Capacity
    BY <1>2
  <2>2. SlotAt(m) # SlotAt(f) /\ SlotAt(m) \in Indexes
    BY <1>8, <2>1, OwnSlots, SlotTypes
  <2>3. QED
    BY <1>7, <2>2
<1>9. Cursors'
  <2>1. head' = Position[f + 1]
    BY <1>2, <1>3, PositionSteps
  <2>2. tail' = Position[L]
    BY <1>1, <1>3, RingNumbers
  <2>3. f + 1 \in Nat /\ f + 1 <= L /\ L <= f + 1 + Capacity
    BY <1>2, <1>5
  <2>4. QED
    BY <1>6, <2>1, <2>2, <2>3 DEF Cursors
<1>10. InOrder'
  BY <1>3 DEF RingInv, InOrder
<1>11. Slots'
  <2>1. ASSUME NEW m \in f + 1 .. f + 1 + Capacity - 1
        PROVE  \/ stamp'[SlotAt(m)] = Position[m]
               \/ m < L /\ stamp'[SlotAt(m)] = Position[m] + 1
    <3>1. CASE m = f + Capacity
      BY <1>7, <3>1
    <3>2. CASE m # f + Capacity
      <4>1. m \in Nat /\ f <= m /\ m < f + Capacity /\ m # f
            /\ m \in f .. f + Capacity - 1
        BY <1>2, <3>2
      <4>2. stamp'[SlotAt(m)] = stamp[SlotAt(m)]
        BY <1>8, <4>1
      <4>3. QED
        BY <1>1, <4>1, <4>2 DEF RingInv, Slots
    <3>3. QED
      BY <3>1, <3>2
  <2>2. QED
    BY <1>6, <2>1 DEF Slots
<1>12. Values'
  <2>1. ASSUME NEW m \in f + 1 .. L - 1, stamp'[SlotAt(m)] = Position[m] + 1
        PROVE  value[SlotAt(m)] = claimed[m + 1]
    <3>1. m \in Nat /\ f <= m /\ m < f + Capacity /\ m # f /\ m \in f .. L - 1
      BY <1>2
    <3>2. stamp[SlotAt(m)] = Position[m] + 1
      BY <1>8, <2>1, <3>1
    <3>3. QED
      BY <1>1, <3>1, <3>2 DEF RingInv, Values
  <2>2. QED
    BY <1>3, <1>6, <2>1 DEF Values
<1>13. Consumer'
  BY <1>3 DEF Consumer
<1>14. Lookers' /\ Writers' /\ Calling'
  <2>1. ASSUME NEW n \in Nat, NEW q \in Producers, WriterAt(q, n)
        PROVE  /\ Freed' <= n
               /\ stamp'[SlotAt(n)] = stamp[SlotAt(n)] /\ value'[SlotAt(n)] = value[SlotAt(n)]
    <3>1. f <= n /\ n < L /\ stamp[SlotAt(n)] = Position[n]
      BY <1>1, <2>1 DEF WriterAt
    <3>2. n # f
      BY <1>2, <1>5, <3>1
    <3>3. f + 1 <= n /\ n < f + Capacity
      BY <1>2, <3>1, <3>2
    <3>4. QED
      BY <1>3, <1>6, <1>8, <3>1, <3>2, <3>3
  <2>2. Freed' \in Nat /\ Freed <= Freed'
    BY <1>1, <1>6
  <2>3. QED
    BY <1>3, <2>1, <2>2, ConsumerLeaves
<1>15. QED
  BY <1>9, <1>10, <1>11, <1>12, <1>13, <1>14 DEF RingInv

-----------------------------------------------------------------------------
(* Every step keeps the invariant.                                         *)
LEMMA RingInvStep == RingInv /\ [RingNext]_ringVars => RingInv'
<1> SUFFICES ASSUME RingInv, [RingNext]_ringVars PROVE RingInv'
  OBVIOUS
<1>1. ASSUME NEW p \in Producers, ProducerStep(p), NoteFull PROVE RingInv'
  <2>1. RingTypes'
    BY <1>1, ProducerTypes
  <2>2. QED
    BY <1>1, <2>1, LoadTailKeeps, LoadStampKeeps, ClaimTailKeeps, LoseClaimKeeps,
       WriteValueKeeps, PublishStampKeeps, ReloadTailKeeps, ReturnFullKeeps DEF ProducerStep
<1>2. ASSUME ConsumerStep, NoteFull PROVE RingInv'
  <2>1. RingTypes'
    BY <1>2, ConsumerTypes
  <2>2. QED
    BY <1>2, <2>1, PopLookKeeps, PopTakeKeeps, PopFreeKeeps DEF ConsumerStep
<1>3. CASE UNCHANGED ringVars
  <2>1. UNCHANGED <<tail, head, stamp, value, cpc, claimed, popped>>
        /\ UNCHANGED <<ppc, mytail, calls, sawfull>>
    BY <1>3 DEF ringVars
  <2>2. Freed' = Freed /\ Cursors' /\ InOrder' /\ Slots' /\ Values' /\ Consumer'
    BY <2>1, PlacesStay
  <2>3. RingTypes' /\ Calling'
    BY <2>1 DEF RingInv, RingTypes, Calling
  <2>4. Lookers' /\ Writers'
    BY <2>1, <2>2 DEF RingInv, Lookers, LookerAt, Writers, WriterAt, Item
  <2>5. QED
    BY <2>2, <2>3, <2>4 DEF RingInv
<1>4. QED
  BY <1>1, <1>2, <1>3 DEF RingNext

(* The invariant holds in every reachable state.                           *)
LEMMA RingInvariant == RingSpec => []RingInv
<1>1. QED
  BY RingInvInit, RingInvStep, PTL DEF RingSpec

(* Every variable of the ring keeps its type.                              *)
THEOREM RingTypeCorrect == RingSpec => []RingTypeOK
<1>1. RingInv => RingTypeOK
  <2> SUFFICES ASSUME RingInv PROVE RingTypeOK
    OBVIOUS
  <2>1. /\ Len(claimed) \in Nat /\ Freed \in Nat
        /\ tail = Position[Len(claimed)] /\ head = Position[Freed]
    BY RingNumbers
  <2>2. tail \in Nat /\ Index(tail) \in Indexes /\ head \in Nat /\ Index(head) \in Indexes
    BY <2>1, PositionSteps
  <2>3. QED
    BY <2>2 DEF RingInv, RingTypes, RingTypeOK
<1>2. QED
  BY <1>1, RingInvariant, PTL

(* A refused push found the ring full at some instant of the call, for any *)
(* number of producers, any capacity and across any number of laps.        *)
THEOREM FullIsAlwaysHonest == RingSpec => []FullIsHonest
<1>1. RingInv => FullIsHonest
  <2>1. SUFFICES ASSUME RingInv, NEW p \in Producers, ppc[p] = "full" PROVE sawfull[p]
    BY DEF FullIsHonest
  <2>2. PICK n \in 0 .. Len(claimed) : LookerAt(p, n)
    BY <2>1 DEF RingInv, Lookers
  <2>3. QED
    BY <2>1, <2>2 DEF LookerAt
<1>2. QED
  BY <1>1, RingInvariant, PTL

-----------------------------------------------------------------------------
(* The ring implements the bounded queue.  A place in the queue is a       *)
(* claimed item and whether its slot is stamped as published.              *)

Place(c, n, s) == [item |-> c[n + 1], written |-> s[SlotAt(n)] = Position[n] + 1]
Queued(c, f, s) == [i \in 1 .. Len(c) - f |-> Place(c, f + i - 1, s)]

(* In every reachable state the slots hold what was claimed, so the queue  *)
(* can be read off the claims.                                             *)
LEMMA PlacesAre ==
  ASSUME RingInv
  PROVE  Places = Queued(claimed, Freed, stamp)
<1>1. PICK L \in Nat, f \in Nat : Freed = f /\ Len(claimed) = L
  BY RingNumbers
<1>2. f <= L
  BY <1>1, RingNumbers
<1> DEFINE E(i) == LET at == Position[Freed + i - 1]
                       written == stamp[Index(at)] = at + 1
                   IN [item |-> IF written THEN Published(i, at) ELSE claimed[Freed + i],
                       written |-> written]
<1>3. ASSUME NEW i \in 1 .. L - f PROVE E(i) = Place(claimed, f + i - 1, stamp)
  <2>1. PICK n \in Nat : n = f + i - 1
    BY <1>1
  <2>2. n \in f .. L - 1 /\ n + 1 = f + i /\ (i = 1 <=> n = f)
    BY <1>1, <1>2, <2>1
  <2>3. E(i) = [item |-> IF stamp[SlotAt(n)] = Position[n] + 1
                         THEN Published(i, Position[n]) ELSE claimed[n + 1],
                written |-> stamp[SlotAt(n)] = Position[n] + 1]
    BY <1>1, <2>1, <2>2 DEF SlotAt
  <2>4. stamp[SlotAt(n)] = Position[n] + 1 => Published(i, Position[n]) = claimed[n + 1]
    <3>1. SUFFICES ASSUME stamp[SlotAt(n)] = Position[n] + 1
          PROVE  Published(i, Position[n]) = claimed[n + 1]
      OBVIOUS
    <3>2. CASE i = 1 /\ cpc = "free"
      <4>1. Len(popped) = f + 1
        <5>1. Len(popped) \in Nat
          BY RingNumbers
        <5>2. QED
          BY <1>1, <3>2, <5>1 DEF Freed
      <4>2. Len(popped) \in 1 .. Len(popped) /\ Len(popped) = n + 1
        BY <2>2, <3>2, <4>1
      <4>3. popped[Len(popped)] = claimed[n + 1]
        BY <4>2 DEF RingInv, InOrder
      <4>4. QED
        BY <3>2, <4>3 DEF Published
    <3>3. CASE ~ (i = 1 /\ cpc = "free")
      <4>1. value[SlotAt(n)] = claimed[n + 1]
        BY <1>1, <2>2, <3>1, <3>3 DEF RingInv, Values
      <4>2. QED
        BY <3>3, <4>1 DEF Published, SlotAt
    <3>4. QED
      BY <3>2, <3>3
  <2>5. E(i) = Place(claimed, n, stamp)
    BY <2>3, <2>4 DEF Place
  <2>6. QED
    BY <2>1, <2>5
<1>4. Places = [i \in 1 .. Len(claimed) - Freed |-> E(i)]
  BY DEF Places
<1> HIDE DEF E
<1>5. QED
  BY <1>1, <1>3, <1>4 DEF Queued

(* A function on an initial segment of the naturals is a sequence.         *)
LEMMA IsSequence ==
  ASSUME NEW S, NEW k \in Nat, NEW q \in [1 .. k -> S]
  PROVE  q \in Seq(S) /\ Len(q) = k
<1>1. q \in UNION {[1 .. n -> S] : n \in Nat}
  OBVIOUS
<1>2. q \in Seq(S)
  BY <1>1, SeqDef
<1>3. DOMAIN q = 1 .. k /\ Len(q) \in Nat /\ DOMAIN q = 1 .. Len(q)
  BY <1>2, LenProperties
<1>4. QED
  BY <1>2, <1>3

(* The places of the queue, one by one.                                    *)
LEMMA QueuedIs ==
  ASSUME NEW c \in Seq(Items), NEW f \in Nat, f <= Len(c), NEW s \in [Indexes -> Nat]
  PROVE  /\ Queued(c, f, s) \in Seq([item : Items, written : BOOLEAN])
         /\ Len(Queued(c, f, s)) = Len(c) - f
         /\ \A i \in 1 .. Len(c) - f : Queued(c, f, s)[i] = Place(c, f + i - 1, s)
<1>1. Len(c) - f \in Nat
  OBVIOUS
<1>2. ASSUME NEW i \in 1 .. Len(c) - f
      PROVE  Place(c, f + i - 1, s) \in [item : Items, written : BOOLEAN]
  <2>1. f + i - 1 + 1 \in 1 .. Len(c)
    OBVIOUS
  <2>2. c[f + i - 1 + 1] \in Items
    BY <2>1
  <2>3. QED
    BY <2>2 DEF Place
<1>3. PICK k \in Nat : k = Len(c) - f
  BY <1>1
<1>4. Queued(c, f, s) = [i \in 1 .. k |-> Place(c, f + i - 1, s)]
  BY <1>3 DEF Queued
<1>5. Queued(c, f, s) \in [1 .. k -> [item : Items, written : BOOLEAN]]
  BY <1>2, <1>3, <1>4
<1>6. Queued(c, f, s) \in Seq([item : Items, written : BOOLEAN])
  BY <1>5, IsSequence
<1>7. Len(Queued(c, f, s)) = k
  BY <1>5, IsSequence
<1>8. QED
  BY <1>3, <1>4, <1>6, <1>7

(* Two queues are equal when their places are.                             *)
LEMMA SameQueue ==
  ASSUME NEW S, NEW a \in Seq(S), NEW b \in Seq(S), Len(a) = Len(b),
         \A i \in 1 .. Len(a) : a[i] = b[i]
  PROVE  a = b
OBVIOUS

(* A claim appends a place that is not written.                            *)
LEMMA QueuedClaim ==
  ASSUME NEW c \in Seq(Items), NEW f \in Nat, f <= Len(c), NEW s \in [Indexes -> Nat],
         NEW x \in Items, s[SlotAt(Len(c))] = Position[Len(c)]
  PROVE  Queued(Append(c, x), f, s)
           = Append(Queued(c, f, s), [item |-> x, written |-> FALSE])
<1> DEFINE P == [item : Items, written : BOOLEAN]
           new == [item |-> x, written |-> FALSE]
<1>1. PICK L \in Nat : L = Len(c) /\ f <= L
  OBVIOUS
<1>2. PICK d : d = Append(c, x)
  OBVIOUS
<1>3. /\ d \in Seq(Items) /\ Len(d) = L + 1 /\ d[L + 1] = x
      /\ \A k \in 1 .. L : d[k] = c[k]
  BY <1>1, <1>2
<1>4. PICK a : a = Queued(c, f, s)
  OBVIOUS
<1>5. a \in Seq(P) /\ Len(a) = L - f /\ \A i \in 1 .. L - f : a[i] = Place(c, f + i - 1, s)
  BY <1>1, <1>4, QueuedIs
<1>6. PICK b : b = Queued(d, f, s)
  OBVIOUS
<1>7. /\ b \in Seq(P) /\ Len(b) = L + 1 - f
      /\ \A i \in 1 .. L + 1 - f : b[i] = Place(d, f + i - 1, s)
  <2>1. f <= Len(d)
    BY <1>1, <1>3
  <2>2. /\ b \in Seq(P) /\ Len(b) = Len(d) - f
        /\ \A i \in 1 .. Len(d) - f : b[i] = Place(d, f + i - 1, s)
    BY <1>3, <1>6, <2>1, QueuedIs
  <2>3. QED
    BY <1>3, <2>2
<1>8. ASSUME NEW i \in 1 .. L - f PROVE b[i] = a[i]
  <2>1. f + i - 1 + 1 \in 1 .. L /\ i \in 1 .. L + 1 - f
    BY <1>1
  <2>2. Place(d, f + i - 1, s) = Place(c, f + i - 1, s)
    BY <1>3, <2>1 DEF Place
  <2>3. QED
    BY <1>5, <1>7, <2>1, <2>2
<1>9. b[L + 1 - f] = new
  <2>1. L + 1 - f \in 1 .. L + 1 - f /\ f + (L + 1 - f) - 1 = L
    BY <1>1
  <2>2. Position[L] \in Nat
    BY SlotTypes
  <2>3. Place(d, L, s) = new
    <3>1. (s[SlotAt(L)] = Position[L] + 1) = FALSE
      BY <1>1, <2>2
    <3>2. QED
      BY <1>3, <3>1 DEF Place
  <2>4. QED
    BY <1>7, <2>1, <2>3
<1>10. new \in P
  OBVIOUS
<1> HIDE DEF P, new
<1>11. PICK e : e = Append(a, new)
  OBVIOUS
<1>12. /\ e \in Seq(P) /\ Len(e) = L - f + 1 /\ e[L - f + 1] = new
       /\ \A i \in 1 .. L - f : e[i] = a[i]
  BY <1>1, <1>5, <1>10, <1>11, AppendProperties
<1>13. ASSUME NEW i \in 1 .. L + 1 - f PROVE b[i] = e[i]
  <2>1. CASE i = L + 1 - f
    <3>1. i = L - f + 1
      BY <1>1, <2>1
    <3>2. QED
      BY <1>9, <1>12, <2>1, <3>1
  <2>2. CASE i # L + 1 - f
    <3>1. i \in 1 .. L - f
      BY <1>1, <2>2
    <3>2. QED
      BY <1>8, <1>12, <3>1
  <2>3. QED
    BY <2>1, <2>2
<1>14. b = e
  <2>1. Len(b) = Len(e)
    BY <1>1, <1>7, <1>12
  <2>2. QED
    BY <1>7, <1>12, <1>13, <2>1, SameQueue
<1>15. QED
  BY <1>2, <1>4, <1>6, <1>11, <1>14 DEF new

(* A place becomes written.                                                *)
LEMMA BecomesWritten ==
  ASSUME NEW x, NEW w, NEW r, r = [item |-> x, written |-> w], NEW y,
         NEW e, e = [r EXCEPT !.written = y]
  PROVE  e = [item |-> x, written |-> y]
<1>1. DOMAIN r = {"item", "written"}
  OBVIOUS
<1>2. e.item = x
  OBVIOUS
<1>3. e.written = y
  BY <1>1
<1>4. e = [k \in {"item", "written"} |-> e[k]]
  BY <1>1
<1>5. QED
  BY <1>2, <1>3, <1>4

Publishes(n, j, c, f, s, t) ==
  /\ c \in Seq(Items) /\ f \in Nat /\ f <= Len(c)
  /\ s \in [Indexes -> Nat] /\ t \in [Indexes -> Nat]
  /\ n \in f .. Len(c) - 1 /\ t[SlotAt(n)] = Position[n] + 1
  /\ \A m \in f .. Len(c) - 1 : m # n => t[SlotAt(m)] = s[SlotAt(m)]
  /\ j \in 1 .. Len(c) - f /\ f + j - 1 = n
Marked(a, j) == [a EXCEPT ![j].written = TRUE]

(* A publication writes one place.                                         *)
LEMMA QueuedWrite ==
  ASSUME NEW n, NEW j, NEW c, NEW f, NEW s, NEW t, Publishes(n, j, c, f, s, t)
  PROVE  Queued(c, f, t) = Marked(Queued(c, f, s), j)
<1>0. /\ c \in Seq(Items) /\ f \in Nat /\ f <= Len(c)
      /\ s \in [Indexes -> Nat] /\ t \in [Indexes -> Nat]
      /\ n \in f .. Len(c) - 1 /\ t[SlotAt(n)] = Position[n] + 1
      /\ j \in 1 .. Len(c) - f /\ f + j - 1 = n
  BY DEF Publishes
<1>2. PICK a : a = Queued(c, f, s)
  OBVIOUS
<1>1. PICK L \in Nat : L = Len(c) /\ f <= L
  BY <1>0
<1>3. a = [i \in 1 .. L - f |-> Place(c, f + i - 1, s)]
  BY <1>1, <1>2 DEF Queued
<1>4. j \in 1 .. L - f /\ f + j - 1 = n
  BY <1>0, <1>1
<1>5. ASSUME NEW i \in 1 .. L - f, i # j
      PROVE  Place(c, f + i - 1, t) = Place(c, f + i - 1, s)
  <2>1. f + i - 1 \in f .. Len(c) - 1 /\ f + i - 1 # n
    BY <1>0, <1>1, <1>4, <1>5
  <2>2. QED
    BY <2>1 DEF Place, Publishes
<1>6. Place(c, n, t) = [Place(c, n, s) EXCEPT !.written = TRUE]
  <2>1. (t[SlotAt(n)] = Position[n] + 1) = TRUE
    BY <1>0
  <2>2. PICK w : w = (s[SlotAt(n)] = Position[n] + 1)
    OBVIOUS
  <2>3. /\ Place(c, n, t) = [item |-> c[n + 1], written |-> TRUE]
        /\ Place(c, n, s) = [item |-> c[n + 1], written |-> w]
    BY <2>1, <2>2 DEF Place
  <2>4. [Place(c, n, s) EXCEPT !.written = TRUE] = [item |-> c[n + 1], written |-> TRUE]
    <3>1. PICK r : r = Place(c, n, s)
      OBVIOUS
    <3>2. PICK e : e = [r EXCEPT !.written = TRUE]
      OBVIOUS
    <3>3. r = [item |-> c[n + 1], written |-> w]
      BY <2>3, <3>1
    <3>4. e = [item |-> c[n + 1], written |-> TRUE]
      BY <3>2, <3>3, BecomesWritten
    <3>5. QED
      BY <3>1, <3>2, <3>4
  <2>5. QED
    BY <2>3, <2>4
<1>7. [a EXCEPT ![j].written = TRUE]
        = [i \in 1 .. L - f |-> IF i = j THEN [a[j] EXCEPT !.written = TRUE] ELSE a[i]]
  BY <1>3
<1>8. ASSUME NEW i \in 1 .. L - f
      PROVE  Place(c, f + i - 1, t) = IF i = j THEN [a[j] EXCEPT !.written = TRUE] ELSE a[i]
  <2>1. a[i] = Place(c, f + i - 1, s) /\ a[j] = Place(c, n, s)
    BY <1>3, <1>4
  <2>2. QED
    BY <1>4, <1>5, <1>6, <2>1
<1>9. [i \in 1 .. L - f |-> Place(c, f + i - 1, t)]
        = [i \in 1 .. L - f |-> IF i = j THEN [a[j] EXCEPT !.written = TRUE] ELSE a[i]]
  BY <1>8
<1>10. QED
  BY <1>1, <1>2, <1>4, <1>7, <1>9 DEF Queued, Marked

(* Freeing the front place takes it from the queue.                        *)
LEMMA QueuedFree ==
  ASSUME NEW c \in Seq(Items), NEW f \in Nat, f < Len(c),
         NEW s \in [Indexes -> Nat], NEW t \in [Indexes -> Nat],
         \A m \in f + 1 .. Len(c) - 1 : t[SlotAt(m)] = s[SlotAt(m)]
  PROVE  Queued(c, f + 1, t) = Tail(Queued(c, f, s))
<1> DEFINE P == [item : Items, written : BOOLEAN]
<1>1. PICK L \in Nat : L = Len(c) /\ f < L
  OBVIOUS
<1>2. PICK a : a = Queued(c, f, s)
  OBVIOUS
<1>3. PICK b : b = Queued(c, f + 1, t)
  OBVIOUS
<1>4. a \in Seq(P) /\ Len(a) = L - f /\ \A i \in 1 .. L - f : a[i] = Place(c, f + i - 1, s)
  <2>1. f <= Len(c)
    BY <1>1
  <2>2. QED
    BY <1>1, <1>2, <2>1, QueuedIs
<1>5. /\ b \in Seq(P) /\ Len(b) = L - (f + 1)
      /\ \A i \in 1 .. L - (f + 1) : b[i] = Place(c, f + 1 + i - 1, t)
  <2>1. f + 1 \in Nat /\ f + 1 <= Len(c)
    BY <1>1
  <2>2. QED
    BY <1>1, <1>3, <2>1, QueuedIs
<1> HIDE DEF P
<1>6. PICK e : e = Tail(a)
  OBVIOUS
<1>7. /\ e \in Seq(P) /\ Len(e) = L - f - 1
      /\ \A i \in 1 .. L - f - 1 : e[i] = a[i + 1]
  <2>1. a # <<>>
    BY <1>1, <1>4
  <2>2. QED
    <3>1. /\ e \in Seq(P) /\ Len(e) = Len(a) - 1
          /\ \A i \in 1 .. Len(e) : e[i] = a[i + 1]
      BY <1>4, <1>6, <2>1, HeadTailProperties
    <3>2. Len(e) = L - f - 1
      BY <1>1, <1>4, <3>1
    <3>3. QED
      BY <3>1, <3>2
<1>8. ASSUME NEW i \in 1 .. L - (f + 1) PROVE b[i] = e[i]
  <2>1. i + 1 \in 1 .. L - f /\ i \in 1 .. L - f - 1
    BY <1>1
  <2>2. PICK m \in f + 1 .. Len(c) - 1 : m = f + (i + 1) - 1 /\ m = f + 1 + i - 1
    BY <1>1
  <2>3. Place(c, m, t) = Place(c, m, s)
    BY <2>2 DEF Place
  <2>4. QED
    BY <1>4, <1>5, <1>7, <2>1, <2>2, <2>3
<1>9. b = e
  <2>1. Len(b) = Len(e)
    BY <1>1, <1>5, <1>7
  <2>2. QED
    BY <1>5, <1>7, <1>8, <2>1, SameQueue
<1>10. QED
  BY <1>2, <1>3, <1>6, <1>9

(* The same, of a state of the ring.                                       *)
LEMMA PlacesNow == RingInv => Places = Queued(claimed, Freed, stamp)
BY PlacesAre

(* PlacesNow of the next state.                                            *)
LEMMA PlacesPrimed == RingInv' => (Places = Queued(claimed, Freed, stamp))'
BY PlacesNow, PTL

(* PlacesNow of the next state, as the steps use it.                       *)
LEMMA PlacesNext ==
  ASSUME RingInv'
  PROVE  Places' = Queued(claimed', Freed', stamp')
BY PlacesPrimed

(* What the steps of the ring need to know of it.                          *)
LEMMA QueueFacts ==
  ASSUME RingInv
  PROVE  /\ claimed \in Seq(Items) /\ stamp \in [Indexes -> Nat]
         /\ Freed \in Nat /\ Freed <= Len(claimed) /\ Len(claimed) \in Nat
         /\ Places = Queued(claimed, Freed, stamp)
         /\ Len(Places) = Len(claimed) - Freed
         /\ Places \in Seq([item : Items, written : BOOLEAN])
         /\ \A i \in 1 .. Len(claimed) - Freed : Places[i] = Place(claimed, Freed + i - 1, stamp)
<1>1. /\ claimed \in Seq(Items) /\ stamp \in [Indexes -> Nat]
      /\ Freed \in Nat /\ Freed <= Len(claimed) /\ Len(claimed) \in Nat
  BY RingNumbers DEF RingInv, RingTypes
<1>2. Places = Queued(claimed, Freed, stamp)
  BY PlacesAre
<1>3. QED
  BY <1>1, <1>2, QueuedIs

(* A claim that succeeds is a claim of the queue.                          *)
LEMMA ClaimTailClaims ==
  ASSUME RingInv, RingInv', NEW p \in Producers, ClaimTail(p)
  PROVE  \E x \in Items : Queue!Claim(x)
<1>1. Item(p) \in Items
  BY ItemType DEF ClaimTail
<1>2. claimed' = Append(claimed, Item(p)) /\ stamp' = stamp /\ cpc' = cpc /\ popped' = popped
  BY DEF ClaimTail
<1>3. Freed' = Freed
  BY <1>2 DEF Freed
<1>4. PICK L \in Nat, f \in Nat : Freed = f /\ Len(claimed) = L
  BY RingNumbers
<1>5. f <= L /\ L < f + Capacity /\ Capacity \in Nat
  BY <1>4, RingNumbers, ClaimHasRoom
<1>6. stamp[SlotAt(Len(claimed))] = Position[Len(claimed)]
  <2>1. L \in Freed .. Freed + Capacity - 1 /\ ~ (L < Len(claimed))
    BY <1>4, <1>5
  <2>2. stamp[SlotAt(L)] = Position[L]
    BY <2>1 DEF RingInv, Slots
  <2>3. QED
    BY <1>4, <2>2
<1>7. Queued(Append(claimed, Item(p)), Freed, stamp)
        = Append(Queued(claimed, Freed, stamp), [item |-> Item(p), written |-> FALSE])
  BY <1>1, <1>6, QueueFacts, QueuedClaim
<1>8. Places' = Append(Places, [item |-> Item(p), written |-> FALSE])
  <2>1. Places' = Queued(claimed', Freed', stamp')
    BY PlacesNext
  <2>2. Places = Queued(claimed, Freed, stamp)
    BY PlacesAre
  <2>3. QED
    BY <1>2, <1>3, <1>7, <2>1, <2>2
<1>9. Len(Places) < Capacity
  BY <1>4, <1>5, QueueFacts
<1>10. QED
  BY <1>1, <1>8, <1>9 DEF Queue!Claim

(* A publication writes a place of the queue.                              *)
LEMMA PublishStampWrites ==
  ASSUME RingInv, RingInv', NEW p \in Producers, PublishStamp(p)
  PROVE  \E i \in DOMAIN Places : Queue!Write(i)
<1>0. stamp \in [Indexes -> Nat] /\ stamp' \in [Indexes -> Nat] /\ claimed \in Seq(Items)
  BY DEF RingInv, RingTypes
<1>1. PICK L \in Nat, f \in Nat : Freed = f /\ Len(claimed) = L
  BY RingNumbers
<1>2. f <= L /\ L <= f + Capacity /\ Capacity \in Nat
  BY <1>1, RingNumbers
<1>3. PICK n \in 0 .. Len(claimed) : WriterAt(p, n)
  BY DEF RingInv, Writers, PublishStamp
<1>4. n \in Nat /\ f <= n /\ n < L /\ Position[n] \in Nat /\ SlotAt(n) \in Indexes
      /\ n \in f .. L - 1
  BY <1>1, <1>3, SlotTypes DEF WriterAt
<1>5. claimed' = claimed /\ Freed' = Freed
  BY DEF PublishStamp, Freed
<1>6. /\ stamp'[SlotAt(n)] = Position[n] + 1
      /\ \A i \in Indexes : i # SlotAt(n) => stamp'[i] = stamp[i]
  BY <1>0, <1>3, <1>4 DEF PublishStamp, WriterAt, SlotAt
<1>7. ASSUME NEW m \in f .. L - 1, m # n PROVE stamp'[SlotAt(m)] = stamp[SlotAt(m)]
  <2>1. m \in Freed .. Freed + Capacity - 1 /\ m \in Nat
    BY <1>1, <1>2
  <2>2. SlotAt(m) # SlotAt(n) /\ SlotAt(m) \in Indexes
    BY <1>3, <1>4, <1>7, <2>1, WriterOwns, SlotTypes
  <2>3. QED
    BY <1>6, <2>2
<1>8. PICK t : t = stamp'
  OBVIOUS
<1>11. PICK i \in 1 .. L - f : f + i - 1 = n
  <2>1. n - f + 1 \in 1 .. L - f /\ f + (n - f + 1) - 1 = n
    BY <1>4
  <2>2. QED
    BY <2>1
<1>9. Queued(claimed, f, t) = [Places EXCEPT ![i].written = TRUE]
  <2>1. /\ t \in [Indexes -> Nat] /\ t[SlotAt(n)] = Position[n] + 1
        /\ n \in f .. Len(claimed) - 1 /\ f <= Len(claimed)
        /\ i \in 1 .. Len(claimed) - f
    BY <1>0, <1>1, <1>2, <1>4, <1>6, <1>8, <1>11
  <2>2. \A m \in f .. Len(claimed) - 1 : m # n => t[SlotAt(m)] = stamp[SlotAt(m)]
    BY <1>1, <1>7, <1>8
  <2>3. Publishes(n, i, claimed, f, stamp, t)
    BY <1>0, <1>11, <2>1, <2>2 DEF Publishes
  <2>4. Queued(claimed, f, t) = Marked(Queued(claimed, f, stamp), i)
    BY <2>3, QueuedWrite
  <2>5. Places = Queued(claimed, f, stamp)
    BY <1>1, PlacesAre
  <2>6. QED
    BY <2>4, <2>5 DEF Marked
<1>10. Places' = [Places EXCEPT ![i].written = TRUE]
  <2>1. Places' = Queued(claimed', Freed', stamp')
    BY PlacesNext
  <2>2. QED
    BY <1>1, <1>5, <1>8, <1>9, <2>1
<1>12. ~ Places[i].written /\ i \in DOMAIN Places
  <2>1. Places[i] = Place(claimed, n, stamp) /\ i \in DOMAIN Places
    BY <1>1, <1>11, QueueFacts
  <2>2. (stamp[SlotAt(n)] = Position[n] + 1) = FALSE
    BY <1>3, <1>4 DEF WriterAt
  <2>3. Places[i] = [item |-> claimed[n + 1], written |-> FALSE]
    BY <2>1, <2>2 DEF Place
  <2>4. QED
    BY <2>1, <2>3
<1>13. Queue!Write(i)
  BY <1>10, <1>11, <1>12 DEF Queue!Write
<1>14. QED
  BY <1>12, <1>13

(* Freeing a slot removes the front place of the queue.                    *)
LEMMA PopFreeRemoves ==
  ASSUME RingInv, RingInv', PopFree
  PROVE  Queue!Remove
<1>0. stamp \in [Indexes -> Nat] /\ stamp' \in [Indexes -> Nat] /\ claimed \in Seq(Items)
  BY DEF RingInv, RingTypes
<1>1. PICK L \in Nat, f \in Nat : Freed = f /\ Len(claimed) = L
  BY RingNumbers
<1>2. f <= L /\ L <= f + Capacity /\ Capacity \in Nat \ {0} /\ head = Position[f]
      /\ SlotAt(f) \in Indexes
  BY <1>1, RingNumbers, SlotTypes
<1>3. cpc = "free" /\ cpc' = "idle" /\ claimed' = claimed /\ popped' = popped
  BY DEF PopFree
<1>4. f < L /\ stamp[SlotAt(f)] = Position[f] + 1
  BY <1>1, <1>2, <1>3 DEF RingInv, Consumer
<1>5. Freed' = f + 1
  <2>1. Len(popped) \in Nat
    BY RingNumbers
  <2>2. QED
    BY <1>1, <1>3, <2>1 DEF Freed
<1>6. \A i \in Indexes : i # SlotAt(f) => stamp'[i] = stamp[i]
  BY <1>0, <1>2 DEF PopFree, SlotAt
<1>7. ASSUME NEW m \in f + 1 .. L - 1 PROVE stamp'[SlotAt(m)] = stamp[SlotAt(m)]
  <2>1. m \in Nat /\ f <= m /\ m < f + Capacity /\ m # f /\ f < f + Capacity
    BY <1>2
  <2>2. SlotAt(m) # SlotAt(f) /\ SlotAt(m) \in Indexes
    BY <2>1, OwnSlots, SlotTypes
  <2>3. QED
    BY <1>6, <2>2
<1>8. PICK t : t = stamp'
  OBVIOUS
<1>9. Queued(claimed, f + 1, t) = Tail(Queued(claimed, f, stamp))
  BY <1>0, <1>1, <1>4, <1>7, <1>8, QueuedFree
<1>10. Places' = Tail(Places)
  <2>1. Places' = Queued(claimed', Freed', stamp')
    BY PlacesNext
  <2>2. Places = Queued(claimed, Freed, stamp)
    BY PlacesAre
  <2>3. QED
    BY <1>1, <1>3, <1>5, <1>8, <1>9, <2>1, <2>2
<1>11. Places # <<>> /\ Places[1].written
  <2>1. 1 \in 1 .. L - f /\ f + 1 - 1 = f /\ L - f > 0
    BY <1>4
  <2>2. Places[1] = Place(claimed, f, stamp) /\ Len(Places) > 0
    BY <1>1, <2>1, QueueFacts
  <2>3. (stamp[SlotAt(f)] = Position[f] + 1) = TRUE
    BY <1>4
  <2>4. Places[1] = [item |-> claimed[f + 1], written |-> TRUE]
    BY <2>2, <2>3 DEF Place
  <2>5. Places # <<>>
    BY <2>2, QueueFacts
  <2>6. QED
    BY <2>4, <2>5
<1>12. QED
  BY <1>10, <1>11 DEF Queue!Remove

(* No other step changes the queue.                                        *)
LEMMA QueueStays ==
  ASSUME RingInv, RingInv', UNCHANGED <<claimed, stamp>>, Freed' = Freed
  PROVE  Places' = Places
<1>1. Places' = Queued(claimed', Freed', stamp')
  BY PlacesNext
<1>2. Places = Queued(claimed, Freed, stamp)
  BY PlacesAre
<1>3. QED
  BY <1>1, <1>2

(* Every step of the ring is a step of the queue, or none.                 *)
LEMMA FifoStep ==
  ASSUME RingInv, RingInv', [RingNext]_ringVars
  PROVE  [Queue!Next]_Places
<1>1. ASSUME NEW p \in Producers, ProducerStep(p) PROVE [Queue!Next]_Places
  <2>1. CASE ClaimTail(p)
    BY <2>1, ClaimTailClaims DEF Queue!Next
  <2>2. CASE PublishStamp(p)
    BY <2>2, PublishStampWrites DEF Queue!Next
  <2>3. CASE \/ LoadTail(p) \/ LoadStamp(p) \/ LoseClaim(p) \/ WriteValue(p)
             \/ ReloadTail(p) \/ ReturnFull(p)
    <3>1. UNCHANGED <<claimed, stamp>> /\ Freed' = Freed
      BY <2>3 DEF LoadTail, LoadStamp, LoseClaim, WriteValue, ReloadTail, ReturnFull, Freed
    <3>2. QED
      BY <3>1, QueueStays
  <2>4. QED
    BY <1>1, <2>1, <2>2, <2>3 DEF ProducerStep
<1>2. CASE PopLook \/ PopTake
  <2>1. Len(popped) \in Nat /\ popped \in Seq(Items \cup {Empty})
        /\ value \in [Indexes -> Items \cup {Empty}] /\ Index(head) \in Indexes
    <3>1. Freed \in Nat /\ head = Position[Freed] /\ Len(popped) \in Nat
      BY RingNumbers
    <3>2. QED
      BY <3>1, PositionSteps DEF RingInv, RingTypes
  <2>2. UNCHANGED <<claimed, stamp>>
    BY <1>2 DEF PopLook, PopTake
  <2>3. CASE PopLook
    BY <2>2, <2>3, QueueStays DEF PopLook, Freed
  <2>4. CASE PopTake
    <3>1. value[Index(head)] \in Items \cup {Empty}
      BY <2>1
    <3>2. Len(popped') = Len(popped) + 1 /\ cpc = "take" /\ cpc' = "free"
      BY <2>1, <2>4, <3>1 DEF PopTake
    <3>3. Freed' = Freed
      BY <2>1, <3>2 DEF Freed
    <3>4. QED
      BY <2>2, <3>3, QueueStays
  <2>5. QED
    BY <1>2, <2>3, <2>4
<1>3. CASE PopFree
  BY <1>3, PopFreeRemoves DEF Queue!Next
<1>4. CASE UNCHANGED ringVars
  <2>1. UNCHANGED <<claimed, stamp>> /\ Freed' = Freed
    BY <1>4 DEF ringVars, Freed
  <2>2. QED
    BY <2>1, QueueStays
<1>5. QED
  BY <1>1, <1>2, <1>3, <1>4 DEF RingNext, ConsumerStep

(* The ring is a bounded queue, for any number of producers, any capacity  *)
(* and any number of laps: what is popped was claimed, in that order, none *)
(* lost, none twice, and never more than the capacity.                     *)
THEOREM RingImplementsFifo == RingSpec => ImplementsFifo
<1>1. RingInit => Queue!Init
  <2> SUFFICES ASSUME RingInit PROVE Places = <<>>
    BY DEF Queue!Init
  <2>1. RingInv
    BY RingInvInit
  <2>2. Len(claimed) - Freed = 0
    BY DEF RingInit, Freed
  <2>3. QED
    BY <2>1, <2>2, QueueFacts
<1>2. QED
  BY <1>1, FifoStep, RingInvariant, PTL DEF RingSpec, ImplementsFifo, Queue!Spec

-----------------------------------------------------------------------------
(* Timer.                                                                  *)

-----------------------------------------------------------------------------
(* Blocks.  At each level time is cut into blocks of Width(level) ticks.   *)

Block(t, level) == t \div Width(level)
BlockStart(t, level) == Block(t, level) * Width(level)

(* The widths of the levels that the digits of a tick are taken from.      *)
LEMMA Widths ==
  ASSUME NEW l \in 0 .. WordDigits
  PROVE  /\ Width(l) \in Nat \ {0}
         /\ Width(l + 1) = SlotCount * Width(l)
         /\ Width(l + 1) \in Nat \ {0}
         /\ l \in Nat
<1>1. WordDigits \in Nat
  BY TimerConstants
<1>2. Width(l) \in Nat \ {0} /\ Width(l + 1) = SlotCount * Width(l)
  BY TimerTicks
<1>3. SlotCount \in Nat /\ SlotCount > 1
  BY TimerTicks
<1> DEFINE w == Width(l)
           s == SlotCount
<1>4. w \in Nat \ {0} /\ s \in Nat /\ s > 1
  BY <1>2, <1>3
<1> HIDE DEF w, s
<1>5. s * w \in Nat \ {0}
  BY <1>4
<1>6. QED
  BY <1>1, <1>2, <1>5 DEF w, s

(* The limits of the wheel in terms of the widths.                         *)
LEMMA Limits ==
  /\ Levels \in Nat \ {0} /\ WordDigits \in Nat /\ Levels < WordDigits
  /\ MaxDelay = Width(Levels) - 1 /\ MaxDelay \in Nat
  /\ NoEvent = Width(WordDigits) - 1 /\ NoEvent \in Nat
  /\ MaxTick = NoEvent - 1
  /\ SlotCount \in Nat /\ SlotCount > 1
  /\ Width(0) = 1
  /\ Ticks \subseteq Nat /\ \A t \in Ticks : t < NoEvent
<1>1. Levels \in Nat \ {0} /\ WordDigits \in Nat /\ Levels < WordDigits
  BY TimerConstants
<1>2. MaxDelay = Width(Levels) - 1
  BY DEF MaxDelay, Width
<1>3. NoEvent = Width(WordDigits) - 1
  BY DEF NoEvent, Width
<1>4. Width(Levels) \in Nat \ {0} /\ Width(WordDigits) \in Nat \ {0}
  <2>1. Levels \in 0 .. WordDigits /\ WordDigits \in 0 .. WordDigits
    BY <1>1
  <2>2. QED
    BY <2>1, Widths
<1>5. MaxDelay \in Nat /\ NoEvent \in Nat
  BY <1>2, <1>3, <1>4
<1>6. MaxTick = NoEvent - 1
  BY DEF MaxTick
<1>7. Ticks \subseteq Nat /\ \A t \in Ticks : t < NoEvent
  BY <1>5, <1>6 DEF Ticks
<1>8. QED
  BY <1>1, <1>2, <1>3, <1>5, <1>6, <1>7, TimerTicks

(* A tick is in its block.                                                 *)
LEMMA InBlock ==
  ASSUME NEW l \in 0 .. WordDigits, NEW t \in Nat
  PROVE  /\ Block(t, l) \in Nat
         /\ BlockStart(t, l) \in Nat
         /\ BlockStart(t, l) <= t
         /\ t < BlockStart(t, l) + Width(l)
<1>1. PICK w \in Nat \ {0} : w = Width(l)
  BY Widths
<1>2. t \div w \in Nat /\ t % w \in 0 .. w - 1 /\ t = (t \div w) * w + (t % w)
  BY Division
<1>3. PICK q \in Nat : q = t \div w
  BY <1>2
<1>4. PICK r \in 0 .. w - 1 : r = t % w
  BY <1>2
<1>5. t = q * w + r
  BY <1>2, <1>3, <1>4
<1>6. Block(t, l) = q /\ BlockStart(t, l) = q * w
  BY <1>1, <1>3 DEF Block, BlockStart
<1>7. q * w \in Nat
  BY <1>3
<1>8. q * w <= t /\ t < q * w + w
  BY <1>5, <1>7, <1>4
<1>9. QED
  BY <1>1, <1>6, <1>7, <1>8

(* Blocks follow each other as ticks do.                                   *)
LEMMA BlocksInOrder ==
  ASSUME NEW l \in 0 .. WordDigits, NEW c \in Nat, NEW d \in Nat
  PROVE  /\ c <= d => Block(c, l) <= Block(d, l)
         /\ Block(c, l) < Block(d, l) <=> c < BlockStart(d, l)
<1>1. PICK w \in Nat \ {0} : w = Width(l)
  BY Widths
<1>2. PICK a \in Nat : a = Block(c, l)
  BY InBlock
<1>3. PICK b \in Nat : b = Block(d, l)
  BY InBlock
<1>4. BlockStart(c, l) = a * w /\ BlockStart(d, l) = b * w
  BY <1>1, <1>2, <1>3 DEF BlockStart
<1>5. a * w \in Nat /\ b * w \in Nat
  OBVIOUS
<1>6. a * w <= c /\ c < a * w + w /\ b * w <= d /\ d < b * w + w
  BY <1>1, <1>4, InBlock
<1>7. (a < b => a * w + w <= b * w) /\ (b < a => b * w + w <= a * w)
  BY Apart
<1>8. c <= d => a <= b
  BY <1>5, <1>6, <1>7
<1>9. a < b => c < b * w
  BY <1>5, <1>6, <1>7
<1>10. c < b * w => a < b
  <2>1. SUFFICES ASSUME c < b * w, b < a PROVE FALSE
    BY <1>5, <1>6
  <2>2. QED
    BY <1>5, <1>6, <1>7, <2>1
<1>11. QED
  BY <1>2, <1>3, <1>4, <1>8, <1>9, <1>10

(* A block is made of SlotCount blocks of the level below, and the digit   *)
(* says which of them a tick is in.                                        *)
LEMMA BlockDigits ==
  ASSUME NEW l \in 0 .. WordDigits - 1, NEW t \in Nat
  PROVE  /\ Digit(t, l) \in 0 .. SlotCount - 1
         /\ Block(t, l) = Block(t, l + 1) * SlotCount + Digit(t, l)
<1>0. l \in 0 .. WordDigits /\ l + 1 \in 0 .. WordDigits
  BY Limits
<1>1. PICK w \in Nat \ {0} : w = Width(l)
  BY <1>0, Widths
<1>2. PICK s \in Nat \ {0} : s = SlotCount
  BY Limits
<1>3. PICK q \in Nat : q = Block(t, l)
  BY <1>0, InBlock
<1>4. q \div s \in Nat /\ q % s \in 0 .. s - 1 /\ q = (q \div s) * s + (q % s)
  BY Division
<1>5. PICK p \in Nat : p = q \div s
  BY <1>4
<1>6. PICK x \in 0 .. s - 1 : x = q % s
  BY <1>4
<1>7. q = p * s + x
  BY <1>4, <1>5, <1>6
<1>8. Digit(t, l) = x
  BY <1>2, <1>3, <1>6 DEF Digit, Block
<1>9. t \div w \in Nat /\ t % w \in 0 .. w - 1 /\ t = (t \div w) * w + (t % w)
  BY Division
<1>10. PICK r \in 0 .. w - 1 : r = t % w
  BY <1>9
<1>11. t = q * w + r
  BY <1>1, <1>3, <1>9, <1>10 DEF Block
<1>12. q * w = p * (s * w) + x * w
  BY <1>7
<1>13. x * w + r \in 0 .. s * w - 1
  <2>1. x * w \in Nat /\ s * w \in Nat
    BY <1>6
  <2>2. x * w + w <= s * w
    BY <1>6, Apart
  <2>3. QED
    BY <2>1, <2>2, <1>10
<1>14. PICK v \in Nat \ {0} : v = s * w
  BY <1>1, <1>2
<1>15. PICK y \in 0 .. v - 1 : y = x * w + r
  BY <1>13, <1>14
<1>16. t = p * v + y
  <2>1. x * w \in Nat
    BY <1>6
  <2>2. q * w = p * v + x * w
    BY <1>12, <1>14
  <2>3. p * v \in Nat /\ q * w \in Nat
    OBVIOUS
  <2>4. QED
    BY <1>11, <1>15, <2>1, <2>2, <2>3
<1>17. (p * v + y) \div v = p
  BY Remainder
<1>18. Width(l + 1) = v
  BY <1>0, <1>1, <1>2, <1>14, Widths
<1>19. Block(t, l + 1) = p
  BY <1>16, <1>17, <1>18 DEF Block
<1>20. QED
  BY <1>2, <1>3, <1>7, <1>8, <1>19

(* Ticks in one block are in one block at every level above.               *)
LEMMA EqualAbove ==
  ASSUME NEW l \in 0 .. WordDigits, NEW c \in Nat, NEW d \in Nat, Block(c, l) = Block(d, l)
  PROVE  \A k \in l .. WordDigits : Block(c, k) = Block(d, k)
<1> DEFINE T == {k \in l .. WordDigits : Block(c, k) # Block(d, k)}
<1>1. SUFFICES ASSUME T # {} PROVE FALSE
  OBVIOUS
<1>2. l \in Nat /\ WordDigits \in Nat /\ T \subseteq Nat
  BY Limits
<1>3. PICK k \in T : \A j \in T : k <= j
  BY <1>1, <1>2, LeastNatural
<1>4. k # l /\ k \in l .. WordDigits /\ Block(c, k) # Block(d, k)
  OBVIOUS
<1>5. PICK j \in 0 .. WordDigits - 1 : j = k - 1
  BY <1>2, <1>4
<1>6. j \in l .. WordDigits /\ j < k /\ k = j + 1
  BY <1>2, <1>4, <1>5
<1>7. Block(c, j) = Block(d, j)
  BY <1>2, <1>3, <1>6
<1>8. PICK s \in Nat \ {0} : s = SlotCount
  BY Limits
<1>9. PICK p \in Nat : p = Block(c, k)
  BY <1>2, <1>4, InBlock
<1>10. PICK q \in Nat : q = Block(d, k)
  BY <1>2, <1>4, InBlock
<1>11. PICK x \in 0 .. s - 1 : x = Digit(c, j)
  BY <1>8, BlockDigits
<1>12. PICK y \in 0 .. s - 1 : y = Digit(d, j)
  BY <1>8, BlockDigits
<1>13. p * s + x = q * s + y
  BY <1>6, <1>7, <1>8, <1>9, <1>10, <1>11, <1>12, BlockDigits
<1>14. p = q
  BY <1>13, DivisionUnique
<1>15. QED
  BY <1>4, <1>9, <1>10, <1>14

(* All ticks are in one block of the level above the word.                 *)
LEMMA WholeWord ==
  ASSUME NEW t \in Ticks
  PROVE  Block(t, WordDigits) = 0
<1>1. PICK w \in Nat \ {0} : w = Width(WordDigits)
  BY Limits, Widths
<1>2. t \in Nat /\ t < w
  BY <1>1, Limits
<1>3. (0 * w + t) \div w = 0
  BY <1>2, Remainder
<1>4. QED
  BY <1>1, <1>2, <1>3 DEF Block

(* At the lowest level a block is a tick.                                  *)
LEMMA LowestBlock ==
  ASSUME NEW t \in Nat
  PROVE  Block(t, 0) = t /\ BlockStart(t, 0) = t
<1>1. Width(0) = 1
  BY Limits
<1>2. Block(t, 0) = t
  BY <1>1 DEF Block
<1>3. QED
  BY <1>1, <1>2 DEF BlockStart

-----------------------------------------------------------------------------
(* Placement.  An entry filed ahead of the cursor is in a later block of   *)
(* its level and, below the top level, in the same block of the level      *)
(* above.                                                                  *)

Ahead(c, d, level) ==
  /\ level \in 0 .. Levels - 1
  /\ Block(c, level) < Block(d, level)
  /\ level < Levels - 1 => Block(c, level + 1) = Block(d, level + 1)

(* The largest of a set.                                                   *)
LEMMA MaxIs ==
  ASSUME NEW S, S \subseteq Int, NEW m \in S, \A x \in S : x <= m
  PROVE  Max(S) = m
<1>1. \E x \in S : \A y \in S : x >= y
  OBVIOUS
<1>2. Max(S) \in S /\ \A y \in S : Max(S) >= y
  BY <1>1 DEF Max
<1>3. Max(S) \in Int /\ m \in Int /\ Max(S) >= m /\ Max(S) <= m
  BY <1>2
<1>4. QED
  BY <1>3

(* The smallest of a set.                                                  *)
LEMMA MinIs ==
  ASSUME NEW S, S \subseteq Int, NEW m \in S, \A x \in S : m <= x
  PROVE  Min(S) = m
<1>1. \E x \in S : \A y \in S : x =< y
  OBVIOUS
<1>2. Min(S) \in S /\ \A y \in S : Min(S) =< y
  BY <1>1 DEF Min
<1>3. Min(S) \in Int /\ m \in Int /\ Min(S) >= m /\ Min(S) <= m
  BY <1>2
<1>4. QED
  BY <1>3

(* The smaller and the larger of two.                                      *)
LEMMA OfTwo ==
  ASSUME NEW a \in Int, NEW b \in Int
  PROVE  /\ Min({a, b}) = IF a <= b THEN a ELSE b
         /\ Max({a, b}) = IF a >= b THEN a ELSE b
<1>1. a <= b => Min({a, b}) = a
  BY MinIs
<1>2. ~(a <= b) => Min({a, b}) = b
  BY MinIs
<1>3. a >= b => Max({a, b}) = a
  BY MaxIs
<1>4. ~(a >= b) => Max({a, b}) = b
  BY MaxIs
<1>5. QED
  BY <1>1, <1>2, <1>3, <1>4

(* The highest digit in which two ticks differ is the one below the        *)
(* lowest block they share.                                                *)
LEMMA HighestDiffering ==
  ASSUME NEW c \in Ticks, NEW d \in Ticks, c < d
  PROVE  \E m \in 0 .. WordDigits - 1 :
           /\ Max({l \in 0 .. WordDigits - 1 : Digit(c, l) # Digit(d, l)}) = m
           /\ \A k \in 0 .. m : Block(c, k) < Block(d, k)
           /\ Block(c, m + 1) = Block(d, m + 1)
<1>1. c \in Nat /\ d \in Nat /\ WordDigits \in Nat
  BY Limits
<1> DEFINE T == {k \in 0 .. WordDigits : Block(c, k) = Block(d, k)}
<1>2. WordDigits \in T /\ T \subseteq Nat
  BY <1>1, WholeWord
<1>3. PICK k \in T : \A j \in T : k <= j
  BY <1>2, LeastNatural
<1>4. k \in 0 .. WordDigits /\ k \in Nat /\ Block(c, k) = Block(d, k) /\ k # 0
  <2>1. Block(c, 0) # Block(d, 0)
    BY <1>1, LowestBlock
  <2>2. QED
    BY <1>1, <2>1
<1>5. PICK m \in 0 .. WordDigits - 1 : m = k - 1
  BY <1>1, <1>4
<1>6. k = m + 1 /\ m \in Nat
  BY <1>4, <1>5
<1>7. ASSUME NEW j \in 0 .. m PROVE Block(c, j) < Block(d, j)
  <2>1. j \in 0 .. WordDigits /\ j < k /\ j \in Nat
    BY <1>1, <1>4, <1>6
  <2>2. j \notin T
    BY <1>3, <1>4, <2>1
  <2>3. Block(c, j) # Block(d, j) /\ Block(c, j) <= Block(d, j)
    BY <1>1, <2>1, <2>2, BlocksInOrder
  <2>4. Block(c, j) \in Nat /\ Block(d, j) \in Nat
    BY <1>1, <2>1, InBlock
  <2>5. QED
    BY <2>3, <2>4
<1> DEFINE S == {l \in 0 .. WordDigits - 1 : Digit(c, l) # Digit(d, l)}
<1>8. m \in S
  <2>1. Block(c, m) = Block(c, k) * SlotCount + Digit(c, m)
    BY <1>1, <1>6, BlockDigits
  <2>2. Block(d, m) = Block(d, k) * SlotCount + Digit(d, m)
    BY <1>1, <1>6, BlockDigits
  <2>3. Block(c, m) < Block(d, m)
    BY <1>6, <1>7
  <2>4. Block(c, m) \in Nat /\ Block(d, m) \in Nat
    <3>1. m \in 0 .. WordDigits
      BY <1>1, <1>5
    <3>2. QED
      BY <1>1, <3>1, InBlock
  <2>5. Block(c, m) # Block(d, m)
    BY <2>3, <2>4
  <2>6. Digit(c, m) # Digit(d, m)
    BY <2>1, <2>2, <2>5, <1>4
  <2>7. QED
    BY <2>6
<1>9. ASSUME NEW j \in S PROVE j <= m
  <2>1. SUFFICES ASSUME j > m PROVE FALSE
    BY <1>6
  <2>2. j \in k .. WordDigits /\ j + 1 \in k .. WordDigits /\ j \in 0 .. WordDigits - 1
    BY <1>1, <1>4, <1>6, <2>1
  <2>3. Block(c, j) = Block(d, j) /\ Block(c, j + 1) = Block(d, j + 1)
    BY <1>1, <1>4, <2>2, EqualAbove
  <2>4. Digit(c, j) = Digit(d, j)
    BY <2>3 DEF Digit, Block
  <2>5. QED
    BY <2>4
<1>10. S \subseteq Int
  BY <1>1
<1>11. Max(S) = m
  <2> HIDE DEF S
  <2>1. QED
    BY <1>8, <1>9, <1>10, MaxIs
<1>12. QED
  BY <1>4, <1>5, <1>6, <1>7, <1>11

(* Where placement puts a deadline ahead of the cursor.                    *)
LEMMA PlacedAhead ==
  ASSUME NEW c \in Ticks, NEW d \in Ticks, c < d
  PROVE  /\ Ahead(c, d, Placement(c, d)[1])
         /\ Placement(c, d)[2] = Digit(d, Placement(c, d)[1])
<1>1. PICK m \in 0 .. WordDigits - 1 :
        /\ Max({l \in 0 .. WordDigits - 1 : Digit(c, l) # Digit(d, l)}) = m
        /\ \A k \in 0 .. m : Block(c, k) < Block(d, k)
        /\ Block(c, m + 1) = Block(d, m + 1)
  BY HighestDiffering
<1>2. c \in Nat /\ d \in Nat /\ Levels \in Nat \ {0} /\ m \in Nat
  BY Limits
<1>3. PICK l \in Nat : l = IF m <= Levels - 1 THEN m ELSE Levels - 1
  BY <1>2
<1>4. Min({m, Levels - 1}) = l
  BY <1>2, <1>3, OfTwo
<1>5. Placement(c, d) = <<l, Digit(d, l)>>
  <2> DEFINE M == Max({k \in 0 .. WordDigits - 1 : Digit(c, k) # Digit(d, k)})
             L == Min({M, Levels - 1})
  <2>1. ~(d <= c)
    BY <1>2
  <2>2. Placement(c, d) = <<L, Digit(d, L)>>
    BY <2>1 DEF Placement
  <2>3. M = m
    BY <1>1
  <2> HIDE DEF M
  <2>4. L = l
    BY <1>4, <2>3
  <2> HIDE DEF L
  <2>5. QED
    BY <2>2, <2>4
<1>6. l \in 0 .. Levels - 1 /\ l \in 0 .. m /\ (l < Levels - 1 => l = m)
  BY <1>2, <1>3
<1>7. Ahead(c, d, l)
  BY <1>1, <1>6 DEF Ahead
<1>8. QED
  BY <1>5, <1>7

(* Where it puts one that has passed.                                      *)
LEMMA PlacedDue ==
  ASSUME NEW c \in Ticks, NEW d \in Ticks, d <= c
  PROVE  Placement(c, d) = <<0, Digit(c, 0)>>
BY DEF Placement

(* What is ahead stays ahead while the cursor stays before its block.      *)
LEMMA StaysAhead ==
  ASSUME NEW c \in Nat, NEW d \in Nat, NEW n \in Nat, NEW l, Ahead(c, d, l),
         c <= n, n < BlockStart(d, l)
  PROVE  Ahead(n, d, l)
<1>1. l \in 0 .. Levels - 1 /\ Levels \in Nat /\ l \in 0 .. WordDigits /\ l \in Nat
      /\ (l < Levels - 1 => l + 1 \in 0 .. WordDigits)
  BY Limits DEF Ahead
<1>2. Block(n, l) < Block(d, l)
  BY <1>1, BlocksInOrder
<1>3. n <= d
  <2>1. BlockStart(d, l) <= d /\ BlockStart(d, l) \in Nat
    BY <1>1, InBlock
  <2>2. QED
    BY <2>1
<1>4. ASSUME l < Levels - 1 PROVE Block(n, l + 1) = Block(d, l + 1)
  <2>1. l + 1 \in 0 .. WordDigits
    BY <1>1, <1>4
  <2>2. Block(c, l + 1) <= Block(n, l + 1) /\ Block(n, l + 1) <= Block(d, l + 1)
    BY <1>3, <2>1, BlocksInOrder
  <2>3. Block(c, l + 1) = Block(d, l + 1)
    BY <1>4 DEF Ahead
  <2>4. Block(c, l + 1) \in Nat /\ Block(d, l + 1) \in Nat /\ Block(n, l + 1) \in Nat
    BY <2>1, InBlock
  <2>5. QED
    BY <2>2, <2>3, <2>4
<1>5. QED
  BY <1>1, <1>2, <1>4 DEF Ahead

-----------------------------------------------------------------------------
(* Wakeups.                                                                *)

(* The next number from c on with a given remainder.                       *)
LEMMA NextOccurrence ==
  ASSUME NEW r \in Nat \ {0}, NEW c \in Nat, NEW x \in Nat, c <= x, x < c + r
  PROVE  LET within == c % r
             start == x % r
         IN c + (IF start >= within THEN start - within ELSE r - within + start) = x
<1>1. c \div r \in Nat /\ c % r \in 0 .. r - 1 /\ c = (c \div r) * r + (c % r)
  BY Division
<1>2. x \div r \in Nat /\ x % r \in 0 .. r - 1 /\ x = (x \div r) * r + (x % r)
  BY Division
<1>3. PICK p \in Nat : p = c \div r
  BY <1>1
<1>4. PICK a \in 0 .. r - 1 : a = c % r
  BY <1>1
<1>5. PICK q \in Nat : q = x \div r
  BY <1>2
<1>6. PICK b \in 0 .. r - 1 : b = x % r
  BY <1>2
<1>7. c = p * r + a /\ x = q * r + b
  BY <1>1, <1>2, <1>3, <1>4, <1>5, <1>6
<1>8. p * r \in Nat /\ q * r \in Nat
  OBVIOUS
<1>9. (q < p => q * r + r <= p * r) /\ (p < q => p * r + r <= q * r)
  BY Apart
<1>10. ~ (q < p)
  BY <1>7, <1>8, <1>9
<1>11. ASSUME p + 1 < q PROVE FALSE
  <2>1. (p + 1) * r + r <= q * r
    BY <1>11, Apart
  <2>2. (p + 1) * r = p * r + r
    OBVIOUS
  <2>3. QED
    BY <1>7, <1>8, <2>1, <2>2
<1>12. q = p \/ q = p + 1
  BY <1>10, <1>11
<1>13. CASE q = p
  <2>1. x - c = b - a /\ b >= a
    BY <1>7, <1>8, <1>13
  <2>2. QED
    BY <1>4, <1>6, <2>1
<1>14. CASE q = p + 1
  <2>1. q * r = p * r + r
    BY <1>14
  <2>2. x = c + r - a + b
    BY <1>7, <1>8, <2>1
  <2>3. ~ (b >= a)
    BY <2>2
  <2>4. QED
    BY <1>4, <1>6, <2>2, <2>3
<1>15. QED
  BY <1>12, <1>13, <1>14

(* Before its block starts, the slot of an entry wakes when it does.       *)
LEMMA AheadWakes ==
  ASSUME NEW c \in Nat, NEW d \in Ticks, NEW l, Ahead(c, d, l), d - c <= MaxDelay
  PROVE  /\ SlotWakeup(c, l, Digit(d, l)) = BlockStart(d, l)
         /\ BlockStart(d, l) \in Nat
         /\ c < BlockStart(d, l)
         /\ BlockStart(d, l) <= d
<1>0. l \in 0 .. Levels - 1 /\ l \in 0 .. WordDigits - 1 /\ l \in 0 .. WordDigits
      /\ l + 1 \in 0 .. WordDigits /\ Levels \in Nat
  BY Limits DEF Ahead
<1>1. d \in Nat /\ d < NoEvent /\ NoEvent \in Nat
  BY Limits
<1>2. PICK w \in Nat \ {0} : w = Width(l)
  BY <1>0, Widths
<1>3. PICK s \in Nat \ {0} : s = SlotCount
  BY Limits
<1>4. PICK r \in Nat \ {0} : r = Width(l + 1) /\ r = s * w
  BY <1>0, <1>2, <1>3, Widths
<1>5. PICK x \in Nat : x = BlockStart(d, l)
  BY <1>0, <1>1, InBlock
<1>6. x <= d /\ c < x
  BY <1>0, <1>1, <1>5, InBlock, BlocksInOrder DEF Ahead
<1>7. x < c + r
  <2>1. CASE l < Levels - 1
    <3>1. PICK y \in Nat : y = BlockStart(d, l + 1)
      BY <1>0, <1>1, InBlock
    <3>2. y = BlockStart(c, l + 1)
      BY <2>1, <3>1 DEF Ahead, BlockStart
    <3>3. y <= c /\ d < y + r
      BY <1>0, <1>1, <1>4, <3>1, <3>2, InBlock
    <3>4. QED
      BY <1>6, <1>1, <3>3
  <2>2. CASE l = Levels - 1
    <3>1. l + 1 = Levels
      BY <1>0, <2>2
    <3>2. MaxDelay = r - 1
      BY <1>4, <3>1, Limits
    <3>3. QED
      BY <1>1, <1>6, <3>2
  <2>3. QED
    BY <1>0, <2>1, <2>2
<1>8. PICK t \in 0 .. s - 1 : t = Digit(d, l)
  BY <1>0, <1>1, <1>3, BlockDigits
<1>9. PICK p \in Nat : p = Block(d, l + 1)
  BY <1>0, <1>1, InBlock
<1>10. Block(d, l) = p * s + t
  BY <1>0, <1>1, <1>3, <1>8, <1>9, BlockDigits
<1>11. x = p * r + t * w
  <2>1. x = (p * s + t) * w
    BY <1>2, <1>5, <1>10 DEF BlockStart
  <2>2. (p * s + t) * w = p * (s * w) + t * w
    BY <1>8
  <2>3. QED
    BY <1>4, <2>1, <2>2
<1>12. PICK u \in 0 .. r - 1 : u = t * w
  <2>1. t * w \in Nat /\ s * w \in Nat
    BY <1>8
  <2>2. t * w + w <= s * w
    BY <1>8, Apart
  <2>3. t * w \in 0 .. r - 1
    BY <1>4, <2>1, <2>2
  <2>4. QED
    BY <2>3
<1>13. x % r = u
  <2>1. (p * r + u) % r = u
    BY Remainder
  <2>2. QED
    BY <1>11, <1>12, <2>1
<1> DEFINE distance == IF u >= c % r THEN u - (c % r) ELSE r - (c % r) + u
<1>14. c + distance = x
  <2>1. c + (IF x % r >= c % r THEN (x % r) - (c % r) ELSE r - (c % r) + (x % r)) = x
    <3>1. c <= x
      BY <1>6
    <3>2. QED
      BY <1>7, <3>1, NextOccurrence
  <2>2. QED
    BY <1>13, <2>1
<1>15. SlotWakeup(c, l, Digit(d, l)) = Min({c + distance, NoEvent})
  BY <1>2, <1>4, <1>8, <1>12 DEF SlotWakeup
<1> HIDE DEF distance
<1>16. Min({x, NoEvent}) = x
  BY <1>1, <1>6, OfTwo
<1>17. QED
  BY <1>5, <1>6, <1>14, <1>15, <1>16

(* The cursor's own slot at the lowest level wakes at once.                *)
LEMMA DueWakes ==
  ASSUME NEW c \in Ticks
  PROVE  SlotWakeup(c, 0, Digit(c, 0)) = c
<1>1. c \in Nat /\ c < NoEvent /\ NoEvent \in Nat
  BY Limits
<1>2. PICK s \in Nat \ {0} : s = SlotCount
  BY Limits
<1>3. Width(0) = 1 /\ Width(0 + 1) = s
  <2>1. 0 \in 0 .. WordDigits
    BY Limits
  <2>2. QED
    BY <1>2, <2>1, Limits, Widths
<1>4. PICK a \in 0 .. s - 1 : a = c % s
  BY <1>1, Division
<1>5. Digit(c, 0) = a
  <2>1. Block(c, 0) = c
    BY <1>1, LowestBlock
  <2>2. QED
    BY <1>2, <1>4, <2>1 DEF Digit, Block
<1>6. a * Width(0) = a /\ c + (a - a) = c
  BY <1>1, <1>3, <1>4
<1>7. SlotWakeup(c, 0, a) = Min({c + (a - a), NoEvent})
  <2>1. c % Width(0 + 1) = a
    BY <1>3, <1>4
  <2>2. a >= a
    BY <1>4
  <2>3. QED
    BY <1>6, <2>1, <2>2 DEF SlotWakeup
<1>8. Min({c, NoEvent}) = c
  BY <1>1, OfTwo
<1>9. QED
  BY <1>5, <1>6, <1>7, <1>8

(* Ahead at the lowest level is not in the cursor's slot.                  *)
LEMMA AheadNotDue ==
  ASSUME NEW c \in Nat, NEW d \in Nat, Ahead(c, d, 0), d - c <= MaxDelay
  PROVE  Digit(d, 0) # Digit(c, 0)
<1>0. 0 \in 0 .. WordDigits - 1 /\ 0 \in 0 .. WordDigits /\ 1 \in 0 .. WordDigits /\ Levels \in Nat \ {0}
  BY Limits
<1>1. Block(c, 0) = c /\ Block(d, 0) = d
  BY LowestBlock
<1>2. c < d
  BY <1>1 DEF Ahead
<1>3. PICK s \in Nat \ {0} : s = SlotCount
  BY Limits
<1>4. PICK p \in Nat : p = Block(c, 1)
  BY <1>0, InBlock
<1>5. PICK q \in Nat : q = Block(d, 1)
  BY <1>0, InBlock
<1>6. PICK a \in 0 .. s - 1 : a = Digit(c, 0)
  BY <1>0, <1>3, BlockDigits
<1>7. PICK b \in 0 .. s - 1 : b = Digit(d, 0)
  BY <1>0, <1>3, BlockDigits
<1>8. c = p * s + a /\ d = q * s + b
  <2>1. 0 + 1 = 1
    OBVIOUS
  <2>2. Block(c, 0) = Block(c, 1) * SlotCount + Digit(c, 0)
    BY <1>0, <2>1, BlockDigits
  <2>3. Block(d, 0) = Block(d, 1) * SlotCount + Digit(d, 0)
    BY <1>0, <2>1, BlockDigits
  <2>4. QED
    BY <1>1, <1>3, <1>4, <1>5, <1>6, <1>7, <2>2, <2>3
<1>9. SUFFICES ASSUME a = b PROVE FALSE
  BY <1>6, <1>7
<1>10. p # q
  BY <1>2, <1>8, <1>9
<1>11. Levels = 1
  <2>1. SUFFICES ASSUME Levels # 1 PROVE FALSE
    OBVIOUS
  <2>2. 0 < Levels - 1
    BY <1>0, <2>1
  <2>3. Block(c, 0 + 1) = Block(d, 0 + 1) /\ 0 + 1 = 1
    BY <2>2 DEF Ahead
  <2>4. QED
    BY <1>4, <1>5, <1>10, <2>3
<1>12. d - c < s
  <2>1. Width(1) = s
    <3>1. Width(0 + 1) = SlotCount * Width(0) /\ Width(0) = 1 /\ 0 + 1 = 1
      BY <1>0, Limits, Widths
    <3>2. QED
      BY <1>3, <3>1
  <2>2. MaxDelay = s - 1
    BY <1>11, <2>1, Limits
  <2>3. QED
    BY <2>2
<1>13. p * s \in Nat /\ q * s \in Nat
  OBVIOUS
<1>14. (q < p => q * s + s <= p * s) /\ (p < q => p * s + s <= q * s)
  BY Apart
<1>15. QED
  BY <1>2, <1>8, <1>9, <1>10, <1>12, <1>13, <1>14

-----------------------------------------------------------------------------
(* The inductive invariant.  A live entry is filed for a block ahead, or   *)
(* it is due and in the cursor's slot; a free entry can be used again; an  *)
(* advance goes forward; and the cached event is the earliest wakeup.      *)

TimerEntries ==
  [deadline : Ticks, generation : 0 .. MaxGeneration,
   level : {Retired, Free} \cup 0 .. Levels - 1, slot : 0 .. SlotCount - 1]

FiledFor(e, c) ==
  /\ Ahead(c, e.deadline, e.level)
  /\ e.deadline - c <= MaxDelay
  /\ e.slot = Digit(e.deadline, e.level)

DueNow(e, c) == e.deadline <= c /\ e.level = 0 /\ e.slot = Digit(c, 0)

WellFiled(e, c) == FiledFor(e, c) \/ DueNow(e, c)

Wakeup(e, c) == SlotWakeup(c, e.level, e.slot)

Filing(es, c) == \A i \in Indices : IsLive(es[i]) => WellFiled(es[i], c)

Exact(es, c, n) ==
  /\ n \in 0 .. NoEvent
  /\ \A i \in Indices : IsLive(es[i]) => n <= Wakeup(es[i], c)
  /\ n = NoEvent \/ \E i \in Indices : IsLive(es[i]) /\ n = Wakeup(es[i], c)

UsableAgain(e) ==
  /\ e.level = Free => e.generation < MaxGeneration
  /\ IsLive(e) => e.generation > 0

TimerInv ==
  /\ TimerTypeOK
  /\ Filing(entries, wheelCursor)
  /\ \A i \in Indices : UsableAgain(entries[i])
  /\ target # NoTarget => target >= wheelCursor
  /\ Exact(entries, wheelCursor, nextEvent)

(* The fields of an entry.                                                 *)
LEMMA EntryFields ==
  ASSUME NEW e \in TimerEntries
  PROVE  /\ e.deadline \in Ticks /\ e.deadline \in Nat /\ e.deadline < NoEvent
         /\ e.generation \in 0 .. MaxGeneration
         /\ e.level \in {Retired, Free} \cup 0 .. Levels - 1 /\ e.level \in Int
         /\ e.slot \in 0 .. SlotCount - 1
         /\ IsLive(e) <=> e.level \in 0 .. Levels - 1
<1>1. e.deadline \in Ticks /\ e.generation \in 0 .. MaxGeneration
      /\ e.level \in {Retired, Free} \cup 0 .. Levels - 1 /\ e.slot \in 0 .. SlotCount - 1
  BY DEF TimerEntries
<1>2. Levels \in Nat
  BY Limits
<1>3. e.level \in Int /\ (e.level >= 0 <=> e.level \in 0 .. Levels - 1)
  BY <1>1, <1>2 DEF Retired, Free
<1>4. QED
  BY <1>1, <1>3, Limits DEF IsLive

(* A digit is a slot.                                                      *)
LEMMA DigitIsSlot ==
  ASSUME NEW t \in Ticks, NEW l \in 0 .. Levels - 1
  PROVE  Digit(t, l) \in 0 .. SlotCount - 1
<1>1. t \in Nat /\ l \in 0 .. WordDigits - 1
  BY Limits
<1>2. QED
  BY <1>1, BlockDigits

(* When a live entry wakes its slot: never behind the cursor, never after  *)
(* its deadline unless it is due, and at once exactly if it is due.        *)
LEMMA Wakes ==
  ASSUME NEW e \in TimerEntries, NEW c \in Ticks, WellFiled(e, c)
  PROVE  /\ Wakeup(e, c) \in Nat
         /\ c <= Wakeup(e, c)
         /\ Wakeup(e, c) < NoEvent
         /\ FiledFor(e, c) => /\ Wakeup(e, c) = BlockStart(e.deadline, e.level)
                              /\ c < Wakeup(e, c) /\ Wakeup(e, c) <= e.deadline
         /\ DueNow(e, c) => Wakeup(e, c) = c
<1>1. c \in Nat /\ c < NoEvent /\ NoEvent \in Nat
  BY Limits
<1>2. e.deadline \in Ticks /\ e.deadline \in Nat /\ e.deadline < NoEvent
  BY EntryFields
<1>3. ASSUME FiledFor(e, c)
      PROVE  /\ Wakeup(e, c) = BlockStart(e.deadline, e.level) /\ Wakeup(e, c) \in Nat
             /\ c < Wakeup(e, c) /\ Wakeup(e, c) <= e.deadline
  <2>1. Ahead(c, e.deadline, e.level) /\ e.deadline - c <= MaxDelay
        /\ e.slot = Digit(e.deadline, e.level)
    BY <1>3 DEF FiledFor
  <2>2. QED
    BY <1>1, <1>2, <2>1, AheadWakes DEF Wakeup
<1>4. ASSUME DueNow(e, c) PROVE Wakeup(e, c) = c
  BY <1>4, DueWakes DEF DueNow, Wakeup
<1>5. QED
  BY <1>1, <1>2, <1>3, <1>4 DEF WellFiled

(* An entry filed anew.                                                    *)
LEMMA FiledIs ==
  ASSUME NEW e \in TimerEntries, NEW c \in Ticks, NEW d \in Ticks,
         d <= c \/ d - c <= MaxDelay
  PROVE  /\ Filed(e, c, d) \in TimerEntries
         /\ IsLive(Filed(e, c, d))
         /\ Filed(e, c, d).deadline = d
         /\ Filed(e, c, d).generation = e.generation
         /\ d <= c => DueNow(Filed(e, c, d), c)
         /\ c < d => FiledFor(Filed(e, c, d), c)
         /\ WellFiled(Filed(e, c, d), c)
<1>1. c \in Nat /\ d \in Nat /\ Levels \in Nat \ {0}
  BY Limits
<1> DEFINE f == Filed(e, c, d)
           l == Placement(c, d)[1]
           s == Placement(c, d)[2]
<1>2. f = [e EXCEPT !.deadline = d, !.level = l, !.slot = s]
  BY DEF Filed
<1>3. ASSUME d <= c PROVE l = 0 /\ s = Digit(c, 0)
  BY <1>3, PlacedDue
<1>4. ASSUME c < d PROVE Ahead(c, d, l) /\ s = Digit(d, l)
  BY <1>4, PlacedAhead
<1>5. l \in 0 .. Levels - 1 /\ s \in 0 .. SlotCount - 1
  <2>1. CASE d <= c
    BY <1>1, <1>3, <2>1, DigitIsSlot
  <2>2. CASE c < d
    <3>1. l \in 0 .. Levels - 1
      BY <1>4, <2>2 DEF Ahead
    <3>2. QED
      BY <1>4, <2>2, <3>1, DigitIsSlot
  <2>3. QED
    BY <1>1, <2>1, <2>2
<1> HIDE DEF l, s
<1>6. f \in TimerEntries /\ f.deadline = d /\ f.generation = e.generation /\ f.level = l /\ f.slot = s
  BY <1>2, <1>5 DEF TimerEntries
<1> HIDE DEF f
<1>7. IsLive(f)
  BY <1>1, <1>5, <1>6 DEF IsLive
<1>8. d <= c => DueNow(f, c)
  BY <1>3, <1>6 DEF DueNow
<1>9. c < d => FiledFor(f, c)
  BY <1>1, <1>4, <1>6 DEF FiledFor
<1>10. QED
  BY <1>1, <1>6, <1>7, <1>8, <1>9 DEF f, WellFiled

(* A released entry.                                                       *)
LEMMA Released ==
  ASSUME NEW e \in TimerEntries
  PROVE  /\ Release(e) \in TimerEntries
         /\ ~IsLive(Release(e))
         /\ Release(e).generation = e.generation
         /\ UsableAgain(Release(e))
<1>1. 0 \in Ticks /\ 0 \in 0 .. SlotCount - 1
  <2>1. e.deadline \in Ticks
    BY EntryFields
  <2>2. MaxTick \in Int
    BY Limits
  <2>3. QED
    BY <2>1, <2>2, Limits DEF Ticks
<1> DEFINE l == IF e.generation = MaxGeneration THEN Retired ELSE Free
<1>2. Release(e) = [e EXCEPT !.level = l, !.slot = 0, !.deadline = 0]
  BY DEF Release
<1>3. l \in {Retired, Free}
  OBVIOUS
<1>4. l = Free => e.generation # MaxGeneration
  BY DEF Retired, Free
<1> HIDE DEF l
<1>5. Release(e) \in TimerEntries /\ Release(e).generation = e.generation /\ Release(e).level = l
  BY <1>1, <1>2, <1>3 DEF TimerEntries
<1>6. ~(l >= 0)
  BY <1>3 DEF Retired, Free
<1>7. e.generation \in 0 .. MaxGeneration /\ MaxGeneration \in Nat
  BY EntryFields, TimerConstants
<1>8. QED
  BY <1>4, <1>5, <1>6, <1>7 DEF IsLive, UsableAgain

-----------------------------------------------------------------------------
(* The cached event.                                                       *)

(* The events computed over are the wakeups of the live entries.           *)
LEMMA WakeupSet ==
  ASSUME NEW es, NEW c
  PROVE  ComputeNextEvent(es, c) =
           Min({NoEvent} \cup {Wakeup(es[i], c) : i \in {j \in Indices : IsLive(es[j])}})
<1> DEFINE A0 == {SlotWakeup(c, o[1], o[2]) : o \in Occupied(es)}
           B0 == {Wakeup(es[i], c) : i \in {j \in Indices : IsLive(es[j])}}
<1>1. ASSUME NEW x \in A0 PROVE x \in B0
  <2>1. PICK o \in Occupied(es) : x = SlotWakeup(c, o[1], o[2])
    OBVIOUS
  <2>2. PICK i \in {j \in Indices : IsLive(es[j])} : o = <<es[i].level, es[i].slot>>
    BY DEF Occupied
  <2>3. x = Wakeup(es[i], c)
    BY <2>1, <2>2 DEF Wakeup
  <2>4. QED
    BY <2>2, <2>3
<1>2. ASSUME NEW x \in B0 PROVE x \in A0
  <2>1. PICK i \in {j \in Indices : IsLive(es[j])} : x = Wakeup(es[i], c)
    OBVIOUS
  <2> DEFINE o == <<es[i].level, es[i].slot>>
  <2>2. o \in Occupied(es)
    BY DEF Occupied
  <2>3. x = SlotWakeup(c, o[1], o[2])
    BY <2>1 DEF Wakeup
  <2>4. QED
    BY <2>2, <2>3
<1>3. A0 = B0
  BY <1>1, <1>2
<1>4. ComputeNextEvent(es, c) = Min({NoEvent} \cup A0)
  BY DEF ComputeNextEvent
<1> HIDE DEF A0
<1>5. QED
  BY <1>3, <1>4

(* There is one earliest wakeup, the one computed.                         *)
LEMMA ExactIsComputed ==
  ASSUME NEW es \in [Indices -> TimerEntries], NEW c \in Ticks, Filing(es, c)
  PROVE  /\ Exact(es, c, ComputeNextEvent(es, c))
         /\ \A n : Exact(es, c, n) => n = ComputeNextEvent(es, c)
<1> DEFINE W == {Wakeup(es[i], c) : i \in {j \in Indices : IsLive(es[j])}}
           S == {NoEvent} \cup W
<1>1. ComputeNextEvent(es, c) = Min(S)
  BY WakeupSet
<1>2. NoEvent \in Nat
  BY Limits
<1>3. ASSUME NEW x \in W PROVE x \in 0 .. NoEvent
  <2>1. PICK i \in {j \in Indices : IsLive(es[j])} : x = Wakeup(es[i], c)
    OBVIOUS
  <2>2. es[i] \in TimerEntries /\ WellFiled(es[i], c)
    BY <2>1 DEF Filing
  <2>3. x \in Nat /\ x < NoEvent
    BY <2>1, <2>2, Wakes
  <2>4. QED
    BY <1>2, <2>3
<1>4. S \subseteq 0 .. NoEvent /\ S \subseteq Nat /\ S \subseteq Int /\ S # {}
  <2> HIDE DEF W
  <2>1. QED
    BY <1>2, <1>3
<1>5. PICK m \in S : \A y \in S : m <= y
  <2> HIDE DEF S
  <2>1. QED
    BY <1>4, LeastNatural
<1>6. Min(S) = m
  <2> HIDE DEF S
  <2>1. QED
    BY <1>4, <1>5, MinIs
<1>7. \A i \in Indices : IsLive(es[i]) => Wakeup(es[i], c) \in S
  OBVIOUS
<1>8. m = NoEvent \/ \E i \in Indices : IsLive(es[i]) /\ m = Wakeup(es[i], c)
  OBVIOUS
<1>9. Exact(es, c, m)
  <2>1. m \in 0 .. NoEvent
    BY <1>4
  <2>2. QED
    BY <1>5, <1>7, <1>8, <2>1 DEF Exact
<1>10. ASSUME NEW n, Exact(es, c, n) PROVE n = m
  <2>1. n \in S /\ n \in 0 .. NoEvent
    BY <1>10 DEF Exact
  <2>2. m <= n
    BY <1>5, <2>1
  <2>3. n <= m
    <3>1. CASE m = NoEvent
      BY <2>1, <1>2, <3>1
    <3>2. CASE \E i \in Indices : IsLive(es[i]) /\ m = Wakeup(es[i], c)
      BY <1>10, <3>2 DEF Exact
    <3>3. QED
      BY <1>8, <3>1, <3>2
  <2>4. m \in Nat /\ n \in Nat
    BY <1>2, <1>4, <2>1
  <2>5. QED
    BY <2>2, <2>3, <2>4
<1>11. QED
  BY <1>1, <1>6, <1>9, <1>10

(* Exact for all entries but one.                                          *)
ExactBut(es, c, n, i) ==
  /\ n \in 0 .. NoEvent
  /\ \A j \in Indices \ {i} : IsLive(es[j]) => n <= Wakeup(es[j], c)
  /\ n = NoEvent \/ \E j \in Indices \ {i} : IsLive(es[j]) /\ n = Wakeup(es[j], c)

(* Filing the one is then a matter of its own wakeup, and taking it out    *)
(* changes nothing.                                                        *)
LEMMA ExactAgain ==
  ASSUME NEW es \in [Indices -> TimerEntries], NEW c \in Ticks, Filing(es, c),
         NEW n, NEW i \in Indices, ExactBut(es, c, n, i), NEW e \in TimerEntries
  PROVE  /\ IsLive(e) /\ WellFiled(e, c)
              => Exact([es EXCEPT ![i] = e], c, Min({n, Wakeup(e, c)}))
         /\ ~IsLive(e) => Exact([es EXCEPT ![i] = e], c, n)
<1> DEFINE fs == [es EXCEPT ![i] = e]
<1>1. fs[i] = e /\ \A j \in Indices \ {i} : fs[j] = es[j]
  OBVIOUS
<1>2. n \in 0 .. NoEvent /\ NoEvent \in Nat
  BY Limits DEF ExactBut
<1> HIDE DEF fs
<1>3. ASSUME ~IsLive(e) PROVE Exact(fs, c, n)
  BY <1>1, <1>2, <1>3 DEF Exact, ExactBut
<1>4. ASSUME IsLive(e), WellFiled(e, c) PROVE Exact(fs, c, Min({n, Wakeup(e, c)}))
  <2>1. PICK w \in Nat : w = Wakeup(e, c) /\ w < NoEvent
    BY <1>4, Wakes
  <2>2. PICK m \in 0 .. NoEvent : m = Min({n, w}) /\ m = IF n <= w THEN n ELSE w
    <3>1. Min({n, w}) = IF n <= w THEN n ELSE w
      BY <1>2, OfTwo
    <3>2. (IF n <= w THEN n ELSE w) \in 0 .. NoEvent
      BY <1>2, <2>1
    <3>3. QED
      BY <3>1, <3>2
  <2>3. m <= n /\ m <= w /\ (m = n \/ m = w)
    BY <1>2, <2>1, <2>2
  <2>4. \A j \in Indices : IsLive(fs[j]) => m <= Wakeup(fs[j], c)
    <3>1. SUFFICES ASSUME NEW j \in Indices, IsLive(fs[j]) PROVE m <= Wakeup(fs[j], c)
      OBVIOUS
    <3>2. CASE j = i
      BY <1>1, <2>1, <2>3, <3>2
    <3>3. CASE j # i /\ n <= w
      BY <1>1, <2>2, <3>1, <3>3 DEF ExactBut
    <3>4. CASE j # i /\ ~(n <= w)
      <4>1. n <= Wakeup(es[j], c)
        BY <1>1, <3>1, <3>4 DEF ExactBut
      <4>2. m = w /\ w < n
        BY <1>2, <2>1, <2>2, <3>4
      <4>3. Wakeup(es[j], c) \in Nat
        BY <1>1, <3>1, <3>4, Wakes DEF Filing
      <4>4. QED
        BY <1>1, <1>2, <2>1, <3>4, <4>1, <4>2, <4>3
    <3>5. QED
      BY <3>2, <3>3, <3>4
  <2>5. m = NoEvent \/ \E j \in Indices : IsLive(fs[j]) /\ m = Wakeup(fs[j], c)
    <3>1. CASE m = w
      BY <1>1, <1>4, <2>1, <3>1
    <3>2. CASE m = n
      BY <1>1, <3>2 DEF ExactBut
    <3>3. QED
      BY <2>3, <3>1, <3>2
  <2>6. QED
    BY <2>1, <2>2, <2>4, <2>5 DEF Exact
<1>5. QED
  BY <1>3, <1>4 DEF fs

-----------------------------------------------------------------------------
(* One iteration of an advance, for one entry.                             *)

CascadedEntry(e, n) ==
  IF e.level >= 1 /\ e.slot = Digit(n, e.level) THEN Filed(e, n, e.deadline) ELSE e

InSlotOf(e, n) == e.level = 0 /\ e.slot = Digit(n, 0)

(* The start of a block is in the slot of the block.                       *)
LEMMA StartHasDigit ==
  ASSUME NEW d \in Nat, NEW l \in 0 .. WordDigits - 1
  PROVE  Digit(BlockStart(d, l), l) = Digit(d, l)
<1>1. l \in 0 .. WordDigits
  BY Limits
<1>2. PICK w \in Nat \ {0} : w = Width(l)
  BY <1>1, Widths
<1>3. PICK q \in Nat : q = Block(d, l)
  BY <1>1, InBlock
<1>4. (q * w + 0) \div w = q
  BY Remainder
<1>5. q * w + 0 = q * w /\ BlockStart(d, l) = q * w
  BY <1>2, <1>3 DEF BlockStart
<1>6. QED
  BY <1>2, <1>3, <1>4, <1>5 DEF Digit, Block

(* At the earliest wakeup, the cascade brings an entry that is due to the  *)
(* cursor's slot of the lowest level, and every other stays ahead of it.   *)
LEMMA CascadeSorts ==
  ASSUME NEW e \in TimerEntries, IsLive(e), NEW c \in Ticks, WellFiled(e, c),
         NEW n \in Ticks, c <= n, n <= Wakeup(e, c)
  PROVE  /\ CascadedEntry(e, n) \in TimerEntries
         /\ IsLive(CascadedEntry(e, n))
         /\ CascadedEntry(e, n).deadline = e.deadline
         /\ CascadedEntry(e, n).generation = e.generation
         /\ e.deadline <= n => InSlotOf(CascadedEntry(e, n), n)
         /\ n < e.deadline => /\ FiledFor(CascadedEntry(e, n), n)
                              /\ ~InSlotOf(CascadedEntry(e, n), n)
<1> DEFINE d == e.deadline
           l == e.level
           x == CascadedEntry(e, n)
           re == l >= 1 /\ e.slot = Digit(n, l)
<1>1. d \in Ticks /\ d \in Nat /\ c \in Nat /\ n \in Nat /\ MaxDelay \in Nat
  BY EntryFields, Limits
<1>2. l \in 0 .. Levels - 1 /\ l \in Int
  BY EntryFields
<1>3. x = IF re THEN Filed(e, n, d) ELSE e
  BY DEF CascadedEntry
<1>4. d <= n \/ d - n <= MaxDelay
  <2>1. CASE FiledFor(e, c)
    BY <1>1, <2>1 DEF FiledFor
  <2>2. CASE DueNow(e, c)
    BY <1>1, <2>2 DEF DueNow
  <2>3. QED
    BY <2>1, <2>2 DEF WellFiled
<1> DEFINE f == Filed(e, n, d)
<1>5. /\ f \in TimerEntries /\ IsLive(f) /\ f.deadline = d
      /\ f.generation = e.generation
      /\ d <= n => DueNow(f, n)
      /\ n < d => FiledFor(f, n)
  BY <1>1, <1>4, FiledIs
<1> HIDE DEF f, x, re
<1>6. x \in TimerEntries /\ IsLive(x) /\ x.deadline = d /\ x.generation = e.generation
  BY <1>3, <1>5 DEF f
<1>7. ASSUME FiledFor(x, n) PROVE ~InSlotOf(x, n)
  <2>1. SUFFICES ASSUME x.level = 0, x.slot = Digit(n, 0) PROVE FALSE
    BY DEF InSlotOf
  <2>2. Ahead(n, d, 0) /\ d - n <= MaxDelay /\ Digit(d, 0) = Digit(n, 0)
    BY <1>6, <1>7, <2>1 DEF FiledFor
  <2>3. QED
    BY <1>1, <2>2, AheadNotDue
<1>8. CASE DueNow(e, c)
  <2>1. Wakeup(e, c) = c
    BY <1>8, Wakes
  <2>2. n = c
    BY <1>1, <2>1
  <2>3. l = 0 /\ e.slot = Digit(n, 0) /\ d <= n
    BY <1>8, <2>2 DEF DueNow
  <2>4. x = e
    BY <1>3, <2>3 DEF re
  <2>5. InSlotOf(x, n) /\ ~(n < d)
    BY <1>1, <2>3, <2>4 DEF InSlotOf
  <2>6. QED
    BY <1>6, <2>5 DEF x
<1>9. CASE FiledFor(e, c) /\ n < BlockStart(d, l)
  <2>1. n < d
    <3>1. Wakeup(e, c) = BlockStart(d, l) /\ Wakeup(e, c) <= d /\ Wakeup(e, c) \in Nat
      BY <1>9, Wakes
    <3>2. QED
      BY <1>1, <1>9, <3>1
  <2>2. FiledFor(e, n)
    <3>1. Ahead(c, d, l)
      BY <1>9 DEF FiledFor
    <3>2. Ahead(n, d, l)
      BY <1>1, <1>9, <3>1, StaysAhead
    <3>3. d - n <= MaxDelay
      BY <1>1, <1>4, <2>1
    <3>4. QED
      BY <1>9, <3>2, <3>3 DEF FiledFor
  <2>3. FiledFor(x, n)
    BY <1>3, <1>5, <2>1, <2>2 DEF f
  <2>4. ~(d <= n)
    BY <1>1, <2>1
  <2>5. QED
    BY <1>6, <1>7, <2>3, <2>4 DEF x
<1>10. CASE FiledFor(e, c) /\ n = BlockStart(d, l)
  <2>1. Digit(n, l) = Digit(d, l) /\ e.slot = Digit(n, l)
    <3>1. l \in 0 .. WordDigits - 1
      BY <1>2, Limits
    <3>2. QED
      BY <1>1, <1>10, <3>1, StartHasDigit DEF FiledFor
  <2>2. CASE l = 0
    <3>1. d = n
      BY <1>1, <1>10, <2>2, LowestBlock
    <3>2. x = e
      BY <1>3, <2>2 DEF re
    <3>3. InSlotOf(x, n)
      BY <2>1, <2>2, <3>2 DEF InSlotOf
    <3>4. ~(n < d)
      BY <1>1, <3>1
    <3>5. QED
      BY <1>6, <3>3, <3>4 DEF x
  <2>3. CASE l # 0
    <3>1. l >= 1
      BY <1>2, <2>3
    <3>2. x = f
      BY <1>3, <2>1, <3>1 DEF re, f
    <3>3. d <= n => InSlotOf(x, n)
      BY <1>5, <3>2 DEF DueNow, InSlotOf
    <3>4. n < d => FiledFor(x, n)
      BY <1>5, <3>2
    <3>5. QED
      BY <1>6, <1>7, <3>3, <3>4 DEF x
  <2>4. QED
    BY <2>2, <2>3
<1>11. FiledFor(e, c) => n <= BlockStart(d, l) /\ BlockStart(d, l) \in Nat
  BY Wakes
<1>12. QED
  BY <1>1, <1>8, <1>9, <1>10, <1>11 DEF WellFiled

(* The entries after an iteration.                                         *)
Elapsed(es, n) ==
  [i \in Indices |->
     IF InSlotOf(CascadedEntry(es[i], n), n)
     THEN Release(CascadedEntry(es[i], n)) ELSE CascadedEntry(es[i], n)]

(* An iteration in those terms.                                            *)
LEMMA StepElapses ==
  ASSUME AdvanceStep
  PROVE  /\ target # NoTarget /\ nextEvent # NoEvent /\ nextEvent <= target
         /\ wheelCursor' = nextEvent /\ target' = target
         /\ entries' = Elapsed(entries, nextEvent)
         /\ nextEvent' = ComputeNextEvent(entries', nextEvent)
<1> DEFINE es == Cascaded(entries, nextEvent)
           fired == FiredAt(es, nextEvent)
<1>1. \A i \in Indices : es[i] = CascadedEntry(entries[i], nextEvent)
  BY DEF Cascaded, CascadedEntry
<1>2. fired = {i \in Indices : InSlotOf(es[i], nextEvent)}
  BY DEF FiredAt, InSlotOf
<1>3. entries' = [i \in Indices |-> IF i \in fired THEN Release(es[i]) ELSE es[i]]
  BY DEF AdvanceStep
<1> HIDE DEF es, fired
<1>4. entries' = Elapsed(entries, nextEvent)
  BY <1>1, <1>2, <1>3 DEF Elapsed
<1>5. QED
  BY <1>4 DEF AdvanceStep

(* What an iteration leaves of an entry: a due one is released, any other  *)
(* is as it was and ahead of the cursor.                                   *)
LEMMA ElapsedEntry ==
  ASSUME NEW es \in [Indices -> TimerEntries], NEW c \in Ticks, Filing(es, c),
         NEW n \in Ticks, c <= n, Exact(es, c, n), NEW i \in Indices
  PROVE  /\ Elapsed(es, n)[i] \in TimerEntries
         /\ Elapsed(es, n)[i].generation = es[i].generation
         /\ ~IsLive(es[i]) => Elapsed(es, n)[i] = es[i]
         /\ IsLive(es[i]) /\ es[i].deadline <= n =>
              /\ ~IsLive(Elapsed(es, n)[i])
              /\ UsableAgain(Elapsed(es, n)[i])
         /\ IsLive(es[i]) /\ n < es[i].deadline =>
              /\ IsLive(Elapsed(es, n)[i])
              /\ Elapsed(es, n)[i].deadline = es[i].deadline
              /\ FiledFor(Elapsed(es, n)[i], n)
<1> DEFINE e == es[i]
           x == CascadedEntry(e, n)
           y == Elapsed(es, n)[i]
<1>1. e \in TimerEntries /\ y = IF InSlotOf(x, n) THEN Release(x) ELSE x
  BY DEF Elapsed
<1>2. CASE ~IsLive(e)
  <2>1. e.level \in Int /\ ~(e.level >= 0)
    BY <1>1, <1>2, EntryFields DEF IsLive
  <2>2. ~(e.level >= 1) /\ e.level # 0
    BY <2>1
  <2>3. x = e
    BY <2>2 DEF CascadedEntry
  <2>4. ~InSlotOf(x, n)
    BY <2>2, <2>3 DEF InSlotOf
  <2> HIDE DEF x, y, e
  <2>5. y = e
    BY <1>1, <2>3, <2>4
  <2>6. QED
    BY <1>1, <1>2, <2>5 DEF y, e
<1>3. CASE IsLive(e)
  <2>1. WellFiled(e, c) /\ n <= Wakeup(e, c)
    BY <1>3 DEF Filing, Exact
  <2>2. /\ x \in TimerEntries /\ IsLive(x) /\ x.deadline = e.deadline
        /\ x.generation = e.generation
        /\ e.deadline <= n => InSlotOf(x, n)
        /\ n < e.deadline => FiledFor(x, n) /\ ~InSlotOf(x, n)
    BY <1>1, <1>3, <2>1, CascadeSorts
  <2>3. /\ Release(x) \in TimerEntries /\ ~IsLive(Release(x))
        /\ Release(x).generation = x.generation /\ UsableAgain(Release(x))
    BY <2>2, Released
  <2>4. e.deadline \in Nat /\ n \in Nat
    BY <1>1, EntryFields, Limits
  <2> HIDE DEF x, y, e
  <2>5. CASE e.deadline <= n
    <3>1. y = Release(x) /\ ~(n < e.deadline)
      BY <1>1, <2>2, <2>4, <2>5
    <3>2. QED
      BY <1>3, <2>2, <2>3, <3>1 DEF y, e
  <2>6. CASE n < e.deadline
    <3>1. y = x /\ ~(e.deadline <= n)
      BY <1>1, <2>2, <2>4, <2>6
    <3>2. QED
      BY <1>3, <2>2, <2>6, <3>1 DEF y, e
  <2>7. QED
    BY <2>4, <2>5, <2>6
<1>4. QED
  BY <1>2, <1>3

-----------------------------------------------------------------------------
(* The steps keep the invariant.                                           *)

(* What the invariant says, in the terms of the lemmas.                    *)
LEMMA InvSays ==
  ASSUME TimerInv
  PROVE  /\ entries \in [Indices -> TimerEntries]
         /\ wheelCursor \in Ticks /\ wheelCursor \in Nat
         /\ nextEvent \in 0 .. NoEvent /\ nextEvent \in Nat
         /\ target \in {NoTarget} \cup Ticks
         /\ Filing(entries, wheelCursor)
         /\ Exact(entries, wheelCursor, nextEvent)
         /\ wheelCursor <= nextEvent
<1>1. /\ entries \in [Indices -> TimerEntries] /\ wheelCursor \in Ticks
      /\ nextEvent \in 0 .. NoEvent /\ target \in {NoTarget} \cup Ticks
  BY DEF TimerInv, TimerTypeOK, TimerEntries
<1>2. Filing(entries, wheelCursor) /\ Exact(entries, wheelCursor, nextEvent)
  BY DEF TimerInv
<1>3. wheelCursor \in Nat /\ wheelCursor < NoEvent /\ NoEvent \in Nat
  BY <1>1, Limits
<1>4. wheelCursor <= nextEvent
  <2>1. CASE nextEvent = NoEvent
    BY <1>3, <2>1
  <2>2. CASE \E i \in Indices : IsLive(entries[i]) /\ nextEvent = Wakeup(entries[i], wheelCursor)
    BY <1>1, <1>2, <2>2, Wakes DEF Filing
  <2>3. QED
    BY <1>2, <2>1, <2>2 DEF Exact
<1>5. nextEvent \in Nat
  BY <1>1, <1>3
<1>6. QED
  BY <1>1, <1>2, <1>3, <1>4, <1>5

(* Durations become natural numbers of ticks.                              *)
LEMMA DurationTicks ==
  ASSUME NEW at \in Durations
  PROVE  DurationToTickFloor(at) \in Nat /\ DurationToTickCeil(at) \in Nat
<1>1. at \in Nat /\ Granule \in Nat \ {0}
  BY TimerConstants
<1>2. at \div Granule \in Nat
  BY <1>1, Division
<1>3. QED
  BY <1>2 DEF DurationToTickFloor, DurationToTickCeil

(* It starts in the invariant.                                             *)
LEMMA TimerInvStarts ==
  ASSUME TimerInit
  PROVE  TimerInv
<1> DEFINE fresh == [deadline |-> 0, generation |-> 0, level |-> Free, slot |-> 0]
<1>1. entries = [i \in Indices |-> fresh] /\ wheelCursor \in Ticks
      /\ nextEvent = NoEvent /\ target = NoTarget
  BY DEF TimerInit
<1>2. wheelCursor \in Ticks /\ 0 \in Ticks
  <2>1. wheelCursor \in Ticks
    BY <1>1
  <2>2. MaxTick \in Int
    BY Limits
  <2>3. QED
    BY <2>1, <2>2 DEF Ticks
<1>3. 0 \in 0 .. SlotCount - 1 /\ MaxGeneration \in Nat \ {0} /\ NoEvent \in Nat
  BY Limits, TimerConstants
<1>4. fresh \in TimerEntries
  BY <1>2, <1>3 DEF TimerEntries
<1>5. ~IsLive(fresh) /\ UsableAgain(fresh)
  BY <1>3 DEF IsLive, UsableAgain, Free
<1> HIDE DEF fresh
<1>6. \A i \in Indices : entries[i] = fresh
  BY <1>1
<1>7. TimerTypeOK
  BY <1>1, <1>2, <1>3, <1>4 DEF TimerTypeOK, TimerEntries
<1>8. Filing(entries, wheelCursor)
  BY <1>5, <1>6 DEF Filing
<1>9. Exact(entries, wheelCursor, nextEvent)
  BY <1>1, <1>3, <1>5, <1>6 DEF Exact
<1>10. QED
  BY <1>1, <1>5, <1>6, <1>7, <1>8, <1>9 DEF TimerInv

(* An entry replaced by one that is filed, or not live.                    *)
LEMMA Replaced ==
  ASSUME NEW es \in [Indices -> TimerEntries], NEW c \in Ticks, Filing(es, c),
         NEW i \in Indices, NEW e \in TimerEntries, IsLive(e) => WellFiled(e, c)
  PROVE  /\ [es EXCEPT ![i] = e] \in [Indices -> TimerEntries]
         /\ Filing([es EXCEPT ![i] = e], c)
<1> DEFINE fs == [es EXCEPT ![i] = e]
<1>1. fs \in [Indices -> TimerEntries] /\ fs[i] = e /\ \A j \in Indices : j # i => fs[j] = es[j]
  OBVIOUS
<1> HIDE DEF fs
<1>2. Filing(fs, c)
  BY <1>1 DEF Filing
<1>3. QED
  BY <1>1, <1>2 DEF fs

(* The event is exact for the others when the one is not live, and when    *)
(* the code does not think that it removes the earliest.                   *)
LEMMA OthersExact ==
  ASSUME TimerInv, NEW i \in Indices, IsLive(entries[i]) => ~RemovedEarliest(i)
  PROVE  ExactBut(entries, wheelCursor, nextEvent, i)
<1> DEFINE es == entries
           c == wheelCursor
           n == nextEvent
<1>1. /\ n \in 0 .. NoEvent
      /\ \A j \in Indices : IsLive(es[j]) => n <= Wakeup(es[j], c)
      /\ n = NoEvent \/ \E j \in Indices : IsLive(es[j]) /\ n = Wakeup(es[j], c)
  BY DEF TimerInv, Exact
<1>2. CASE n = NoEvent
  BY <1>1, <1>2 DEF ExactBut
<1>3. CASE \E j \in Indices : IsLive(es[j]) /\ n = Wakeup(es[j], c)
  <2>1. PICK j \in Indices : IsLive(es[j]) /\ n = Wakeup(es[j], c)
    BY <1>3
  <2>2. CASE j # i
    BY <1>1, <2>1, <2>2 DEF ExactBut
  <2>3. CASE j = i
    <3>1. SlotWakeup(c, es[i].level, es[i].slot) = n
      BY <2>1, <2>3 DEF Wakeup
    <3>2. ~RemovedEarliest(i)
      BY <2>1, <2>3
    <3>3. PICK k \in Indices \ {i} : es[k].level = es[i].level /\ es[k].slot = es[i].slot
      BY <3>1, <3>2 DEF RemovedEarliest
    <3>4. IsLive(es[k]) /\ n = Wakeup(es[k], c)
      BY <2>1, <2>3, <3>1, <3>3 DEF IsLive, Wakeup
    <3>5. QED
      BY <1>1, <3>3, <3>4 DEF ExactBut
  <2>4. QED
    BY <2>2, <2>3
<1>4. QED
  BY <1>1, <1>2, <1>3

(* A new timer.                                                            *)
LEMMA InsertKeeps ==
  ASSUME TimerInv, NEW i \in Indices, NEW d \in Nat, TryInsertAt(i, d)
  PROVE  TimerInv'
<1> DEFINE c == wheelCursor
           f == Filed(entries[i], c, d)
           e == [f EXCEPT !.generation = entries[i].generation + 1]
<1>1. /\ target = NoTarget /\ entries[i].level = Free /\ d \in Ticks
      /\ d <= c \/ d - c <= MaxDelay
      /\ wheelCursor' = c /\ target' = target
      /\ entries' = [entries EXCEPT ![i] = e]
      /\ nextEvent' = Min({nextEvent, SlotWakeup(c, entries'[i].level, entries'[i].slot)})
  <2>1. target = NoTarget /\ entries[i].level = Free /\ d <= MaxTick
        /\ (d <= c \/ d - c <= MaxDelay) /\ wheelCursor' = c /\ target' = target
    BY DEF TryInsertAt, Allocated, DeadlineFits
  <2>2. entries' = [entries EXCEPT ![i] = e]
    BY DEF TryInsertAt, Allocated
  <2>3. nextEvent' = Min({nextEvent, SlotWakeup(c, entries'[i].level, entries'[i].slot)})
    BY DEF TryInsertAt, Allocated, WithFiled
  <2>4. d \in Ticks
    BY <2>1, Limits DEF Ticks
  <2>5. QED
    BY <2>1, <2>2, <2>3, <2>4
<1>2. entries \in [Indices -> TimerEntries] /\ c \in Ticks /\ Filing(entries, c)
      /\ target' \in {NoTarget} \cup Ticks /\ target' = NoTarget
  BY <1>1, InvSays
<1>3. entries[i] \in TimerEntries /\ ~IsLive(entries[i])
      /\ entries[i].generation \in 0 .. MaxGeneration /\ entries[i].generation < MaxGeneration
  <2>1. entries[i] \in TimerEntries /\ entries[i].generation < MaxGeneration
    BY <1>1, <1>2 DEF TimerInv, UsableAgain
  <2>2. QED
    BY <1>1, <2>1, EntryFields DEF IsLive, Free
<1>4. f \in TimerEntries /\ IsLive(f) /\ f.generation = entries[i].generation
      /\ WellFiled(f, c)
  BY <1>1, <1>2, <1>3, FiledIs
<1> HIDE DEF f
<1>5. MaxGeneration \in Nat
  BY TimerConstants
<1>6. e \in TimerEntries /\ e.deadline = f.deadline /\ e.level = f.level /\ e.slot = f.slot
      /\ e.generation = entries[i].generation + 1
  BY <1>3, <1>4, <1>5 DEF TimerEntries
<1> HIDE DEF e
<1>7. IsLive(e) /\ WellFiled(e, c) /\ UsableAgain(e)
  <2>1. IsLive(e) /\ WellFiled(e, c)
    BY <1>4, <1>6 DEF IsLive, WellFiled, FiledFor, DueNow
  <2>2. e.generation > 0
    BY <1>3, <1>5, <1>6
  <2>3. e.level # Free
    BY <2>1, <1>6, EntryFields DEF IsLive, Free
  <2>4. QED
    BY <2>1, <2>2, <2>3 DEF UsableAgain
<1>8. entries' \in [Indices -> TimerEntries] /\ Filing(entries', c) /\ entries'[i] = e
      /\ \A j \in Indices : j # i => entries'[j] = entries[j]
  <2>1. entries' \in [Indices -> TimerEntries] /\ Filing(entries', c)
    BY <1>1, <1>2, <1>6, <1>7, Replaced
  <2>2. QED
    BY <1>1, <1>2, <2>1
<1>9. Exact(entries', c, nextEvent')
  <2>1. ExactBut(entries, c, nextEvent, i)
    BY <1>3, OthersExact
  <2>2. nextEvent' = Min({nextEvent, Wakeup(e, c)})
    BY <1>1, <1>8 DEF Wakeup
  <2>3. Exact([entries EXCEPT ![i] = e], c, Min({nextEvent, Wakeup(e, c)}))
    BY <1>2, <1>6, <1>7, <2>1, ExactAgain
  <2>4. QED
    BY <1>1, <2>2, <2>3
<1>10. \A j \in Indices : UsableAgain(entries'[j])
  BY <1>7, <1>8 DEF TimerInv
<1>11. TimerTypeOK'
  BY <1>1, <1>2, <1>8, <1>9 DEF TimerTypeOK, TimerEntries, Exact
<1>12. QED
  BY <1>1, <1>2, <1>8, <1>9, <1>10, <1>11 DEF TimerInv

(* A timer moved to another deadline.                                      *)
LEMMA RescheduleKeeps ==
  ASSUME TimerInv, NEW i \in Indices, NEW g, NEW d \in Nat, RescheduleAt(i, g, d)
  PROVE  TimerInv'
<1> DEFINE c == wheelCursor
           e == Filed(entries[i], c, d)
<1>1. target = NoTarget /\ IsLive(entries[i]) /\ d <= MaxTick
      /\ (d <= c \/ d - c <= MaxDelay) /\ wheelCursor' = c /\ target' = target
  BY DEF RescheduleAt, LiveIndex, DeadlineFits
<1>2. entries' = [entries EXCEPT ![i] = e]
  BY DEF RescheduleAt
<1>3. nextEvent' = IF RemovedEarliest(i) THEN ComputeNextEvent(entries', c)
                   ELSE Min({nextEvent, SlotWakeup(c, entries'[i].level, entries'[i].slot)})
  BY DEF RescheduleAt, WithFiled
<1>4. d \in Ticks
  BY <1>1, Limits DEF Ticks
<1>5. entries \in [Indices -> TimerEntries] /\ c \in Ticks /\ Filing(entries, c)
      /\ target' \in {NoTarget} \cup Ticks /\ target' = NoTarget
  BY <1>1, InvSays
<1>6. e \in TimerEntries /\ IsLive(e) /\ e.generation = entries[i].generation
      /\ WellFiled(e, c)
  BY <1>1, <1>4, <1>5, FiledIs
<1> HIDE DEF e
<1>7. UsableAgain(e)
  <2>1. e.level # Free
    BY <1>6, EntryFields DEF IsLive, Free
  <2>2. entries[i].generation > 0
    BY <1>1 DEF TimerInv, UsableAgain
  <2>3. QED
    BY <1>6, <2>1, <2>2 DEF UsableAgain
<1>8. entries' \in [Indices -> TimerEntries] /\ Filing(entries', c) /\ entries'[i] = e
      /\ \A j \in Indices : j # i => entries'[j] = entries[j]
  <2>1. entries' \in [Indices -> TimerEntries] /\ Filing(entries', c)
    BY <1>2, <1>5, <1>6, Replaced
  <2>2. QED
    BY <1>2, <1>5, <2>1
<1>9. Exact(entries', c, nextEvent')
  <2>1. CASE RemovedEarliest(i)
    BY <1>3, <1>5, <1>8, <2>1, ExactIsComputed
  <2>2. CASE ~RemovedEarliest(i)
    <3>1. ExactBut(entries, c, nextEvent, i)
      BY <2>2, OthersExact
    <3>2. nextEvent' = Min({nextEvent, Wakeup(e, c)})
      BY <1>3, <1>8, <2>2 DEF Wakeup
    <3>3. Exact([entries EXCEPT ![i] = e], c, Min({nextEvent, Wakeup(e, c)}))
      BY <1>5, <1>6, <3>1, ExactAgain
    <3>4. QED
      BY <1>2, <3>2, <3>3
  <2>3. QED
    BY <2>1, <2>2
<1>10. \A j \in Indices : UsableAgain(entries'[j])
  BY <1>7, <1>8 DEF TimerInv
<1>11. TimerTypeOK'
  BY <1>1, <1>5, <1>8, <1>9 DEF TimerTypeOK, TimerEntries, Exact
<1>12. QED
  BY <1>1, <1>5, <1>8, <1>9, <1>10, <1>11 DEF TimerInv

(* A timer cancelled.                                                      *)
LEMMA CancelKeeps ==
  ASSUME TimerInv, NEW i \in Indices, NEW g, CancelTimer(i, g)
  PROVE  TimerInv'
<1> DEFINE c == wheelCursor
           e == Release(entries[i])
<1>1. target = NoTarget /\ IsLive(entries[i]) /\ wheelCursor' = c /\ target' = target
  BY DEF CancelTimer, LiveIndex
<1>2. entries' = [entries EXCEPT ![i] = e]
  BY DEF CancelTimer
<1>3. nextEvent' = IF RemovedEarliest(i) THEN ComputeNextEvent(entries', c) ELSE nextEvent
  BY DEF CancelTimer
<1>4. entries \in [Indices -> TimerEntries] /\ c \in Ticks /\ Filing(entries, c)
      /\ target' \in {NoTarget} \cup Ticks /\ target' = NoTarget
  BY <1>1, InvSays
<1>5. e \in TimerEntries /\ ~IsLive(e) /\ UsableAgain(e)
  BY <1>4, Released
<1> HIDE DEF e
<1>6. entries' \in [Indices -> TimerEntries] /\ Filing(entries', c) /\ entries'[i] = e
      /\ \A j \in Indices : j # i => entries'[j] = entries[j]
  <2>1. entries' \in [Indices -> TimerEntries] /\ Filing(entries', c)
    BY <1>2, <1>4, <1>5, Replaced
  <2>2. QED
    BY <1>2, <1>4, <2>1
<1>7. Exact(entries', c, nextEvent')
  <2>1. CASE RemovedEarliest(i)
    BY <1>3, <1>4, <1>6, <2>1, ExactIsComputed
  <2>2. CASE ~RemovedEarliest(i)
    <3>1. ExactBut(entries, c, nextEvent, i)
      BY <2>2, OthersExact
    <3>2. Exact([entries EXCEPT ![i] = e], c, nextEvent)
      BY <1>4, <1>5, <3>1, ExactAgain
    <3>3. QED
      BY <1>2, <1>3, <2>2, <3>2
  <2>3. QED
    BY <2>1, <2>2
<1>8. \A j \in Indices : UsableAgain(entries'[j])
  BY <1>5, <1>6 DEF TimerInv
<1>9. TimerTypeOK'
  BY <1>1, <1>4, <1>6, <1>7 DEF TimerTypeOK, TimerEntries, Exact
<1>10. QED
  BY <1>1, <1>4, <1>6, <1>7, <1>8, <1>9 DEF TimerInv

(* An advance begins.                                                      *)
LEMMA AdvanceToKeeps ==
  ASSUME TimerInv, NEW t \in Nat, t <= MaxTick, AdvanceTo(t)
  PROVE  TimerInv'
<1>1. t >= wheelCursor /\ target' = t /\ entries' = entries
      /\ wheelCursor' = wheelCursor /\ nextEvent' = nextEvent
  BY DEF AdvanceTo
<1>2. t \in Ticks
  BY Limits DEF Ticks
<1>3. TimerTypeOK'
  BY <1>1, <1>2 DEF TimerInv, TimerTypeOK
<1>4. QED
  BY <1>1, <1>3 DEF TimerInv

(* The event of an iteration is a tick.                                    *)
LEMMA EventIsTick ==
  ASSUME TimerInv, AdvanceStep
  PROVE  nextEvent \in Ticks
<1>1. nextEvent \in Nat /\ nextEvent \in 0 .. NoEvent /\ nextEvent # NoEvent
  BY InvSays, StepElapses
<1>2. QED
  BY <1>1, Limits DEF Ticks

(* What an iteration leaves, entry by entry.                               *)
LEMMA StepLeaves ==
  ASSUME TimerInv, AdvanceStep
  PROVE  /\ entries' \in [Indices -> TimerEntries]
         /\ \A i \in Indices :
              /\ entries'[i].generation = entries[i].generation
              /\ ~IsLive(entries[i]) => entries'[i] = entries[i]
              /\ IsLive(entries[i]) /\ entries[i].deadline <= nextEvent =>
                   ~IsLive(entries'[i]) /\ UsableAgain(entries'[i])
              /\ IsLive(entries[i]) /\ nextEvent < entries[i].deadline =>
                   /\ IsLive(entries'[i])
                   /\ entries'[i].deadline = entries[i].deadline
                   /\ FiledFor(entries'[i], nextEvent)
<1>1. entries' = Elapsed(entries, nextEvent)
  BY StepElapses
<1>2. nextEvent \in Ticks
  BY EventIsTick
<1>3. /\ entries \in [Indices -> TimerEntries] /\ wheelCursor \in Ticks
      /\ Filing(entries, wheelCursor) /\ wheelCursor <= nextEvent
      /\ Exact(entries, wheelCursor, nextEvent)
  BY InvSays
<1>4. \A i \in Indices : Elapsed(entries, nextEvent)[i] \in TimerEntries
  BY <1>2, <1>3, ElapsedEntry
<1>5. entries' \in [Indices -> TimerEntries]
  BY <1>1, <1>4 DEF Elapsed
<1>6. SUFFICES ASSUME NEW i \in Indices
      PROVE  /\ entries'[i].generation = entries[i].generation
             /\ ~IsLive(entries[i]) => entries'[i] = entries[i]
             /\ IsLive(entries[i]) /\ entries[i].deadline <= nextEvent =>
                  ~IsLive(entries'[i]) /\ UsableAgain(entries'[i])
             /\ IsLive(entries[i]) /\ nextEvent < entries[i].deadline =>
                  /\ IsLive(entries'[i])
                  /\ entries'[i].deadline = entries[i].deadline
                  /\ FiledFor(entries'[i], nextEvent)
  BY <1>5
<1>7. QED
  BY <1>1, <1>2, <1>3, ElapsedEntry

(* An iteration keeps the invariant, and what is left wakes later.         *)
LEMMA AdvanceStepKeeps ==
  ASSUME TimerInv, AdvanceStep
  PROVE  TimerInv' /\ nextEvent' > nextEvent
<1> DEFINE n == nextEvent
<1>1. /\ target # NoTarget /\ n <= target /\ wheelCursor' = n /\ target' = target
      /\ nextEvent' = ComputeNextEvent(entries', n)
  BY StepElapses
<1>2. n \in Ticks /\ n \in Nat /\ n < NoEvent /\ NoEvent \in Nat
  BY EventIsTick, Limits
<1>3. entries' \in [Indices -> TimerEntries] /\ entries \in [Indices -> TimerEntries]
  BY StepLeaves, InvSays
<1>4. ASSUME NEW i \in Indices
      PROVE  /\ IsLive(entries'[i]) => FiledFor(entries'[i], n)
             /\ UsableAgain(entries'[i])
  <2>1. UsableAgain(entries[i])
    BY DEF TimerInv
  <2>2. CASE ~IsLive(entries[i])
    BY <2>1, <2>2, StepLeaves
  <2>3. CASE IsLive(entries[i]) /\ entries[i].deadline <= n
    BY <2>3, StepLeaves
  <2>4. CASE IsLive(entries[i]) /\ n < entries[i].deadline
    <3>1. IsLive(entries'[i]) /\ FiledFor(entries'[i], n)
          /\ entries'[i].generation = entries[i].generation
      BY <2>4, StepLeaves
    <3>2. entries'[i].level # Free
      BY <3>1 DEF IsLive, Free
    <3>3. QED
      BY <2>1, <2>4, <3>1, <3>2 DEF UsableAgain
  <2>5. QED
    <3>1. entries[i].deadline \in Nat
      BY <1>3, EntryFields
    <3>2. QED
      BY <1>2, <2>2, <2>3, <2>4, <3>1
<1>5. Filing(entries', n)
  BY <1>4 DEF Filing, WellFiled
<1>6. Exact(entries', n, nextEvent')
  BY <1>1, <1>2, <1>3, <1>5, ExactIsComputed
<1>7. nextEvent' > n
  <2>1. CASE nextEvent' = NoEvent
    BY <1>2, <2>1
  <2>2. CASE \E i \in Indices : IsLive(entries'[i]) /\ nextEvent' = Wakeup(entries'[i], n)
    <3>1. PICK i \in Indices : IsLive(entries'[i]) /\ nextEvent' = Wakeup(entries'[i], n)
      BY <2>2
    <3>2. FiledFor(entries'[i], n) /\ entries'[i] \in TimerEntries
      BY <1>3, <1>4, <3>1
    <3>3. n < Wakeup(entries'[i], n) /\ Wakeup(entries'[i], n) \in Nat
      BY <1>2, <3>2, Wakes DEF WellFiled
    <3>4. QED
      BY <1>2, <3>1, <3>3
  <2>3. QED
    BY <1>6, <2>1, <2>2 DEF Exact
<1>8. target' \in {NoTarget} \cup Ticks /\ target' >= n
  BY <1>1, <1>2, InvSays, Limits
<1>9. TimerTypeOK'
  BY <1>1, <1>2, <1>3, <1>6, <1>8 DEF TimerTypeOK, TimerEntries, Exact
<1>10. QED
  BY <1>1, <1>4, <1>5, <1>6, <1>7, <1>8, <1>9 DEF TimerInv

(* When an advance ends, nothing live is due, before or after.             *)
LEMMA EndsBeforeAll ==
  ASSUME TimerInv, AdvanceEnd, NEW i \in Indices, IsLive(entries[i])
  PROVE  /\ FiledFor(entries[i], wheelCursor)
         /\ target < BlockStart(entries[i].deadline, entries[i].level)
         /\ target < entries[i].deadline
<1> DEFINE e == entries[i]
<1>1. e \in TimerEntries /\ wheelCursor \in Ticks /\ wheelCursor \in Nat
      /\ nextEvent \in Nat /\ WellFiled(e, wheelCursor) /\ nextEvent <= Wakeup(e, wheelCursor)
  BY InvSays DEF Filing, Exact
<1>2. target \in Ticks /\ target \in Nat /\ target >= wheelCursor /\ NoEvent \in Nat
  <2>1. target # NoTarget
    BY DEF AdvanceEnd
  <2>2. QED
    BY <2>1, InvSays, Limits DEF TimerInv
<1>3. Wakeup(e, wheelCursor) \in Nat /\ Wakeup(e, wheelCursor) < NoEvent
  BY <1>1, Wakes
<1>4. nextEvent = NoEvent \/ nextEvent > target
  BY DEF AdvanceEnd
<1>5. target < Wakeup(e, wheelCursor)
  BY <1>1, <1>2, <1>3, <1>4
<1>6. FiledFor(e, wheelCursor)
  <2>1. SUFFICES ASSUME DueNow(e, wheelCursor) PROVE FALSE
    BY <1>1 DEF WellFiled
  <2>2. Wakeup(e, wheelCursor) = wheelCursor
    BY <1>1, <2>1, Wakes
  <2>3. QED
    BY <1>1, <1>2, <1>5, <2>2
<1>7. /\ Wakeup(e, wheelCursor) = BlockStart(e.deadline, e.level)
      /\ Wakeup(e, wheelCursor) <= e.deadline
  BY <1>1, <1>6, Wakes
<1>8. e.deadline \in Nat
  BY <1>1, EntryFields
<1>9. QED
  BY <1>2, <1>3, <1>5, <1>6, <1>7, <1>8

(* The end of an advance: the cursor moves with nothing to do.             *)
LEMMA AdvanceEndKeeps ==
  ASSUME TimerInv, AdvanceEnd
  PROVE  TimerInv'
<1> DEFINE c == wheelCursor
           t == target
<1>1. wheelCursor' = t /\ target' = NoTarget /\ entries' = entries /\ nextEvent' = nextEvent
      /\ t # NoTarget /\ (nextEvent = NoEvent \/ nextEvent > t)
  BY DEF AdvanceEnd
<1>2. entries \in [Indices -> TimerEntries] /\ c \in Ticks /\ c \in Nat
      /\ Exact(entries, c, nextEvent)
  BY InvSays
<1>3. t \in Ticks /\ t \in Nat /\ t >= c /\ MaxDelay \in Nat
  BY <1>1, InvSays, Limits DEF TimerInv
<1>4. ASSUME NEW i \in Indices, IsLive(entries[i])
      PROVE  FiledFor(entries[i], t) /\ Wakeup(entries[i], t) = Wakeup(entries[i], c)
  <2> DEFINE e == entries[i]
             d == e.deadline
  <2>1. e \in TimerEntries /\ d \in Nat
    BY <1>2, EntryFields
  <2>2. FiledFor(e, c) /\ t < BlockStart(d, e.level)
    BY <1>4, EndsBeforeAll
  <2>3. Ahead(c, d, e.level) /\ d - c <= MaxDelay /\ e.slot = Digit(d, e.level)
    BY <2>2 DEF FiledFor
  <2>4. Ahead(t, d, e.level)
    BY <1>2, <1>3, <2>1, <2>2, <2>3, StaysAhead
  <2>5. FiledFor(e, t)
    BY <1>2, <1>3, <2>1, <2>3, <2>4 DEF FiledFor
  <2>6. Wakeup(e, t) = BlockStart(d, e.level) /\ Wakeup(e, c) = BlockStart(d, e.level)
    BY <1>2, <1>3, <2>1, <2>2, <2>5, Wakes DEF WellFiled
  <2>7. QED
    BY <2>5, <2>6
<1>5. Filing(entries, t)
  BY <1>4 DEF Filing, WellFiled
<1>6. Exact(entries, t, nextEvent)
  <2>1. \A i \in Indices : IsLive(entries[i]) => nextEvent <= Wakeup(entries[i], t)
    BY <1>2, <1>4 DEF Exact
  <2>2. nextEvent = NoEvent
        \/ \E i \in Indices : IsLive(entries[i]) /\ nextEvent = Wakeup(entries[i], t)
    BY <1>2, <1>4 DEF Exact
  <2>3. QED
    BY <1>2, <2>1, <2>2 DEF Exact
<1>7. TimerTypeOK'
  BY <1>1, <1>3 DEF TimerInv, TimerTypeOK
<1>8. QED
  BY <1>1, <1>5, <1>6, <1>7 DEF TimerInv

(* Every step keeps it.                                                    *)
LEMMA TimerInvKept ==
  ASSUME TimerInv, [TimerNext]_timerVars
  PROVE  TimerInv'
<1>1. CASE UNCHANGED timerVars
  BY <1>1 DEF timerVars, TimerInv, TimerTypeOK
<1>2. ASSUME NEW i \in Indices, NEW at \in Durations, TryInsertDuration(i, at) PROVE TimerInv'
  BY <1>2, DurationTicks, InsertKeeps DEF TryInsertDuration
<1>3. ASSUME NEW i \in Indices, NEW at \in Durations, NEW g \in 1 .. MaxGeneration,
             RescheduleDuration(i, g, at)
      PROVE  TimerInv'
  BY <1>3, DurationTicks, RescheduleKeeps DEF RescheduleDuration
<1>4. ASSUME NEW i \in Indices, NEW g \in 1 .. MaxGeneration, CancelTimer(i, g) PROVE TimerInv'
  BY <1>4, CancelKeeps
<1>5. ASSUME NEW at \in Durations, AdvanceDuration(at) PROVE TimerInv'
  BY <1>5, DurationTicks, AdvanceToKeeps DEF AdvanceDuration
<1>6. CASE AdvanceStep
  BY <1>6, AdvanceStepKeeps
<1>7. CASE AdvanceEnd
  BY <1>7, AdvanceEndKeeps
<1>8. QED
  BY <1>1, <1>2, <1>3, <1>4, <1>5, <1>6, <1>7 DEF TimerNext

(* The invariant of the wheel.                                             *)
LEMMA TimerInvariant == TimerSpec => []TimerInv
BY TimerInvStarts, TimerInvKept, PTL DEF TimerSpec

(* Every variable keeps its type; no tick, level, slot or generation goes  *)
(* out of range, however the wheel is driven.                              *)
THEOREM TimerTypeCorrect == TimerSpec => []TimerTypeOK
<1>1. TimerInv => TimerTypeOK
  BY DEF TimerInv
<1>2. QED
  BY <1>1, TimerInvariant, PTL

(* The cached event is exact after every operation, for any number of      *)
(* levels, slots and entries: cancel and reschedule recompute it whenever  *)
(* they have to, and the cursor never passes it.                           *)
THEOREM NextEventAlwaysExact == TimerSpec => []NextEventExact
<1>1. ASSUME TimerInv PROVE NextEventExact
  <2>1. /\ entries \in [Indices -> TimerEntries] /\ wheelCursor \in Ticks
        /\ Filing(entries, wheelCursor) /\ Exact(entries, wheelCursor, nextEvent)
        /\ wheelCursor <= nextEvent /\ wheelCursor \in Nat /\ nextEvent \in Nat
    BY <1>1, InvSays
  <2>2. nextEvent = ComputeNextEvent(entries, wheelCursor)
    BY <2>1, ExactIsComputed
  <2>3. QED
    BY <2>1, <2>2 DEF NextEventExact
<1>2. QED
  BY <1>1, TimerInvariant, PTL

(* Every iteration of advance_to_with leaves the next event strictly later *)
(* than it was, so that it returns after at most one iteration per tick.   *)
THEOREM AdvanceAlwaysProgresses == TimerSpec => AdvanceProgresses
<1>1. ASSUME TimerInv, [TimerNext]_timerVars
      PROVE  [target # NoTarget /\ target' # NoTarget => nextEvent' > nextEvent]_timerVars
  <2>1. SUFFICES ASSUME TimerNext, target # NoTarget, target' # NoTarget
                 PROVE  nextEvent' > nextEvent
    BY <1>1
  <2>2. AdvanceStep
    BY <2>1 DEF TimerNext, TryInsertDuration, TryInsertAt, Allocated, RescheduleDuration, RescheduleAt,
                CancelTimer, AdvanceDuration, AdvanceTo, AdvanceEnd
  <2>3. QED
    BY <1>1, <2>2, AdvanceStepKeeps
<1>2. QED
  BY <1>1, TimerInvariant, PTL DEF TimerSpec, AdvanceProgresses

-----------------------------------------------------------------------------
(* Alarm.  The promise's variables, with the wheel's state as parameters.  *)

HandlesOf(es) == {<<i, es[i].generation>> : i \in {j \in Indices : IsLive(es[j])}}
DuesOf(es, c) == [h \in HandlesOf(es) |-> Max({es[h[1]].deadline, c})]
SpentOf(es) == {h \in Indices \X (1 .. MaxGeneration) : h[2] <= es[h[1]].generation}

(* The due times with one set, moved or taken out, and with those of n     *)
(* taken out.                                                              *)
DueSet(D, h, t) == [x \in (DOMAIN D) \cup {h} |-> IF x = h THEN t ELSE D[x]]
DueMoved(D, h, t) == [D EXCEPT ![h] = t]
DueWithout(D, h) == [x \in (DOMAIN D) \ {h} |-> D[x]]
DueAfter(D, n) == [x \in {h \in DOMAIN D : D[h] # n} |-> D[x]]

(* The promise's variables are what the refinement mapping says.           *)
LEMMA DuesAre ==
  /\ [h \in LiveHandles |-> DueAt(h[1])] = DuesOf(entries, wheelCursor)
  /\ {h \in Indices \X (1 .. MaxGeneration) : h[2] <= entries[h[1]].generation}
       = SpentOf(entries)
<1>1. LiveHandles = HandlesOf(entries)
  BY DEF LiveHandles, HandleOf, HandlesOf
<1>2. QED
  BY <1>1 DEF DueAt, DuesOf, SpentOf

(* A handle is that of a live entry, and says when it is due.              *)
LEMMA HandleIs ==
  ASSUME NEW es, NEW c
  PROVE  /\ \A h \in HandlesOf(es) : \E i \in Indices :
              IsLive(es[i]) /\ h = <<i, es[i].generation>> /\ h[1] = i /\ h[2] = es[i].generation
         /\ \A i \in Indices : IsLive(es[i]) =>
              /\ <<i, es[i].generation>> \in HandlesOf(es)
              /\ DuesOf(es, c)[<<i, es[i].generation>>] = Max({es[i].deadline, c})
         /\ DOMAIN DuesOf(es, c) = HandlesOf(es)
         /\ \A h \in HandlesOf(es) : DuesOf(es, c)[h] = Max({es[h[1]].deadline, c})
<1>1. \A h \in HandlesOf(es) : \E i \in Indices :
        IsLive(es[i]) /\ h = <<i, es[i].generation>> /\ h[1] = i /\ h[2] = es[i].generation
  BY DEF HandlesOf
<1>2. \A i \in Indices : IsLive(es[i]) => <<i, es[i].generation>> \in HandlesOf(es)
  BY DEF HandlesOf
<1>3. DOMAIN DuesOf(es, c) = HandlesOf(es)
      /\ \A h \in HandlesOf(es) : DuesOf(es, c)[h] = Max({es[h[1]].deadline, c})
  BY DEF DuesOf
<1>4. \A i \in Indices : IsLive(es[i]) =>
        DuesOf(es, c)[<<i, es[i].generation>>] = Max({es[i].deadline, c})
  BY <1>2, <1>3
<1>5. QED
  BY <1>1, <1>2, <1>3, <1>4

(* The entry of a handle.                                                  *)
LEMMA OfHandle ==
  ASSUME NEW es, NEW h \in HandlesOf(es)
  PROVE  \E i \in Indices : IsLive(es[i]) /\ h[1] = i /\ h = <<i, es[i].generation>>
BY DEF HandlesOf

(* An entry that was not live is filed.                                    *)
LEMMA DuesSet ==
  ASSUME NEW es \in [Indices -> TimerEntries], NEW c, NEW i \in Indices, NEW e,
         ~IsLive(es[i]), IsLive(e)
  PROVE  DuesOf([es EXCEPT ![i] = e], c) =
           DueSet(DuesOf(es, c), <<i, e.generation>>, Max({e.deadline, c}))
<1> DEFINE fs == [es EXCEPT ![i] = e]
           h == <<i, e.generation>>
<1>1. fs[i] = e /\ \A j \in Indices : j # i => fs[j] = es[j]
  OBVIOUS
<1>2. h[1] = i
  OBVIOUS
<1> HIDE DEF fs, h
<1>3. HandlesOf(fs) = HandlesOf(es) \cup {h}
  <2>1. ASSUME NEW x \in HandlesOf(fs) PROVE x \in HandlesOf(es) \cup {h}
    <3>1. PICK j \in Indices : IsLive(fs[j]) /\ x = <<j, fs[j].generation>>
      BY OfHandle
    <3>2. CASE j = i
      BY <1>1, <3>1, <3>2 DEF h
    <3>3. CASE j # i
      BY <1>1, <3>1, <3>3, HandleIs
    <3>4. QED
      BY <3>2, <3>3
  <2>2. ASSUME NEW x \in HandlesOf(es) PROVE x \in HandlesOf(fs)
    <3>1. PICK j \in Indices : IsLive(es[j]) /\ x = <<j, es[j].generation>>
      BY OfHandle
    <3>2. fs[j] = es[j]
      BY <1>1, <3>1
    <3>3. QED
      BY <3>1, <3>2, HandleIs
  <2>3. h \in HandlesOf(fs)
    BY <1>1, HandleIs DEF h
  <2>4. QED
    BY <2>1, <2>2, <2>3
<1>4. ASSUME NEW x \in HandlesOf(es) \cup {h}
      PROVE  Max({fs[x[1]].deadline, c}) =
               IF x = h THEN Max({e.deadline, c}) ELSE DuesOf(es, c)[x]
  <2>1. CASE x = h
    BY <1>1, <1>2, <2>1
  <2>2. CASE x # h
    <3>1. x \in HandlesOf(es)
      BY <2>2
    <3>2. PICK j \in Indices : IsLive(es[j]) /\ x[1] = j
      BY <3>1, HandleIs
    <3>3. fs[x[1]] = es[x[1]]
      BY <1>1, <3>2
    <3>4. DuesOf(es, c)[x] = Max({es[x[1]].deadline, c})
      BY <3>1, HandleIs
    <3>5. QED
      BY <2>2, <3>3, <3>4
  <2>3. QED
    BY <2>1, <2>2
<1>5. DuesOf(fs, c) = [x \in HandlesOf(es) \cup {h} |->
                         IF x = h THEN Max({e.deadline, c}) ELSE DuesOf(es, c)[x]]
  BY <1>3, <1>4 DEF DuesOf
<1>6. DOMAIN DuesOf(es, c) = HandlesOf(es)
  BY HandleIs
<1>7. DuesOf(fs, c) = DueSet(DuesOf(es, c), h, Max({e.deadline, c}))
  BY <1>5, <1>6 DEF DueSet
<1>8. QED
  BY <1>7 DEF fs, h

(* A live entry is filed again.                                            *)
LEMMA DuesMove ==
  ASSUME NEW es \in [Indices -> TimerEntries], NEW c, NEW i \in Indices, NEW e,
         IsLive(es[i]), IsLive(e), e.generation = es[i].generation
  PROVE  DuesOf([es EXCEPT ![i] = e], c) =
           DueMoved(DuesOf(es, c), <<i, e.generation>>, Max({e.deadline, c}))
<1> DEFINE fs == [es EXCEPT ![i] = e]
           h == <<i, e.generation>>
<1>1. fs[i] = e /\ \A j \in Indices : j # i => fs[j] = es[j]
  OBVIOUS
<1>2. h[1] = i
  OBVIOUS
<1> HIDE DEF fs, h
<1>3. \A j \in Indices : (IsLive(fs[j]) <=> IsLive(es[j])) /\ fs[j].generation = es[j].generation
  BY <1>1
<1>4. HandlesOf(fs) = HandlesOf(es)
  <2>1. ASSUME NEW x \in HandlesOf(fs) PROVE x \in HandlesOf(es)
    <3>1. PICK j \in Indices : IsLive(fs[j]) /\ x = <<j, fs[j].generation>>
      BY OfHandle
    <3>2. QED
      BY <1>3, <3>1, HandleIs
  <2>2. ASSUME NEW x \in HandlesOf(es) PROVE x \in HandlesOf(fs)
    <3>1. PICK j \in Indices : IsLive(es[j]) /\ x = <<j, es[j].generation>>
      BY OfHandle
    <3>2. IsLive(fs[j]) /\ x = <<j, fs[j].generation>>
      BY <1>3, <3>1
    <3>3. QED
      BY <3>2, HandleIs
  <2>3. QED
    BY <2>1, <2>2
<1>5. h \in HandlesOf(es)
  BY HandleIs DEF h
<1>6. ASSUME NEW x \in HandlesOf(es)
      PROVE  Max({fs[x[1]].deadline, c}) =
               IF x = h THEN Max({e.deadline, c}) ELSE DuesOf(es, c)[x]
  <2>1. CASE x = h
    BY <1>1, <1>2, <2>1
  <2>2. CASE x # h
    <3>1. PICK j \in Indices : IsLive(es[j]) /\ x[1] = j /\ x = <<j, es[j].generation>>
      BY OfHandle
    <3>2. j # i
      BY <2>2, <3>1 DEF h
    <3>3. fs[x[1]] = es[x[1]]
      BY <1>1, <3>1, <3>2
    <3>4. DuesOf(es, c)[x] = Max({es[x[1]].deadline, c})
      BY HandleIs
    <3>5. QED
      BY <2>2, <3>3, <3>4
  <2>3. QED
    BY <2>1, <2>2
<1>7. DuesOf(fs, c) = [x \in HandlesOf(es) |->
                         IF x = h THEN Max({e.deadline, c}) ELSE DuesOf(es, c)[x]]
  BY <1>4, <1>6 DEF DuesOf
<1>8. DuesOf(es, c) = [x \in HandlesOf(es) |-> DuesOf(es, c)[x]]
  BY DEF DuesOf
<1>9. DuesOf(fs, c) = [DuesOf(es, c) EXCEPT ![h] = Max({e.deadline, c})]
  BY <1>7, <1>8
<1>10. QED
  BY <1>9 DEF fs, h, DueMoved

(* A live entry is taken out.                                              *)
LEMMA DuesCancel ==
  ASSUME NEW es \in [Indices -> TimerEntries], NEW c, NEW i \in Indices, NEW e,
         IsLive(es[i]), ~IsLive(e)
  PROVE  DuesOf([es EXCEPT ![i] = e], c) =
           DueWithout(DuesOf(es, c), <<i, es[i].generation>>)
<1> DEFINE fs == [es EXCEPT ![i] = e]
           h == <<i, es[i].generation>>
<1>1. fs[i] = e /\ \A j \in Indices : j # i => fs[j] = es[j]
  OBVIOUS
<1> HIDE DEF fs, h
<1>2. HandlesOf(fs) = HandlesOf(es) \ {h}
  <2>1. ASSUME NEW x \in HandlesOf(fs) PROVE x \in HandlesOf(es) \ {h}
    <3>1. PICK j \in Indices : IsLive(fs[j]) /\ x = <<j, fs[j].generation>>
      BY OfHandle
    <3>2. j # i
      BY <1>1, <3>1
    <3>3. IsLive(es[j]) /\ x = <<j, es[j].generation>>
      BY <1>1, <3>1, <3>2
    <3>4. x # h
      BY <3>2, <3>3 DEF h
    <3>5. QED
      BY <3>3, <3>4, HandleIs
  <2>2. ASSUME NEW x \in HandlesOf(es) \ {h} PROVE x \in HandlesOf(fs)
    <3>1. PICK j \in Indices : IsLive(es[j]) /\ x = <<j, es[j].generation>>
      BY OfHandle
    <3>2. j # i
      BY <2>2, <3>1 DEF h
    <3>3. IsLive(fs[j]) /\ x = <<j, fs[j].generation>>
      BY <1>1, <3>1, <3>2
    <3>4. QED
      BY <3>3, HandleIs
  <2>3. QED
    BY <2>1, <2>2
<1>3. ASSUME NEW x \in HandlesOf(es) \ {h}
      PROVE  Max({fs[x[1]].deadline, c}) = DuesOf(es, c)[x]
  <2>1. PICK j \in Indices : IsLive(es[j]) /\ x[1] = j /\ x = <<j, es[j].generation>>
    BY OfHandle
  <2>2. j # i
    BY <1>3, <2>1 DEF h
  <2>3. fs[x[1]] = es[x[1]]
    BY <1>1, <2>1, <2>2
  <2>4. DuesOf(es, c)[x] = Max({es[x[1]].deadline, c})
    BY HandleIs
  <2>5. QED
    BY <2>3, <2>4
<1>4. DuesOf(fs, c) = [x \in HandlesOf(es) \ {h} |-> DuesOf(es, c)[x]]
  BY <1>2, <1>3 DEF DuesOf
<1>5. DOMAIN DuesOf(es, c) = HandlesOf(es)
  BY HandleIs
<1>6. DuesOf(fs, c) = DueWithout(DuesOf(es, c), h)
  BY <1>4, <1>5 DEF DueWithout
<1>7. QED
  BY <1>6 DEF fs, h

(* The entries that are due at n are released, and the others are kept.    *)
RunOut(es, fs, c, n) ==
  \A i \in Indices :
    /\ fs[i].generation = es[i].generation
    /\ ~IsLive(es[i]) => ~IsLive(fs[i])
    /\ IsLive(es[i]) /\ es[i].deadline <= n =>
         ~IsLive(fs[i]) /\ (c = n \/ es[i].deadline = n)
    /\ IsLive(es[i]) /\ n < es[i].deadline =>
         IsLive(fs[i]) /\ fs[i].deadline = es[i].deadline

(* The clock reaches n: what is due at n is out, and the rest as it was.   *)
LEMMA DuesElapse ==
  ASSUME NEW es \in [Indices -> TimerEntries], NEW fs \in [Indices -> TimerEntries],
         NEW c \in Nat, NEW n \in Nat, c <= n,
         RunOut(es, fs, c, n)
  PROVE  /\ \A h \in HandlesOf(es) : DuesOf(es, c)[h] >= n
         /\ DuesOf(fs, n) = DueAfter(DuesOf(es, c), n)
<1>1. ASSUME NEW h \in HandlesOf(es)
      PROVE  /\ DuesOf(es, c)[h] >= n
             /\ DuesOf(es, c)[h] # n <=> h \in HandlesOf(fs)
             /\ h \in HandlesOf(fs) => Max({fs[h[1]].deadline, n}) = DuesOf(es, c)[h]
  <2>1. PICK i \in Indices : IsLive(es[i]) /\ h = <<i, es[i].generation>> /\ h[1] = i
    BY OfHandle
  <2>2. PICK d \in Nat : d = es[i].deadline
    BY EntryFields
  <2>3. DuesOf(es, c)[h] = IF d >= c THEN d ELSE c
    <3>1. DuesOf(es, c)[h] = Max({d, c})
      BY <2>1, <2>2, HandleIs
    <3>2. Max({d, c}) = IF d >= c THEN d ELSE c
      <4>1. d \in Int /\ c \in Int
        OBVIOUS
      <4>2. QED
        BY <4>1, OfTwo
    <3>3. QED
      BY <3>1, <3>2
  <2>4. h \in HandlesOf(fs) <=> IsLive(fs[i])
    <3>1. IsLive(fs[i]) => h \in HandlesOf(fs)
      <4>1. h = <<i, fs[i].generation>>
        BY <2>1 DEF RunOut
      <4>2. QED
        BY <4>1, HandleIs
    <3>2. ASSUME h \in HandlesOf(fs) PROVE IsLive(fs[i])
      <4>1. PICK j \in Indices : IsLive(fs[j]) /\ h[1] = j
        BY <3>2, OfHandle
      <4>2. QED
        BY <2>1, <4>1
    <3>3. QED
      BY <3>1, <3>2
  <2>5. CASE d <= n
    <3>1. ~IsLive(fs[i]) /\ (c = n \/ d = n)
      BY <2>1, <2>2, <2>5 DEF RunOut
    <3>2. DuesOf(es, c)[h] = n
      BY <2>3, <2>5, <3>1
    <3>3. QED
      BY <2>4, <3>1, <3>2
  <2>6. CASE n < d
    <3>1. IsLive(fs[i]) /\ fs[i].deadline = d
      BY <2>1, <2>2, <2>6 DEF RunOut
    <3>2. DuesOf(es, c)[h] = d
      BY <2>3, <2>6
    <3>3. Max({d, n}) = d
      BY <2>6, OfTwo
    <3>4. QED
      BY <2>1, <2>4, <2>6, <3>1, <3>2, <3>3
  <2>7. QED
    BY <2>5, <2>6
<1>2. HandlesOf(fs) \subseteq HandlesOf(es)
  <2>1. SUFFICES ASSUME NEW h \in HandlesOf(fs) PROVE h \in HandlesOf(es)
    OBVIOUS
  <2>2. PICK i \in Indices : IsLive(fs[i]) /\ h = <<i, fs[i].generation>>
    BY OfHandle
  <2>3. IsLive(es[i]) /\ h = <<i, es[i].generation>>
    BY <2>2 DEF RunOut
  <2>4. QED
    BY <2>3, HandleIs
<1>3. HandlesOf(fs) = {h \in HandlesOf(es) : DuesOf(es, c)[h] # n}
  BY <1>1, <1>2
<1>4. DuesOf(fs, n) = [x \in HandlesOf(fs) |-> DuesOf(es, c)[x]]
  BY <1>1, <1>2 DEF DuesOf
<1>5. DOMAIN DuesOf(es, c) = HandlesOf(es)
  BY HandleIs
<1>6. DuesOf(fs, n) = DueAfter(DuesOf(es, c), n)
  BY <1>3, <1>4, <1>5 DEF DueAfter
<1>7. QED
  BY <1>1, <1>6

(* The handles given out depend on the generations only.                   *)
LEMMA SameSpent ==
  ASSUME NEW es, NEW fs, \A i \in Indices : fs[i].generation = es[i].generation
  PROVE  SpentOf(fs) = SpentOf(es)
<1>1. \A h \in Indices \X (1 .. MaxGeneration) : fs[h[1]].generation = es[h[1]].generation
  OBVIOUS
<1>2. QED
  BY <1>1 DEF SpentOf

(* A new generation gives out one handle more.                             *)
LEMMA SpentSet ==
  ASSUME NEW es \in [Indices -> TimerEntries], NEW fs, NEW i \in Indices,
         NEW g \in Nat, g = es[i].generation, g < MaxGeneration, fs[i].generation = g + 1,
         \A j \in Indices : j # i => fs[j] = es[j]
  PROVE  /\ <<i, g + 1>> \in Indices \X (1 .. MaxGeneration)
         /\ <<i, g + 1>> \notin SpentOf(es)
         /\ SpentOf(fs) = SpentOf(es) \cup {<<i, g + 1>>}
<1>1. MaxGeneration \in Nat
  BY TimerConstants
<1>2. <<i, g + 1>> \in Indices \X (1 .. MaxGeneration)
  BY <1>1
<1>3. <<i, g + 1>> \notin SpentOf(es)
  BY <1>1 DEF SpentOf
<1>4. ASSUME NEW h \in Indices \X (1 .. MaxGeneration)
      PROVE  h[2] <= fs[h[1]].generation
               <=> (h[2] <= es[h[1]].generation \/ h = <<i, g + 1>>)
  <2>1. PICK j \in Indices, k \in 1 .. MaxGeneration : h = <<j, k>>
    OBVIOUS
  <2>2. h[1] = j /\ h[2] = k /\ k \in Nat
    BY <1>1, <2>1
  <2>3. CASE j = i
    <3>1. k <= g + 1 <=> (k <= g \/ k = g + 1)
      BY <2>2
    <3>2. h = <<i, g + 1>> <=> k = g + 1
      BY <2>1, <2>3
    <3>3. QED
      BY <2>2, <2>3, <3>1, <3>2
  <2>4. CASE j # i
    <3>1. fs[j] = es[j] /\ h # <<i, g + 1>>
      BY <2>1, <2>4
    <3>2. QED
      BY <2>2, <3>1
  <2>5. QED
    BY <2>3, <2>4
<1>5. SpentOf(fs) = SpentOf(es) \cup {<<i, g + 1>>}
  BY <1>2, <1>4 DEF SpentOf
<1>6. QED
  BY <1>2, <1>3, <1>5

(* A live handle is one that can be given out.                             *)
LEMMA LiveHandle ==
  ASSUME TimerInv, NEW i \in Indices, IsLive(entries[i])
  PROVE  <<i, entries[i].generation>> \in Indices \X (1 .. MaxGeneration)
<1>1. entries[i].generation \in 0 .. MaxGeneration /\ MaxGeneration \in Nat
  BY InvSays, EntryFields, TimerConstants
<1>2. entries[i].generation > 0
  BY DEF TimerInv, UsableAgain
<1>3. QED
  BY <1>1, <1>2

(* What the promise's variables become in a step.                          *)
LEMMA DuesNext ==
  /\ ([h \in LiveHandles |-> DueAt(h[1])])' = DuesOf(entries', wheelCursor')
  /\ ({h \in Indices \X (1 .. MaxGeneration) : h[2] <= entries[h[1]].generation})'
       = SpentOf(entries')
<1>1. ([h \in LiveHandles |-> DueAt(h[1])])' = DuesOf(entries', wheelCursor')
  BY DEF LiveHandles, HandleOf, DueAt, DuesOf, HandlesOf
<1>2. ({h \in Indices \X (1 .. MaxGeneration) : h[2] <= entries[h[1]].generation})'
        = SpentOf(entries')
  BY DEF SpentOf
<1>3. QED
  BY <1>1, <1>2

(* The steps of the promise, in these terms: a timer is cancelled.         *)
LEMMA AlarmCancels ==
  ASSUME NEW h \in HandlesOf(entries),
         DuesOf(entries', wheelCursor') = DueWithout(DuesOf(entries, wheelCursor), h),
         wheelCursor' = wheelCursor, SpentOf(entries') = SpentOf(entries)
  PROVE  A!Cancel(h)
<1>1. DOMAIN DuesOf(entries, wheelCursor) = HandlesOf(entries)
  BY HandleIs
<1>2. h \in A!Pending
  BY <1>1, DuesAre DEF A!Pending
<1>3. A!Pending = HandlesOf(entries)
  BY <1>1, DuesAre DEF A!Pending
<1>4. QED
  BY <1>2, <1>3, DuesAre, DuesNext DEF A!Cancel, A!Pending, DueWithout

(* A timer is set.                                                         *)
LEMMA AlarmSets ==
  ASSUME NEW h, h \notin SpentOf(entries), NEW t, t >= wheelCursor,
         DuesOf(entries', wheelCursor') = DueSet(DuesOf(entries, wheelCursor), h, t),
         wheelCursor' = wheelCursor, SpentOf(entries') = SpentOf(entries) \cup {h}
  PROVE  A!Set(h, t)
<1>1. A!Pending = HandlesOf(entries)
  <2>1. DOMAIN DuesOf(entries, wheelCursor) = HandlesOf(entries)
    BY HandleIs
  <2>2. QED
    BY <2>1, DuesAre DEF A!Pending
<1>2. QED
  BY <1>1, DuesAre, DuesNext DEF A!Set, A!Pending, DueSet

(* A timer is moved.                                                       *)
LEMMA AlarmMoves ==
  ASSUME NEW h \in HandlesOf(entries), NEW t, t >= wheelCursor,
         DuesOf(entries', wheelCursor') = DueMoved(DuesOf(entries, wheelCursor), h, t),
         wheelCursor' = wheelCursor, SpentOf(entries') = SpentOf(entries)
  PROVE  A!Move(h, t)
<1>1. A!Pending = HandlesOf(entries)
  <2>1. DOMAIN DuesOf(entries, wheelCursor) = HandlesOf(entries)
    BY HandleIs
  <2>2. QED
    BY <2>1, DuesAre DEF A!Pending
<1>2. QED
  BY <1>1, DuesAre, DuesNext DEF A!Move, A!Pending, DueMoved

(* The clock moves.                                                        *)
LEMMA AlarmElapses ==
  ASSUME wheelCursor' >= wheelCursor,
         \A h \in HandlesOf(entries) : DuesOf(entries, wheelCursor)[h] >= wheelCursor',
         DuesOf(entries', wheelCursor') = DueAfter(DuesOf(entries, wheelCursor), wheelCursor'),
         SpentOf(entries') = SpentOf(entries)
  PROVE  A!Elapse(wheelCursor')
<1>1. A!Pending = HandlesOf(entries)
  <2>1. DOMAIN DuesOf(entries, wheelCursor) = HandlesOf(entries)
    BY HandleIs
  <2>2. QED
    BY <2>1, DuesAre DEF A!Pending
<1>2. QED
  BY <1>1, DuesAre, DuesNext DEF A!Elapse, A!Pending, DueAfter

(* What is due is due at a time that the promise may choose.               *)
LEMMA AlarmChooses ==
  ASSUME NEW h \in Indices \X (1 .. MaxGeneration), NEW t,
         h \in DOMAIN DuesOf(entries', wheelCursor'),
         DuesOf(entries', wheelCursor')[h] = t,
         A!Set(h, t) \/ A!Move(h, t)
  PROVE  A!Next
<1> DEFINE E == ([x \in LiveHandles |-> DueAt(x[1])])'
<1>1. E = DuesOf(entries', wheelCursor')
  BY DuesNext
<1> HIDE DEF E
<1>2. t \in {E[x] : x \in DOMAIN E}
  BY <1>1
<1>3. QED
  BY <1>2 DEF A!Next, E

(* An insertion sets a timer.                                              *)
LEMMA InsertSets ==
  ASSUME TimerInv, NEW i \in Indices, NEW d \in Nat, TryInsertAt(i, d)
  PROVE  A!Next
<1> DEFINE c == wheelCursor
           f == Filed(entries[i], c, d)
           e == [f EXCEPT !.generation = entries[i].generation + 1]
<1>1. entries[i].level = Free /\ d <= MaxTick /\ (d <= c \/ d - c <= MaxDelay)
      /\ wheelCursor' = c
  BY DEF TryInsertAt, Allocated, DeadlineFits
<1>2. entries' = [entries EXCEPT ![i] = e]
  BY DEF TryInsertAt, Allocated
<1>3. entries \in [Indices -> TimerEntries] /\ c \in Ticks /\ c \in Nat
  BY InvSays
<1>4. d \in Ticks
  BY <1>1, Limits DEF Ticks
<1>5. entries[i] \in TimerEntries /\ ~IsLive(entries[i])
      /\ entries[i].generation \in 0 .. MaxGeneration
  BY <1>1, <1>3, EntryFields DEF IsLive, Free
<1>6. PICK g \in Nat : g = entries[i].generation /\ g < MaxGeneration
  <2>1. entries[i].generation < MaxGeneration
    BY <1>1 DEF TimerInv, UsableAgain
  <2>2. QED
    BY <1>5, <2>1, TimerConstants
<1>7. f \in TimerEntries /\ IsLive(f) /\ f.deadline = d
  BY <1>1, <1>3, <1>4, <1>5, FiledIs
<1> HIDE DEF f
<1>8. e.deadline = d /\ e.level = f.level /\ e.generation = g + 1
  BY <1>6, <1>7 DEF TimerEntries
<1> HIDE DEF e
<1>9. IsLive(e)
  BY <1>7, <1>8 DEF IsLive
<1>h. PICK h : h = <<i, g + 1>>
  OBVIOUS
<1>t. PICK t : t = Max({d, c})
  OBVIOUS
<1>10. DuesOf(entries', c) = DueSet(DuesOf(entries, c), h, t)
  <2>1. DuesOf([entries EXCEPT ![i] = e], c) =
          DueSet(DuesOf(entries, c), <<i, e.generation>>, Max({e.deadline, c}))
    BY <1>3, <1>5, <1>9, DuesSet
  <2>2. QED
    BY <1>2, <1>8, <1>h, <1>t, <2>1
<1>11. /\ h \in Indices \X (1 .. MaxGeneration) /\ h \notin SpentOf(entries)
       /\ SpentOf(entries') = SpentOf(entries) \cup {h}
  <2>1. entries'[i].generation = g + 1 /\ \A j \in Indices : j # i => entries'[j] = entries[j]
    BY <1>2, <1>3, <1>8
  <2>2. QED
    BY <1>3, <1>6, <1>h, <2>1, SpentSet
<1>12. t >= c
  <2>1. d \in Int /\ c \in Int
    BY <1>3
  <2>2. Max({d, c}) = IF d >= c THEN d ELSE c
    BY <2>1, OfTwo
  <2>3. QED
    BY <1>t, <2>1, <2>2
<1>13. A!Set(h, t)
  BY <1>1, <1>10, <1>11, <1>12, AlarmSets
<1>14. h \in DOMAIN DuesOf(entries', wheelCursor') /\ DuesOf(entries', wheelCursor')[h] = t
  BY <1>1, <1>10 DEF DueSet
<1>15. QED
  BY <1>11, <1>13, <1>14, AlarmChooses

(* A reschedule moves one.                                                 *)
LEMMA RescheduleMoves ==
  ASSUME TimerInv, NEW i \in Indices, NEW g, NEW d \in Nat, RescheduleAt(i, g, d)
  PROVE  A!Next
<1> DEFINE c == wheelCursor
           e == Filed(entries[i], c, d)
<1>1. IsLive(entries[i]) /\ d <= MaxTick /\ (d <= c \/ d - c <= MaxDelay)
      /\ wheelCursor' = c
  BY DEF RescheduleAt, LiveIndex, DeadlineFits
<1>2. entries' = [entries EXCEPT ![i] = e]
  BY DEF RescheduleAt
<1>3. entries \in [Indices -> TimerEntries] /\ c \in Ticks /\ c \in Nat
  BY InvSays
<1>4. d \in Ticks
  BY <1>1, Limits DEF Ticks
<1>5. e \in TimerEntries /\ IsLive(e) /\ e.deadline = d
      /\ e.generation = entries[i].generation
  BY <1>1, <1>3, <1>4, FiledIs
<1> HIDE DEF e
<1>h. PICK h : h = <<i, entries[i].generation>>
  OBVIOUS
<1>t. PICK t : t = Max({d, c})
  OBVIOUS
<1>6. DuesOf(entries', c) = DueMoved(DuesOf(entries, c), h, t)
  <2>1. DuesOf([entries EXCEPT ![i] = e], c) =
          DueMoved(DuesOf(entries, c), <<i, e.generation>>, Max({e.deadline, c}))
    BY <1>1, <1>3, <1>5, DuesMove
  <2>2. QED
    BY <1>2, <1>5, <1>h, <1>t, <2>1
<1>7. SpentOf(entries') = SpentOf(entries)
  <2>1. \A j \in Indices : entries'[j].generation = entries[j].generation
    BY <1>2, <1>3, <1>5
  <2>2. QED
    BY <2>1, SameSpent
<1>8. h \in HandlesOf(entries) /\ h \in Indices \X (1 .. MaxGeneration)
      /\ DOMAIN DuesOf(entries, c) = HandlesOf(entries)
  BY <1>1, <1>h, HandleIs, LiveHandle
<1>9. t >= c
  <2>1. d \in Int /\ c \in Int
    BY <1>3
  <2>2. Max({d, c}) = IF d >= c THEN d ELSE c
    BY <2>1, OfTwo
  <2>3. QED
    BY <1>t, <2>1, <2>2
<1>10. A!Move(h, t)
  BY <1>1, <1>6, <1>7, <1>8, <1>9, AlarmMoves
<1>11. h \in DOMAIN DuesOf(entries', wheelCursor') /\ DuesOf(entries', wheelCursor')[h] = t
  BY <1>1, <1>6, <1>8 DEF DueMoved
<1>12. QED
  BY <1>8, <1>10, <1>11, AlarmChooses

(* A cancellation cancels one.                                             *)
LEMMA CancelCancels ==
  ASSUME TimerInv, NEW i \in Indices, NEW g, CancelTimer(i, g)
  PROVE  A!Next
<1> DEFINE c == wheelCursor
           e == Release(entries[i])
<1>1. IsLive(entries[i]) /\ wheelCursor' = c
  BY DEF CancelTimer, LiveIndex
<1>2. entries' = [entries EXCEPT ![i] = e]
  BY DEF CancelTimer
<1>3. entries \in [Indices -> TimerEntries]
  BY InvSays
<1>4. ~IsLive(e) /\ e.generation = entries[i].generation
  BY <1>3, Released
<1> HIDE DEF e
<1> DEFINE h == <<i, entries[i].generation>>
<1>5. DuesOf(entries', c) = DueWithout(DuesOf(entries, c), h)
  BY <1>1, <1>2, <1>3, <1>4, DuesCancel
<1>6. SpentOf(entries') = SpentOf(entries)
  <2>1. \A j \in Indices : entries'[j].generation = entries[j].generation
    BY <1>2, <1>3, <1>4
  <2>2. QED
    BY <2>1, SameSpent
<1>7. h \in HandlesOf(entries) /\ h \in Indices \X (1 .. MaxGeneration)
  BY <1>1, HandleIs, LiveHandle
<1> HIDE DEF h
<1>8. A!Cancel(h)
  BY <1>1, <1>5, <1>6, <1>7, AlarmCancels
<1>9. QED
  BY <1>7, <1>8 DEF A!Next

(* An iteration lets the clock reach the next event, and what goes off is  *)
(* what is due at it.                                                      *)
LEMMA StepElapsesAlarm ==
  ASSUME TimerInv, AdvanceStep
  PROVE  A!Next
<1> DEFINE c == wheelCursor
           n == nextEvent
<1>1. wheelCursor' = n
  BY StepElapses
<1>2. entries \in [Indices -> TimerEntries] /\ c \in Ticks /\ c \in Nat /\ n \in Nat
      /\ c <= n /\ Filing(entries, c) /\ Exact(entries, c, n)
  BY InvSays
<1>3. entries' \in [Indices -> TimerEntries]
  BY StepLeaves
<1>4. ASSUME NEW i \in Indices, IsLive(entries[i]), entries[i].deadline <= n
      PROVE  c = n \/ entries[i].deadline = n
  <2>1. entries[i] \in TimerEntries /\ WellFiled(entries[i], c) /\ n <= Wakeup(entries[i], c)
    BY <1>2, <1>4 DEF Filing, Exact
  <2>2. entries[i].deadline \in Nat /\ Wakeup(entries[i], c) \in Nat
    BY <1>2, <2>1, EntryFields, Wakes
  <2>3. CASE DueNow(entries[i], c)
    BY <1>2, <2>1, <2>2, <2>3, Wakes
  <2>4. CASE FiledFor(entries[i], c)
    <3>1. Wakeup(entries[i], c) <= entries[i].deadline
      BY <1>2, <2>1, <2>4, Wakes
    <3>2. QED
      BY <1>2, <1>4, <2>1, <2>2, <3>1
  <2>5. QED
    BY <2>1, <2>3, <2>4 DEF WellFiled
<1>5. RunOut(entries, entries', c, n)
  <2>1. SUFFICES ASSUME NEW i \in Indices
        PROVE  /\ entries'[i].generation = entries[i].generation
               /\ ~IsLive(entries[i]) => ~IsLive(entries'[i])
               /\ IsLive(entries[i]) /\ entries[i].deadline <= n =>
                    ~IsLive(entries'[i]) /\ (c = n \/ entries[i].deadline = n)
               /\ IsLive(entries[i]) /\ n < entries[i].deadline =>
                    IsLive(entries'[i]) /\ entries'[i].deadline = entries[i].deadline
    BY DEF RunOut
  <2>2. entries'[i].generation = entries[i].generation
    BY StepLeaves
  <2>3. ~IsLive(entries[i]) => ~IsLive(entries'[i])
    BY StepLeaves
  <2>4. IsLive(entries[i]) /\ entries[i].deadline <= n => ~IsLive(entries'[i])
    BY StepLeaves
  <2>5. IsLive(entries[i]) /\ n < entries[i].deadline =>
          IsLive(entries'[i]) /\ entries'[i].deadline = entries[i].deadline
    BY StepLeaves
  <2>6. QED
    BY <1>4, <2>2, <2>3, <2>4, <2>5
<1>6. SpentOf(entries') = SpentOf(entries)
  <2>1. \A i \in Indices : entries'[i].generation = entries[i].generation
    BY StepLeaves
  <2>2. QED
    BY <2>1, SameSpent
<1>7. /\ \A h \in HandlesOf(entries) : DuesOf(entries, c)[h] >= n
      /\ DuesOf(entries', n) = DueAfter(DuesOf(entries, c), n)
  BY <1>2, <1>3, <1>5, DuesElapse
<1>8. A!Elapse(wheelCursor')
  <2>1. wheelCursor' >= wheelCursor
    BY <1>1, <1>2
  <2>2. QED
    BY <1>1, <1>6, <1>7, <2>1, AlarmElapses
<1>9. QED
  BY <1>8 DEF A!Next

(* The end of an advance lets the clock reach the target; nothing is due.  *)
LEMMA EndElapsesAlarm ==
  ASSUME TimerInv, AdvanceEnd
  PROVE  A!Next
<1> DEFINE c == wheelCursor
           n == target
<1>1. wheelCursor' = n /\ entries' = entries /\ n # NoTarget
  BY DEF AdvanceEnd
<1>2. entries \in [Indices -> TimerEntries] /\ c \in Nat /\ n \in Nat /\ c <= n
  BY <1>1, InvSays, Limits DEF TimerInv
<1>3. RunOut(entries, entries, c, n)
  <2>1. SUFFICES ASSUME NEW i \in Indices, IsLive(entries[i]), entries[i].deadline <= n
                 PROVE  FALSE
    BY DEF RunOut
  <2>2. n < entries[i].deadline
    BY <2>1, EndsBeforeAll
  <2>3. entries[i].deadline \in Nat
    BY <1>2, EntryFields
  <2>4. QED
    BY <1>2, <2>1, <2>2, <2>3
<1>4. /\ \A h \in HandlesOf(entries) : DuesOf(entries, c)[h] >= n
      /\ DuesOf(entries, n) = DueAfter(DuesOf(entries, c), n)
  BY <1>2, <1>3, DuesElapse
<1>5. A!Elapse(wheelCursor')
  <2>1. wheelCursor' >= wheelCursor
    BY <1>1, <1>2
  <2>2. QED
    BY <1>1, <1>4, <2>1, AlarmElapses
<1>6. QED
  BY <1>5 DEF A!Next

(* A step that leaves cursor and entries alone is none of the promise's.   *)
LEMMA AlarmRests ==
  ASSUME entries' = entries, wheelCursor' = wheelCursor
  PROVE  UNCHANGED A!alarm
<1>1. /\ DuesOf(entries', wheelCursor') = DuesOf(entries, wheelCursor)
      /\ SpentOf(entries') = SpentOf(entries)
  OBVIOUS
<1>2. QED
  BY <1>1, DuesAre, DuesNext DEF A!alarm

(* Every step of the wheel is a step of the promise.                       *)
LEMMA TimerStepIsAlarm ==
  ASSUME TimerInv, [TimerNext]_timerVars
  PROVE  [A!Next]_(A!alarm)
<1>1. CASE UNCHANGED timerVars
  BY <1>1, AlarmRests DEF timerVars
<1>2. ASSUME NEW i \in Indices, NEW at \in Durations, TryInsertDuration(i, at) PROVE A!Next
  BY <1>2, DurationTicks, InsertSets DEF TryInsertDuration
<1>3. ASSUME NEW i \in Indices, NEW at \in Durations, NEW g \in 1 .. MaxGeneration,
             RescheduleDuration(i, g, at)
      PROVE  A!Next
  BY <1>3, DurationTicks, RescheduleMoves DEF RescheduleDuration
<1>4. ASSUME NEW i \in Indices, NEW g \in 1 .. MaxGeneration, CancelTimer(i, g) PROVE A!Next
  BY <1>4, CancelCancels
<1>5. ASSUME NEW at \in Durations, AdvanceDuration(at) PROVE UNCHANGED A!alarm
  BY <1>5, AlarmRests DEF AdvanceDuration, AdvanceTo
<1>6. CASE AdvanceStep
  BY <1>6, StepElapsesAlarm
<1>7. CASE AdvanceEnd
  BY <1>7, EndElapsesAlarm
<1>8. QED
  BY <1>1, <1>2, <1>3, <1>4, <1>5, <1>6, <1>7 DEF TimerNext

(* It starts as the promise does.                                          *)
LEMMA AlarmStarts ==
  ASSUME TimerInit
  PROVE  A!Init
<1>1. TimerInv
  BY TimerInvStarts
<1>2. wheelCursor \in Nat
  BY <1>1, InvSays
<1>3. \A i \in Indices : ~IsLive(entries[i]) /\ entries[i].generation = 0
  BY DEF TimerInit, IsLive, Free
<1>4. HandlesOf(entries) = {}
  BY <1>3, HandleIs
<1>5. SpentOf(entries) = {}
  BY <1>3, TimerConstants DEF SpentOf
<1>6. DuesOf(entries, wheelCursor) = [h \in {} |-> 0]
  BY <1>4 DEF DuesOf
<1>7. QED
  BY <1>2, <1>5, <1>6, DuesAre DEF A!Init

(* The wheel keeps the promise of Alarm for any number of levels, slots,   *)
(* entries and generations: an advance emits each timer exactly when the   *)
(* clock reaches its tick, in order, none early and none left behind,      *)
(* whatever is filed, moved or cancelled on the way.                       *)
THEOREM TimerImplementsAlarm == TimerSpec => ImplementsAlarm
BY AlarmStarts, TimerStepIsAlarm, TimerInvariant, PTL DEF TimerSpec, ImplementsAlarm, A!Spec

-----------------------------------------------------------------------------
(* Offload.                                                                *)

Stages == {"idle", "take", "refused", "park", "asleep", "finish", "spawn", "answer", "release",
           "any", "pass", "wake"}

Runs == [at : Stages, ticket : Tickets, permit : BOOLEAN, task : Nat, notified : BOOLEAN,
         waking : SUBSET Tasks]

(* Where a run has no ticket.                                              *)
Unlisted == {"idle", "park", "spawn", "answer", "release", "any", "pass", "wake"}

HeldIn(r) == [c \in Tasks |-> r[c].ticket]

(* What holds of one caller's run.                                         *)
Orderly(r, closing) ==
  /\ r.at \in Unlisted => r.ticket = NoTicket
  /\ r.at \in {"asleep", "finish"} => r.ticket # NoTicket
  /\ r.at # "wake" => r.waking = {}
  /\ r.at = "finish" => r.permit \/ closing

Underway(r) == {c \in Tasks : r[c].at # "idle"}

(* The runs and the wait list agree, and finitely many runs are under way. *)
Served ==
  /\ run \in [Tasks -> Runs]
  /\ permits \in Nat /\ runs \in Nat
  /\ \A c \in Tasks : Orderly(run[c], shut)
  /\ IsFiniteSet(Underway(run))
  /\ Sound(line) /\ WellFormed(line)
  /\ Owned(line, HeldIn(run), line.next_generation)
  /\ shut \in BOOLEAN
  /\ shut <=> closer.at # "idle"
  /\ closer.at \in {"idle", "list", "wake", "done"}
  /\ closer.waking \subseteq Tasks
  /\ closer.at \in {"wake", "done"} => line.closed /\ \A u \in Tickets : ~Live(line, u)

(* One caller's run changes, and the list with it if need be.              *)
LEMMA ServedMoves ==
  ASSUME Served, NEW c \in Tasks, NEW r \in Runs, Run(c, r), Orderly(r, shut),
         permits' \in Nat, runs' \in Nat, UNCHANGED <<shut, closer>>,
         Sound(line'), WellFormed(line'),
         Owned(line', [HeldIn(run) EXCEPT ![c] = r.ticket], line'.next_generation),
         closer.at \in {"wake", "done"} => line'.closed /\ \A u \in Tickets : ~Live(line', u)
  PROVE  Served' /\ \A d \in Tasks : run'[d] = IF d = c THEN r ELSE run[d]
<1>1. run \in [Tasks -> Runs] /\ run' = [run EXCEPT ![c] = r]
  BY DEF Served, Run
<1>2. run' \in [Tasks -> Runs] /\ \A d \in Tasks : run'[d] = IF d = c THEN r ELSE run[d]
  BY <1>1
<1>3. \A d \in Tasks : Orderly(run'[d], shut')
  BY <1>2 DEF Served
<1>4. IsFiniteSet(Underway(run'))
  <2>1. Underway(run') \subseteq Underway(run) \cup {c}
    BY <1>2 DEF Underway
  <2>2. IsFiniteSet(Underway(run) \cup {c})
    BY FS_AddElement DEF Served
  <2>3. QED
    BY <2>1, <2>2, FS_Subset
<1>5. HeldIn(run') = [HeldIn(run) EXCEPT ![c] = r.ticket]
  BY <1>2 DEF HeldIn
<1>6. QED
  BY <1>2, <1>3, <1>4, <1>5 DEF Served

(* The same for a step that leaves the list and the ticket alone.          *)
LEMMA ServedGoes ==
  ASSUME Served, NEW c \in Tasks, NEW r \in Runs, Run(c, r), Orderly(r, shut),
         permits' \in Nat, runs' \in Nat, UNCHANGED <<shut, closer, line>>,
         r.ticket = run[c].ticket
  PROVE  Served' /\ \A d \in Tasks : run'[d] = IF d = c THEN r ELSE run[d]
<1>1. [HeldIn(run) EXCEPT ![c] = r.ticket] = HeldIn(run)
  BY DEF HeldIn
<1>2. QED
  BY <1>1, ServedMoves DEF Served

(* A run's next record is a run.                                           *)
LEMMA RunsChange ==
  ASSUME NEW r \in Runs, NEW place \in Stages
  PROVE  /\ [r EXCEPT !.at = place] \in Runs
         /\ [r EXCEPT !.at = place].at = place /\ [r EXCEPT !.at = place].ticket = r.ticket
         /\ [r EXCEPT !.at = place].waking = r.waking /\ [r EXCEPT !.at = place].permit = r.permit
         /\ [r EXCEPT !.at = place].notified = r.notified
BY DEF Runs

(* The steps that only take a caller from one place to another.            *)
LEMMA ServedSteps ==
  ASSUME Served, NEW c \in Tasks, NEW place \in Stages, At(c, place),
         permits' = permits, runs' = runs, UNCHANGED <<shut, closer, line>>,
         run[c].at # "wake", place # "wake",
         place \in Unlisted => run[c].ticket = NoTicket,
         place \in {"asleep", "finish"} => run[c].ticket # NoTicket,
         place = "finish" => run[c].permit \/ shut
  PROVE  /\ Served'
         /\ \A d \in Tasks : run'[d] = IF d = c THEN [run[c] EXCEPT !.at = place] ELSE run[d]
<1>1. run[c] \in Runs /\ Orderly(run[c], shut) /\ permits \in Nat /\ runs \in Nat
  BY DEF Served
<1>2. PICK r : r = [run[c] EXCEPT !.at = place]
  OBVIOUS
<1>3. /\ r \in Runs /\ r.at = place /\ r.ticket = run[c].ticket /\ r.waking = run[c].waking
      /\ r.permit = run[c].permit
  BY <1>1, <1>2, RunsChange
<1>4. Run(c, r) /\ Orderly(r, shut)
  BY <1>1, <1>2, <1>3 DEF At, Orderly
<1>5. QED
  BY <1>1, <1>2, <1>3, <1>4, ServedGoes

-----------------------------------------------------------------------------
(* Permits, and the callers that were promised one.                        *)

Promised(c) ==
  \/ run[c].at \in {"any", "pass"}
  \/ /\ run[c].ticket # NoTicket /\ ~Live(line, run[c].ticket)
     /\ \/ run[c].at = "take"
        \/ /\ run[c].at \in {"refused", "asleep"}
           /\ run[c].notified \/ \E d \in Tasks : c \in run[d].waking

Promises == {c \in Tasks : Promised(c)}

(* A caller that found no permit and relies on being woken.                *)
Waits(c) == run[c].at \in {"refused", "asleep"} /\ Live(line, run[c].ticket)

(* While anyone relies on it, there is a wake under way for every free     *)
(* permit, unless one was spent on a caller that already had its own.      *)
Enough ==
  \/ wasted
  \/ closer.at = "list"
  \/ (\E c \in Tasks : Waits(c)) => Cardinality(Promises) >= permits

(* Promised callers are busy, so there are finitely many.                  *)
LEMMA PromisesCount ==
  Served => IsFiniteSet(Promises) /\ Cardinality(Promises) \in Nat
<1> HAVE Served
<1>1. Promises \subseteq Underway(run)
  BY DEF Promises, Promised, Underway
<1>2. IsFiniteSet(Promises)
  BY <1>1, FS_Subset DEF Served
<1>3. QED
  BY <1>2, FS_CardinalityType

(* What is promised to a caller depends on its own state, and on the       *)
(* wakers others hold.                                                     *)
LEMMA PromiseStays ==
  ASSUME NEW d \in Tasks, run'[d].at = run[d].at, run'[d].ticket = run[d].ticket,
         Live(line', run[d].ticket) <=> Live(line, run[d].ticket)
  PROVE  /\ Waits(d)' <=> Waits(d)
         /\ /\ run[d].notified => run'[d].notified
            /\ (\E e \in Tasks : d \in run[e].waking) =>
                 (run'[d].notified \/ \E e \in Tasks : d \in run'[e].waking)
            /\ Promised(d)
            => Promised(d)'
<1>1. Waits(d)' <=> Waits(d)
  BY DEF Waits
<1>2. ASSUME run[d].notified => run'[d].notified, Promised(d),
             (\E e \in Tasks : d \in run[e].waking) =>
               (run'[d].notified \/ \E e \in Tasks : d \in run'[e].waking)
      PROVE  Promised(d)'
  BY <1>2 DEF Promised
<1>3. QED
  BY <1>1, <1>2

(* A step that leaves nobody registered owes nothing more.                 *)
LEMMA NobodyWaits ==
  ASSUME \A u \in Tickets : ~Live(line', u), Served'
  PROVE  Enough'
<1>1. \A c \in Tasks : run'[c] \in Runs
  BY DEF Served
<1>2. \A c \in Tasks : run'[c].ticket \in Tickets
  BY <1>1 DEF Runs
<1>3. \A c \in Tasks : ~Waits(c)'
  BY <1>2 DEF Waits
<1>4. QED
  BY <1>3 DEF Enough

(* The books balance over a step by which permits and promises change.     *)
LEMMA EnoughBalances ==
  ASSUME Enough, Served, Served', NEW n \in Int, wasted => wasted', closer' = closer,
         (\E c \in Tasks : Waits(c)') => (\E c \in Tasks : Waits(c)),
         permits' <= permits + n, Cardinality(Promises') >= Cardinality(Promises) + n
  PROVE  Enough'
<1>1. Cardinality(Promises) \in Nat /\ permits \in Nat /\ permits' \in Nat
  BY PromisesCount DEF Served
<1>2. (Served => IsFiniteSet(Promises) /\ Cardinality(Promises) \in Nat)'
  BY PromisesCount, PTL
<1>3. ASSUME ~wasted', closer.at # "list", \E c \in Tasks : Waits(c)'
      PROVE  Cardinality(Promises') >= permits'
  <2>1. Cardinality(Promises) >= permits
    BY <1>3 DEF Enough
  <2>2. QED
    BY <1>1, <1>2, <2>1
<1>4. QED
  BY <1>3 DEF Enough

(* One caller takes a step that leaves the others' registrations alone: it *)
(* may lose its promise only for the permit it took, and may come to rely  *)
(* on a wake only if no permit is free.                                    *)
LEMMA CallerEnough ==
  ASSUME Enough, Served, Served', NEW c \in Tasks, NEW r,
         \A d \in Tasks : run'[d] = IF d = c THEN r ELSE run[d],
         \A d \in Tasks : d # c => (Live(line', run[d].ticket) <=> Live(line, run[d].ticket)),
         UNCHANGED <<closer, wasted>>, r.waking = run[c].waking,
         \/ permits' = permits /\ (Promised(c) => Promised(c)') /\ (Waits(c)' => Waits(c))
         \/ permits' = permits - 1 /\ ~Waits(c)'
         \/ permits' = permits + 1 /\ ~Promised(c) /\ Promised(c)' /\ ~Waits(c)'
         \/ permits' = 0
  PROVE  Enough'
<1>1. \A d \in Tasks : run'[d].waking = run[d].waking
  OBVIOUS
<1>2. ASSUME NEW d \in Tasks, d # c
      PROVE  (Waits(d)' <=> Waits(d)) /\ (Promised(d) => Promised(d)')
  <2>1. run'[d] = run[d] /\ (Live(line', run[d].ticket) <=> Live(line, run[d].ticket))
    BY <1>2
  <2>2. (\E e \in Tasks : d \in run[e].waking) => \E e \in Tasks : d \in run'[e].waking
    BY <1>1
  <2>3. QED
    BY <2>1, <2>2, PromiseStays
<1>3. IsFiniteSet(Promises) /\ Cardinality(Promises) \in Nat /\ permits \in Nat
  BY PromisesCount DEF Served
<1>4. (Served => IsFiniteSet(Promises) /\ Cardinality(Promises) \in Nat)'
  BY PromisesCount, PTL
<1>5. PICK P, Q : P = Promises /\ Q = Promises'
  OBVIOUS
<1>6. P \ {c} \subseteq Q /\ (Promised(c)' <=> c \in Q) /\ (Promised(c) <=> c \in P)
  BY <1>2, <1>5 DEF Promises
<1>7. ~Waits(c)' \/ Waits(c) => ((\E d \in Tasks : Waits(d)') => \E d \in Tasks : Waits(d))
  BY <1>2
<1>8. wasted => wasted'
  OBVIOUS
<1>9. CASE permits' = permits /\ (Promised(c) => Promised(c)') /\ (Waits(c)' => Waits(c))
  <2>1. P \subseteq Q
    BY <1>6, <1>9
  <2>2. Cardinality(P) <= Cardinality(Q)
    BY <1>3, <1>4, <1>5, <2>1, FS_Subset
  <2>3. PICK n \in Int : n = 0
    OBVIOUS
  <2>4. permits' <= permits + n /\ Cardinality(Promises') >= Cardinality(Promises) + n
    BY <1>3, <1>4, <1>5, <1>9, <2>2, <2>3
  <2>5. QED
    BY <1>7, <1>8, <1>9, <2>4, EnoughBalances
<1>10. CASE permits' = permits - 1 /\ ~Waits(c)'
  <2>1. IsFiniteSet(P \ {c}) /\ Cardinality(P \ {c}) = IF c \in P THEN Cardinality(P) - 1 ELSE Cardinality(P)
    BY <1>3, <1>5, FS_RemoveElement
  <2>2. Cardinality(P \ {c}) <= Cardinality(Q)
    BY <1>4, <1>5, <1>6, FS_Subset
  <2>3. PICK n \in Int : n = -1
    OBVIOUS
  <2>4. permits' <= permits + n /\ Cardinality(Promises') >= Cardinality(Promises) + n
    BY <1>3, <1>4, <1>5, <1>10, <2>1, <2>2, <2>3
  <2>5. QED
    BY <1>7, <1>8, <1>10, <2>4, EnoughBalances
<1>11. CASE permits' = permits + 1 /\ ~Promised(c) /\ Promised(c)' /\ ~Waits(c)'
  <2>1. IsFiniteSet(P \cup {c}) /\ Cardinality(P \cup {c}) = Cardinality(P) + 1
    BY <1>3, <1>5, <1>6, <1>11, FS_AddElement
  <2>2. P \cup {c} \subseteq Q
    BY <1>6, <1>11
  <2>3. Cardinality(P \cup {c}) <= Cardinality(Q)
    BY <1>4, <1>5, <2>2, FS_Subset
  <2>4. PICK n \in Int : n = 1
    OBVIOUS
  <2>5. permits' <= permits + n /\ Cardinality(Promises') >= Cardinality(Promises) + n
    BY <1>3, <1>4, <1>5, <1>11, <2>1, <2>3, <2>4
  <2>6. QED
    BY <1>7, <1>8, <1>11, <2>5, EnoughBalances
<1>12. CASE permits' = 0
  BY <1>4, <1>12 DEF Enough
<1>13. QED
  BY <1>9, <1>10, <1>11, <1>12

-----------------------------------------------------------------------------
(* The steps.                                                              *)

(* A caller that moves on without a wake, a permit or the list changing.   *)
LEMMA EnoughGoes ==
  ASSUME Enough, Served, NEW c \in Tasks,
         \/ NoPermit(c) \/ FindClosed(c) \/ Retry(c) \/ ParkRefused(c) \/ SpawnTask(c)
         \/ ReceiveAnswer(c) \/ DropRun(c) \/ LookForWaiters(c)
  PROVE  Served' /\ Enough'
<1>1. /\ run[c] \in Runs /\ Orderly(run[c], shut) /\ permits \in Nat /\ runs \in Nat
      /\ UNCHANGED <<permits, runs, shut, closer, line, wasted>>
  BY DEF Served, NoPermit, FindClosed, Retry, ParkRefused, SpawnTask, ReceiveAnswer, DropRun,
     LookForWaiters, semaphore
<1>2. ASSUME NEW place \in Stages, At(c, place), run[c].at # "wake", place # "wake",
             place \in Unlisted => run[c].ticket = NoTicket,
             place \in {"asleep", "finish"} => run[c].ticket # NoTicket,
             place = "finish" => run[c].permit \/ shut
      PROVE  /\ Served' /\ run'[c].at = place
             /\ run'[c].ticket = run[c].ticket /\ run'[c].notified = run[c].notified
             /\ \/ permits' = 0
                \/ (Promised(c) => Promised(c)') /\ (Waits(c)' => Waits(c))
                => Enough'
  <2>1. PICK r : r = [run[c] EXCEPT !.at = place]
    OBVIOUS
  <2>2. Served' /\ \A d \in Tasks : run'[d] = IF d = c THEN r ELSE run[d]
    BY <1>1, <1>2, <2>1, ServedSteps
  <2>3. /\ r.at = place /\ r.ticket = run[c].ticket /\ r.waking = run[c].waking
        /\ r.notified = run[c].notified
    BY <1>1, <2>1, RunsChange
  <2>4. \/ permits' = 0
        \/ (Promised(c) => Promised(c)') /\ (Waits(c)' => Waits(c))
        => Enough'
    BY <1>1, <2>2, <2>3, CallerEnough
  <2>5. QED
    BY <2>2, <2>3, <2>4
<1>3. CASE NoPermit(c)
  <2>1. At(c, "refused") /\ run[c].at = "take" /\ permits' = 0
    BY <1>1, <1>3 DEF NoPermit
  <2>2. QED
    BY <1>2, <2>1 DEF Stages, Unlisted
<1>4. CASE FindClosed(c)
  <2>1. PICK place \in {"idle", "finish"} :
          /\ place = IF run[c].ticket = NoTicket THEN "idle" ELSE "finish"
          /\ At(c, place) /\ run[c].at = "refused" /\ shut
    BY <1>4 DEF FindClosed
  <2>2. Served'
    BY <1>2, <2>1 DEF Stages, Unlisted
  <2>3. closer.at \in {"list", "wake", "done"}
    BY <2>1 DEF Served
  <2>4. CASE closer.at = "list"
    BY <1>1, <2>2, <2>4 DEF Enough
  <2>5. CASE closer.at \in {"wake", "done"}
    <3>1. \A u \in Tickets : ~Live(line', u)
      BY <1>1, <2>5 DEF Served
    <3>2. QED
      BY <2>2, <3>1, NobodyWaits
  <2>6. QED
    BY <2>2, <2>3, <2>4, <2>5
<1>5. CASE Retry(c)
  <2>1. PICK place \in {"park", "asleep"} :
          /\ place = IF run[c].ticket = NoTicket THEN "park" ELSE "asleep"
          /\ At(c, place) /\ run[c].at = "refused"
    BY <1>5 DEF Retry
  <2>2. /\ Served' /\ run'[c].at = place
        /\ run'[c].ticket = run[c].ticket /\ run'[c].notified = run[c].notified
        /\ (Promised(c) => Promised(c)') /\ (Waits(c)' => Waits(c)) => Enough'
    BY <1>2, <2>1 DEF Stages, Unlisted
  <2>3. PICK r : \A d \in Tasks : run'[d] = IF d = c THEN r ELSE run[d]
    BY <2>1 DEF At, Run, Served
  <2>4. r = run'[c] /\ r.waking = run[c].waking
    <3>1. run' = [run EXCEPT ![c] = [run[c] EXCEPT !.at = place]]
      BY <2>1 DEF At, Run
    <3>2. run'[c] = [run[c] EXCEPT !.at = place]
      BY <3>1 DEF Served
    <3>3. QED
      BY <1>1, <2>1, <2>3, <3>2 DEF Runs
  <2>5. \A d \in Tasks : run'[d].waking = run[d].waking
    BY <2>3, <2>4
  <2>6. Promised(c) => Promised(c)'
    BY <1>1, <2>1, <2>2, <2>5 DEF Promised
  <2>7. Waits(c)' => Waits(c)
    BY <1>1, <2>1, <2>2 DEF Waits
  <2>8. QED
    BY <2>2, <2>6, <2>7
<1>6. ASSUME NEW place \in {"idle", "answer", "release"}, At(c, place),
             run[c].at \in {"park", "spawn", "answer"}
      PROVE  Served' /\ Enough'
  <2>1. run[c].ticket = NoTicket
    BY <1>1, <1>6 DEF Orderly, Unlisted
  <2>2. /\ Served' /\ run'[c].at = place
        /\ (Promised(c) => Promised(c)') /\ (Waits(c)' => Waits(c)) => Enough'
    BY <1>2, <1>6, <2>1 DEF Stages, Unlisted
  <2>3. ~Promised(c) /\ ~Waits(c)'
    BY <1>6, <2>2 DEF Promised, Waits
  <2>4. QED
    BY <2>2, <2>3
<1>7. CASE ParkRefused(c) \/ SpawnTask(c) \/ ReceiveAnswer(c) \/ DropRun(c)
  BY <1>6, <1>7 DEF ParkRefused, SpawnTask, ReceiveAnswer, DropRun
<1>8. CASE LookForWaiters(c)
  <2>1. PICK place \in {"idle", "pass"} :
          /\ place = IF line.waiting = 0 THEN "idle" ELSE "pass"
          /\ At(c, place) /\ run[c].at = "any"
    BY <1>8 DEF LookForWaiters
  <2>2. run[c].ticket = NoTicket
    BY <1>1, <2>1 DEF Orderly, Unlisted
  <2>3. /\ Served' /\ run'[c].at = place
        /\ (Promised(c) => Promised(c)') /\ (Waits(c)' => Waits(c)) => Enough'
    BY <1>2, <2>1, <2>2 DEF Stages, Unlisted
  <2>4. CASE line.waiting = 0
    <3>1. \A u \in Tickets : ~Live(line, u)
      BY <2>4, NobodyWaiting DEF Served, Sound
    <3>2. QED
      BY <1>1, <2>3, <3>1, NobodyWaits
  <2>5. CASE line.waiting # 0
    <3>1. Promised(c)' /\ ~Waits(c)'
      BY <2>1, <2>3, <2>5 DEF Promised, Waits
    <3>2. QED
      BY <2>3, <3>1
  <2>6. QED
    BY <2>4, <2>5
<1>9. QED
  BY <1>3, <1>4, <1>5, <1>7, <1>8

(* A run begins; a permit is taken, or given back: the return promises it. *)
LEMMA PermitEnough ==
  ASSUME Enough, Served, NEW c \in Tasks, BeginRun(c) \/ TakePermit(c) \/ ReleasePermit(c)
  PROVE  Served' /\ Enough'
<1>1. /\ run[c] \in Runs /\ Orderly(run[c], shut) /\ permits \in Nat /\ runs \in Nat
      /\ UNCHANGED <<shut, closer, line, wasted>>
  BY DEF Served, BeginRun, TakePermit, ReleasePermit, semaphore
<1>2. CASE BeginRun(c)
  <2>1. PICK r : r = [NoRun EXCEPT !.at = "take", !.task = runs + 1]
    OBVIOUS
  <2>2. Run(c, r) /\ run[c].at = "idle" /\ permits' = permits /\ runs' = runs + 1
    BY <1>2, <2>1 DEF BeginRun, semaphore
  <2>3. NoTicket \in Tickets
    BY DEF NoTicket, Tickets
  <2>4. /\ r \in Runs /\ r.at = "take" /\ r.ticket = NoTicket /\ r.waking = {}
    <3>1. r = [at |-> "take", ticket |-> NoTicket, permit |-> FALSE, task |-> runs + 1,
               notified |-> FALSE, waking |-> {}]
      BY <2>1 DEF NoRun
    <3>2. runs + 1 \in Nat
      BY <1>1
    <3>3. QED
      BY <2>3, <3>1, <3>2 DEF Runs, Stages
  <2>5. run[c].ticket = NoTicket /\ run[c].waking = {}
    BY <1>1, <2>2 DEF Orderly, Unlisted
  <2>6. Orderly(r, shut)
    BY <2>4 DEF Orderly, Unlisted
  <2>7. Served' /\ \A d \in Tasks : run'[d] = IF d = c THEN r ELSE run[d]
    BY <1>1, <2>2, <2>4, <2>5, <2>6, ServedGoes
  <2>8. ~Promised(c) /\ ~Waits(c)'
    BY <2>2, <2>4, <2>7 DEF Promised, Waits
  <2>9. QED
    BY <1>1, <2>2, <2>4, <2>5, <2>7, <2>8, CallerEnough
<1>3. CASE TakePermit(c)
  <2>1. PICK place \in {"spawn", "finish"} :
          place = IF run[c].ticket = NoTicket THEN "spawn" ELSE "finish"
    OBVIOUS
  <2>2. PICK r : r = [run[c] EXCEPT !.permit = TRUE, !.at = place]
    OBVIOUS
  <2>3. Run(c, r) /\ run[c].at = "take" /\ permits' = permits - 1 /\ permits > 0 /\ runs' = runs
    BY <1>3, <2>1, <2>2 DEF TakePermit
  <2>4. /\ r \in Runs /\ r.at = place /\ r.ticket = run[c].ticket /\ r.waking = run[c].waking /\ r.permit
    BY <1>1, <2>2 DEF Runs, Stages
  <2>5. Orderly(r, shut)
    BY <1>1, <2>1, <2>3, <2>4 DEF Orderly, Unlisted
  <2>6. Served' /\ \A d \in Tasks : run'[d] = IF d = c THEN r ELSE run[d]
    BY <1>1, <2>3, <2>4, <2>5, ServedGoes
  <2>7. ~Waits(c)'
    BY <2>4, <2>6 DEF Waits
  <2>8. QED
    BY <1>1, <2>3, <2>4, <2>6, <2>7, CallerEnough
<1>4. CASE ReleasePermit(c)
  <2>1. PICK r : r = [run[c] EXCEPT !.permit = FALSE, !.at = "any"]
    OBVIOUS
  <2>2. Run(c, r) /\ run[c].at = "release" /\ permits' = permits + 1 /\ runs' = runs
    BY <1>4, <2>1 DEF ReleasePermit
  <2>3. /\ r \in Runs /\ r.at = "any" /\ r.ticket = run[c].ticket /\ r.waking = run[c].waking
    BY <1>1, <2>1 DEF Runs, Stages
  <2>4. Orderly(r, shut)
    BY <1>1, <2>2, <2>3 DEF Orderly, Unlisted
  <2>5. Served' /\ \A d \in Tasks : run'[d] = IF d = c THEN r ELSE run[d]
    BY <1>1, <2>2, <2>3, <2>4, ServedGoes
  <2>6. ~Promised(c) /\ Promised(c)' /\ ~Waits(c)'
    <3>1. run[c].ticket = NoTicket
      BY <1>1, <2>2 DEF Orderly, Unlisted
    <3>2. QED
      BY <2>2, <2>3, <2>5, <3>1 DEF Promised, Waits
  <2>7. QED
    BY <1>1, <2>2, <2>3, <2>5, <2>6, CallerEnough
<1>5. QED
  BY <1>2, <1>3, <1>4

(* The steps that register a caller, name it again, or end its             *)
(* registration: a dropped wait that had been woken keeps its promise.     *)
LEMMA ListEnough ==
  ASSUME Enough, Served, NEW c \in Tasks,
         ParkCaller(c) \/ PollCaller(c) \/ FinishWait(c) \/ AbandonWait(c)
  PROVE  Served' /\ Enough'
<1>1. /\ run[c] \in Runs /\ Orderly(run[c], shut) /\ permits \in Nat /\ runs \in Nat
      /\ UNCHANGED <<permits, runs, shut, closer, wasted>>
      /\ Sound(line) /\ WellFormed(line)
  BY DEF Served, ParkCaller, PollCaller, FinishWait, AbandonWait
<1>2. PICK held : held = HeldIn(run)
  OBVIOUS
<1>3. /\ Owned(line, held, line.next_generation) /\ held[c] = run[c].ticket
      /\ \A d \in Tasks : held[d] = run[d].ticket
  BY <1>2 DEF Served, HeldIn
<1>4. run[c].ticket \in Tickets
  BY <1>1 DEF Runs
<1>5. CASE ParkCaller(c)
  <2>1. PICK t : t = ParkTicket(line)
    OBVIOUS
  <2>2. PICK r : r = [run[c] EXCEPT !.at = "take", !.ticket = t]
    OBVIOUS
  <2>3. run[c].at = "park" /\ ~line.closed /\ line' = Park(line, c) /\ Run(c, r)
    BY <1>5, <2>1, <2>2 DEF ParkCaller
  <2>4. run[c].ticket = NoTicket /\ run[c].waking = {}
    BY <1>1, <2>3 DEF Orderly, Unlisted
  <2>5. /\ Sound(line') /\ WellFormed(line') /\ t \in Tickets /\ t # NoTicket
        /\ Owned(line', [held EXCEPT ![c] = t], line'.next_generation)
        /\ \A d \in Tasks : Live(line', held[d]) <=> Live(line, held[d])
    BY <1>1, <1>3, <2>1, <2>3, <2>4, OwnedParks
  <2>6. r \in Runs /\ r.at = "take" /\ r.ticket = t /\ r.waking = run[c].waking
    BY <1>1, <2>2, <2>5 DEF Runs, Stages
  <2>7. Orderly(r, shut)
    BY <2>4, <2>5, <2>6 DEF Orderly, Unlisted
  <2>8. closer.at \notin {"wake", "done"}
    BY <2>3 DEF Served
  <2>9. Served' /\ \A d \in Tasks : run'[d] = IF d = c THEN r ELSE run[d]
    BY <1>1, <1>2, <2>3, <2>5, <2>6, <2>7, <2>8, ServedMoves
  <2>10. ~Promised(c) /\ ~Waits(c)'
    BY <2>3, <2>6, <2>9 DEF Promised, Waits
  <2>11. QED
    BY <1>1, <1>3, <2>5, <2>6, <2>9, <2>10, CallerEnough
<1>6. CASE PollCaller(c)
  <2>1. PICK r : r = [run[c] EXCEPT !.at = "take", !.notified = FALSE]
    OBVIOUS
  <2>2. run[c].at = "asleep" /\ Run(c, r) /\ line' = Refresh(line, held[c], c)
    BY <1>3, <1>6, <2>1 DEF PollCaller
  <2>3. line' = line
    BY <1>1, <1>3, <2>2, OwnedRefreshes
  <2>4. r \in Runs /\ r.at = "take" /\ r.ticket = run[c].ticket /\ r.waking = run[c].waking
    BY <1>1, <2>1 DEF Runs, Stages
  <2>5. Orderly(r, shut)
    BY <1>1, <2>2, <2>4 DEF Orderly, Unlisted
  <2>6. Served' /\ \A d \in Tasks : run'[d] = IF d = c THEN r ELSE run[d]
    BY <1>1, <2>2, <2>3, <2>4, <2>5, ServedGoes
  <2>7. (Promised(c) => Promised(c)') /\ ~Waits(c)'
    BY <2>2, <2>3, <2>4, <2>6 DEF Promised, Waits
  <2>8. QED
    BY <1>1, <2>3, <2>4, <2>6, <2>7, CallerEnough
<1>7. ASSUME NEW r \in Runs, Run(c, r), r.ticket = NoTicket, r.waking = run[c].waking,
             r.at \in {"spawn", "idle", "pass"}, run[c].at \in {"finish", "asleep"},
             line' = Cancel(line, run[c].ticket),
             run[c].at = "asleep" /\ ~Live(line, run[c].ticket) => r.at = "pass"
      PROVE  Served' /\ Enough'
  <2>1. run[c].ticket # NoTicket /\ run[c].waking = {}
    BY <1>1, <1>7 DEF Orderly
  <2>2. /\ Sound(line') /\ WellFormed(line')
        /\ Owned(line', [held EXCEPT ![c] = NoTicket], line'.next_generation)
        /\ \A d \in Tasks : d # c => (Live(line', held[d]) <=> Live(line, held[d]))
    BY <1>1, <1>3, <1>7, <2>1, OwnedEnds
  <2>3. Orderly(r, shut)
    BY <1>7, <2>1 DEF Orderly, Unlisted
  <2>4. line'.closed = line.closed /\ \A u \in Tickets : Live(line', u) => Live(line, u)
    <3>1. PICK u \in Tickets : u = run[c].ticket
      BY <1>4
    <3>2. Cancel(line, u).closed = line.closed /\ Without(Cancel(line, u), line, u)
      BY <1>1, Cancelling
    <3>3. QED
      BY <1>7, <3>1, <3>2 DEF Without
  <2>5. closer.at \in {"wake", "done"} => line'.closed /\ \A u \in Tickets : ~Live(line', u)
    BY <2>4 DEF Served
  <2>6. Served' /\ \A d \in Tasks : run'[d] = IF d = c THEN r ELSE run[d]
    BY <1>1, <1>2, <1>7, <2>2, <2>3, <2>5, ServedMoves
  <2>7. (Promised(c) => Promised(c)') /\ ~Waits(c)'
    BY <1>7, <2>6 DEF Promised, Waits
  <2>8. QED
    BY <1>1, <1>3, <1>7, <2>2, <2>6, <2>7, CallerEnough
<1>8. NoTicket \in Tickets
  BY DEF NoTicket, Tickets
<1>9. CASE FinishWait(c)
  <2>1. PICK place \in {"spawn", "idle"} : place = IF run[c].permit THEN "spawn" ELSE "idle"
    OBVIOUS
  <2>2. PICK r : r = [run[c] EXCEPT !.ticket = NoTicket, !.at = place]
    OBVIOUS
  <2>3. r \in Runs /\ r.at = place /\ r.ticket = NoTicket /\ r.waking = run[c].waking
    BY <1>1, <1>8, <2>2 DEF Runs, Stages
  <2>4. Run(c, r) /\ run[c].at = "finish" /\ line' = Cancel(line, run[c].ticket)
    BY <1>9, <2>1, <2>2 DEF FinishWait
  <2>5. QED
    BY <1>7, <2>3, <2>4
<1>10. CASE AbandonWait(c)
  <2>1. PICK place \in {"idle", "pass"} : place = IF Live(line, run[c].ticket) THEN "idle" ELSE "pass"
    OBVIOUS
  <2>2. PICK r : r = [run[c] EXCEPT !.ticket = NoTicket, !.notified = FALSE, !.at = place]
    OBVIOUS
  <2>3. r \in Runs /\ r.at = place /\ r.ticket = NoTicket /\ r.waking = run[c].waking
    BY <1>1, <1>8, <2>2 DEF Runs, Stages
  <2>4. Run(c, r) /\ run[c].at = "asleep" /\ line' = Cancel(line, run[c].ticket)
    BY <1>10, <2>1, <2>2 DEF AbandonWait
  <2>5. QED
    BY <1>7, <2>1, <2>3, <2>4
<1>11. QED
  BY <1>5, <1>6, <1>9, <1>10

(* wake_one: the promise goes from the caller to the one it takes out of   *)
(* the list, unless nobody is there or that one has its permit already.    *)
LEMMA HandOnEnough ==
  ASSUME Enough, Served, NEW c \in Tasks, HandOn(c)
  PROVE  Served' /\ Enough'
<1>1. /\ run[c] \in Runs /\ Orderly(run[c], shut) /\ permits \in Nat /\ runs \in Nat
      /\ UNCHANGED <<permits, runs, shut, closer>> /\ line' = WakeOne(line) /\ run[c].at = "pass"
      /\ Sound(line) /\ WellFormed(line)
      /\ wasted' = (wasted \/ (Woken(line) # NoWaker /\ run[Woken(line)].permit))
  BY DEF Served, HandOn
<1>2. PICK held : held = HeldIn(run)
  OBVIOUS
<1>3. Owned(line, held, line.next_generation) /\ \A d \in Tasks : held[d] = run[d].ticket
  BY <1>2 DEF Served, HeldIn
<1>4. /\ Sound(line') /\ WellFormed(line') /\ Owned(line', held, line'.next_generation)
      /\ \/ Woken(line) = NoWaker /\ \A u \in Tickets : ~Live(line, u) /\ ~Live(line', u)
         \/ /\ Woken(line) \in Tasks /\ Woken(line) # NoWaker
            /\ Live(line, held[Woken(line)]) /\ ~Live(line', held[Woken(line)])
            /\ held[Woken(line)] # NoTicket
            /\ \A r \in Tasks : r # Woken(line) => (Live(line', held[r]) <=> Live(line, held[r]))
  BY <1>1, <1>3, OwnedTakes
<1>5. PICK place, hand :
        /\ place = IF Woken(line) = NoWaker THEN "idle" ELSE "wake"
        /\ hand = {Woken(line)} \ {NoWaker}
  OBVIOUS
<1>6. PICK r : r = [run[c] EXCEPT !.waking = hand, !.at = place]
  OBVIOUS
<1>7. Run(c, r)
  BY <1>5, <1>6 DEF HandOn
<1>8. r \in Runs /\ r.at = place /\ r.ticket = run[c].ticket /\ r.waking = hand
  <2>1. hand \subseteq Tasks /\ place \in {"idle", "wake"}
    BY <1>4, <1>5
  <2>2. QED
    BY <1>1, <1>6, <2>1 DEF Runs, Stages
<1>9. run[c].ticket = NoTicket /\ run[c].waking = {}
  BY <1>1 DEF Orderly, Unlisted
<1>10. Orderly(r, shut)
  BY <1>5, <1>8, <1>9 DEF Orderly, Unlisted
<1>11. closer.at \in {"wake", "done"} => line'.closed /\ \A u \in Tickets : ~Live(line', u)
  <2> SUFFICES ASSUME closer.at \in {"wake", "done"}
               PROVE  line'.closed /\ \A u \in Tickets : ~Live(line', u)
    OBVIOUS
  <2>1. line.closed /\ \A u \in Tickets : ~Live(line, u)
    BY DEF Served
  <2>2. held \in [Tasks -> Tickets]
    BY <1>3 DEF Owned
  <2>3. Woken(line) = NoWaker /\ \A u \in Tickets : ~Live(line', u)
    BY <1>4, <2>1, <2>2
  <2>4. LiveEntries(line) = {}
    BY <1>1, <2>1, NoEntries DEF Sound
  <2>5. line'.closed = line.closed
    BY <1>1, <2>4, WakingNobody
  <2>6. QED
    BY <2>1, <2>3, <2>5
<1>12. [held EXCEPT ![c] = r.ticket] = held
  <2>1. held = [d \in Tasks |-> run[d].ticket]
    BY <1>2 DEF HeldIn
  <2>2. QED
    BY <1>8, <2>1
<1>13. Served' /\ \A d \in Tasks : run'[d] = IF d = c THEN r ELSE run[d]
  BY <1>1, <1>2, <1>4, <1>7, <1>8, <1>10, <1>11, <1>12, ServedMoves
<1>14. CASE \A u \in Tickets : ~Live(line', u)
  BY <1>13, <1>14, NobodyWaits
<1>15. CASE wasted'
  BY <1>13, <1>15 DEF Enough
<1>16. CASE closer.at = "list"
  BY <1>1, <1>13, <1>16 DEF Enough
<1>17. ASSUME ~wasted', closer.at # "list", NEW z \in Tasks, z = Woken(line), z # NoWaker,
              Live(line, run[z].ticket), ~Live(line', run[z].ticket), run[z].ticket # NoTicket,
              \A d \in Tasks : d # z => (Live(line', run[d].ticket) <=> Live(line, run[d].ticket))
       PROVE  Enough'
  <2>1. z # c /\ run[z] \in Runs /\ Orderly(run[z], shut) /\ run'[z] = run[z]
    BY <1>9, <1>13, <1>17 DEF Served
  <2>2. ~run[z].permit /\ run[z].at \in Stages /\ run[z].ticket \in Tickets
    BY <1>1, <1>17, <2>1 DEF Runs
  <2>3. closer.at = "idle" /\ ~shut
    BY <1>17, <2>2 DEF Served
  <2>4. run[z].at \in {"take", "refused", "asleep"}
    BY <1>17, <2>1, <2>2, <2>3 DEF Orderly, Unlisted, Stages
  <2>5. r.waking = {z}
    BY <1>5, <1>8, <1>17
  <2>6. Promised(z)' /\ ~Promised(z) /\ ~Waits(z)'
    <3>1. c \in Tasks /\ z \in run'[c].waking
      BY <1>13, <2>5
    <3>2. QED
      BY <1>17, <2>1, <2>4, <3>1 DEF Promised, Waits
  <2>7. ASSUME NEW d \in Tasks, d # c, d # z
        PROVE  (Waits(d)' <=> Waits(d)) /\ (Promised(d) => Promised(d)')
    <3>1. run'[d] = run[d] /\ (Live(line', run[d].ticket) <=> Live(line, run[d].ticket))
      BY <1>13, <1>17, <2>7
    <3>2. (\E e \in Tasks : d \in run[e].waking) => \E e \in Tasks : d \in run'[e].waking
      BY <1>9, <1>13
    <3>3. QED
      BY <3>1, <3>2, PromiseStays
  <2>8. ~Waits(c)'
    BY <1>5, <1>8, <1>13 DEF Waits
  <2>9. (\E d \in Tasks : Waits(d)') => \E d \in Tasks : Waits(d)
    BY <2>6, <2>7, <2>8
  <2>10. PICK P, Q : P = Promises /\ Q = Promises'
    OBVIOUS
  <2>11. z \notin P /\ (P \ {c}) \cup {z} \subseteq Q
    BY <2>6, <2>7, <2>10 DEF Promises
  <2>12. IsFiniteSet(P) /\ Cardinality(P) \in Nat
    BY <2>10, PromisesCount
  <2>13. (Served => IsFiniteSet(Promises) /\ Cardinality(Promises) \in Nat)'
    BY PromisesCount, PTL
  <2>14. Cardinality(Q) >= Cardinality(P)
    BY <1>13, <2>10, <2>11, <2>12, <2>13, Balances
  <2>15. PICK n \in Int : n = 0
    OBVIOUS
  <2>16. /\ permits' <= permits + n /\ Cardinality(Promises') >= Cardinality(Promises) + n
    BY <1>1, <1>13, <2>10, <2>12, <2>13, <2>14, <2>15
  <2>17. (wasted => wasted') /\ closer' = closer
    BY <1>1
  <2>18. QED
    BY <1>13, <2>9, <2>16, <2>17, EnoughBalances
<1>18. QED
  BY <1>3, <1>4, <1>13, <1>14, <1>15, <1>16, <1>17

(* The wakers in hand are used: every caller they belong to is notified.   *)
LEMMA NotifyingEnough ==
  ASSUME Enough, Served, Served', UNCHANGED <<permits, line, wasted>>,
         closer' = closer \/ \A u \in Tickets : ~Live(line, u),
         NEW hand,
         \A d \in Tasks : /\ run'[d].ticket = run[d].ticket
                          /\ run'[d].notified = (run[d].notified \/ d \in hand)
                          /\ \/ run'[d].at = run[d].at /\ run'[d].waking = run[d].waking
                             \/ run[d].at = "wake" /\ run'[d].at = "idle" /\ run[d].waking = hand
  PROVE  Enough'
<1>1. CASE \A u \in Tickets : ~Live(line, u)
  BY <1>1, NobodyWaits
<1>2. CASE closer' = closer
  <2>1. ASSUME NEW d \in Tasks PROVE (Promised(d) => Promised(d)') /\ (Waits(d)' => Waits(d))
    <3>1. CASE run'[d].at = run[d].at
      <4>1. (\E e \in Tasks : d \in run[e].waking) =>
              (run'[d].notified \/ \E e \in Tasks : d \in run'[e].waking)
        OBVIOUS
      <4>2. QED
        BY <3>1, <4>1, PromiseStays
    <3>2. CASE run[d].at = "wake" /\ run'[d].at = "idle"
      BY <3>2 DEF Promised, Waits
    <3>3. QED
      BY <3>1, <3>2
  <2>2. PICK P, Q : P = Promises /\ Q = Promises'
    OBVIOUS
  <2>3. P \subseteq Q
    BY <2>1, <2>2 DEF Promises
  <2>4. IsFiniteSet(P) /\ Cardinality(P) \in Nat
    BY <2>2, PromisesCount
  <2>5. (Served => IsFiniteSet(Promises) /\ Cardinality(Promises) \in Nat)'
    BY PromisesCount, PTL
  <2>6. Cardinality(P) <= Cardinality(Q)
    BY <2>2, <2>3, <2>4, <2>5, FS_Subset
  <2>7. PICK n \in Int : n = 0
    OBVIOUS
  <2>8. permits' <= permits + n /\ Cardinality(Promises') >= Cardinality(Promises) + n
    BY <2>2, <2>4, <2>5, <2>6, <2>7 DEF Served
  <2>9. wasted => wasted'
    OBVIOUS
  <2>10. QED
    BY <1>2, <2>1, <2>8, <2>9, EnoughBalances
<1>3. QED
  BY <1>1, <1>2

(* What notifying does to the runs.                                        *)
LEMMA Notifying ==
  ASSUME run \in [Tasks -> Runs], NEW hand
  PROVE  /\ Notified(hand) \in [Tasks -> Runs]
         /\ \A d \in Tasks :
              /\ Notified(hand)[d].at = run[d].at /\ Notified(hand)[d].ticket = run[d].ticket
              /\ Notified(hand)[d].permit = run[d].permit
              /\ Notified(hand)[d].waking = run[d].waking
              /\ Notified(hand)[d].notified = (run[d].notified \/ d \in hand)
<1>1. \A d \in Tasks : Notified(hand)[d] = [run[d] EXCEPT !.notified = @ \/ d \in hand]
  BY DEF Notified, Callers
<1>2. ASSUME NEW d \in Tasks
      PROVE  /\ Notified(hand)[d] \in Runs
             /\ Notified(hand)[d].at = run[d].at /\ Notified(hand)[d].ticket = run[d].ticket
             /\ Notified(hand)[d].permit = run[d].permit
             /\ Notified(hand)[d].waking = run[d].waking
             /\ Notified(hand)[d].notified = (run[d].notified \/ d \in hand)
  <2>1. run[d] \in Runs
    OBVIOUS
  <2>2. QED
    BY <1>1, <2>1 DEF Runs
<1>3. Notified(hand) \in [Tasks -> Runs]
  BY <1>2 DEF Notified, Callers
<1>4. QED
  BY <1>2, <1>3

(* A wake is used, outside the lock.                                       *)
LEMMA WakeEnough ==
  ASSUME Enough, Served, NEW c \in Tasks, WakeNext(c)
  PROVE  Served' /\ Enough'
<1>1. /\ run \in [Tasks -> Runs] /\ run[c].at = "wake"
      /\ UNCHANGED <<permits, shut, line, closer, runs, wasted>>
      /\ run' = [Notified(run[c].waking) EXCEPT ![c].waking = {}, ![c].at = "idle"]
  BY DEF Served, WakeNext, semaphore
<1>2. PICK hand, n : hand = run[c].waking /\ n = Notified(hand)
  OBVIOUS
<1>3. /\ n \in [Tasks -> Runs]
      /\ \A d \in Tasks : /\ n[d].at = run[d].at /\ n[d].ticket = run[d].ticket
                          /\ n[d].permit = run[d].permit /\ n[d].waking = run[d].waking
                          /\ n[d].notified = (run[d].notified \/ d \in hand)
  BY <1>1, <1>2, Notifying
<1>4. PICK r : r = [n[c] EXCEPT !.waking = {}, !.at = "idle"]
  OBVIOUS
<1>5. \A d \in Tasks : run'[d] = IF d = c THEN r ELSE n[d]
  BY <1>1, <1>2, <1>3, <1>4
<1>6. /\ r \in Runs /\ r.at = "idle" /\ r.waking = {} /\ r.ticket = n[c].ticket
      /\ r.notified = n[c].notified
  <2>1. n[c] \in Runs
    BY <1>3
  <2>2. QED
    BY <1>4, <2>1 DEF Runs, Stages
<1>7. run' \in [Tasks -> Runs]
  <2>1. DOMAIN run' = Tasks /\ run' = [d \in DOMAIN run' |-> run'[d]]
    BY <1>1, <1>2, <1>3
  <2>2. \A d \in Tasks : run'[d] \in Runs
    BY <1>3, <1>5, <1>6
  <2>3. QED
    BY <2>1, <2>2
<1>8. \A d \in Tasks :
        /\ run'[d].ticket = run[d].ticket
        /\ run'[d].notified = (run[d].notified \/ d \in hand)
        /\ \/ run'[d].at = run[d].at /\ run'[d].waking = run[d].waking /\ run'[d].permit = run[d].permit
           \/ /\ run[d].at = "wake" /\ run'[d].at = "idle" /\ run[d].waking = hand
              /\ run'[d].waking = {}
  BY <1>1, <1>2, <1>3, <1>5, <1>6
<1>9. \A d \in Tasks : Orderly(run'[d], shut)
  <2> SUFFICES ASSUME NEW d \in Tasks PROVE Orderly(run'[d], shut)
    OBVIOUS
  <2>1. Orderly(run[d], shut)
    BY DEF Served
  <2>2. QED
    BY <1>8, <2>1 DEF Orderly, Unlisted
<1>10. HeldIn(run') = HeldIn(run)
  BY <1>8 DEF HeldIn
<1>11. IsFiniteSet(Underway(run'))
  <2>1. Underway(run') \subseteq Underway(run)
    BY <1>8 DEF Underway
  <2>2. QED
    BY <2>1, FS_Subset DEF Served
<1>12. Served'
  BY <1>1, <1>7, <1>9, <1>10, <1>11 DEF Served
<1>13. \A d \in Tasks :
         /\ run'[d].ticket = run[d].ticket
         /\ run'[d].notified = (run[d].notified \/ d \in hand)
         /\ \/ run'[d].at = run[d].at /\ run'[d].waking = run[d].waking
            \/ run[d].at = "wake" /\ run'[d].at = "idle" /\ run[d].waking = hand
  BY <1>8
<1>14. QED
  BY <1>1, <1>12, <1>13, NotifyingEnough

(* close: the flag, the list, and the wakes of all it held.                *)
LEMMA CloseEnough ==
  ASSUME Enough, Served, CloseFlag \/ CloseList \/ CloseWakes
  PROVE  Served' /\ Enough'
<1>1. /\ run \in [Tasks -> Runs] /\ Sound(line)
      /\ UNCHANGED <<permits, runs, wasted>>
      /\ \A d \in Tasks : Orderly(run[d], shut)
  BY DEF Served, CloseFlag, CloseList, CloseWakes, semaphore
<1>2. CASE CloseFlag
  <2>1. /\ shut' = TRUE /\ closer' = [closer EXCEPT !.at = "list"] /\ UNCHANGED <<line, run>>
        /\ closer.at = "idle"
    BY <1>2 DEF CloseFlag
  <2>2. closer'.at = "list" /\ closer'.waking = closer.waking
    BY <2>1 DEF Served
  <2>3. \A d \in Tasks : Orderly(run[d], TRUE)
    BY <1>1 DEF Orderly
  <2>4. QED
    BY <1>1, <2>1, <2>2, <2>3 DEF Served, Enough
<1>3. CASE CloseList
  <2>1. /\ line' = Close(line) /\ closer' = [at |-> "wake", waking |-> Parked(line)]
        /\ UNCHANGED <<shut, run>> /\ closer.at = "list"
    BY <1>3 DEF CloseList
  <2>2. PICK held : held = HeldIn(run)
    OBVIOUS
  <2>3. Owned(line, held, line.next_generation)
    BY <2>2 DEF Served
  <2>4. /\ Sound(line') /\ WellFormed(line') /\ Owned(line', held, line'.next_generation)
        /\ \A u \in Tickets : ~Live(line', u)
        /\ Parked(line) \subseteq Tasks
    BY <1>1, <2>1, <2>3, OwnedCloses
  <2>5. line'.closed
    BY <1>1, <2>1, Closing
  <2>6. Served'
    BY <1>1, <2>1, <2>2, <2>4, <2>5 DEF Served
  <2>7. QED
    BY <2>4, <2>6, NobodyWaits
<1>4. CASE CloseWakes
  <2>1. /\ run' = Notified(closer.waking) /\ closer' = [at |-> "done", waking |-> {}]
        /\ UNCHANGED <<shut, line>> /\ closer.at = "wake"
    BY <1>4 DEF CloseWakes, semaphore
  <2>2. PICK hand : hand = closer.waking
    OBVIOUS
  <2>3. /\ run' \in [Tasks -> Runs]
        /\ \A d \in Tasks : /\ run'[d].at = run[d].at /\ run'[d].ticket = run[d].ticket
                            /\ run'[d].permit = run[d].permit /\ run'[d].waking = run[d].waking
                            /\ run'[d].notified = (run[d].notified \/ d \in hand)
    BY <1>1, <2>1, <2>2, Notifying
  <2>4. \A d \in Tasks : Orderly(run'[d], shut)
    BY <1>1, <2>3 DEF Orderly
  <2>5. HeldIn(run') = HeldIn(run) /\ Underway(run') = Underway(run)
    BY <2>3 DEF HeldIn, Underway
  <2>6. \A u \in Tickets : ~Live(line, u)
    BY <2>1 DEF Served
  <2>7. Served'
    BY <1>1, <2>1, <2>3, <2>4, <2>5 DEF Served
  <2>8. QED
    BY <2>1, <2>6, <2>7, NobodyWaits
<1>5. QED
  BY <1>2, <1>3, <1>4

(* Every step keeps enough wakes under way.                                *)
LEMMA EnoughStep ==
  ASSUME Enough, Served, [OffloadNext]_offloadVars
  PROVE  Served' /\ Enough'
<1>1. ASSUME UNCHANGED <<permits, shut, line, run, closer, runs, wasted>>
      PROVE  Served' /\ Enough'
  BY <1>1 DEF Served, Enough, Promises, Promised, Waits
<1>2. ASSUME NEW c \in Tasks, RunStep(c) PROVE Served' /\ Enough'
  BY <1>2, EnoughGoes, PermitEnough, ListEnough, HandOnEnough, WakeEnough DEF RunStep
<1>3. ASSUME NEW c \in Tasks, BeginRun(c) \/ PollCaller(c) \/ AbandonWait(c) \/ DropRun(c)
      PROVE  Served' /\ Enough'
  BY <1>3, EnoughGoes, PermitEnough, ListEnough
<1>4. ASSUME NEW i, EndTask(i) PROVE Served' /\ Enough'
  BY <1>1, <1>4 DEF EndTask, semaphore
<1>5. CASE UNCHANGED offloadVars
  BY <1>1, <1>5 DEF offloadVars, semaphore
<1>6. QED
  BY <1>2, <1>3, <1>4, <1>5, CloseEnough DEF OffloadNext, Callers

(* At first every permit is free and nobody waits.                         *)
LEMMA EnoughInit ==
  ASSUME OffloadInit
  PROVE  Served /\ Enough
<1>1. /\ permits = Workers * QueueDepth /\ shut = FALSE /\ line = Fresh /\ runs = 0
      /\ run = [c \in Tasks |-> NoRun] /\ closer = [at |-> "idle", waking |-> {}]
  BY DEF OffloadInit, Callers
<1>2. permits \in Nat
  BY <1>1, OffloadConstants
<1>3. NoTicket \in Tickets
  BY DEF NoTicket, Tickets
<1>4. NoRun \in Runs /\ NoRun.at = "idle" /\ NoRun.ticket = NoTicket /\ NoRun.waking = {}
  BY <1>3 DEF NoRun, Runs, Stages
<1>5. run \in [Tasks -> Runs] /\ \A c \in Tasks : run[c] = NoRun
  BY <1>1, <1>4
<1>6. \A c \in Tasks : Orderly(run[c], shut)
  BY <1>4, <1>5 DEF Orderly
<1>7. IsFiniteSet(Underway(run))
  <2>1. Underway(run) = {}
    BY <1>4, <1>5 DEF Underway
  <2>2. QED
    BY <2>1, FS_EmptySet
<1>8. HeldIn(run) = [c \in Tasks |-> NoTicket]
  BY <1>4, <1>5 DEF HeldIn
<1>9. Sound(line) /\ WellFormed(line) /\ Owned(line, HeldIn(run), line.next_generation)
  BY <1>1, <1>8, Opens, OwnedOpens
<1>10. Served
  BY <1>1, <1>2, <1>5, <1>6, <1>7, <1>9 DEF Served
<1>11. \A c \in Tasks : ~Waits(c)
  BY <1>4, <1>5 DEF Waits
<1>12. QED
  BY <1>10, <1>11 DEF Enough

(* A permit that comes back reaches the next in line, for any number of    *)
(* callers and permits: whatever is dropped on the way, no caller sleeps   *)
(* beside a free permit with no wake under way, unless a wake was spent on *)
(* one that already had its own (semaphore.rs, release and acquire).       *)
THEOREM PermitAlwaysReachesTheNext == OffloadSpec => []PermitReachesTheNext
<1> DEFINE Inv == Served /\ Enough
<1>1. OffloadInit => Inv
  BY EnoughInit
<1>2. Inv /\ [OffloadNext]_offloadVars => Inv'
  BY EnoughStep
<1>3. Inv => PermitReachesTheNext
  <2> SUFFICES ASSUME Served, Enough, permits > 0, ~wasted, closer.at # "list",
                      \E c \in Tasks : run[c].at = "asleep" /\ Live(line, run[c].ticket)
               PROVE  \E c \in Tasks : Granted(c)
    BY DEF PermitReachesTheNext, Callers
  <2>1. Cardinality(Promises) >= permits
    BY DEF Enough, Waits
  <2>2. IsFiniteSet(Promises) /\ Cardinality(Promises) \in Nat /\ permits \in Nat
    BY PromisesCount DEF Served
  <2>3. PICK c \in Tasks : Promised(c)
    BY <2>1, <2>2, FS_EmptySet DEF Promises
  <2>4. QED
    BY <2>3 DEF Promised, Granted, Callers
<1>4. QED
  BY <1>1, <1>2, <1>3, PTL DEF OffloadSpec

-----------------------------------------------------------------------------
(* Metrics.                                                                *)

(* There is at least one slot, and every sequence number has one.          *)
LEMMA AgeSlotsAre ==
  ASSUME NEW n \in Nat
  PROVE  SlotOf(n) \in AgeSlots
<1> DEFINE m == Max({DispatchBudget, 1})
<1>1. DispatchBudget \in Nat
  BY MetricsConstants
<1>2. \E x \in {DispatchBudget, 1} : \A y \in {DispatchBudget, 1} : x >= y
  BY <1>1
<1>3. m \in {DispatchBudget, 1} /\ m >= 1
  BY <1>1, <1>2 DEF Max
<1>4. m \in Nat /\ m > 0
  BY <1>1, <1>3
<1> HIDE DEF m
<1>5. IsFiniteSet(0 .. m - 1) /\ Cardinality(0 .. m - 1) = IF 0 > m - 1 THEN 0 ELSE m - 1 - 0 + 1
  BY <1>4, FS_Interval
<1>6. Cardinality(0 .. m - 1) = m
  BY <1>4, <1>5
<1>7. n % m \in 0 .. m - 1
  BY <1>4
<1>8. QED
  BY <1>6, <1>7 DEF SlotOf, AgeSlots, m

(* The least of a set of times.                                            *)
LEMMA MinimumIs ==
  ASSUME NEW S \in SUBSET Nat, S # {}
  PROVE  Min(S) \in S /\ \A y \in S : Min(S) <= y
<1>1. \E x \in S : \A y \in S : x <= y
  BY LeastNatural
<1>2. QED
  BY <1>1 DEF Min

(* More samples can only be older.                                         *)
LEMMA AgesGrow ==
  ASSUME NEW S \in SUBSET Nat, NEW T \in SUBSET S, time \in Nat, \A x \in S : x <= time
  PROVE  /\ AgeSince(T) \in Nat /\ AgeSince(S) \in Nat /\ AgeSince(T) <= AgeSince(S)
         /\ AgeSince(T) > 0 => S # {}
<1>1. ASSUME NEW R \in SUBSET S, R # {}
      PROVE  /\ AgeSince(R) = time - Min(R) /\ Min(R) \in R /\ \A y \in R : Min(R) <= y
             /\ Min(R) \in Nat /\ AgeSince(R) \in Nat
  <2>1. R \in SUBSET Nat
    OBVIOUS
  <2>2. Min(R) \in R /\ \A y \in R : Min(R) <= y
    BY <1>1, <2>1, MinimumIs
  <2>3. AgeSince(R) = time - Min(R)
    BY <1>1 DEF AgeSince
  <2>4. Min(R) \in Nat /\ Min(R) <= time
    BY <2>1, <2>2
  <2>5. time - Min(R) \in Nat
    BY <2>4
  <2>6. QED
    BY <2>2, <2>3, <2>4, <2>5
<1>2. AgeSince({}) = 0
  BY DEF AgeSince
<1>3. S # {} => AgeSince(S) \in Nat /\ AgeSince(S) = time - Min(S) /\ \A y \in S : Min(S) <= y
  BY <1>1
<1>4. CASE T = {}
  <2>1. AgeSince(T) = 0
    BY <1>2, <1>4
  <2>2. AgeSince(S) \in Nat
    BY <1>2, <1>3
  <2>3. QED
    BY <2>1, <2>2
<1>5. CASE T # {}
  <2>1. AgeSince(T) = time - Min(T) /\ Min(T) \in S /\ Min(T) \in Nat /\ AgeSince(T) \in Nat
    BY <1>1, <1>5
  <2>2. S # {}
    BY <1>5
  <2>3. AgeSince(S) = time - Min(S) /\ Min(S) \in Nat /\ AgeSince(S) \in Nat
    BY <1>1, <2>2
  <2>4. Min(S) <= Min(T)
    BY <1>3, <2>1, <2>2
  <2>5. AgeSince(T) <= AgeSince(S)
    BY <2>1, <2>3, <2>4
  <2>6. QED
    BY <2>1, <2>2, <2>3, <2>5
<1>6. QED
  BY <1>4, <1>5

Histograms == [Latencies -> Nat]

(* A histogram with finitely many samples.                                 *)
Sampled(h) == h \in Histograms /\ \A t \in Latencies : IsFiniteSet(Samples(h, t))

Below(g, h) == \A t \in Latencies : AtLeastAs(g, t) <= AtLeastAs(h, t)

(* Recording adds one sample to the counts it belongs to.                  *)
LEMMA Recording ==
  ASSUME NEW h, Sampled(h), NEW a \in Nat
  PROVE  /\ Sampled(Record(h, a))
         /\ \A t \in Latencies :
              /\ AtLeastAs(h, t) \in Nat
              /\ AtLeastAs(Record(h, a), t) =
                   IF a >= t THEN AtLeastAs(h, t) + 1 ELSE AtLeastAs(h, t)
<1>1. HighestTime \in Nat
  BY MetricsConstants
<1> DEFINE b == Min({a, HighestTime})
<1>2. b \in {a, HighestTime} /\ b <= a /\ b <= HighestTime
  <2>1. \E x \in {a, HighestTime} : \A y \in {a, HighestTime} : x <= y
    BY <1>1
  <2>2. QED
    BY <2>1 DEF Min
<1>3. b \in Latencies
  BY <1>1, <1>2 DEF Latencies
<1> DEFINE g == Record(h, a)
<1> HIDE DEF b
<1>4. g = [h EXCEPT ![b] = h[b] + 1]
  BY DEF Record, b
<1> HIDE DEF g
<1>5. h \in Histograms
  BY DEF Sampled
<1>6. g \in Histograms /\ \A u \in Latencies : g[u] = IF u = b THEN h[b] + 1 ELSE h[u]
  BY <1>3, <1>4, <1>5 DEF Histograms
<1>7. ASSUME NEW t \in Latencies
      PROVE  /\ IsFiniteSet(Samples(g, t)) /\ AtLeastAs(h, t) \in Nat
             /\ AtLeastAs(g, t) = IF a >= t THEN AtLeastAs(h, t) + 1 ELSE AtLeastAs(h, t)
  <2>1. b >= t <=> a >= t
    BY <1>1, <1>2, <1>7 DEF Latencies
  <2>2. \A u \in Latencies : h[u] \in Nat /\ g[u] \in Nat
    BY <1>5, <1>6 DEF Histograms
  <2>3. IsFiniteSet(Samples(h, t)) /\ Cardinality(Samples(h, t)) \in Nat
    BY FS_CardinalityType DEF Sampled
  <2>4. CASE b >= t
    <3>1. PICK n : n = <<b, h[b] + 1>>
      OBVIOUS
    <3>2. n \notin Samples(h, t)
      BY <1>3, <2>2, <3>1 DEF Samples
    <3>3. Samples(g, t) = Samples(h, t) \cup {n}
      <4>1. ASSUME NEW p \in Samples(g, t) PROVE p \in Samples(h, t) \cup {n}
        <5>1. PICK u \in Latencies : u >= t /\ p \in {u} \X (1 .. g[u])
          BY <4>1 DEF Samples
        <5>2. PICK k \in 1 .. g[u] : p = <<u, k>>
          BY <5>1
        <5>3. CASE u = b /\ k = h[b] + 1
          BY <3>1, <5>2, <5>3
        <5>4. CASE ~(u = b /\ k = h[b] + 1)
          <6>1. k \in 1 .. h[u]
            BY <1>3, <1>6, <2>2, <5>2, <5>4
          <6>2. QED
            BY <5>1, <5>2, <6>1 DEF Samples
        <5>5. QED
          BY <5>3, <5>4
      <4>2. ASSUME NEW p \in Samples(h, t) PROVE p \in Samples(g, t)
        <5>1. PICK u \in Latencies : u >= t /\ p \in {u} \X (1 .. h[u])
          BY <4>2 DEF Samples
        <5>2. p \in {u} \X (1 .. g[u])
          BY <1>3, <1>6, <2>2, <5>1
        <5>3. QED
          BY <5>1, <5>2 DEF Samples
      <4>3. n \in Samples(g, t)
        <5>1. n \in {b} \X (1 .. g[b])
          BY <1>3, <1>6, <2>2, <3>1
        <5>2. QED
          BY <1>3, <2>4, <5>1 DEF Samples
      <4>4. QED
        BY <4>1, <4>2, <4>3
    <3>4. IsFiniteSet(Samples(g, t)) /\ Cardinality(Samples(g, t)) = Cardinality(Samples(h, t)) + 1
      BY <2>3, <3>2, <3>3, FS_AddElement
    <3>5. QED
      BY <2>1, <2>3, <2>4, <3>4 DEF AtLeastAs
  <2>5. CASE ~(b >= t)
    <3>1. \A u \in {v \in Latencies : v >= t} : g[u] = h[u]
      BY <1>6, <2>5
    <3>2. Samples(g, t) = Samples(h, t)
      BY <3>1 DEF Samples
    <3>3. QED
      BY <2>1, <2>3, <2>5, <3>2 DEF AtLeastAs
  <2>6. QED
    BY <2>4, <2>5
<1>8. QED
  BY <1>6, <1>7 DEF Sampled, g

(* A histogram that records the shorter time stays below.                  *)
LEMMA RecordingBelow ==
  ASSUME NEW g, NEW h, Sampled(g), Sampled(h), Below(g, h), NEW a \in Nat, NEW b \in Nat
  PROVE  /\ a <= b => Below(Record(g, a), Record(h, b))
         /\ Below(g, Record(h, b))
<1>1. \A t \in Latencies : t \in Nat
  BY MetricsConstants DEF Latencies
<1>2. \A t \in Latencies :
        /\ AtLeastAs(g, t) \in Nat
        /\ AtLeastAs(Record(g, a), t) = IF a >= t THEN AtLeastAs(g, t) + 1 ELSE AtLeastAs(g, t)
  BY Recording
<1>3. \A t \in Latencies :
        /\ AtLeastAs(h, t) \in Nat
        /\ AtLeastAs(Record(h, b), t) = IF b >= t THEN AtLeastAs(h, t) + 1 ELSE AtLeastAs(h, t)
  BY Recording
<1>4. \A t \in Latencies : AtLeastAs(g, t) <= AtLeastAs(h, t)
  BY DEF Below
<1>5. ASSUME NEW t \in Latencies
      PROVE  /\ a <= b => AtLeastAs(Record(g, a), t) <= AtLeastAs(Record(h, b), t)
             /\ AtLeastAs(g, t) <= AtLeastAs(Record(h, b), t)
  <2>1. PICK x \in Nat, y \in Nat, u \in Nat : x = AtLeastAs(g, t) /\ y = AtLeastAs(h, t) /\ u = t
    BY <1>1, <1>2, <1>3
  <2>2. x <= y
    BY <1>4, <2>1
  <2>3. /\ AtLeastAs(Record(g, a), t) = IF a >= u THEN x + 1 ELSE x
        /\ AtLeastAs(Record(h, b), t) = IF b >= u THEN y + 1 ELSE y
    BY <1>2, <1>3, <2>1
  <2>4. QED
    BY <2>1, <2>2, <2>3
<1>6. QED
  BY <1>5 DEF Below

-----------------------------------------------------------------------------
(* What the shard knows of itself, and what it has said.                   *)

(* The ages: a slot that is alive holds the start of a dispatch in flight, *)
(* and no slot an earlier start than that of a dispatch which has it.      *)
Aged ==
  /\ time \in Nat /\ sequence \in Nat
  /\ IsFiniteSet(running)
  /\ running \in SUBSET [sequence : Nat, since : Nat]
  /\ \A d \in running : d.sequence < sequence /\ d.since <= time
  /\ started_at \in [AgeSlots -> Nat] /\ alive \in [AgeSlots -> BOOLEAN]
  /\ \A s \in AgeSlots : started_at[s] <= time
  /\ \A d \in running : d.since <= started_at[SlotOf(d.sequence)]
  /\ \A s \in AgeSlots : alive[s] =>
       \E d \in running : SlotOf(d.sequence) = s /\ d.since = started_at[s]

(* The counters and the histograms: the shard's copy is right or below the *)
(* truth, and what is published is not ahead of the shard's copy.          *)
Tallied ==
  /\ hot \in [completed : Nat, failed : Nat, age : Nat, process : Histograms]
  /\ truth \in [age : Nat, process : Histograms]
  /\ DOMAIN stats = Fields
  /\ stats.completed \in Nat /\ stats.failed \in Nat /\ stats.age \in Nat /\ stats.inflight \in Nat
  /\ hot.age <= truth.age
  /\ Sampled(hot.process) /\ Sampled(stats.process) /\ Sampled(truth.process)
  /\ Below(hot.process, truth.process) /\ Below(stats.process, truth.process)
  /\ stats.failed <= hot.failed /\ stats.completed <= hot.completed
  /\ hot.completed + Cardinality(running) = sequence

Current(f) == IF f = "inflight" THEN Snapshot ELSE hot[f]

(* While a report is stored nothing it reports changes, and what is stored *)
(* is current; once it is stored its parts agree.                          *)
Stored ==
  /\ unpublished \in SUBSET Fields
  /\ unpublished # {} =>
       /\ hot.age > 0 => running # {}
       /\ \A f \in Fields \ unpublished : stats[f] = Current(f)
  /\ unpublished = {} =>
       /\ stats.age > 0 => stats.inflight > 0
       /\ stats.completed + stats.inflight <= sequence

Honest == Aged /\ Tallied /\ Stored

(* The fields of a report.                                                 *)
LEMMA FieldsAre ==
  Fields = {"inflight", "completed", "failed", "age", "process"}
<1>1. DOMAIN ShardHot = {"completed", "failed", "age", "process"}
  BY DEF ShardHot
<1>2. QED
  BY <1>1 DEF Fields

(* A histogram starts with no samples.                                     *)
LEMMA NoSamples ==
  Sampled(Histogram) /\ Below(Histogram, Histogram)
<1>1. Histogram \in Histograms /\ \A u \in Latencies : Histogram[u] = 0
  BY DEF Histogram, Histograms
<1>2. \A t \in Latencies : Samples(Histogram, t) = {}
  BY <1>1 DEF Samples
<1>3. \A t \in Latencies : IsFiniteSet(Samples(Histogram, t)) /\ AtLeastAs(Histogram, t) = 0
  BY <1>2, FS_EmptySet DEF AtLeastAs
<1>4. QED
  BY <1>1, <1>3 DEF Sampled, Below

(* At the start.                                                           *)
LEMMA HonestAtFirst ==
  MetricsInit => Honest
<1> SUFFICES ASSUME MetricsInit PROVE Honest
  OBVIOUS
<1> USE DEF MetricsInit
<1>1. IsFiniteSet({}) /\ Cardinality({}) = 0
  BY FS_EmptySet
<1>2. Aged
  BY <1>1 DEF Aged
<1>3. DOMAIN stats = Fields
  BY DEF ShardStats
<1>4. /\ stats.completed = 0 /\ stats.failed = 0 /\ stats.age = 0 /\ stats.inflight = 0
      /\ stats.process = Histogram
  BY FieldsAre DEF ShardStats, ShardHot
<1>5. hot = [completed |-> 0, failed |-> 0, age |-> 0, process |-> Histogram]
  BY DEF ShardHot
<1>6. Histogram \in Histograms
  BY DEF Histogram, Histograms
<1>7. Tallied
  BY <1>1, <1>3, <1>4, <1>5, <1>6, NoSamples DEF Tallied
<1>8. Stored
  BY <1>4 DEF Stored
<1>9. QED
  BY <1>2, <1>7, <1>8 DEF Honest

(* What a dispatch does to the ages.                                       *)
LEMMA DispatchedHonest ==
  Honest /\ Dispatched => Honest'
<1> SUFFICES ASSUME Honest, Dispatched PROVE Honest'
  OBVIOUS
<1>1. /\ unpublished = {}
      /\ running' = running \cup {[sequence |-> sequence, since |-> time]}
      /\ started_at' = [started_at EXCEPT ![SlotOf(sequence)] = time]
      /\ alive' = [alive EXCEPT ![SlotOf(sequence)] = TRUE]
      /\ sequence' = sequence + 1
      /\ UNCHANGED <<time, hot, stats, unpublished, truth>>
  BY DEF Dispatched
<1>2. Aged /\ Tallied /\ Stored
  BY DEF Honest
<1>3. PICK n : n = [sequence |-> sequence, since |-> time]
  OBVIOUS
<1>4. /\ n \in [sequence : Nat, since : Nat] /\ n.sequence = sequence /\ n.since = time
      /\ running' = running \cup {n}
  BY <1>1, <1>2, <1>3 DEF Aged
<1>5. n \notin running
  BY <1>2, <1>4 DEF Aged
<1>6. IsFiniteSet(running') /\ Cardinality(running') = Cardinality(running) + 1
  BY <1>2, <1>4, <1>5, FS_AddElement DEF Aged
<1>7. Cardinality(running) \in Nat
  BY <1>2, FS_CardinalityType DEF Aged
<1>8. \A d \in running : SlotOf(d.sequence) \in AgeSlots
  BY <1>2, AgeSlotsAre DEF Aged
<1>9. SlotOf(sequence) \in AgeSlots
  BY <1>2, AgeSlotsAre DEF Aged
<1>10. /\ started_at' \in [AgeSlots -> Nat] /\ alive' \in [AgeSlots -> BOOLEAN]
       /\ \A s \in AgeSlots :
            started_at'[s] = IF s = SlotOf(sequence) THEN time ELSE started_at[s]
       /\ \A s \in AgeSlots : alive'[s] = IF s = SlotOf(sequence) THEN TRUE ELSE alive[s]
  BY <1>1, <1>2, <1>9 DEF Aged
<1>11. Aged'
  <2>1. /\ time' \in Nat /\ sequence' \in Nat /\ running' \in SUBSET [sequence : Nat, since : Nat]
        /\ time' = time
    BY <1>1, <1>2, <1>4 DEF Aged
  <2>2. \A d \in running' : d.sequence < sequence' /\ d.since <= time'
    BY <1>1, <1>2, <1>4 DEF Aged
  <2>3. \A s \in AgeSlots : started_at'[s] <= time'
    BY <1>2, <1>10, <2>1 DEF Aged
  <2>4. ASSUME NEW d \in running' PROVE d.since <= started_at'[SlotOf(d.sequence)]
    <3>1. CASE d = n
      BY <1>2, <1>4, <1>9, <1>10, <3>1 DEF Aged
    <3>2. CASE d \in running
      BY <1>2, <1>8, <1>10, <3>2 DEF Aged
    <3>3. QED
      BY <1>4, <3>1, <3>2
  <2>5. ASSUME NEW s \in AgeSlots, alive'[s]
        PROVE  \E d \in running' : SlotOf(d.sequence) = s /\ d.since = started_at'[s]
    <3>1. CASE s = SlotOf(sequence)
      BY <1>4, <1>10, <3>1
    <3>2. CASE s # SlotOf(sequence)
      <4>1. alive[s] /\ started_at'[s] = started_at[s]
        BY <1>10, <2>5, <3>2
      <4>2. PICK d \in running : SlotOf(d.sequence) = s /\ d.since = started_at[s]
        BY <1>2, <4>1 DEF Aged
      <4>3. QED
        BY <1>4, <4>1, <4>2
    <3>3. QED
      BY <3>1, <3>2
  <2>6. QED
    BY <1>6, <1>10, <2>1, <2>2, <2>3, <2>4, <2>5 DEF Aged
<1>12. Tallied'
  <2>1. hot.completed \in Nat /\ hot.completed + Cardinality(running) = sequence /\ sequence \in Nat
    BY <1>2 DEF Tallied, Aged
  <2>2. sequence' = sequence + 1
    BY <1>1
  <2>3. hot.completed + Cardinality(running') = sequence'
    BY <1>6, <1>7, <2>1, <2>2
  <2>4. QED
    BY <1>1, <1>2, <2>3 DEF Tallied
<1>13. Stored'
  <2>1. /\ stats.age > 0 => stats.inflight > 0
        /\ stats.completed + stats.inflight <= sequence
        /\ stats.completed \in Nat /\ stats.inflight \in Nat /\ sequence \in Nat
    BY <1>1, <1>2 DEF Stored, Tallied, Aged
  <2>2. stats.completed + stats.inflight <= sequence'
    BY <1>1, <2>1
  <2>3. unpublished' = {} /\ stats' = stats
    BY <1>1
  <2>4. QED
    BY <2>1, <2>2, <2>3 DEF Stored
<1>14. QED
  BY <1>11, <1>12, <1>13 DEF Honest

(* What a completion adds to the shard's copy and to the truth.            *)
LEMMA FinishedHonest ==
  ASSUME Honest, NEW d \in running, NEW fails \in BOOLEAN, Finished(d, fails)
  PROVE  Honest'
<1>1. /\ unpublished = {}
      /\ running' = running \ {d}
      /\ alive' = [alive EXCEPT ![SlotOf(d.sequence)] = FALSE]
      /\ hot' = Counted(fails, time - started_at[SlotOf(d.sequence)])
      /\ truth' = [truth EXCEPT !.process = Record(truth.process, time - d.since)]
      /\ UNCHANGED <<time, started_at, sequence, stats, unpublished>>
  BY DEF Finished, AfterFinish
<1>2. Aged /\ Tallied /\ Stored
  BY DEF Honest
<1>3. /\ d.sequence \in Nat /\ d.since \in Nat /\ d.since <= time /\ time \in Nat
      /\ SlotOf(d.sequence) \in AgeSlots
  BY <1>2, AgeSlotsAre DEF Aged
<1>4. /\ started_at[SlotOf(d.sequence)] \in Nat /\ started_at[SlotOf(d.sequence)] <= time
      /\ d.since <= started_at[SlotOf(d.sequence)]
  BY <1>2, <1>3 DEF Aged
<1>5. PICK a \in Nat, b \in Nat :
        a = time - started_at[SlotOf(d.sequence)] /\ b = time - d.since /\ a <= b
  BY <1>3, <1>4
<1>6. /\ IsFiniteSet(running') /\ Cardinality(running) \in Nat
      /\ Cardinality(running') = Cardinality(running) - 1
  BY <1>1, <1>2, FS_RemoveElement, FS_CardinalityType DEF Aged
<1>7. Aged'
  <2>1. /\ time' = time /\ sequence' = sequence /\ started_at' = started_at
        /\ running' \in SUBSET running
    BY <1>1
  <2>2. /\ alive' \in [AgeSlots -> BOOLEAN]
        /\ \A s \in AgeSlots : alive'[s] => alive[s] /\ s # SlotOf(d.sequence)
    BY <1>1, <1>2, <1>3 DEF Aged
  <2>3. ASSUME NEW s \in AgeSlots, alive'[s]
        PROVE  \E e \in running' : SlotOf(e.sequence) = s /\ e.since = started_at'[s]
    <3>1. alive[s] /\ s # SlotOf(d.sequence)
      BY <2>2, <2>3
    <3>2. PICK e \in running : SlotOf(e.sequence) = s /\ e.since = started_at[s]
      BY <1>2, <3>1 DEF Aged
    <3>3. e \in running'
      BY <1>1, <3>1, <3>2
    <3>4. QED
      BY <2>1, <3>2, <3>3
  <2>4. QED
    BY <1>2, <1>6, <2>1, <2>2, <2>3 DEF Aged
<1>8. Tallied'
  <2>1. /\ hot \in [completed : Nat, failed : Nat, age : Nat, process : Histograms]
        /\ truth \in [age : Nat, process : Histograms]
    BY <1>2 DEF Tallied
  <2>2. hot' = [hot EXCEPT !.completed = hot.completed + 1,
                           !.failed = IF fails THEN hot.failed + 1 ELSE hot.failed,
                           !.process = Record(hot.process, a)]
    BY <1>1, <1>5 DEF Counted
  <2>3. /\ Sampled(Record(hot.process, a)) /\ Sampled(Record(truth.process, b))
        /\ Below(Record(hot.process, a), Record(truth.process, b))
        /\ Below(stats.process, Record(truth.process, b))
    BY <1>2, <1>5, Recording, RecordingBelow DEF Tallied
  <2>4. Record(hot.process, a) \in Histograms /\ Record(truth.process, b) \in Histograms
    BY <2>3 DEF Sampled
  <2>5. /\ hot' \in [completed : Nat, failed : Nat, age : Nat, process : Histograms]
        /\ hot'.completed = hot.completed + 1 /\ hot'.age = hot.age
        /\ hot'.failed \in {hot.failed, hot.failed + 1}
        /\ hot'.process = Record(hot.process, a)
    <3>1. PICK c \in Nat, n \in Nat, g \in Nat, h \in Histograms, p \in Histograms :
            /\ hot = [completed |-> c, failed |-> n, age |-> g, process |-> h]
            /\ p = Record(hot.process, a)
      BY <2>1, <2>4
    <3>2. PICK e : e = IF fails THEN n + 1 ELSE n
      OBVIOUS
    <3>3. e \in {n, n + 1} /\ e \in Nat
      BY <3>1, <3>2
    <3>4. hot.completed = c /\ hot.failed = n /\ hot.age = g
      BY <3>1
    <3>5. hot' = [hot EXCEPT !.completed = c + 1, !.failed = e, !.process = p]
      BY <2>2, <3>1, <3>2, <3>4
    <3>6. hot' = [completed |-> c + 1, failed |-> e, age |-> g, process |-> p]
      BY <3>1, <3>5
    <3>7. hot' \in [completed : Nat, failed : Nat, age : Nat, process : Histograms]
      BY <3>1, <3>3, <3>6
    <3>8. hot'.completed = c + 1 /\ hot'.failed = e /\ hot'.age = g /\ hot'.process = p
      BY <3>6
    <3>9. QED
      BY <3>1, <3>3, <3>4, <3>7, <3>8
  <2>6. /\ truth' \in [age : Nat, process : Histograms]
        /\ truth'.age = truth.age /\ truth'.process = Record(truth.process, b)
    BY <1>1, <1>5, <2>1, <2>4
  <2>7. hot.completed + Cardinality(running) = sequence /\ sequence' = sequence
    BY <1>1, <1>2 DEF Tallied
  <2>8. hot'.completed + Cardinality(running') = sequence'
    BY <1>6, <2>1, <2>5, <2>7
  <2>9. stats.failed <= hot'.failed /\ stats.completed <= hot'.completed
    BY <1>2, <2>1, <2>5 DEF Tallied
  <2>10. stats' = stats
    BY <1>1
  <2>11. hot'.age <= truth'.age
    BY <1>2, <2>5, <2>6 DEF Tallied
  <2>12. QED
    BY <1>2, <2>3, <2>5, <2>6, <2>8, <2>9, <2>10, <2>11 DEF Tallied
<1>9. Stored'
  BY <1>1, <1>2 DEF Stored
<1>10. QED
  BY <1>7, <1>8, <1>9 DEF Honest

(* What a report says of the oldest dispatch.                              *)
LEMMA ReportsHonest ==
  Honest /\ Reports => Honest'
<1> SUFFICES ASSUME Honest, Reports PROVE Honest'
  OBVIOUS
<1>1. /\ unpublished = {}
      /\ hot' = [hot EXCEPT !.age = OldestAge]
      /\ truth' = [truth EXCEPT !.age = AgeSince({d.since : d \in running})]
      /\ unpublished' = Fields
      /\ UNCHANGED <<time, running, started_at, alive, sequence, stats>>
  BY DEF Reports, ages
<1>2. Aged /\ Tallied /\ Stored
  BY DEF Honest
<1>3. PICK S, T : /\ S = {d.since : d \in running}
                  /\ T = {started_at[s] : s \in {t \in AgeSlots : alive[t]}}
  OBVIOUS
<1>4. S \in SUBSET Nat /\ \A x \in S : x <= time
  BY <1>2, <1>3 DEF Aged
<1>5. T \in SUBSET S
  <2>1. ASSUME NEW x \in T PROVE x \in S
    <3>1. PICK s \in AgeSlots : alive[s] /\ x = started_at[s]
      BY <1>3, <2>1
    <3>2. PICK d \in running : d.since = started_at[s]
      BY <1>2, <3>1 DEF Aged
    <3>3. QED
      BY <1>3, <3>1, <3>2
  <2>2. QED
    BY <2>1
<1>6. /\ AgeSince(T) \in Nat /\ AgeSince(S) \in Nat /\ AgeSince(T) <= AgeSince(S)
      /\ AgeSince(T) > 0 => S # {}
  BY <1>2, <1>4, <1>5, AgesGrow DEF Aged
<1>7. OldestAge = AgeSince(T)
  BY <1>3 DEF OldestAge
<1>8. PICK a \in Nat, b \in Nat : a = AgeSince(T) /\ b = AgeSince(S)
  BY <1>6
<1>9. hot' = [hot EXCEPT !.age = a] /\ truth' = [truth EXCEPT !.age = b]
  BY <1>1, <1>3, <1>7, <1>8
<1>10. Aged'
  BY <1>1, <1>2 DEF Aged
<1>11. /\ hot' \in [completed : Nat, failed : Nat, age : Nat, process : Histograms]
       /\ hot'.completed = hot.completed /\ hot'.failed = hot.failed
       /\ hot'.process = hot.process /\ hot'.age = a
       /\ truth' \in [age : Nat, process : Histograms]
       /\ truth'.process = truth.process /\ truth'.age = b
  BY <1>2, <1>9 DEF Tallied
<1>12. Tallied'
  <2>1. stats' = stats /\ running' = running /\ sequence' = sequence
    BY <1>1
  <2>2. hot'.age <= truth'.age
    BY <1>6, <1>8, <1>11
  <2>3. QED
    BY <1>2, <1>11, <2>1, <2>2 DEF Tallied
<1>13. Stored'
  <2>1. hot'.age > 0 => running' # {}
    BY <1>1, <1>3, <1>6, <1>8, <1>11
  <2>2. unpublished' = Fields /\ Fields # {}
    BY <1>1, FieldsAre
  <2>3. QED
    BY <2>1, <2>2 DEF Stored
<1>14. QED
  BY <1>10, <1>12, <1>13 DEF Honest

(* One store makes one more field current.                                 *)
LEMMA StoreHonest ==
  ASSUME Honest, NEW f \in Fields, Store(f)
  PROVE  Honest'
<1>1. /\ f \in unpublished
      /\ stats' = [stats EXCEPT ![f] = Current(f)]
      /\ unpublished' = unpublished \ {f}
      /\ UNCHANGED <<time, running, started_at, alive, sequence, hot, truth>>
  BY DEF Store, Current, ages
<1>2. Aged /\ Tallied /\ Stored
  BY DEF Honest
<1>3. DOMAIN stats = Fields /\ unpublished # {}
  BY <1>1, <1>2 DEF Tallied
<1>4. DOMAIN stats' = Fields /\ \A g \in Fields : stats'[g] = IF g = f THEN Current(f) ELSE stats[g]
  BY <1>1, <1>3
<1>5. {"inflight", "completed", "failed", "age", "process"} \subseteq Fields
  BY FieldsAre
<1>6. /\ Current("inflight") = Cardinality(running) /\ Current("completed") = hot.completed
      /\ Current("failed") = hot.failed /\ Current("age") = hot.age
      /\ Current("process") = hot.process
  BY DEF Current, Snapshot
<1>7. /\ stats'.completed \in {stats.completed, hot.completed}
      /\ stats'.failed \in {stats.failed, hot.failed}
      /\ stats'.age \in {stats.age, hot.age}
      /\ stats'.inflight \in {stats.inflight, Cardinality(running)}
      /\ stats'.process \in {stats.process, hot.process}
  BY <1>4, <1>5, <1>6
<1>8. Cardinality(running) \in Nat
  BY <1>2, FS_CardinalityType DEF Aged
<1>9. Aged'
  BY <1>1, <1>2 DEF Aged
<1>10. /\ hot.completed \in Nat /\ hot.failed \in Nat /\ hot.age \in Nat
       /\ stats.completed <= hot.completed /\ stats.failed <= hot.failed
       /\ hot.completed + Cardinality(running) = sequence
  BY <1>2 DEF Tallied
<1>11. Tallied'
  <2>1. hot' = hot /\ truth' = truth /\ running' = running /\ sequence' = sequence
    BY <1>1
  <2>2. stats'.completed \in Nat /\ stats'.failed \in Nat /\ stats'.age \in Nat /\ stats'.inflight \in Nat
    BY <1>2, <1>7, <1>8, <1>10 DEF Tallied
  <2>3. stats'.failed <= hot.failed /\ stats'.completed <= hot.completed
    BY <1>7, <1>10
  <2>4. Sampled(stats'.process) /\ Below(stats'.process, truth.process)
    BY <1>2, <1>7 DEF Tallied
  <2>5. QED
    BY <1>2, <1>4, <2>1, <2>2, <2>3, <2>4 DEF Tallied
<1>12. \A g \in Fields : Current(g)' = Current(g)
  BY <1>1 DEF Current, Snapshot
<1>13. \A g \in Fields \ unpublished' : stats'[g] = Current(g)
  BY <1>1, <1>2, <1>3, <1>4 DEF Stored
<1>14. hot.age > 0 => running # {}
  BY <1>2, <1>3 DEF Stored
<1>15. Stored'
  <2>1. ASSUME unpublished' = {}
        PROVE  /\ stats'.age > 0 => stats'.inflight > 0
               /\ stats'.completed + stats'.inflight <= sequence'
    <3>1. /\ stats'.age = hot.age /\ stats'.inflight = Cardinality(running)
          /\ stats'.completed = hot.completed
      BY <1>5, <1>6, <1>13, <2>1
    <3>2. running # {} => Cardinality(running) > 0
      BY <1>2, <1>8, FS_EmptySet DEF Aged
    <3>3. QED
      BY <1>1, <1>8, <1>10, <1>14, <3>1, <3>2
  <2>2. \A g \in Fields \ unpublished' : stats'[g] = Current(g)'
    BY <1>12, <1>13
  <2>3. unpublished' \in SUBSET Fields /\ (hot'.age > 0 => running' # {})
    BY <1>1, <1>2, <1>14 DEF Stored
  <2>4. QED
    BY <2>1, <2>2, <2>3 DEF Stored
<1>16. QED
  BY <1>9, <1>11, <1>15 DEF Honest

(* Time passes.                                                            *)
LEMMA ClockHonest ==
  Honest /\ ClockMoves => Honest'
<1> SUFFICES ASSUME Honest, ClockMoves PROVE Honest'
  OBVIOUS
<1>1. /\ time' = time + 1
      /\ UNCHANGED <<running, started_at, alive, sequence, hot, stats, unpublished, truth>>
  BY DEF ClockMoves, ages
<1>2. Aged /\ Tallied /\ Stored
  BY DEF Honest
<1>3. Aged'
  <2>1. /\ time \in Nat /\ \A d \in running : d.since \in Nat /\ d.since <= time
        /\ \A s \in AgeSlots : started_at[s] \in Nat /\ started_at[s] <= time
    BY <1>2 DEF Aged
  <2>2. /\ time' \in Nat /\ \A d \in running : d.since <= time'
        /\ \A s \in AgeSlots : started_at[s] <= time'
    BY <1>1, <2>1
  <2>3. QED
    BY <1>1, <1>2, <2>2 DEF Aged
<1>4. Tallied'
  BY <1>1, <1>2 DEF Tallied
<1>5. Stored'
  BY <1>1, <1>2 DEF Stored, Current, Snapshot
<1>6. QED
  BY <1>3, <1>4, <1>5 DEF Honest

(* What the shard knows of itself is right, and what it says is not ahead  *)
(* of that: Metrics' inductive invariant.                                  *)
THEOREM ShardsAreHonest ==
  MetricsSpec => []Honest
<1>1. MetricsInit => Honest
  BY HonestAtFirst
<1>2. Honest /\ [MetricsNext]_metricsVars => Honest'
  <2> SUFFICES ASSUME Honest, [MetricsNext]_metricsVars PROVE Honest'
    OBVIOUS
  <2>1. CASE Dispatched
    BY <2>1, DispatchedHonest
  <2>2. CASE Reports
    BY <2>2, ReportsHonest
  <2>3. CASE ClockMoves
    BY <2>3, ClockHonest
  <2>4. ASSUME NEW d \in running, NEW fails \in BOOLEAN, Finished(d, fails) PROVE Honest'
    BY <2>4, FinishedHonest
  <2>5. ASSUME NEW f \in Fields, Store(f) PROVE Honest'
    BY <2>5, StoreHonest
  <2>6. CASE UNCHANGED metricsVars
    BY <2>6 DEF metricsVars, ages, Honest, Aged, Tallied, Stored, Current, Snapshot
  <2>7. QED
    BY <2>1, <2>2, <2>3, <2>4, <2>5, <2>6 DEF MetricsNext
<1>3. QED
  BY <1>1, <1>2, PTL DEF MetricsSpec

(* A shard never reports more than is true: an age above that of the       *)
(* oldest dispatch in flight, although the ages' slots are reused, a       *)
(* quantile above the true one, or a counter ahead of what happened; and   *)
(* the parts of a stored report agree, although it is stored in pieces.    *)
THEOREM ReportsNeverExaggerate ==
  MetricsSpec => []NeverExaggerates
<1>1. Honest => NeverExaggerates
  <2> SUFFICES ASSUME Honest PROVE NeverExaggerates
    OBVIOUS
  <2>1. Aged /\ Tallied /\ Stored
    BY DEF Honest
  <2>2. Cardinality(running) \in Nat
    BY <2>1, FS_CardinalityType DEF Aged
  <2>3. stats.completed + Cardinality(running) <= sequence
    BY <2>1, <2>2 DEF Tallied
  <2>4. QED
    BY <2>1, <2>3 DEF NeverExaggerates, Tallied, Stored, Below
<1>2. QED
  BY <1>1, ShardsAreHonest, PTL

-----------------------------------------------------------------------------
(* Layout.                                                                 *)

(* A finite set in a total order: every element once, each after those     *)
(* before it.                                                              *)
LEMMA OrderedIs ==
  ASSUME NEW S, IsFiniteSet(S), NEW R,
         \A x \in S : <<x, x>> \notin R,
         \A x, y \in S : x = y \/ <<x, y>> \in R \/ <<y, x>> \in R,
         \A x, y, z \in S : <<x, y>> \in R /\ <<y, z>> \in R => <<x, z>> \in R
  PROVE  /\ Cardinality(S) \in Nat
         /\ Ordered(S, R) \in [1 .. Cardinality(S) -> S]
         /\ \A x \in S : \E i \in 1 .. Cardinality(S) : Ordered(S, R)[i] = x
         /\ \A i, j \in 1 .. Cardinality(S) : i < j => <<Ordered(S, R)[i], Ordered(S, R)[j]>> \in R
<1> DEFINE Before(x) == {y \in S : <<y, x>> \in R}
           n == Cardinality(S)
           f == [x \in S |-> Cardinality(Before(x)) + 1]
           s == Ordered(S, R)
<1>1. n \in Nat
  BY FS_CardinalityType
<1>2. ASSUME NEW x \in S
      PROVE  IsFiniteSet(Before(x)) /\ Cardinality(Before(x)) \in Nat /\ Cardinality(Before(x)) < n
  <2>1. Before(x) \in SUBSET S /\ Before(x) # S
    OBVIOUS
  <2>2. IsFiniteSet(Before(x)) /\ Cardinality(Before(x)) <= n /\ Cardinality(Before(x)) # n
    BY <2>1, FS_Subset
  <2>3. Cardinality(Before(x)) \in Nat
    BY <2>2, FS_CardinalityType
  <2>4. QED
    BY <1>1, <2>2, <2>3
<1>3. ASSUME NEW x \in S, NEW y \in S, <<x, y>> \in R
      PROVE  Cardinality(Before(x)) < Cardinality(Before(y))
  <2>1. Before(x) \in SUBSET Before(y)
    BY <1>3
  <2>2. x \in Before(y) /\ x \notin Before(x)
    BY <1>3
  <2>3. Cardinality(Before(x)) <= Cardinality(Before(y)) /\ Cardinality(Before(x)) # Cardinality(Before(y))
    BY <1>2, <2>1, <2>2, FS_Subset
  <2>4. QED
    BY <1>2, <2>3
<1> HIDE DEF Before, n
<1>4. f \in [S -> 1 .. n]
  BY <1>1, <1>2
<1>5. \A x, y \in S : f[x] = f[y] => x = y
  <2> SUFFICES ASSUME NEW x \in S, NEW y \in S, f[x] = f[y] PROVE x = y
    OBVIOUS
  <2>1. Cardinality(Before(x)) = Cardinality(Before(y))
    BY <1>2
  <2>2. ~(<<x, y>> \in R) /\ ~(<<y, x>> \in R)
    BY <1>2, <1>3, <2>1
  <2>3. QED
    BY <2>2
<1>6. \A x \in S : Cardinality(Before(x)) = f[x] - 1
  BY <1>2
<1> HIDE DEF f
<1>7. f \in Injection(S, 1 .. n)
  BY <1>4, <1>5 DEF Injection, IsInjective
<1>8. IsFiniteSet(1 .. n) /\ Cardinality(1 .. n) = n
  BY <1>1, FS_Interval
<1>9. f \in Surjection(S, 1 .. n)
  BY <1>7, <1>8, FS_Injection DEF n
<1>10. \A i \in 1 .. n : \E x \in S : f[x] = i
  BY <1>9 DEF Surjection
<1>11. s = [i \in 1 .. n |-> CHOOSE x \in S : Cardinality(Before(x)) = i - 1]
  BY DEF Ordered, Before, n
<1> HIDE DEF s
<1>12. ASSUME NEW i \in 1 .. n
       PROVE  s[i] \in S /\ f[s[i]] = i
  <2>1. \E x \in S : Cardinality(Before(x)) = i - 1
    BY <1>6, <1>10
  <2>2. s[i] = CHOOSE x \in S : Cardinality(Before(x)) = i - 1
    BY <1>11
  <2>3. s[i] \in S /\ Cardinality(Before(s[i])) = i - 1
    BY <2>1, <2>2
  <2>4. f[s[i]] \in 1 .. n /\ Cardinality(Before(s[i])) = f[s[i]] - 1
    BY <1>4, <1>6, <2>3
  <2>5. QED
    BY <1>1, <2>3, <2>4
<1>13. s \in [1 .. n -> S]
  BY <1>11, <1>12
<1>14. \A x \in S : \E i \in 1 .. n : s[i] = x
  BY <1>4, <1>5, <1>12
<1>15. ASSUME NEW i \in 1 .. n, NEW j \in 1 .. n, i < j PROVE <<s[i], s[j]>> \in R
  <2>1. s[i] \in S /\ s[j] \in S /\ f[s[i]] = i /\ f[s[j]] = j
    BY <1>12
  <2>2. s[i] # s[j]
    BY <1>1, <1>15, <2>1
  <2>3. ~(<<s[j], s[i]>> \in R)
    <3> SUFFICES ASSUME <<s[j], s[i]>> \in R PROVE FALSE
      OBVIOUS
    <3>1. Cardinality(Before(s[j])) < Cardinality(Before(s[i]))
      BY <1>3, <2>1
    <3>2. QED
      BY <1>1, <1>6, <1>15, <2>1, <3>1
  <2>4. QED
    BY <2>1, <2>2, <2>3
<1>16. QED
  BY <1>1, <1>13, <1>14, <1>15 DEF n, s

(* The lowest of some CPUs is one of them.                                 *)
LEMMA LowestIs ==
  ASSUME NEW cpus, cpus \subseteq Nat, cpus # {}
  PROVE  LowestCpu(cpus) \in cpus
<1>1. \E c \in cpus : \A d \in cpus : c <= d
  BY LeastNatural
<1>2. QED
  BY <1>1 DEF LowestCpu

(* What is known of a machine.                                             *)
LEMMA MachineIs ==
  ASSUME NEW m \in Machines
  PROVE  /\ m.pus \subseteq Nat /\ IsFiniteSet(m.pus)
         /\ m.allowed # {} /\ m.allowed \subseteq m.pus /\ m.allowed \subseteq Nat
         /\ IsFiniteSet(m.allowed)
         /\ \A a, b \in m.cores : a # b => a \cap b = {}
         /\ DOMAIN m.nodes \subseteq Nat
         /\ \A n, o \in DOMAIN m.nodes : n # o => m.nodes[n] \cap m.nodes[o] = {}
         /\ \A c \in m.cores, n \in DOMAIN m.nodes : c \cap m.nodes[n] \in {{}, c}
<1>1. /\ m.pus \subseteq Nat /\ IsFiniteSet(m.pus)
      /\ m.allowed # {} /\ m.allowed \subseteq m.pus
      /\ \A a, b \in m.cores : a # b => a \cap b = {}
      /\ DOMAIN m.nodes \subseteq Nat
      /\ \A n, o \in DOMAIN m.nodes : n # o => m.nodes[n] \cap m.nodes[o] = {}
      /\ \A c \in m.cores, n \in DOMAIN m.nodes : c \cap m.nodes[n] \in {{}, c}
  BY LayoutConstants
<1>2. IsFiniteSet(m.allowed)
  BY <1>1, FS_Subset
<1>3. QED
  BY <1>1, <1>2

(* A CPU's node is the one it is on, if there is one.                      *)
LEMMA NodesAre ==
  ASSUME NEW m \in Machines, NEW x
  PROVE  /\ NodeOf(m, x) \in Nat
         /\ \A n \in DOMAIN m.nodes : x \in m.nodes[n] => NodeOf(m, x) = n
<1>1. /\ DOMAIN m.nodes \subseteq Nat
      /\ \A n, o \in DOMAIN m.nodes : n # o => m.nodes[n] \cap m.nodes[o] = {}
  BY MachineIs
<1>2. CASE \E n \in DOMAIN m.nodes : x \in m.nodes[n]
  <2>1. NodeOf(m, x) = CHOOSE n \in DOMAIN m.nodes : x \in m.nodes[n]
    BY <1>2 DEF NodeOf
  <2>2. NodeOf(m, x) \in DOMAIN m.nodes /\ x \in m.nodes[NodeOf(m, x)]
    BY <1>2, <2>1
  <2>3. QED
    BY <1>1, <2>2
<1>3. CASE ~ \E n \in DOMAIN m.nodes : x \in m.nodes[n]
  BY <1>3 DEF NodeOf
<1>4. QED
  BY <1>2, <1>3

UsableIn(m, objects) == {o \cap m.allowed : o \in objects} \ {{}}

(* The cores come from objects that are disjoint, each on one node, and    *)
(* that the process may use some of.                                       *)
LEMMA ObjectsAre ==
  ASSUME NEW m \in Machines
  PROVE  \E objects :
           /\ PhysicalCores(m) = {CoreFrom(m, pus) : pus \in UsableIn(m, objects)}
           /\ UsableIn(m, objects) # {}
           /\ \A o, p \in objects : o # p => o \cap p = {}
           /\ \A o \in objects : \A x, y \in o : NodeOf(m, x) = NodeOf(m, y)
<1>1. /\ m.allowed # {} /\ m.allowed \subseteq m.pus
      /\ \A a, b \in m.cores : a # b => a \cap b = {}
      /\ \A c \in m.cores, n \in DOMAIN m.nodes : c \cap m.nodes[n] \in {{}, c}
  BY MachineIs
<1>2. CASE UsableIn(m, m.cores) # {}
  <2>1. PhysicalCores(m) = {CoreFrom(m, pus) : pus \in UsableIn(m, m.cores)}
    BY <1>2 DEF PhysicalCores, CoreFrom, UsableIn
  <2>2. ASSUME NEW c \in m.cores, NEW x \in c, NEW y \in c PROVE NodeOf(m, x) = NodeOf(m, y)
    <3>1. \A n \in DOMAIN m.nodes : x \in m.nodes[n] <=> y \in m.nodes[n]
      BY <1>1, <2>2
    <3>2. CASE \E n \in DOMAIN m.nodes : x \in m.nodes[n]
      BY <3>1, <3>2, NodesAre
    <3>3. CASE ~ \E n \in DOMAIN m.nodes : x \in m.nodes[n]
      <4>1. ~ \E n \in DOMAIN m.nodes : y \in m.nodes[n]
        BY <3>1, <3>3
      <4>2. QED
        BY <3>3, <4>1 DEF NodeOf
    <3>4. QED
      BY <3>2, <3>3
  <2>3. QED
    BY <1>1, <1>2, <2>1, <2>2
<1>3. CASE UsableIn(m, m.cores) = {}
  <2>1. PICK units : units = {{c} : c \in m.pus}
    OBVIOUS
  <2>2. PhysicalCores(m) = {CoreFrom(m, pus) : pus \in UsableIn(m, units)}
    BY <1>3, <2>1 DEF PhysicalCores, CoreFrom, UsableIn
  <2>3. PICK c \in m.allowed : c \in m.pus
    BY <1>1
  <2>4. {c} \in units /\ {c} \cap m.allowed = {c}
    BY <2>1, <2>3
  <2>5. {c} \in UsableIn(m, units)
    BY <2>4 DEF UsableIn
  <2>6. /\ \A o, p \in units : o # p => o \cap p = {}
        /\ \A o \in units : \A x, y \in o : NodeOf(m, x) = NodeOf(m, y)
    BY <2>1
  <2>7. QED
    BY <2>2, <2>5, <2>6
<1>4. QED
  BY <1>2, <1>3

(* The cores of a machine.                                                 *)
LEMMA CoresAre ==
  ASSUME NEW m \in Machines
  PROVE  /\ IsFiniteSet(PhysicalCores(m)) /\ PhysicalCores(m) # {}
         /\ \A c \in PhysicalCores(m) :
              /\ c.pus \subseteq m.allowed /\ c.pus # {} /\ LowestCpu(c.pus) \in c.pus
              /\ LowestCpu(c.pus) \in Nat
              /\ c.node \in Nat /\ c.performance \in BOOLEAN
              /\ \A x \in c.pus : NodeOf(m, x) = c.node
         /\ \A c, d \in PhysicalCores(m) : c # d => c.pus \cap d.pus = {}
<1>1. PICK objects :
        /\ PhysicalCores(m) = {CoreFrom(m, pus) : pus \in UsableIn(m, objects)}
        /\ UsableIn(m, objects) # {}
        /\ \A o, p \in objects : o # p => o \cap p = {}
        /\ \A o \in objects : \A x, y \in o : NodeOf(m, x) = NodeOf(m, y)
  BY ObjectsAre
<1>2. m.allowed \subseteq Nat /\ IsFiniteSet(m.allowed)
  BY MachineIs
<1>3. PICK U, C : U = UsableIn(m, objects) /\ C = PhysicalCores(m)
  OBVIOUS
<1>4. C = {CoreFrom(m, pus) : pus \in U} /\ U # {}
  BY <1>1, <1>3
<1>5. /\ U \subseteq SUBSET m.allowed
      /\ \A u \in U : u # {} /\ \E o \in objects : u = o \cap m.allowed
  BY <1>3 DEF UsableIn
<1>6. IsFiniteSet(C)
  <2>1. IsFiniteSet(SUBSET m.allowed)
    BY <1>2, FS_SUBSET
  <2>2. IsFiniteSet(U)
    BY <1>5, <2>1, FS_Subset
  <2>3. PICK f : f = [u \in U |-> CoreFrom(m, u)]
    OBVIOUS
  <2>4. f \in Surjection(U, C)
    BY <1>4, <2>3 DEF Surjection
  <2>5. QED
    BY <2>2, <2>4, FS_Surjection
<1>7. ASSUME NEW u \in U
      PROVE  /\ u \subseteq m.allowed /\ u # {} /\ LowestCpu(u) \in u /\ LowestCpu(u) \in Nat
             /\ \A x \in u : NodeOf(m, x) = NodeOf(m, LowestCpu(u))
  <2>1. u \subseteq m.allowed /\ u # {} /\ u \subseteq Nat
    BY <1>2, <1>5
  <2>2. LowestCpu(u) \in u
    BY <2>1, LowestIs
  <2>3. PICK o \in objects : u = o \cap m.allowed
    BY <1>5
  <2>4. QED
    BY <1>1, <2>1, <2>2, <2>3
<1>8. ASSUME NEW u \in U, NEW v \in U, u # v PROVE u \cap v = {}
  <2>1. PICK o \in objects, p \in objects : u = o \cap m.allowed /\ v = p \cap m.allowed
    BY <1>5
  <2>2. o # p
    BY <1>8, <2>1
  <2>3. o \cap p = {}
    BY <1>1, <2>2
  <2>4. QED
    BY <2>1, <2>3
<1>9. ASSUME NEW c \in C
      PROVE  /\ c.pus \in U /\ c = CoreFrom(m, c.pus)
             /\ c.node = NodeOf(m, LowestCpu(c.pus)) /\ c.performance \in BOOLEAN
  <2>1. PICK u \in U : c = CoreFrom(m, u)
    BY <1>4
  <2>2. c.pus = u
    BY <2>1 DEF CoreFrom
  <2>3. QED
    BY <2>1, <2>2 DEF CoreFrom
<1>10. \A c \in C : c.node \in Nat
  BY <1>9, NodesAre
<1>11. \A c, d \in C : c # d => c.pus \cap d.pus = {}
  BY <1>8, <1>9
<1>12. ASSUME NEW c \in C
       PROVE  /\ c.pus \subseteq m.allowed /\ c.pus # {} /\ LowestCpu(c.pus) \in c.pus
              /\ LowestCpu(c.pus) \in Nat
              /\ c.node \in Nat /\ c.performance \in BOOLEAN
              /\ \A x \in c.pus : NodeOf(m, x) = c.node
  BY <1>7, <1>9, <1>10
<1>13. C # {}
  BY <1>4
<1>14. QED
  BY <1>3, <1>6, <1>11, <1>12, <1>13

(* The cores in the order in which they are used.                          *)
LEMMA BestIs ==
  ASSUME NEW m \in Machines, NEW C, C = PhysicalCores(m), NEW n, n = Cardinality(C),
         NEW b, b = Best(C)
  PROVE  /\ n \in Nat \ {0} /\ b \in [1 .. n -> C] /\ b \in Seq(C) /\ Len(b) = n
         /\ \A c \in C : \E i \in 1 .. n : b[i] = c
         /\ \A i, j \in 1 .. n : i # j => b[i] # b[j]
         /\ \A i, j \in 1 .. n : i < j /\ b[j].performance => b[i].performance
<1>1. /\ IsFiniteSet(C) /\ C # {}
      /\ \A c \in C : /\ c.pus # {} /\ LowestCpu(c.pus) \in c.pus /\ LowestCpu(c.pus) \in Nat
                      /\ c.node \in Nat /\ c.performance \in BOOLEAN
      /\ \A c, d \in C : c # d => c.pus \cap d.pus = {}
  BY CoresAre
<1>2. \A c, d \in C : LowestCpu(c.pus) = LowestCpu(d.pus) => c = d
  BY <1>1
<1>3. PICK low : low = [c \in C |-> LowestCpu(c.pus)]
  OBVIOUS
<1>4. /\ \A c \in C : low[c] \in Nat /\ c.node \in Nat /\ c.performance \in BOOLEAN
      /\ \A c, d \in C : low[c] = low[d] => c = d
  BY <1>1, <1>2, <1>3
<1>5. \A c, d \in C :
        Better(c, d) <=> \/ c.performance /\ ~d.performance
                         \/ c.performance = d.performance /\ c.node < d.node
                         \/ c.performance = d.performance /\ c.node = d.node /\ low[c] < low[d]
  BY <1>3 DEF Better
<1>6. PICK R : R = {p \in C \X C : Better(p[1], p[2])}
  OBVIOUS
<1>7. \A c, d \in C : <<c, d>> \in R <=> Better(c, d)
  BY <1>6
<1>8. \A c \in C : <<c, c>> \notin R
  BY <1>4, <1>5, <1>7
<1>9. \A c, d \in C : c = d \/ <<c, d>> \in R \/ <<d, c>> \in R
  <2> SUFFICES ASSUME NEW c \in C, NEW d \in C, c # d PROVE Better(c, d) \/ Better(d, c)
    BY <1>7
  <2>1. low[c] # low[d] /\ low[c] \in Nat /\ low[d] \in Nat /\ c.node \in Nat /\ d.node \in Nat
    BY <1>4
  <2>2. QED
    BY <1>4, <1>5, <2>1
<1>10. \A c, d, e \in C : <<c, d>> \in R /\ <<d, e>> \in R => <<c, e>> \in R
  <2> SUFFICES ASSUME NEW c \in C, NEW d \in C, NEW e \in C, Better(c, d), Better(d, e)
               PROVE  Better(c, e)
    BY <1>7
  <2>1. PICK i \in Nat, j \in Nat, k \in Nat, r \in Nat, s \in Nat, t \in Nat :
          /\ i = c.node /\ j = d.node /\ k = e.node
          /\ r = low[c] /\ s = low[d] /\ t = low[e]
    BY <1>4
  <2>2. \/ c.performance /\ ~d.performance
        \/ c.performance = d.performance /\ (i < j \/ (i = j /\ r < s))
    BY <1>5, <2>1
  <2>3. \/ d.performance /\ ~e.performance
        \/ d.performance = e.performance /\ (j < k \/ (j = k /\ s < t))
    BY <1>5, <2>1
  <2>4. \/ c.performance /\ ~e.performance
        \/ c.performance = e.performance /\ (i < k \/ (i = k /\ r < t))
    <3>1. (i < j \/ (i = j /\ r < s)) /\ (j < k \/ (j = k /\ s < t)) => (i < k \/ (i = k /\ r < t))
      BY <2>1
    <3>2. QED
      BY <2>2, <2>3, <3>1
  <2>5. QED
    BY <1>5, <2>1, <2>4
<1>11. /\ n \in Nat /\ Ordered(C, R) \in [1 .. n -> C]
       /\ \A c \in C : \E i \in 1 .. n : Ordered(C, R)[i] = c
       /\ \A i, j \in 1 .. n : i < j => <<Ordered(C, R)[i], Ordered(C, R)[j]>> \in R
  BY <1>1, <1>8, <1>9, <1>10, OrderedIs
<1>12. b = Ordered(C, R)
  BY <1>6 DEF Best
<1>13. /\ n \in Nat /\ b \in [1 .. n -> C]
       /\ \A c \in C : \E i \in 1 .. n : b[i] = c
       /\ \A i, j \in 1 .. n : i < j => <<b[i], b[j]>> \in R
  BY <1>11, <1>12
<1>14. n # 0
  BY <1>1, FS_EmptySet
<1>15. b \in Seq(C) /\ Len(b) = n
  BY <1>13
<1>16. ASSUME NEW i \in 1 .. n, NEW j \in 1 .. n, i # j PROVE b[i] # b[j]
  <2>1. b[i] \in C /\ b[j] \in C
    BY <1>13
  <2>2. i < j \/ j < i
    BY <1>13, <1>16
  <2>3. QED
    BY <1>8, <1>13, <2>1, <2>2
<1>17. ASSUME NEW i \in 1 .. n, NEW j \in 1 .. n, i < j, b[j].performance PROVE b[i].performance
  <2>1. b[i] \in C /\ b[j] \in C /\ Better(b[i], b[j])
    BY <1>7, <1>13, <1>17
  <2>2. b[i].performance \in BOOLEAN /\ b[j].performance \in BOOLEAN
    BY <1>4, <2>1
  <2>3. QED
    BY <1>5, <1>17, <2>1, <2>2
<1>18. QED
  BY <1>13, <1>14, <1>15, <1>16, <1>17

Workload == [compute : Fractions, reserve_cores : Nat, isolate_smt : BOOLEAN]
Quota == [source : {"v1", "v2"}, quota : Nat \cup {-1}, period : Nat]

(* A rounded share is a number.                                            *)
LEMMA ShareIs ==
  ASSUME NEW k \in Nat, NEW f \in Fractions
  PROVE  Share(k, f) \in Nat
<1>1. PICK a \in Nat, d \in Nat \ {0} : a = f.num /\ d = f.den
  BY DEF Fractions
<1>2. k * a \in Nat
  OBVIOUS
<1>3. PICK x \in Nat : x = k * a
  BY <1>2
<1>4. 2 * x + d \in Nat /\ 2 * d \in Nat \ {0}
  OBVIOUS
<1>5. (2 * x + d) \div (2 * d) \in Nat
  BY <1>4, Division
<1>6. 2 * k * f.num = 2 * x
  BY <1>1, <1>3
<1>7. QED
  BY <1>1, <1>5, <1>6 DEF Share

(* What the reserve leaves, and what the quota leaves of it.               *)
LEMMA BudgetIs ==
  ASSUME NEW n \in Nat \ {0}, NEW w \in Workload, NEW q \in Quota
  PROVE  /\ Unreserved(n, w) \in 1 .. n
         /\ Budget(n, w, q) \in 1 .. n /\ Budget(n, w, q) <= Unreserved(n, w)
         /\ Unlimited(q) \/ Budget(n, w, q) <= UsableCores(q)
<1>1. w.reserve_cores \in Nat /\ q.quota \in Nat \cup {-1} /\ q.period \in Nat
  BY DEF Workload, Quota
<1>2. Unreserved(n, w) \in 1 .. n
  BY <1>1 DEF Unreserved, AtLeast
<1>3. CASE Unlimited(q)
  BY <1>2, <1>3 DEF Budget
<1>4. CASE ~Unlimited(q)
  <2>1. q.quota \in Nat /\ q.period \in Nat \ {0}
    BY <1>1, <1>4 DEF Unlimited
  <2>2. q.quota \div q.period \in Nat
    BY <2>1, Division
  <2>3. UsableCores(q) \in Nat \ {0}
    BY <2>2 DEF UsableCores, AtLeast
  <2>4. Budget(n, w, q) = Least(UsableCores(q), Unreserved(n, w))
    BY <1>4 DEF Budget
  <2>5. QED
    BY <1>2, <2>3, <2>4 DEF Least
<1>5. QED
  BY <1>3, <1>4

(* Compute never takes the last core.                                      *)
LEMMA OffloadCoresAre ==
  ASSUME NEW k \in Nat \ {0}, NEW w \in Workload
  PROVE  OffloadCores(k, w) \in 0 .. k - 1
<1>1. w.compute \in Fractions
  BY DEF Workload
<1>2. Share(k, w.compute) \in Nat
  BY <1>1, ShareIs
<1>3. QED
  BY <1>2 DEF OffloadCores, Least, AtLeast

PoolOn(cores, w, node) ==
  [node |-> node, cpus |-> UNION {Given(c, w) : c \in {d \in ToSet(cores) : d.node = node}}]

(* The pools are those of the nodes that the cores are on.                 *)
LEMMA PoolsAre ==
  ASSUME NEW C, NEW cores \in Seq(C), NEW w
  PROVE  /\ \A o \in ToSet(Pools(cores, w)) : o = PoolOn(cores, w, o.node)
         /\ \A c \in ToSet(cores) : \E o \in ToSet(Pools(cores, w)) : o.node = c.node
<1>1. DOMAIN cores = 1 .. Len(cores) /\ Len(cores) \in Nat
  OBVIOUS
<1>2. PICK opening :
        opening = {i \in DOMAIN cores : \A j \in 1 .. i - 1 : cores[j].node # cores[i].node}
  OBVIOUS
<1>3. PICK R : R = {p \in opening \X opening : p[1] < p[2]}
  OBVIOUS
<1>4. PICK order, k : order = Ordered(opening, R) /\ k = Cardinality(opening)
  OBVIOUS
<1>5. Pools(cores, w) = [i \in DOMAIN order |-> PoolOn(cores, w, cores[order[i]].node)]
  BY <1>2, <1>3, <1>4 DEF Pools, PoolOn
<1>6. opening \subseteq 1 .. Len(cores)
  BY <1>1, <1>2
<1>7. IsFiniteSet(opening)
  <2>1. 1 \in Int /\ Len(cores) \in Int
    BY <1>1
  <2>2. IsFiniteSet(1 .. Len(cores))
    BY <2>1, FS_Interval
  <2>3. QED
    BY <1>6, <2>2, FS_Subset
<1>8. /\ \A x, y \in opening : <<x, y>> \in R <=> x < y
      /\ \A x \in opening : x \in Nat
  BY <1>1, <1>3, <1>6
<1>9. /\ \A x \in opening : <<x, x>> \notin R
      /\ \A x, y \in opening : x = y \/ <<x, y>> \in R \/ <<y, x>> \in R
      /\ \A x, y, z \in opening : <<x, y>> \in R /\ <<y, z>> \in R => <<x, z>> \in R
  BY <1>8
<1>10. /\ order \in [1 .. k -> opening]
       /\ \A x \in opening : \E i \in 1 .. k : order[i] = x
  BY <1>4, <1>7, <1>9, OrderedIs
<1>11. ASSUME NEW o \in ToSet(Pools(cores, w)) PROVE o = PoolOn(cores, w, o.node)
  <2>1. PICK i \in DOMAIN order : o = PoolOn(cores, w, cores[order[i]].node)
    BY <1>5 DEF ToSet
  <2>2. o.node = cores[order[i]].node
    BY <2>1 DEF PoolOn
  <2>3. QED
    BY <2>1, <2>2
<1>12. ASSUME NEW c \in ToSet(cores) PROVE \E o \in ToSet(Pools(cores, w)) : o.node = c.node
  <2>1. PICK T : T = {i \in 1 .. Len(cores) : cores[i].node = c.node}
    OBVIOUS
  <2>2. T \subseteq Nat /\ T # {}
    BY <1>1, <2>1 DEF ToSet
  <2>3. PICK i \in T : \A j \in T : i <= j
    BY <2>2, LeastNatural
  <2>4. i \in 1 .. Len(cores) /\ cores[i].node = c.node
    BY <2>1
  <2>5. ASSUME NEW j \in 1 .. i - 1 PROVE cores[j].node # cores[i].node
    <3>1. j \in 1 .. Len(cores) /\ j < i
      BY <1>1, <2>4
    <3>2. j \notin T
      BY <2>2, <2>3, <3>1
    <3>3. QED
      BY <2>1, <2>4, <3>1, <3>2
  <2>6. i \in opening
    BY <1>1, <1>2, <2>4, <2>5
  <2>7. PICK p \in 1 .. k : order[p] = i
    BY <1>10, <2>6
  <2>8. p \in DOMAIN order
    BY <1>10
  <2>9. Pools(cores, w)[p] = PoolOn(cores, w, c.node) /\ p \in DOMAIN Pools(cores, w)
    BY <1>5, <2>4, <2>7, <2>8
  <2>10. Pools(cores, w)[p].node = c.node
    BY <2>9 DEF PoolOn
  <2>11. QED
    BY <2>9, <2>10 DEF ToSet
<1>13. QED
  BY <1>11, <1>12

(* With hwloc.  b lists the cores from the best; the first s of them are   *)
(* the reactors' and those up to k compute's.                              *)
LEMMA SharedIsSound ==
  ASSUME machine \in Machines, workload \in Workload, quota \in Quota, hwloc = TRUE,
         plan = PlanShared(machine, workload, quota)
  PROVE  PlanIsSound /\ IsFiniteSet(PoolCpus) /\ Len(plan.shards) \in Nat \ {0}
<1>1. PICK m, w, C, n, b, k, s, cs :
        /\ m = machine /\ w = workload /\ C = PhysicalCores(m) /\ n = Cardinality(C) /\ b = Best(C)
        /\ k = Budget(n, w, quota) /\ s = k - OffloadCores(k, w) /\ cs = SubSeq(b, s + 1, k)
  OBVIOUS
<1>2. /\ n \in Nat \ {0} /\ b \in [1 .. n -> C] /\ b \in Seq(C) /\ Len(b) = n
      /\ \A c \in C : \E i \in 1 .. n : b[i] = c
      /\ \A i, j \in 1 .. n : i # j => b[i] # b[j]
      /\ \A i, j \in 1 .. n : i < j /\ b[j].performance => b[i].performance
  BY <1>1, BestIs
<1>3. /\ Unreserved(n, w) \in 1 .. n
      /\ k \in 1 .. n /\ k <= Unreserved(n, w)
      /\ Unlimited(quota) \/ k <= UsableCores(quota)
  BY <1>1, <1>2, BudgetIs
<1>4. s \in 1 .. k
  <2>1. k \in Nat \ {0}
    BY <1>2, <1>3
  <2>2. OffloadCores(k, w) \in 0 .. k - 1
    BY <1>1, <2>1, OffloadCoresAre
  <2>3. PICK v \in 0 .. k - 1 : v = OffloadCores(k, w)
    BY <2>2
  <2>4. s = k - v
    BY <1>1, <2>3
  <2>5. QED
    BY <2>1, <2>3, <2>4
<1>5. /\ \A c \in C :
           /\ c.pus \subseteq m.allowed /\ c.pus # {} /\ LowestCpu(c.pus) \in c.pus
           /\ c.node \in Nat
           /\ \A x \in c.pus : NodeOf(m, x) = c.node
      /\ \A c, d \in C : c # d => c.pus \cap d.pus = {}
  BY <1>1, CoresAre
<1>6. cs \in Seq(C) /\ ToSet(cs) = {b[j] : j \in s + 1 .. k}
  <2>1. PICK a \in Int, z \in Int : a = s + 1 /\ z = k
    BY <1>2, <1>3, <1>4
  <2>2. a \in 1 .. z + 1 /\ z \in 1 .. n
    BY <1>2, <1>3, <1>4, <2>1
  <2>3. /\ cs \in Seq(C) /\ Len(cs) = z - a + 1
        /\ \A i \in 1 .. z - a + 1 : cs[i] = b[a + i - 1]
    <3>1. cs = SubSeq(b, a, z)
      BY <1>1, <2>1
    <3>2. \A i \in a .. z : b[i] \in C
      BY <1>2, <2>2
    <3>3. /\ cs \in Seq(C) /\ Len(cs) = IF a <= z THEN z - a + 1 ELSE 0
          /\ \A i \in 1 .. z - a + 1 : cs[i] = b[a + i - 1]
      BY <2>1, <3>1, <3>2, SubSeqProperties
    <3>4. (IF a <= z THEN z - a + 1 ELSE 0) = z - a + 1
      BY <1>2, <2>2
    <3>5. QED
      BY <3>3, <3>4
  <2>4. DOMAIN cs = 1 .. z - a + 1 /\ a \in Nat
    BY <1>2, <2>2, <2>3
  <2>5. ASSUME NEW j \in a .. z PROVE b[j] \in ToSet(cs)
    <3>1. j - a + 1 \in 1 .. z - a + 1 /\ a + (j - a + 1) - 1 = j
      BY <2>4
    <3>2. cs[j - a + 1] = b[j]
      BY <2>3, <3>1
    <3>3. QED
      BY <2>4, <3>1, <3>2 DEF ToSet
  <2>6. ASSUME NEW c \in ToSet(cs) PROVE c \in {b[j] : j \in a .. z}
    <3>1. PICK i \in 1 .. z - a + 1 : c = cs[i]
      BY <2>4 DEF ToSet
    <3>2. a + i - 1 \in a .. z
      BY <2>4
    <3>3. QED
      BY <2>3, <3>1, <3>2
  <2>7. ToSet(cs) = {b[j] : j \in a .. z}
    BY <2>5, <2>6
  <2>8. QED
    BY <2>1, <2>3, <2>7
<1>7. /\ plan.shards = [i \in 1 .. s |-> [cpu |-> LowestCpu(b[i].pus), node |-> b[i].node]]
      /\ plan.offload = Pools(cs, w)
  BY <1>1, <1>2 DEF PlanShared
<1>8. Cores = C
  BY <1>1 DEF Cores
<1>9. ASSUME NEW c \in C, NEW x \in c.pus PROVE CoreOf(x) = c
  BY <1>5, <1>8, <1>9 DEF CoreOf
<1>10. \A i \in 1 .. k : i \in 1 .. n /\ b[i] \in C
  BY <1>2, <1>3
<1>11. \A i \in 1 .. s : i \in 1 .. k
  BY <1>2, <1>3, <1>4
<1>12. \A j \in s + 1 .. k : j \in 1 .. k /\ \A i \in 1 .. s : i # j
  BY <1>2, <1>3, <1>4
<1>13. /\ DOMAIN plan.shards = 1 .. s /\ Len(plan.shards) = s
       /\ \A i \in 1 .. s : /\ plan.shards[i].cpu = LowestCpu(b[i].pus)
                            /\ plan.shards[i].node = b[i].node
  BY <1>2, <1>3, <1>4, <1>7
<1>14. \A i \in 1 .. s : /\ b[i] \in C /\ LowestCpu(b[i].pus) \in b[i].pus
                         /\ CoreOf(LowestCpu(b[i].pus)) = b[i]
  BY <1>5, <1>9, <1>10, <1>11
<1>15. ShardCpus = {LowestCpu(b[i].pus) : i \in 1 .. s}
  BY <1>13 DEF ShardCpus
<1>16. /\ \A o \in PoolsUsed : o = PoolOn(cs, w, o.node)
       /\ \A c \in ToSet(cs) : \E o \in PoolsUsed : o.node = c.node
  BY <1>6, <1>7, PoolsAre DEF PoolsUsed
<1>17. ASSUME NEW o \in PoolsUsed, NEW x \in o.cpus
       PROVE  \E j \in s + 1 .. k : /\ b[j] \in C /\ x \in b[j].pus /\ b[j].node = o.node
                                    /\ x \in Given(b[j], w) /\ CoreOf(x) = b[j]
  <2>1. o.cpus = UNION {Given(c, w) : c \in {d \in ToSet(cs) : d.node = o.node}}
    BY <1>16 DEF PoolOn
  <2>2. PICK c \in ToSet(cs) : c.node = o.node /\ x \in Given(c, w)
    BY <1>17, <2>1
  <2>3. PICK j \in s + 1 .. k : c = b[j]
    BY <1>6
  <2>4. c \in C
    BY <1>10, <1>12, <2>3
  <2>5. x \in c.pus
    BY <1>5, <2>2, <2>4 DEF Given
  <2>6. QED
    BY <1>9, <2>2, <2>3, <2>4, <2>5
<1>18. ASSUME NEW x \in PoolCpus
       PROVE  \E j \in s + 1 .. k : /\ b[j] \in C /\ x \in b[j].pus
                                    /\ x \in Given(b[j], w) /\ CoreOf(x) = b[j]
  BY <1>17, <1>18 DEF PoolCpus
<1>19. ShardCpus \cup PoolCpus \subseteq m.allowed
  BY <1>5, <1>14, <1>15, <1>18
<1>20. IsFiniteSet(ShardCpus) /\ IsFiniteSet(PoolCpus) /\ IsFiniteSet(ShardCpus \cup PoolCpus)
  <2>1. IsFiniteSet(m.allowed)
    BY <1>1, MachineIs
  <2>2. QED
    BY <1>19, <2>1, FS_Subset
<1>21. Cardinality(ShardCpus) = s
  <2>1. PICK f : f = [i \in 1 .. s |-> LowestCpu(b[i].pus)]
    OBVIOUS
  <2>2. f \in Surjection(1 .. s, ShardCpus)
    BY <1>15, <2>1 DEF Surjection
  <2>3. \A i, j \in 1 .. s : f[i] = f[j] => i = j
    <3> SUFFICES ASSUME NEW i \in 1 .. s, NEW j \in 1 .. s, f[i] = f[j], i # j PROVE FALSE
      OBVIOUS
    <3>1. b[i] = b[j]
      BY <1>14, <2>1
    <3>2. QED
      BY <1>2, <1>10, <1>11, <3>1
  <2>4. f \in Injection(1 .. s, ShardCpus)
    BY <2>2, <2>3 DEF Injection, Surjection, IsInjective
  <2>5. s \in Int /\ 1 \in Int /\ 1 <= s
    BY <1>2, <1>3, <1>4
  <2>6. IsFiniteSet(1 .. s) /\ Cardinality(1 .. s) = s
    BY <2>5, FS_Interval
  <2>7. QED
    BY <2>2, <2>4, <2>6, FS_Surjection
<1>22. ASSUME NEW x \in ShardCpus, NEW y \in PoolCpus PROVE CoreOf(x) # CoreOf(y)
  <2>1. PICK i \in 1 .. s : CoreOf(x) = b[i]
    BY <1>14, <1>15
  <2>2. PICK j \in s + 1 .. k : CoreOf(y) = b[j]
    BY <1>18
  <2>3. QED
    BY <1>2, <1>10, <1>11, <1>12, <2>1, <2>2
<1>23. ASSUME NEW o \in PoolsUsed, NEW x \in o.cpus PROVE NodeOf(m, x) = o.node
  BY <1>5, <1>17, <1>23
<1>24. \A o, p \in PoolsUsed : o # p => o.node # p.node /\ o.cpus \cap p.cpus = {}
  BY <1>16, <1>23
<1>25. Cardinality(CoresUsed) <= k
  <2>1. PICK U, f : U = {b[i] : i \in 1 .. k} /\ f = [i \in 1 .. k |-> b[i]]
    OBVIOUS
  <2>2. f \in Surjection(1 .. k, U)
    BY <2>1 DEF Surjection
  <2>3. k \in Int /\ 1 \in Int /\ 1 <= k /\ k \in Nat
    BY <1>2, <1>3
  <2>4. IsFiniteSet(1 .. k) /\ Cardinality(1 .. k) = k
    BY <2>3, FS_Interval
  <2>5. IsFiniteSet(U) /\ Cardinality(U) <= k
    BY <2>2, <2>4, FS_Surjection
  <2>6. CoresUsed \subseteq U
    <3>1. ASSUME NEW x \in ShardCpus \cup PoolCpus PROVE CoreOf(x) \in U
      <4>1. CASE x \in ShardCpus
        <5>1. PICK i \in 1 .. s : CoreOf(x) = b[i]
          BY <1>14, <1>15, <4>1
        <5>2. QED
          BY <1>11, <2>1, <5>1
      <4>2. CASE x \in PoolCpus
        <5>1. PICK j \in s + 1 .. k : CoreOf(x) = b[j]
          BY <1>18, <4>2
        <5>2. QED
          BY <1>12, <2>1, <5>1
      <4>3. QED
        BY <4>1, <4>2
    <3>2. QED
      BY <3>1 DEF CoresUsed
  <2>7. IsFiniteSet(CoresUsed) /\ Cardinality(CoresUsed) <= Cardinality(U)
    BY <2>5, <2>6, FS_Subset
  <2>8. Cardinality(CoresUsed) \in Nat /\ Cardinality(U) \in Nat
    BY <2>5, <2>7, FS_CardinalityType
  <2>9. QED
    BY <2>3, <2>5, <2>7, <2>8
<1>26. Cardinality(CoresUsed) <= Unreserved(Cardinality(Cores), w)
       /\ (Unlimited(quota) \/ Cardinality(CoresUsed) <= UsableCores(quota))
  <2>1. PICK T : T = ShardCpus \cup PoolCpus
    OBVIOUS
  <2>2. PICK g : g = [x \in T |-> CoreOf(x)]
    OBVIOUS
  <2>3. g \in Surjection(T, CoresUsed)
    BY <2>1, <2>2 DEF Surjection, CoresUsed
  <2>4. IsFiniteSet(CoresUsed)
    BY <1>20, <2>1, <2>3, FS_Surjection
  <2>5. Cardinality(CoresUsed) \in Nat
    BY <2>4, FS_CardinalityType
  <2>6. UsableCores(quota) \in Nat \/ Unlimited(quota)
    <3>1. quota.quota \in Nat \cup {-1} /\ quota.period \in Nat
      BY DEF Quota
    <3>2. ASSUME ~Unlimited(quota) PROVE UsableCores(quota) \in Nat
      <4>1. quota.quota \in Nat /\ quota.period \in Nat \ {0}
        BY <3>1, <3>2 DEF Unlimited
      <4>2. quota.quota \div quota.period \in Nat
        BY <4>1, Division
      <4>3. QED
        BY <4>2 DEF UsableCores, AtLeast
    <3>3. QED
      BY <3>2
  <2>7. k \in Nat /\ Unreserved(n, w) \in Nat
    BY <1>2, <1>3
  <2>8. QED
    BY <1>1, <1>3, <1>8, <1>25, <2>5, <2>6, <2>7
<1>27. w.isolate_smt => Cardinality(CoresUsed) = Cardinality(ShardCpus \cup PoolCpus)
  <2> SUFFICES ASSUME w.isolate_smt
               PROVE  Cardinality(CoresUsed) = Cardinality(ShardCpus \cup PoolCpus)
    OBVIOUS
  <2>1. PICK T : T = ShardCpus \cup PoolCpus
    OBVIOUS
  <2>2. PICK g : g = [x \in T |-> CoreOf(x)]
    OBVIOUS
  <2>3. g \in Surjection(T, CoresUsed)
    BY <2>1, <2>2 DEF Surjection, CoresUsed
  <2>4. \A x \in T : x = LowestCpu(CoreOf(x).pus)
    BY <1>14, <1>15, <1>18, <2>1 DEF Given
  <2>5. g \in Injection(T, CoresUsed)
    BY <2>2, <2>3, <2>4 DEF Injection, Surjection, IsInjective
  <2>6. QED
    BY <1>20, <2>1, <2>3, <2>5, FS_Surjection
<1>28. ASSUME NEW i \in 1 .. s PROVE plan.shards[i].node = NodeOf(m, plan.shards[i].cpu)
  BY <1>5, <1>13, <1>14
<1>29. ASSUME NEW node \in DOMAIN m.nodes, PoolCpus \cap m.nodes[node] # {}
       PROVE  ForNode(plan, node).cpus \cap m.nodes[node] # {}
  <2>1. PICK x \in PoolCpus : x \in m.nodes[node]
    BY <1>29
  <2>2. PICK o \in PoolsUsed : x \in o.cpus
    BY DEF PoolCpus
  <2>3. o.node = node
    BY <1>1, <1>23, <2>1, <2>2, NodesAre
  <2>4. PICK local : local = {p \in ToSet(plan.offload) : p.node = node}
    OBVIOUS
  <2>5. o \in local /\ \A p \in local : p = o
    BY <1>24, <2>3, <2>4 DEF PoolsUsed
  <2>6. ForNode(plan, node) = CHOOSE p \in local : TRUE
    BY <2>4, <2>5 DEF ForNode
  <2>7. ForNode(plan, node) = o
    BY <2>5, <2>6
  <2>8. QED
    BY <2>1, <2>2, <2>7
<1>30. ASSUME NEW c \in Reactors, NEW d \in C, d.performance, ~c.performance PROVE d \in Reactors
  <2>1. PICK i \in 1 .. s : c = b[i]
    BY <1>14, <1>15 DEF Reactors
  <2>2. PICK j \in 1 .. n : d = b[j]
    BY <1>2
  <2>3. i \in 1 .. n
    BY <1>10, <1>11
  <2>4. ~(i < j) /\ i # j
    BY <1>2, <1>30, <2>1, <2>2, <2>3
  <2>5. j \in 1 .. s
    BY <1>2, <1>3, <1>4, <2>2, <2>4
  <2>6. LowestCpu(b[j].pus) \in ShardCpus /\ CoreOf(LowestCpu(b[j].pus)) = d
    BY <1>14, <1>15, <2>2, <2>5
  <2>7. QED
    BY <2>6 DEF Reactors
<1>31. plan.shards # <<>> /\ Len(plan.shards) \in Nat \ {0}
  BY <1>2, <1>3, <1>4, <1>13
<1>32. ShardCpus \cap PoolCpus = {}
  BY <1>22
<1>33. QED
  <2>1. \A i \in DOMAIN plan.shards :
          \/ plan.offload = <<>> \/ plan.shards[i].node \notin DOMAIN machine.nodes
          \/ ForNode(plan, plan.shards[i].node).cpus \cap machine.nodes[plan.shards[i].node] # {}
          \/ PoolCpus \cap machine.nodes[plan.shards[i].node] = {}
    BY <1>1, <1>29
  <2>2. /\ ShardCpus \cup PoolCpus \subseteq machine.allowed
        /\ Cardinality(CoresUsed) <= Unreserved(Cardinality(Cores), workload)
        /\ Unlimited(quota) \/ Cardinality(CoresUsed) <= UsableCores(quota)
        /\ \A cpu \in ShardCpus : \A other \in PoolCpus : CoreOf(cpu) # CoreOf(other)
        /\ workload.isolate_smt => Cardinality(CoresUsed) = Cardinality(ShardCpus \cup PoolCpus)
        /\ \A i \in DOMAIN plan.shards : plan.shards[i].node = NodeOf(machine, plan.shards[i].cpu)
        /\ \A o \in PoolsUsed : \A cpu \in o.cpus : NodeOf(machine, cpu) = o.node
        /\ \A c \in Reactors, d \in Cores : d.performance /\ ~c.performance => d \in Reactors
    BY <1>1, <1>8, <1>13, <1>19, <1>22, <1>23, <1>26, <1>27, <1>28, <1>30
  <2>3. QED
    BY <1>13, <1>20, <1>21, <1>24, <1>31, <1>32, <2>1, <2>2 DEF PlanIsSound

(* Without hwloc the CPUs are the numbers below their count.               *)
LEMMA FallbackIsSound ==
  ASSUME machine \in Machines, workload \in Workload, hwloc = FALSE,
         plan = FromCpuCount(Cardinality(machine.allowed), workload)
  PROVE  PlanIsSound /\ IsFiniteSet(PoolCpus) /\ Len(plan.shards) \in Nat \ {0}
<1>1. PICK n, k, v, r :
        /\ n = Cardinality(machine.allowed) /\ k = Unreserved(n, workload)
        /\ v = Least(k - 1, Share(k, workload.compute)) /\ r = k - v
  OBVIOUS
<1>2. n \in Nat \ {0}
  <2>1. IsFiniteSet(machine.allowed) /\ machine.allowed # {}
    BY MachineIs
  <2>2. QED
    BY <1>1, <2>1, FS_CardinalityType, FS_EmptySet
<1>3. k \in 1 .. n
  <2>1. workload.reserve_cores \in Nat
    BY DEF Workload
  <2>2. QED
    BY <1>1, <1>2, <2>1 DEF Unreserved, AtLeast
<1>4. v \in 0 .. k - 1 /\ k \in Nat \ {0}
  <2>1. k \in Nat \ {0} /\ workload.compute \in Fractions
    BY <1>2, <1>3 DEF Workload
  <2>2. PICK h \in Nat : h = Share(k, workload.compute)
    BY <2>1, ShareIs
  <2>3. v = Least(k - 1, h)
    BY <1>1, <2>2
  <2>4. QED
    BY <2>1, <2>2, <2>3 DEF Least
<1>5. r \in 1 .. k /\ r \in Nat \ {0} /\ (v = 0 <=> r = k)
  <2>1. r = k - v
    BY <1>1
  <2>2. QED
    BY <1>4, <2>1
<1>6. /\ plan.shards = [i \in 1 .. r |-> [cpu |-> i - 1, node |-> 0]]
      /\ plan.offload = IF v = 0 THEN <<>> ELSE <<[node |-> 0, cpus |-> r .. k - 1]>>
  BY <1>1 DEF FromCpuCount
<1>7. Len(plan.shards) = r /\ plan.shards # <<>> /\ DOMAIN plan.shards = 1 .. r
  <2>1. PICK t : t = [i \in 1 .. r |-> [cpu |-> i - 1, node |-> 0]]
    OBVIOUS
  <2>2. DOMAIN t = 1 .. r /\ Len(t) = r
    BY <1>5, <2>1
  <2>3. t # <<>>
    BY <1>5, <2>2
  <2>4. plan.shards = t
    BY <1>6, <2>1
  <2>5. QED
    BY <2>2, <2>3, <2>4
<1>8. ShardCpus = 0 .. r - 1
  <2>1. ShardCpus = {i - 1 : i \in 1 .. r}
    BY <1>6, <1>7 DEF ShardCpus
  <2>2. ASSUME NEW x \in 0 .. r - 1 PROVE x \in {i - 1 : i \in 1 .. r}
    <3>1. x + 1 \in 1 .. r /\ x = (x + 1) - 1
      BY <1>5
    <3>2. QED
      BY <3>1
  <2>3. QED
    BY <1>5, <2>1, <2>2
<1>9. Cardinality(ShardCpus) = r
  <2>1. 0 \in Int /\ r - 1 \in Int /\ ~(0 > r - 1) /\ (r - 1) - 0 + 1 = r
    BY <1>5
  <2>2. QED
    BY <1>8, <2>1, FS_Interval
<1>10. PICK o : o = [node |-> 0, cpus |-> r .. k - 1]
  OBVIOUS
<1>11. o.cpus = r .. k - 1
  BY <1>10
<1>12. PoolsUsed \in {{}, {o}}
  <2>1. CASE v = 0
    <3>1. plan.offload = <<>>
      BY <1>6, <2>1
    <3>2. QED
      BY <3>1 DEF PoolsUsed, ToSet
  <2>2. CASE v # 0
    <3>1. plan.offload = <<o>>
      BY <1>6, <1>10, <2>2
    <3>2. DOMAIN <<o>> = {1} /\ <<o>>[1] = o
      OBVIOUS
    <3>3. QED
      BY <3>1, <3>2 DEF PoolsUsed, ToSet
  <2>3. QED
    BY <2>1, <2>2
<1>13. PoolCpus \in SUBSET (r .. k - 1)
  BY <1>11, <1>12 DEF PoolCpus
<1>14. IsFiniteSet(PoolCpus)
  <2>1. r \in Int /\ k - 1 \in Int
    BY <1>4, <1>5
  <2>2. IsFiniteSet(r .. k - 1)
    BY <2>1, FS_Interval
  <2>3. QED
    BY <1>13, <2>2, FS_Subset
<1>15. ShardCpus \cap PoolCpus = {} /\ ShardCpus \cup PoolCpus \subseteq 0 .. n - 1
  BY <1>2, <1>3, <1>4, <1>5, <1>8, <1>13
<1>16. \A p, q \in PoolsUsed : p = q
  BY <1>12
<1>17. QED
  BY <1>1, <1>5, <1>7, <1>9, <1>14, <1>15, <1>16 DEF PlanIsSound

(* Every plan was made for what the workload now is.                       *)
Planned ==
  /\ machine \in Machines /\ hwloc \in BOOLEAN /\ quota \in Quota /\ workload \in Workload
  /\ plan = Detect(machine, hwloc, workload, quota)

(* A plan that was made for a workload is sound.                           *)
LEMMA PlannedIsSound ==
  Planned => PlanIsSound /\ IsFiniteSet(PoolCpus) /\ Len(plan.shards) \in Nat \ {0}
<1> HAVE Planned
<1>1. CASE hwloc = TRUE
  <2>1. plan = PlanShared(machine, workload, quota)
    BY <1>1 DEF Planned, Detect
  <2>2. QED
    BY <1>1, <2>1, SharedIsSound DEF Planned
<1>2. CASE hwloc = FALSE
  <2>1. plan = FromCpuCount(Cardinality(machine.allowed), workload)
    BY <1>2 DEF Planned, Detect
  <2>2. QED
    BY <1>2, <2>1, FallbackIsSound DEF Planned
<1>3. QED
  BY <1>1, <1>2 DEF Planned

(* The advice read off an observation is a fraction: there was a reactor,  *)
(* and time passed.                                                        *)
LEMMA AdviceIsFraction ==
  ASSUME Planned, NEW o \in Observe(plan), Verdict(o) # "Idle"
  PROVE  AdvisedFraction(o) \in Fractions
<1>1. PlanIsSound /\ IsFiniteSet(PoolCpus) /\ Len(plan.shards) \in Nat \ {0}
  BY PlannedIsSound
<1>2. OffloadWorkers(plan) \in Nat
  BY <1>1, FS_CardinalityType DEF OffloadWorkers, PoolCpus, PoolsUsed
<1>3. /\ o.shards = Len(plan.shards) /\ o.workers = OffloadWorkers(plan)
      /\ o.offload_busy \in Busy /\ o.permit_wait \in Busy
  BY DEF Observe
<1>4. Wall \in Nat \ {0}
  BY LayoutConstants DEF Verdict, Idles
<1>5. PICK d \in Nat \ {0}, x \in Nat :
        d = o.shards + o.workers /\ x = o.offload_busy + o.permit_wait
  <2>1. o.offload_busy \in Nat /\ o.permit_wait \in Nat
    BY <1>3, LayoutConstants
  <2>2. QED
    BY <1>1, <1>2, <1>3, <2>1
<1>6. d * Wall \in Nat \ {0} /\ (d - 1) * Wall \in Nat
  BY <1>4
<1>7. PICK e \in Nat \ {0}, c \in Nat : e = d * Wall /\ c = (d - 1) * Wall
  BY <1>6
<1>8. AdvisedFraction(o) = [num |-> Least(x, c), den |-> e]
  BY <1>5, <1>7 DEF AdvisedFraction
<1>9. Least(x, c) \in Nat
  BY DEF Least
<1>10. QED
  BY <1>8, <1>9 DEF Fractions

(* Whatever is measured and applied, a plan is one the machine can run,    *)
(* for every machine, quota and workload: see PlanIsSound.                 *)
THEOREM PlansAreSound ==
  LayoutSpec => []PlanIsSound
<1>1. LayoutInit => Planned
  BY LayoutConstants DEF LayoutInit, Planned, Workload, Quota
<1>2. Planned /\ [LayoutNext]_layoutVars => Planned'
  <2> SUFFICES ASSUME Planned, [LayoutNext]_layoutVars PROVE Planned'
    OBVIOUS
  <2>1. CASE LayoutNext
    <3>1. PICK o \in Observe(plan) : Recalibrate(o)
      BY <2>1 DEF LayoutNext
    <3>2. /\ Verdict(o) # "Idle"
          /\ workload' = [workload EXCEPT !.compute = AdvisedFraction(o)]
          /\ plan' = Detect(machine, hwloc, workload', quota)
          /\ UNCHANGED <<machine, hwloc, quota>>
      BY <3>1 DEF Recalibrate
    <3>3. PICK f \in Fractions : f = AdvisedFraction(o)
      BY <3>2, AdviceIsFraction
    <3>4. workload' = [workload EXCEPT !.compute = f]
      BY <3>2, <3>3
    <3>5. workload' \in Workload
      BY <3>3, <3>4 DEF Planned, Workload
    <3>6. QED
      BY <3>2, <3>5 DEF Planned
  <2>2. CASE UNCHANGED layoutVars
    BY <2>2 DEF layoutVars, Planned
  <2>3. QED
    BY <2>1, <2>2
<1>3. Planned => PlanIsSound
  BY PlannedIsSound
<1>4. QED
  BY <1>1, <1>2, <1>3, PTL DEF LayoutSpec

=============================================================================
