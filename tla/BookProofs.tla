----------------------------- MODULE BookProofs -----------------------------
(***************************************************************************)
(* Proofs about Book, for every set of keys, number of classes, budget and *)
(* bound, in three parts.                                                  *)
(*                                                                         *)
(* Its lists and owners: BookInv is inductive and implies RingsAgree,      *)
(* LinksAgree and ExclusiveOwner.                                          *)
(*                                                                         *)
(* Its keys: state is never stale, and the book implements Affinity.       *)
(*                                                                         *)
(* Its counters and items: two more invariants, on top of BookInv.         *)
(* Accounts says what each counter counts, that the sets counted are       *)
(* finite, and that a next in progress is within its budget; it implies    *)
(* CountersAgree.  Shared says that queues, dispatches, shed items and     *)
(* finished ids partition the ids given out, none twice in a place; it     *)
(* implies Conserved.                                                      *)
(***************************************************************************)
EXTENDS Book, FiniteSetTheorems, SequenceTheorems, TLAPS

(* What an item carries.                                                   *)
LEMMA ItemType ==
  ASSUME NEW i \in Items
  PROVE  i.id \in Nat \ {0} /\ i.key \in Keys /\ i.class \in Classes /\ i.deadline \in Int
  BY DEF Items

(* What `next` leaves of a queue and what it sheds are queues again.       *)
LEMMA SubSeqType ==
  ASSUME NEW q \in Seq(Items), NEW m \in Nat \ {0}, NEW n \in Nat, n <= Len(q)
  PROVE  SubSeq(q, m, n) \in Seq(Items)
<1>1. \A i \in m .. n : q[i] \in Items
  OBVIOUS
<1>2. QED
  BY <1>1, SubSeqProperties

(* Appending a key keeps the links typed.                                  *)
LEMMA IdleLinkType ==
  ASSUME TypeOK, NEW k \in Keys, IdleLink(k)
  PROVE  /\ idle_since' \in [Keys -> Nat]
         /\ idle_prev' \in [Keys -> Keys \cup {None}]
         /\ idle_next' \in [Keys -> Keys \cup {None}]
         /\ idle_head' \in Keys \cup {None}
         /\ idle_tail' \in Keys \cup {None}
         /\ idle' \in Int
<1>1. /\ now \in Nat /\ idle_since \in [Keys -> Nat]
      /\ idle_tail \in Keys \cup {None} /\ idle_head \in Keys \cup {None}
      /\ idle_next \in [Keys -> Keys \cup {None}] /\ idle_prev \in [Keys -> Keys \cup {None}]
      /\ idle \in Int
  BY DEF TypeOK
<1>2. idle_since' \in [Keys -> Nat] /\ idle_prev' \in [Keys -> Keys \cup {None}]
  BY <1>1 DEF IdleLink
<1>3. idle_next' \in [Keys -> Keys \cup {None}]
  BY <1>1 DEF IdleLink
<1>4. QED
  BY <1>1, <1>2, <1>3 DEF IdleLink

(* Placing a key keeps the types of everything it changes.                 *)
LEMMA PlaceType ==
  ASSUME TypeOK, NEW k \in Keys, NEW q \in Seq(Items),
         NEW rings \in [Classes -> Seq(Keys)], Place(k, q, rings)
  PROVE  /\ presence' \in [Keys -> Presences]
         /\ ready' \in [Classes -> Seq(Keys)]
         /\ idle_since' \in [Keys -> Nat]
         /\ idle_prev' \in [Keys -> Keys \cup {None}]
         /\ idle_next' \in [Keys -> Keys \cup {None}]
         /\ idle_head' \in Keys \cup {None}
         /\ idle_tail' \in Keys \cup {None}
         /\ idle' \in Int
<1>1. CASE q # <<>>
  <2>1. Head(q) \in Items
    BY <1>1
  <2>2. Head(q).class \in Classes
    BY <2>1, ItemType
  <2>3. ready' \in [Classes -> Seq(Keys)]
    <3>1. ready' = [rings EXCEPT ![Head(q).class] = Append(@, k)]
      BY <1>1 DEF Place, TargetRing
    <3>2. QED
      BY <2>2, <3>1
  <2>4. presence' \in [Keys -> Presences]
    <3>1. presence' = [presence EXCEPT ![k] = Head(q).class]
      BY <1>1 DEF Place, TargetRing, Ready
    <3>2. presence \in [Keys -> Presences] /\ Head(q).class \in Presences
      BY <2>2 DEF TypeOK, Presences
    <3>3. QED
      BY <3>1, <3>2
  <2>5. QED
    BY <1>1, <2>3, <2>4 DEF Place, TypeOK, links
<1>2. CASE q = <<>>
  <2>1. presence' \in [Keys -> Presences]
    BY <1>2 DEF Place, Presences, TypeOK
  <2>2. QED
    BY <1>2, <2>1, IdleLinkType DEF Place
<1>3. QED
  BY <1>1, <1>2

(* Unlinking a key keeps the types of the links.                           *)
LEMMA UnlinkType ==
  ASSUME TypeOK, NEW k \in Keys, Unlink(k)
  PROVE  /\ idle_since' \in [Keys -> Nat]
         /\ idle_prev' \in [Keys -> Keys \cup {None}]
         /\ idle_next' \in [Keys -> Keys \cup {None}]
         /\ idle_head' \in Keys \cup {None}
         /\ idle_tail' \in Keys \cup {None}
         /\ idle' \in Int
<1>1. /\ idle_since \in [Keys -> Nat]
      /\ idle_tail \in Keys \cup {None} /\ idle_head \in Keys \cup {None}
      /\ idle_next \in [Keys -> Keys \cup {None}] /\ idle_prev \in [Keys -> Keys \cup {None}]
      /\ idle \in Int
  BY DEF TypeOK
<1>2. idle_prev[k] \in Keys \cup {None} /\ idle_next[k] \in Keys \cup {None}
  BY <1>1
<1>3. idle_next' \in [Keys -> Keys \cup {None}]
  BY <1>1, <1>2 DEF Unlink, Relinked
<1>4. idle_prev' \in [Keys -> Keys \cup {None}]
  BY <1>1, <1>2 DEF Unlink, Relinked
<1>5. QED
  BY <1>1, <1>2, <1>3, <1>4 DEF Unlink

Calls == [op : {"none", "next", "evict", "evict_all"}, arg : Nat]

(* admit keeps every value in its type.                                    *)
LEMMA AdmitType ==
  ASSUME TypeOK, NEW k \in Keys, NEW c \in Classes, NEW d \in Deadlines,
         Admit(k, c, d)
  PROVE  TypeOK'
<1> DEFINE item == [id |-> admitted + 1, key |-> k, class |-> c, deadline |-> d]
<1>1. item \in Items
  BY BookConstants DEF Items, TypeOK
<1>2. queue' \in [Keys -> Seq(Items)]
  <2>1. queue' = [queue EXCEPT ![k] = Append(@, item)]
    BY DEF Admit, Enqueued
  <2>2. queue \in [Keys -> Seq(Items)]
    BY DEF TypeOK
  <2>3. QED
    BY <1>1, <2>1, <2>2
<1>3. presence' \in [Keys -> Presences]
  <2>1. presence' = presence \/ presence' = [presence EXCEPT ![k] = c]
    BY DEF Admit, Ready
  <2>2. presence \in [Keys -> Presences] /\ c \in Presences
    BY DEF TypeOK, Presences
  <2>3. QED
    BY <2>1, <2>2
<1>4. ready' \in [Classes -> Seq(Keys)]
  <2>1. ready' = ready \/ ready' = [ready EXCEPT ![c] = Append(@, k)]
    BY DEF Admit
  <2>2. ready \in [Classes -> Seq(Keys)]
    BY DEF TypeOK
  <2>3. [ready EXCEPT ![c] = Append(@, k)] \in [Classes -> Seq(Keys)]
    BY <2>2
  <2>4. QED
    BY <2>1, <2>2, <2>3
<1>5. pending' \in Int /\ admitted' \in Nat
  BY DEF Admit, TypeOK
<1>6. CASE Joins(k) /\ presence[k] = Idle
  <2>1. Unlink(k)
    BY <1>6 DEF Admit
  <2>2. QED
    BY <1>2, <1>3, <1>4, <1>5, <2>1, UnlinkType DEF Admit, TypeOK, caller
<1>7. CASE ~(Joins(k) /\ presence[k] = Idle)
  <2>1. UNCHANGED links
    BY <1>7 DEF Admit
  <2>2. QED
    BY <1>2, <1>3, <1>4, <1>5, <2>1 DEF Admit, TypeOK, caller, links
<1>8. QED
  BY <1>6, <1>7

(* An iteration of next that dispatches keeps every value in its type.     *)
LEMMA NextTakesType ==
  ASSUME TypeOK, NEW c \in Classes, NextTakes(c)
  PROVE  TypeOK'
<1> DEFINE k == Head(ready[c])
           q == queue[k]
<1>1. ready \in [Classes -> Seq(Keys)] /\ queue \in [Keys -> Seq(Items)]
      /\ expired \in Seq(Items) /\ ready[c] # <<>>
  BY DEF TypeOK, NextTakes
<1>2. k \in Keys /\ q \in Seq(Items)
  BY <1>1
<1>3. PICK n \in 0 .. Len(q) - 1 :
        /\ queue' = [queue EXCEPT ![k] = SubSeq(q, n + 2, Len(q))]
        /\ expired' = expired \o SubSeq(q, 1, n)
        /\ pending' = pending - n
        /\ outstanding' = outstanding \cup
             {[item |-> q[n + 1], state |-> resident[k]]}
        /\ presence' = [presence EXCEPT ![k] = InFlight]
        /\ resident' = [resident EXCEPT ![k] = NoState]
  BY DEF NextTakes
<1>4. n \in Nat /\ Len(q) \in Nat /\ n + 1 \in 1 .. Len(q)
  BY <1>2, <1>3
<1>5. SubSeq(q, n + 2, Len(q)) \in Seq(Items) /\ SubSeq(q, 1, n) \in Seq(Items)
  BY <1>2, <1>4, SubSeqType
<1>6. q[n + 1] \in Items
  BY <1>2, <1>4
<1>7. queue' \in [Keys -> Seq(Items)]
  BY <1>1, <1>2, <1>3, <1>5
<1>8. expired' \in Seq(Items)
  BY <1>1, <1>3, <1>5
<1>9. outstanding' \in SUBSET [item : Items, state : Nat]
  <2>1. resident[k] \in Nat /\ outstanding \in SUBSET [item : Items, state : Nat]
    BY <1>2 DEF TypeOK
  <2>2. [item |-> q[n + 1], state |-> resident[k]] \in [item : Items, state : Nat]
    BY <1>6, <2>1
  <2>3. QED
    BY <1>3, <2>1, <2>2
<1>10. ready' \in [Classes -> Seq(Keys)]
  <2>1. ready' = [ready EXCEPT ![c] = Tail(@)]
    BY DEF NextTakes
  <2>2. QED
    BY <1>1, <2>1
<1>11. presence' \in [Keys -> Presences] /\ resident' \in [Keys -> Nat]
  BY <1>2, <1>3 DEF TypeOK, Presences, NoState
<1>12. pending' \in Int
  BY <1>3, <1>4 DEF TypeOK
<1>13. inflight' \in [Classes -> Int]
  <2>1. inflight' = [inflight EXCEPT ![c] = @ + 1] /\ inflight \in [Classes -> Int]
    BY DEF TypeOK, NextTakes
  <2>2. QED
    BY <2>1
<1>14. call' \in Calls
  BY DEF NextTakes, Calls, NoCall
<1>15. QED
  BY <1>13, <1>14, <1>7, <1>8, <1>9, <1>10, <1>11, <1>12
     DEF NextTakes, TypeOK, links, history, Calls

(* An iteration of next that skips a key keeps every value in its type.    *)
LEMMA NextSkipsType ==
  ASSUME TypeOK, NEW c \in Classes, NextSkips(c)
  PROVE  TypeOK'
<1> DEFINE k == Head(ready[c])
           q == queue[k]
           rings == [ready EXCEPT ![c] = Tail(@)]
<1>1. ready \in [Classes -> Seq(Keys)] /\ queue \in [Keys -> Seq(Items)]
      /\ expired \in Seq(Items) /\ ready[c] # <<>>
  BY DEF TypeOK, NextSkips
<1>2. k \in Keys /\ q \in Seq(Items) /\ rings \in [Classes -> Seq(Keys)]
  BY <1>1
<1>3. PICK n \in 0 .. Len(q) :
        /\ queue' = [queue EXCEPT ![k] = SubSeq(q, n + 1, Len(q))]
        /\ expired' = expired \o SubSeq(q, 1, n)
        /\ pending' = pending - n
        /\ Place(k, SubSeq(q, n + 1, Len(q)), rings)
  BY DEF NextSkips
<1>4. n \in Nat /\ Len(q) \in Nat /\ n <= Len(q)
  BY <1>2, <1>3
<1>5. SubSeq(q, n + 1, Len(q)) \in Seq(Items) /\ SubSeq(q, 1, n) \in Seq(Items)
  BY <1>2, <1>4, SubSeqType
<1>6. queue' \in [Keys -> Seq(Items)] /\ expired' \in Seq(Items)
  BY <1>1, <1>2, <1>3, <1>5
<1>7. pending' \in Int
  BY <1>3, <1>4 DEF TypeOK
<1>8. call' \in Calls
  BY BookConstants DEF NextSkips, Classes, Calls, NoCall
<1>9. /\ presence' \in [Keys -> Presences]
      /\ ready' \in [Classes -> Seq(Keys)]
      /\ idle_since' \in [Keys -> Nat]
      /\ idle_prev' \in [Keys -> Keys \cup {None}]
      /\ idle_next' \in [Keys -> Keys \cup {None}]
      /\ idle_head' \in Keys \cup {None}
      /\ idle_tail' \in Keys \cup {None}
      /\ idle' \in Int
  BY <1>2, <1>3, <1>5, PlaceType
<1>10. QED
  BY <1>6, <1>7, <1>8, <1>9 DEF NextSkips, TypeOK, caller, history, Calls

(* complete keeps every value in its type.                                 *)
LEMMA CompleteType ==
  ASSUME TypeOK, NEW d \in outstanding, NEW keep \in BOOLEAN, Complete(d, keep)
  PROVE  TypeOK'
<1>1. d.item \in Items
  BY DEF TypeOK
<1>2. d.item.key \in Keys /\ d.item.class \in Classes /\ d.item.id \in Nat
  BY <1>1, ItemType
<1>3. queue[d.item.key] \in Seq(Items) /\ ready \in [Classes -> Seq(Keys)]
  BY <1>2 DEF TypeOK
<1>4. /\ presence' \in [Keys -> Presences]
      /\ ready' \in [Classes -> Seq(Keys)]
      /\ idle_since' \in [Keys -> Nat]
      /\ idle_prev' \in [Keys -> Keys \cup {None}]
      /\ idle_next' \in [Keys -> Keys \cup {None}]
      /\ idle_head' \in Keys \cup {None}
      /\ idle_tail' \in Keys \cup {None}
      /\ idle' \in Int
  <2>1. Place(d.item.key, queue[d.item.key], ready)
    BY DEF Complete
  <2>2. QED
    BY <1>2, <1>3, <2>1, PlaceType
<1>5. resident' \in [Keys -> Nat]
  BY <1>2 DEF Complete, Returned, NoState, TypeOK
<1>6. outstanding' \in SUBSET [item : Items, state : Nat]
  BY DEF Complete, TypeOK
<1>7. inflight' \in [Classes -> Int] /\ pending' \in Int
  <2>1. /\ inflight' = [inflight EXCEPT ![d.item.class] = @ - 1]
        /\ pending' = pending - 1
    BY DEF Complete
  <2>2. inflight \in [Classes -> Int] /\ pending \in Int
    BY DEF TypeOK
  <2>3. QED
    BY <1>2, <2>1, <2>2
<1>8. done' \in SUBSET Nat /\ last_done' \in [Keys -> Nat]
  BY <1>2 DEF Complete, TypeOK
<1>9. QED
  BY <1>4, <1>5, <1>6, <1>7, <1>8 DEF Complete, TypeOK

(* Releasing the oldest idle key keeps every value in its type.            *)
LEMMA ReleaseType ==
  ASSUME TypeOK, ReleaseHead, idle_head # None, call' \in Calls
  PROVE  TypeOK'
<1>1. idle_head \in Keys
  BY DEF TypeOK
<1>2. presence' \in [Keys -> Presences]
  BY <1>1 DEF ReleaseHead, Releases, TypeOK, Presences
<1>3. evicting' \in Int /\ flushing' \in SUBSET [key : Keys, state : Nat]
  BY <1>1 DEF ReleaseHead, Releases, TypeOK
<1>4. resident' \in [Keys -> Nat]
  BY <1>1 DEF ReleaseHead, TypeOK, NoState
<1>5. Unlink(idle_head)
  BY DEF ReleaseHead
<1>6. QED
  BY <1>1, <1>2, <1>3, <1>4, <1>5, UnlinkType
     DEF ReleaseHead, TypeOK, history, Calls

(* finish_evict keeps every value in its type.                             *)
LEMMA FinishEvictType ==
  ASSUME TypeOK, NEW f \in flushing, FinishEvict(f)
  PROVE  TypeOK'
<1>1. f.key \in Keys
  BY DEF TypeOK
<1>2. queue[f.key] \in Seq(Items) /\ ready \in [Classes -> Seq(Keys)]
  BY <1>1 DEF TypeOK
<1>a. flushing' \in SUBSET [key : Keys, state : Nat] /\ evicting' \in Int
  BY DEF FinishEvict, TypeOK
<1>b. UNCHANGED <<now, queue, resident, expired, inflight, pending, call,
                  outstanding, admitted, done, last_done>>
  BY DEF FinishEvict, history
<1>3. CASE queue[f.key] = <<>>
  <2>1. presence' \in [Keys -> Presences]
    BY <1>1, <1>3 DEF FinishEvict, TypeOK, Presences
  <2>2. UNCHANGED <<ready, idle_since, idle_prev, idle_next, idle_head, idle_tail, idle>>
    BY <1>3 DEF FinishEvict, links
  <2>3. QED
    BY <1>a, <1>b, <2>1, <2>2 DEF TypeOK
<1>4. CASE queue[f.key] # <<>>
  <2>1. Place(f.key, queue[f.key], ready)
    BY <1>4 DEF FinishEvict
  <2>2. /\ presence' \in [Keys -> Presences]
        /\ ready' \in [Classes -> Seq(Keys)]
        /\ idle_since' \in [Keys -> Nat]
        /\ idle_prev' \in [Keys -> Keys \cup {None}]
        /\ idle_next' \in [Keys -> Keys \cup {None}]
        /\ idle_head' \in Keys \cup {None}
        /\ idle_tail' \in Keys \cup {None}
        /\ idle' \in Int
    BY <1>1, <1>2, <2>1, PlaceType
  <2>3. QED
    BY <1>a, <1>b, <2>2 DEF TypeOK
<1>5. QED
  BY <1>3, <1>4

(* Type correctness is inductive: no call of the book leaves a value out   *)
(* of its type.                                                            *)
LEMMA TypeStep == TypeOK /\ [Next]_vars => TypeOK'
<1> SUFFICES ASSUME TypeOK, [Next]_vars PROVE TypeOK'
  OBVIOUS
<1>1. CASE PopExpired
  <2>1. Head(expired) \in Items /\ Tail(expired) \in Seq(Items)
    BY <1>1 DEF PopExpired, TypeOK
  <2>2. expired' \in Seq(Items) /\ done' \in SUBSET Nat
    BY <1>1, <2>1, ItemType DEF PopExpired, TypeOK
  <2>3. QED
    BY <1>1, <2>2 DEF PopExpired, TypeOK, caller, links
<1>2. CASE Evict
  <2>1. call' \in Calls
    BY <1>2, BookConstants DEF Evict, TypeOK, Calls, NoCall
  <2>2. QED
    BY <1>2, <2>1, ReleaseType DEF Evict
<1>3. CASE EvictBreaks
  BY <1>3 DEF EvictBreaks, TypeOK, links, caller, history, NoCall
<1>4. CASE EvictAll
  <2>1. call' \in Calls
    BY <1>4 DEF EvictAll, Calls, NoCall
  <2>2. QED
    BY <1>4, <2>1, ReleaseType DEF EvictAll
<1>5. CASE ClockAdvances
  <2>1. now' \in Nat
    BY <1>5 DEF ClockAdvances, TypeOK
  <2>2. QED
    BY <1>5, <2>1 DEF ClockAdvances, TypeOK, links, caller, history
<1>6. CASE UNCHANGED vars
  BY <1>6 DEF vars, TypeOK, links, caller, history
<1>7. QED
  BY <1>1, <1>2, <1>3, <1>4, <1>5, <1>6, AdmitType, NextTakesType, NextSkipsType,
     CompleteType, FinishEvictType DEF Next

(* Every reachable state of the book is well typed.                        *)
THEOREM TypeCorrect == Spec => []TypeOK
<1>1. Init => TypeOK
  BY BookConstants DEF Init, TypeOK, NoCall, NoState, Presences
<1>2. QED
  BY <1>1, TypeStep, PTL DEF Spec

-----------------------------------------------------------------------------
(* The ready rings.  RingsFor states RingsAgree of given rings, presences  *)
(* and queues; RingsBut states it of every key but k, which no ring lists. *)

RingsFor(r, p, q) ==
  /\ \A c \in Classes : \A i \in 1 .. Len(r[c]) :
       /\ p[r[c][i]] = c
       /\ q[r[c][i]] # <<>>
       /\ Head(q[r[c][i]]).class = c
       /\ \A j \in 1 .. Len(r[c]) : r[c][j] = r[c][i] => j = i
  /\ \A k \in Keys, c \in Classes :
       p[k] = c => \E i \in 1 .. Len(r[c]) : r[c][i] = k
  /\ \A k \in Keys : p[k] \in {Idle, Absent} => q[k] = <<>>

RingsBut(r, p, q, k) ==
  /\ \A c \in Classes : \A i \in 1 .. Len(r[c]) :
       /\ r[c][i] # k
       /\ p[r[c][i]] = c
       /\ q[r[c][i]] # <<>>
       /\ Head(q[r[c][i]]).class = c
       /\ \A j \in 1 .. Len(r[c]) : r[c][j] = r[c][i] => j = i
  /\ \A l \in Keys \ {k}, c \in Classes :
       p[l] = c => \E i \in 1 .. Len(r[c]) : r[c][i] = l
  /\ \A l \in Keys \ {k} : p[l] \in {Idle, Absent} => q[l] = <<>>

(* RingsFor is RingsAgree with its parameters named.                       *)
LEMMA RingsForAgree == RingsAgree <=> RingsFor(ready, presence, queue)
  BY DEF RingsAgree, RingsFor, Ready

(* The same after a step.                                                  *)
LEMMA RingsForAgreeNext == RingsAgree' <=> RingsFor(ready', presence', queue')
  BY DEF RingsAgree, RingsFor, Ready

(* What RingsBut says of one entry.                                        *)
LEMMA ButEntry ==
  ASSUME NEW r, NEW p, NEW q, NEW k, RingsBut(r, p, q, k),
         NEW c \in Classes, NEW i \in 1 .. Len(r[c])
  PROVE  /\ r[c][i] # k
         /\ p[r[c][i]] = c
         /\ q[r[c][i]] # <<>>
         /\ Head(q[r[c][i]]).class = c
         /\ \A j \in 1 .. Len(r[c]) : r[c][j] = r[c][i] => j = i
  BY DEF RingsBut

(* Every key but k is in the ring of its class.                            *)
LEMMA ButListed ==
  ASSUME NEW r, NEW p, NEW q, NEW k, RingsBut(r, p, q, k),
         NEW c \in Classes, NEW l \in Keys \ {k}, p[l] = c
  PROVE  \E i \in 1 .. Len(r[c]) : r[c][i] = l
  BY DEF RingsBut

(* Every key but k that has nothing to do has nothing queued.              *)
LEMMA ButEmpty ==
  ASSUME NEW r, NEW p, NEW q, NEW k, RingsBut(r, p, q, k)
  PROVE  \A l \in Keys \ {k} : p[l] \in {Idle, Absent} => q[l] = <<>>
  BY DEF RingsBut

(* What RingsFor says of one entry.                                        *)
LEMMA ForEntry ==
  ASSUME NEW r, NEW p, NEW q, RingsFor(r, p, q),
         NEW c \in Classes, NEW i \in 1 .. Len(r[c])
  PROVE  /\ p[r[c][i]] = c
         /\ q[r[c][i]] # <<>>
         /\ Head(q[r[c][i]]).class = c
         /\ \A j \in 1 .. Len(r[c]) : r[c][j] = r[c][i] => j = i
  BY DEF RingsFor

(* A key with nothing to do has nothing queued.                            *)
LEMMA ForEmpty ==
  ASSUME NEW r, NEW p, NEW q, RingsFor(r, p, q)
  PROVE  \A l \in Keys : p[l] \in {Idle, Absent} => q[l] = <<>>
  BY DEF RingsFor

(* Every ready key is in the ring of its class.                            *)
LEMMA ForListed ==
  ASSUME NEW r, NEW p, NEW q, RingsFor(r, p, q),
         NEW c \in Classes, NEW l \in Keys, p[l] = c
  PROVE  \E i \in 1 .. Len(r[c]) : r[c][i] = l
  BY DEF RingsFor

(* A key that is not ready is listed nowhere.                              *)
LEMMA NotListed ==
  ASSUME NEW r, NEW p, NEW q, NEW k,
         RingsFor(r, p, q), p[k] \notin Classes
  PROVE  RingsBut(r, p, q, k)
<1>1. ASSUME NEW c \in Classes, NEW i \in 1 .. Len(r[c])
      PROVE  /\ r[c][i] # k
             /\ p[r[c][i]] = c
             /\ q[r[c][i]] # <<>>
             /\ Head(q[r[c][i]]).class = c
             /\ \A j \in 1 .. Len(r[c]) : r[c][j] = r[c][i] => j = i
  <2>1. /\ p[r[c][i]] = c
        /\ q[r[c][i]] # <<>>
        /\ Head(q[r[c][i]]).class = c
        /\ \A j \in 1 .. Len(r[c]) : r[c][j] = r[c][i] => j = i
    BY DEF RingsFor
  <2>2. QED
    BY <2>1
<1>2. ASSUME NEW l \in Keys \ {k}, NEW c \in Classes, p[l] = c
      PROVE  \E i \in 1 .. Len(r[c]) : r[c][i] = l
  BY <1>2 DEF RingsFor
<1>3. \A l \in Keys : p[l] \in {Idle, Absent} => q[l] = <<>>
  BY ForEmpty
<1>4. QED
  BY <1>1, <1>2, <1>3 DEF RingsBut

(* The key popped from the front of a ring is listed nowhere any more.     *)
LEMMA Popped ==
  ASSUME NEW r \in [Classes -> Seq(Keys)], NEW p \in [Keys -> Presences],
         NEW q \in [Keys -> Seq(Items)], NEW c \in Classes,
         RingsFor(r, p, q), r[c] # <<>>
  PROVE  RingsBut([r EXCEPT ![c] = Tail(@)], p, q, Head(r[c]))
<1> DEFINE k == Head(r[c])
           s == [r EXCEPT ![c] = Tail(@)]
<1>1. r[c] \in Seq(Keys) /\ Len(r[c]) \in Nat \ {0} /\ k = r[c][1]
  OBVIOUS
<1>2. Len(s[c]) = Len(r[c]) - 1 /\ \A i \in 1 .. Len(s[c]) : s[c][i] = r[c][i + 1]
  BY <1>1
<1>3. \A d \in Classes : d # c => s[d] = r[d]
  OBVIOUS
<1>4. p[k] = c
  BY <1>1, ForEntry
<1>5. ASSUME NEW d \in Classes, NEW i \in 1 .. Len(s[d])
      PROVE  /\ s[d][i] # k
             /\ p[s[d][i]] = d
             /\ q[s[d][i]] # <<>>
             /\ Head(q[s[d][i]]).class = d
             /\ \A j \in 1 .. Len(s[d]) : s[d][j] = s[d][i] => j = i
  <2>1. CASE d = c
    <3>1. i + 1 \in 1 .. Len(r[c]) /\ i + 1 # 1 /\ s[d][i] = r[c][i + 1]
      BY <1>1, <1>2, <2>1
    <3>2. /\ p[r[c][i + 1]] = c
          /\ q[r[c][i + 1]] # <<>>
          /\ Head(q[r[c][i + 1]]).class = c
          /\ \A j \in 1 .. Len(r[c]) : r[c][j] = r[c][i + 1] => j = i + 1
      BY <3>1, ForEntry
    <3>3. s[d][i] # k
      BY <1>1, <3>1, <3>2
    <3>4. ASSUME NEW j \in 1 .. Len(s[d]), s[d][j] = s[d][i] PROVE j = i
      <4>1. j + 1 \in 1 .. Len(r[c]) /\ s[d][j] = r[c][j + 1]
        BY <1>1, <1>2, <2>1
      <4>2. QED
        <5>1. r[c][j + 1] = r[c][i + 1]
          BY <3>1, <3>4, <4>1
        <5>2. j + 1 = i + 1
          BY <3>2, <4>1, <5>1
        <5>3. QED
          BY <5>2
    <3>5. QED
      BY <2>1, <3>1, <3>2, <3>3, <3>4
  <2>2. CASE d # c
    <3>1. s[d] = r[d]
      BY <1>3, <2>2
    <3>2. /\ p[r[d][i]] = d
          /\ q[r[d][i]] # <<>>
          /\ Head(q[r[d][i]]).class = d
          /\ \A j \in 1 .. Len(r[d]) : r[d][j] = r[d][i] => j = i
      BY <3>1, ForEntry
    <3>3. QED
      BY <1>4, <2>2, <3>1, <3>2
  <2>3. QED
    BY <2>1, <2>2
<1>6. ASSUME NEW l \in Keys \ {k}, NEW d \in Classes, p[l] = d
      PROVE  \E i \in 1 .. Len(s[d]) : s[d][i] = l
  <2>1. PICK i \in 1 .. Len(r[d]) : r[d][i] = l
    BY <1>6, ForListed
  <2>2. CASE d = c
    <3>1. i # 1
      BY <1>1, <2>1, <2>2
    <3>2. i - 1 \in 1 .. Len(s[c]) /\ s[c][i - 1] = r[c][i]
      BY <1>1, <1>2, <2>2, <3>1
    <3>3. QED
      BY <2>1, <2>2, <3>2
  <2>3. CASE d # c
    <3>1. s[d] = r[d]
      BY <1>3, <2>3
    <3>2. QED
      BY <2>1, <3>1
  <2>4. QED
    BY <2>2, <2>3
<1>7. \A l \in Keys \ {k} : p[l] \in {Idle, Absent} => q[l] = <<>>
  BY ForEmpty
<1>8. QED
  BY <1>5, <1>6, <1>7 DEF RingsBut

(* A key listed nowhere may leave the rings altogether.                    *)
LEMMA Leaves ==
  ASSUME NEW r \in [Classes -> Seq(Keys)], NEW p \in [Keys -> Presences],
         NEW q \in [Keys -> Seq(Items)], NEW k \in Keys,
         RingsBut(r, p, q, k), NEW qk \in Seq(Items), NEW v,
         v \notin Classes, v \in {Idle, Absent} => qk = <<>>
  PROVE  RingsFor(r, [p EXCEPT ![k] = v], [q EXCEPT ![k] = qk])
<1> DEFINE pp == [p EXCEPT ![k] = v]
           qq == [q EXCEPT ![k] = qk]
<1>1. \A l \in Keys : l # k => pp[l] = p[l] /\ qq[l] = q[l]
  OBVIOUS
<1>2. pp[k] = v /\ qq[k] = qk
  OBVIOUS
<1>3. \A c \in Classes : \A i \in 1 .. Len(r[c]) : r[c][i] \in Keys \ {k}
  BY DEF RingsBut
<1> HIDE DEF pp, qq
<1>4. ASSUME NEW c \in Classes, NEW i \in 1 .. Len(r[c])
      PROVE  /\ pp[r[c][i]] = c
             /\ qq[r[c][i]] # <<>>
             /\ Head(qq[r[c][i]]).class = c
             /\ \A j \in 1 .. Len(r[c]) : r[c][j] = r[c][i] => j = i
  <2>1. pp[r[c][i]] = p[r[c][i]] /\ qq[r[c][i]] = q[r[c][i]]
    BY <1>1, <1>3
  <2>2. QED
    BY <2>1, ButEntry
<1>5. ASSUME NEW l \in Keys, NEW c \in Classes, pp[l] = c
      PROVE  \E i \in 1 .. Len(r[c]) : r[c][i] = l
  <2>1. l # k /\ p[l] = c
    BY <1>1, <1>2, <1>5
  <2>2. QED
    BY <2>1, ButListed
<1>6. ASSUME NEW l \in Keys, pp[l] \in {Idle, Absent} PROVE qq[l] = <<>>
  <2>1. CASE l = k
    BY <1>2, <1>6, <2>1
  <2>2. CASE l # k
    <3>1. pp[l] = p[l] /\ qq[l] = q[l]
      BY <1>1, <2>2
    <3>2. QED
      BY <1>6, <2>2, <3>1, ButEmpty
  <2>3. QED
    BY <2>1, <2>2
<1>7. QED
  BY <1>4, <1>5, <1>6 DEF RingsFor, pp, qq

(* A key listed nowhere that joins the ring of its head's class.           *)
LEMMA JoinsRing ==
  ASSUME NEW r \in [Classes -> Seq(Keys)], NEW p \in [Keys -> Presences],
         NEW q \in [Keys -> Seq(Items)], NEW k \in Keys,
         RingsBut(r, p, q, k), NEW qk \in Seq(Items), qk # <<>>,
         NEW c \in Classes, Head(qk).class = c, c \notin {Idle, Absent}
  PROVE  RingsFor([r EXCEPT ![c] = Append(@, k)], [p EXCEPT ![k] = c],
                  [q EXCEPT ![k] = qk])
<1> DEFINE pp == [p EXCEPT ![k] = c]
           qq == [q EXCEPT ![k] = qk]
           s == [r EXCEPT ![c] = Append(@, k)]
<1>1. \A l \in Keys : l # k => pp[l] = p[l] /\ qq[l] = q[l]
  OBVIOUS
<1>2. pp[k] = c /\ qq[k] = qk
  OBVIOUS
<1>3. \A d \in Classes : \A i \in 1 .. Len(r[d]) : r[d][i] \in Keys \ {k}
  BY DEF RingsBut
<1>4. /\ Len(r[c]) \in Nat /\ Len(s[c]) = Len(r[c]) + 1
      /\ \A i \in 1 .. Len(r[c]) : s[c][i] = r[c][i]
      /\ s[c][Len(r[c]) + 1] = k
  OBVIOUS
<1>5. \A d \in Classes : d # c => s[d] = r[d]
  OBVIOUS
<1> HIDE DEF pp, qq, s
<1>6. ASSUME NEW d \in Classes, NEW i \in 1 .. Len(s[d])
      PROVE  /\ pp[s[d][i]] = d
             /\ qq[s[d][i]] # <<>>
             /\ Head(qq[s[d][i]]).class = d
             /\ \A j \in 1 .. Len(s[d]) : s[d][j] = s[d][i] => j = i
  <2>1. CASE d # c
    <3>1. s[d] = r[d]
      BY <1>5, <2>1
    <3>2. i \in 1 .. Len(r[d]) /\ r[d][i] \in Keys \ {k}
      BY <1>3, <3>1
    <3>3. pp[r[d][i]] = p[r[d][i]] /\ qq[r[d][i]] = q[r[d][i]]
      BY <1>1, <3>2
    <3>4. QED
      BY <3>1, <3>2, <3>3, ButEntry
  <2>2. CASE d = c /\ i = Len(r[c]) + 1
    <3>1. s[d][i] = k
      BY <1>4, <2>2
    <3>2. pp[k] = d /\ qq[k] # <<>> /\ Head(qq[k]).class = d
      BY <1>2, <2>2
    <3>3. ASSUME NEW j \in 1 .. Len(s[d]), s[d][j] = k PROVE j = i
      <4>1. j \notin 1 .. Len(r[c])
        BY <1>3, <1>4, <2>2, <3>3
      <4>2. QED
        BY <1>4, <2>2, <4>1
    <3>4. QED
      BY <3>1, <3>2, <3>3
  <2>3. CASE d = c /\ i # Len(r[c]) + 1
    <3>1. i \in 1 .. Len(r[c]) /\ s[d][i] = r[c][i]
      BY <1>4, <2>3
    <3>2. /\ pp[s[d][i]] = d
          /\ qq[s[d][i]] # <<>>
          /\ Head(qq[s[d][i]]).class = d
      <4>1. r[c][i] \in Keys \ {k}
        BY <1>3, <3>1
      <4>2. pp[r[c][i]] = p[r[c][i]] /\ qq[r[c][i]] = q[r[c][i]]
        BY <1>1, <4>1
      <4>3. QED
        BY <2>3, <3>1, <4>2, ButEntry
    <3>3. ASSUME NEW j \in 1 .. Len(s[d]), s[d][j] = s[d][i] PROVE j = i
      <4>1. j # Len(r[c]) + 1
        BY <1>3, <1>4, <2>3, <3>1, <3>3
      <4>2. j \in 1 .. Len(r[c]) /\ s[d][j] = r[c][j]
        <5>1. j \in 1 .. Len(r[c])
          BY <1>4, <2>3, <4>1
        <5>2. QED
          BY <1>4, <2>3, <5>1
      <4>3. r[c][j] = r[c][i]
        BY <3>1, <3>3, <4>2
      <4>4. QED
        BY <3>1, <4>2, <4>3, ButEntry
    <3>4. QED
      BY <3>2, <3>3
  <2>4. QED
    BY <2>1, <2>2, <2>3
<1>7. ASSUME NEW l \in Keys, NEW d \in Classes, pp[l] = d
      PROVE  \E i \in 1 .. Len(s[d]) : s[d][i] = l
  <2>1. CASE l = k
    <3>1. d = c /\ Len(r[c]) + 1 \in 1 .. Len(s[c])
      BY <1>2, <1>4, <1>7, <2>1
    <3>2. QED
      BY <1>4, <2>1, <3>1
  <2>2. CASE l # k
    <3>0. p[l] = d
      BY <1>1, <1>7, <2>2
    <3>1. PICK i \in 1 .. Len(r[d]) : r[d][i] = l
      BY <2>2, <3>0, ButListed
    <3>2. i \in 1 .. Len(s[d]) /\ s[d][i] = l
      <4>1. CASE d = c
        BY <1>4, <3>1, <4>1
      <4>2. CASE d # c
        BY <1>5, <3>1, <4>2
      <4>3. QED
        BY <4>1, <4>2
    <3>3. QED
      BY <3>2
  <2>3. QED
    BY <2>1, <2>2
<1>8. ASSUME NEW l \in Keys, pp[l] \in {Idle, Absent} PROVE qq[l] = <<>>
  <2>1. l # k /\ pp[l] = p[l] /\ qq[l] = q[l]
    BY <1>1, <1>2, <1>8
  <2>2. QED
    BY <1>8, <2>1, ButEmpty
<1>9. QED
  BY <1>6, <1>7, <1>8 DEF RingsFor, pp, qq, s

(* Work joining the queue of a key that has a place changes no head.       *)
LEMMA QueuesBehind ==
  ASSUME NEW r \in [Classes -> Seq(Keys)], NEW p \in [Keys -> Presences],
         NEW q \in [Keys -> Seq(Items)], NEW k \in Keys, NEW i \in Items,
         RingsFor(r, p, q), p[k] \notin {Idle, Absent}
  PROVE  RingsFor(r, p, [q EXCEPT ![k] = Append(@, i)])
<1> DEFINE qq == [q EXCEPT ![k] = Append(@, i)]
<1>1. \A l \in Keys : l # k => qq[l] = q[l]
  OBVIOUS
<1>2. q[k] # <<>> => qq[k] # <<>> /\ Head(qq[k]) = Head(q[k])
  OBVIOUS
<1>3. \A c \in Classes : \A j \in 1 .. Len(r[c]) : r[c][j] \in Keys
  OBVIOUS
<1> HIDE DEF qq
<1>4. QED
  BY <1>1, <1>2, <1>3 DEF RingsFor, qq

-----------------------------------------------------------------------------
(* The idle list.                                                          *)

(* A step that moves no key into or out of Idle and touches no link.       *)
LEMMA LinksKept ==
  ASSUME TypeOK, LinksAgree, UNCHANGED links, now' \in Nat, now <= now',
         NEW k \in Keys, NEW v, v # Idle, presence[k] # Idle,
         presence' = [presence EXCEPT ![k] = v]
  PROVE  LinksAgree'
<1>1. /\ idle_since' = idle_since /\ idle_prev' = idle_prev
      /\ idle_next' = idle_next /\ idle_head' = idle_head /\ idle_tail' = idle_tail
  BY DEF links
<1>2. \A l \in Keys : presence'[l] = Idle <=> presence[l] = Idle
  BY DEF TypeOK
<1>3. /\ now \in Nat /\ idle_since \in [Keys -> Nat]
      /\ idle_head \in Keys \cup {None} /\ idle_tail \in Keys \cup {None}
      /\ idle_next \in [Keys -> Keys \cup {None}] /\ idle_prev \in [Keys -> Keys \cup {None}]
  BY DEF TypeOK
<1>4. QED
  BY <1>1, <1>2, <1>3 DEF LinksAgree

(* Appending a key that was not idle keeps the list well linked: it is the *)
(* newest, and no stamp is later than the clock.                           *)
LEMMA LinksAppend ==
  ASSUME TypeOK, LinksAgree, NEW k \in Keys, IdleLink(k), now' = now,
         presence[k] # Idle, presence' = [presence EXCEPT ![k] = Idle]
  PROVE  LinksAgree'
<1>1. \A l \in Keys : presence'[l] = Idle <=> (presence[l] = Idle \/ l = k)
  BY DEF TypeOK
<1>2. /\ now \in Nat /\ idle_since \in [Keys -> Nat]
      /\ idle_head \in Keys \cup {None} /\ idle_tail \in Keys \cup {None}
      /\ idle_next \in [Keys -> Keys \cup {None}] /\ idle_prev \in [Keys -> Keys \cup {None}]
  BY DEF TypeOK
<1>3. /\ idle_since' = [idle_since EXCEPT ![k] = now]
      /\ idle_prev' = [idle_prev EXCEPT ![k] = idle_tail]
      /\ idle_next' = IF idle_tail = None THEN idle_next
                      ELSE [idle_next EXCEPT ![idle_tail] = k]
      /\ idle_head' = IF idle_tail = None THEN k ELSE idle_head
      /\ idle_tail' = k
  BY DEF IdleLink
<1>4. None \notin Keys
  BY BookConstants
<1>5. idle_next[k] = None /\ idle_prev[k] = None /\ idle_head # k /\ idle_tail # k
  BY <1>4 DEF LinksAgree
<1>6. CASE idle_tail = None
  BY <1>1, <1>2, <1>3, <1>4, <1>5, <1>6 DEF LinksAgree
<1>7. CASE idle_tail # None
  BY <1>1, <1>2, <1>3, <1>4, <1>5, <1>7 DEF LinksAgree
<1>8. QED
  BY <1>6, <1>7

(* Closing the list over a key that stops being idle keeps it well linked. *)
LEMMA LinksRemove ==
  ASSUME TypeOK, LinksAgree, NEW k \in Keys, Unlink(k), now' = now,
         presence[k] = Idle, NEW v, v # Idle,
         presence' = [presence EXCEPT ![k] = v]
  PROVE  LinksAgree'
<1>1. \A l \in Keys : presence'[l] = Idle <=> (presence[l] = Idle /\ l # k)
  BY DEF TypeOK
<1>2. /\ now \in Nat /\ idle_since \in [Keys -> Nat]
      /\ idle_head \in Keys \cup {None} /\ idle_tail \in Keys \cup {None}
      /\ idle_next \in [Keys -> Keys \cup {None}] /\ idle_prev \in [Keys -> Keys \cup {None}]
  BY DEF TypeOK
<1>3. None \notin Keys
  BY BookConstants
<1> DEFINE p == idle_prev[k]
           n == idle_next[k]
<1>4. /\ idle_since' = idle_since
      /\ \A l \in Keys :
           idle_next'[l] = IF l = k THEN None ELSE IF l = p THEN n ELSE idle_next[l]
      /\ \A l \in Keys :
           idle_prev'[l] = IF l = k THEN None ELSE IF l = n THEN p ELSE idle_prev[l]
      /\ idle_head' = IF p = None THEN n ELSE idle_head
      /\ idle_tail' = IF n = None THEN p ELSE idle_tail
  BY DEF Unlink, Relinked
<1>5. p \in Keys \cup {None} /\ n \in Keys \cup {None}
  BY <1>2
<1>6. /\ p # None => presence[p] = Idle /\ idle_next[p] = k
      /\ p = None => idle_head = k
      /\ n # None => presence[n] = Idle /\ idle_prev[n] = k /\ idle_since[k] <= idle_since[n]
      /\ n = None => idle_tail = k
      /\ p # None => idle_since[p] <= idle_since[k]
  BY <1>2, <1>3 DEF LinksAgree
<1> HIDE DEF p, n
<1>7. /\ (idle_head' = None) <=> (idle_tail' = None)
      /\ idle_head' # None => presence'[idle_head'] = Idle /\ idle_prev'[idle_head'] = None
      /\ idle_tail' # None => presence'[idle_tail'] = Idle /\ idle_next'[idle_tail'] = None
  BY <1>1, <1>2, <1>3, <1>4, <1>5, <1>6 DEF LinksAgree, p, n
<1>8. ASSUME NEW l \in Keys, presence'[l] = Idle
      PROVE  IF idle_next'[l] = None THEN idle_tail' = l
             ELSE /\ presence'[idle_next'[l]] = Idle
                  /\ idle_prev'[idle_next'[l]] = l
                  /\ idle_since'[l] <= idle_since'[idle_next'[l]]
  BY <1>1, <1>2, <1>3, <1>4, <1>5, <1>6, <1>8 DEF LinksAgree, p, n
<1>9. ASSUME NEW l \in Keys, presence'[l] = Idle
      PROVE  IF idle_prev'[l] = None THEN idle_head' = l
             ELSE presence'[idle_prev'[l]] = Idle /\ idle_next'[idle_prev'[l]] = l
  BY <1>1, <1>2, <1>3, <1>4, <1>5, <1>6, <1>9 DEF LinksAgree, p, n
<1>10. \A l \in Keys : presence'[l] = Idle => idle_since'[l] <= now'
  BY <1>1, <1>4 DEF LinksAgree
<1>11. \A l \in Keys : presence'[l] # Idle => idle_next'[l] = None /\ idle_prev'[l] = None
  <2> SUFFICES ASSUME NEW l \in Keys, presence'[l] # Idle
               PROVE  idle_next'[l] = None /\ idle_prev'[l] = None
    OBVIOUS
  <2>1. CASE l = k
    BY <1>4, <2>1
  <2>2. CASE l # k
    <3>1. presence[l] # Idle
      BY <1>1, <2>2
    <3>2. l # p /\ l # n /\ idle_next[l] = None /\ idle_prev[l] = None
      BY <1>3, <1>6, <3>1 DEF LinksAgree
    <3>3. QED
      BY <1>4, <2>2, <3>2
  <2>3. QED
    BY <2>1, <2>2
<1>12. QED
  BY <1>7, <1>8, <1>9, <1>10, <1>11 DEF LinksAgree

-----------------------------------------------------------------------------
(* Ownership.  A dispatch the caller holds and a flush it carries show in  *)
(* the key's presence, which is what keeps a second owner out.             *)

OwnersAgree ==
  /\ \A d \in outstanding : presence[d.item.key] = InFlight
  /\ \A f \in flushing : presence[f.key] = Evicting

(* An item waits behind its own key.                                       *)
KeyedQueues ==
  \A k \in Keys : \A i \in 1 .. Len(queue[k]) : queue[k][i].key = k

(* The inductive invariant.  ExclusiveOwner alone is not inductive: that a *)
(* dispatch meets no other owner rests on the rings listing only keys that *)
(* are Ready, that an eviction meets none rests on the idle list linking   *)
(* only keys that are Idle.                                                *)
BookInv ==
  /\ TypeOK
  /\ RingsAgree
  /\ LinksAgree
  /\ OwnersAgree
  /\ ExclusiveOwner
  /\ KeyedQueues

(* The key of a dispatch and of a flush is a key.                          *)
LEMMA OwnedKeys ==
  ASSUME TypeOK
  PROVE  /\ \A d \in outstanding : d.item.key \in Keys
         /\ \A f \in flushing : f.key \in Keys
<1>1. \A d \in outstanding : d.item \in Items
  BY DEF TypeOK
<1>2. QED
  BY <1>1, ItemType DEF TypeOK

(* A class is none of the presences without a ring.                        *)
LEMMA ClassesApart ==
  /\ Classes \cap {Idle, InFlight, Evicting, Absent} = {}
  /\ Idle # InFlight /\ Idle # Evicting /\ Idle # Absent
  /\ InFlight # Evicting /\ InFlight # Absent /\ Evicting # Absent
  BY BookConstants DEF Classes, Idle, InFlight, Evicting, Absent

(* settle and place put a key that is listed nowhere where its queue says, *)
(* and keep rings and idle list right.                                     *)
LEMMA PlaceAgrees ==
  ASSUME TypeOK, LinksAgree, NEW k \in Keys, presence[k] # Idle,
         NEW q \in Seq(Items), NEW rings \in [Classes -> Seq(Keys)],
         RingsBut(rings, presence, queue, k),
         Place(k, q, rings), queue' = [queue EXCEPT ![k] = q], now' = now
  PROVE  /\ RingsAgree' /\ LinksAgree'
         /\ \A l \in Keys : l # k => presence'[l] = presence[l]
<1>1. presence \in [Keys -> Presences] /\ queue \in [Keys -> Seq(Items)] /\ now \in Nat
  BY DEF TypeOK
<1>2. CASE q # <<>>
  <2> DEFINE c == Head(q).class
  <2>1. c \in Classes
    BY <1>2, ItemType
  <2>2. /\ presence' = [presence EXCEPT ![k] = c]
        /\ ready' = [rings EXCEPT ![c] = Append(@, k)]
        /\ UNCHANGED links
    BY <1>2 DEF Place, TargetRing, Ready
  <2>3. RingsFor([rings EXCEPT ![c] = Append(@, k)], [presence EXCEPT ![k] = c],
                 [queue EXCEPT ![k] = q])
    BY <1>1, <1>2, <2>1, JoinsRing, ClassesApart
  <2>4. RingsAgree'
    BY <2>2, <2>3, RingsForAgreeNext
  <2>5. LinksAgree'
    <3>1. now' \in Nat /\ now <= now' /\ c # Idle
      BY <1>1, <2>1, ClassesApart
    <3>2. QED
      BY <2>2, <3>1, LinksKept
  <2>6. QED
    BY <1>1, <2>2, <2>4, <2>5
<1>3. CASE q = <<>>
  <2>1. presence' = [presence EXCEPT ![k] = Idle] /\ ready' = rings /\ IdleLink(k)
    BY <1>3 DEF Place
  <2>2. RingsFor(rings, [presence EXCEPT ![k] = Idle], [queue EXCEPT ![k] = q])
    BY <1>1, <1>3, Leaves, ClassesApart
  <2>3. RingsAgree'
    BY <2>1, <2>2, RingsForAgreeNext
  <2>4. LinksAgree'
    BY <2>1, LinksAppend
  <2>5. QED
    BY <1>1, <2>1, <2>3, <2>4
<1>4. QED
  BY <1>2, <1>3

(* admit keeps rings, list and owners: only an idle or new key is placed.  *)
LEMMA AdmitAgrees ==
  ASSUME BookInv, NEW k \in Keys, NEW c \in Classes, NEW d \in Deadlines,
         Admit(k, c, d)
  PROVE  RingsAgree' /\ LinksAgree' /\ OwnersAgree' /\ ExclusiveOwner' /\ KeyedQueues'
<1> DEFINE item == [id |-> admitted + 1, key |-> k, class |-> c, deadline |-> d]
           qk == Append(queue[k], item)
<1>1. /\ presence \in [Keys -> Presences] /\ queue \in [Keys -> Seq(Items)]
      /\ ready \in [Classes -> Seq(Keys)] /\ now \in Nat /\ admitted \in Nat
      /\ TypeOK /\ LinksAgree
  BY DEF TypeOK, BookInv
<1>2. item \in Items
  BY <1>1, BookConstants DEF Items
<1>3. /\ queue' = [queue EXCEPT ![k] = Append(@, item)]
      /\ now' = now /\ outstanding' = outstanding /\ flushing' = flushing
  BY DEF Admit, Enqueued, caller
<1>4. RingsFor(ready, presence, queue)
  BY RingsForAgree DEF BookInv
<1>k. KeyedQueues'
  <2>1. ASSUME NEW l \in Keys, NEW j \in 1 .. Len(queue'[l])
        PROVE  queue'[l][j].key = l
    <3>1. CASE l # k
      BY <1>1, <1>3, <2>1, <3>1 DEF KeyedQueues, BookInv
    <3>2. CASE l = k /\ j = Len(queue[k]) + 1
      BY <1>1, <1>2, <1>3, <3>2
    <3>3. CASE l = k /\ j # Len(queue[k]) + 1
      <4>1. j \in 1 .. Len(queue[k]) /\ queue'[l][j] = queue[k][j]
        BY <1>1, <1>2, <1>3, <3>3
      <4>2. QED
        BY <3>3, <4>1 DEF KeyedQueues, BookInv
    <3>4. QED
      BY <3>1, <3>2, <3>3
  <2>2. QED
    BY <2>1 DEF KeyedQueues
<1>5. CASE Joins(k)
  <2>1. presence' = [presence EXCEPT ![k] = c] /\ ready' = [ready EXCEPT ![c] = Append(@, k)]
    BY <1>5 DEF Admit, Ready
  <2>2. presence[k] \in {Idle, Absent}
    BY <1>5 DEF Joins
  <2>3. RingsBut(ready, presence, queue, k)
    BY <1>1, <1>4, <2>2, NotListed, ClassesApart
  <2>4. queue[k] = <<>>
    BY <1>4, <2>2 DEF RingsFor
  <2>5. qk \in Seq(Items) /\ qk # <<>> /\ Head(qk).class = c
    BY <1>1, <1>2, <2>4
  <2>6. RingsFor([ready EXCEPT ![c] = Append(@, k)], [presence EXCEPT ![k] = c],
                 [queue EXCEPT ![k] = qk])
    BY <1>1, <2>3, <2>5, JoinsRing, ClassesApart
  <2>7. RingsAgree'
    BY <1>3, <2>1, <2>6, RingsForAgreeNext
  <2>8. CASE presence[k] = Idle
    <3>1. Unlink(k)
      BY <1>5, <2>8 DEF Admit
    <3>2. QED
      <4>1. LinksAgree'
        BY <1>1, <1>3, <2>1, <2>8, <3>1, LinksRemove, ClassesApart
      <4>2. \A l \in Keys : presence[l] \in {InFlight, Evicting} => presence'[l] = presence[l]
        BY <1>1, <2>1, <2>2, ClassesApart
      <4>3. OwnersAgree'
        BY <1>1, <1>3, <4>2, ItemType DEF OwnersAgree, BookInv, TypeOK
      <4>4. QED
        BY <1>3, <1>k, <2>7, <4>1, <4>3 DEF ExclusiveOwner, BookInv
  <2>9. CASE presence[k] # Idle
    <3>1. UNCHANGED links
      BY <1>5, <2>9 DEF Admit
    <3>2. LinksAgree'
      <4>1. now' \in Nat /\ now <= now' /\ c # Idle
        BY <1>1, <1>3, ClassesApart
      <4>2. QED
        BY <1>1, <2>1, <2>9, <3>1, <4>1, LinksKept
    <3>3. \A l \in Keys : presence[l] \in {InFlight, Evicting} => presence'[l] = presence[l]
      BY <1>1, <2>1, <2>2, ClassesApart
    <3>4. OwnersAgree'
      BY <1>1, <1>3, <3>3, ItemType DEF OwnersAgree, BookInv, TypeOK
    <3>5. QED
      BY <1>3, <1>k, <2>7, <3>2, <3>4 DEF ExclusiveOwner, BookInv
  <2>10. QED
    BY <2>8, <2>9
<1>6. CASE ~Joins(k)
  <2>1. UNCHANGED <<presence, ready, links>>
    BY <1>6 DEF Admit
  <2>2. presence[k] \notin {Idle, Absent}
    BY <1>6 DEF Joins
  <2>3. RingsFor(ready, presence, [queue EXCEPT ![k] = Append(@, item)])
    BY <1>1, <1>2, <1>4, <2>2, QueuesBehind
  <2>4. RingsAgree'
    BY <1>3, <2>1, <2>3, RingsForAgreeNext
  <2>5. LinksAgree'
    BY <1>1, <1>3, <2>1 DEF LinksAgree, links
  <2>6. QED
    BY <1>3, <1>k, <2>1, <2>4, <2>5 DEF OwnersAgree, ExclusiveOwner, BookInv
<1>7. QED
  BY <1>5, <1>6

(* Items still wait behind their own key after the front of a queue went.  *)
LEMMA KeyedSuffix ==
  ASSUME queue \in [Keys -> Seq(Items)], KeyedQueues, NEW k \in Keys,
         NEW m \in Nat \ {0},
         queue' = [queue EXCEPT ![k] = SubSeq(queue[k], m, Len(queue[k]))]
  PROVE  KeyedQueues'
<1> DEFINE q == queue[k]
<1>1. ASSUME NEW l \in Keys, NEW j \in 1 .. Len(queue'[l])
      PROVE  queue'[l][j].key = l
  <2>1. CASE l # k
    BY <1>1, <2>1 DEF KeyedQueues
  <2>2. CASE l = k
    <3>1. queue'[k] = SubSeq(q, m, Len(q)) /\ q \in Seq(Items) /\ Len(q) \in Nat
      OBVIOUS
    <3>2. j \in 1 .. Len(q) - m + 1 /\ m + j - 1 \in 1 .. Len(q)
      BY <1>1, <2>2, <3>1
    <3>3. queue'[k][j] = q[m + j - 1]
      BY <3>1, <3>2
    <3>4. QED
      BY <2>2, <3>2, <3>3 DEF KeyedQueues
  <2>3. QED
    BY <2>1, <2>2
<1>2. QED
  BY <1>1 DEF KeyedQueues

(* The dispatching iteration of next: the key leaves its ring for the one  *)
(* dispatch that now owns it.                                              *)
LEMMA NextTakesAgrees ==
  ASSUME BookInv, NEW c \in Classes, NextTakes(c)
  PROVE  RingsAgree' /\ LinksAgree' /\ OwnersAgree' /\ ExclusiveOwner' /\ KeyedQueues'
<1> DEFINE k == Head(ready[c])
           q == queue[k]
           rings == [ready EXCEPT ![c] = Tail(@)]
<1>1. /\ presence \in [Keys -> Presences] /\ queue \in [Keys -> Seq(Items)]
      /\ ready \in [Classes -> Seq(Keys)] /\ now \in Nat /\ ready[c] # <<>>
      /\ TypeOK /\ LinksAgree
  BY DEF TypeOK, BookInv, NextTakes
<1>2. /\ k \in Keys /\ q \in Seq(Items) /\ rings \in [Classes -> Seq(Keys)]
      /\ ready[c][1] = k /\ 1 \in 1 .. Len(ready[c])
  BY <1>1
<1>3. PICK n \in 0 .. Len(q) - 1 :
        /\ queue' = [queue EXCEPT ![k] = SubSeq(q, n + 2, Len(q))]
        /\ outstanding' = outstanding \cup
             {[item |-> q[n + 1], state |-> resident[k]]}
        /\ presence' = [presence EXCEPT ![k] = InFlight]
  BY DEF NextTakes
<1>4. n \in Nat /\ Len(q) \in Nat /\ n + 1 \in 1 .. Len(q)
  BY <1>2, <1>3
<1>5. SubSeq(q, n + 2, Len(q)) \in Seq(Items)
  BY <1>2, <1>4, SubSeqType
<1>6. ready' = rings /\ now' = now /\ flushing' = flushing /\ UNCHANGED links
  BY DEF NextTakes
<1>7. RingsFor(ready, presence, queue)
  BY RingsForAgree DEF BookInv
<1>8. presence[k] = c
  BY <1>2, <1>7 DEF RingsFor
<1>9. RingsBut(rings, presence, queue, k)
  BY <1>1, <1>7, Popped
<1>10. RingsAgree'
  <2>1. RingsFor(rings, [presence EXCEPT ![k] = InFlight],
                 [queue EXCEPT ![k] = SubSeq(q, n + 2, Len(q))])
    BY <1>1, <1>2, <1>5, <1>9, Leaves, ClassesApart
  <2>2. QED
    BY <1>3, <1>6, <2>1, RingsForAgreeNext
<1>11. LinksAgree'
  <2>1. now' \in Nat /\ now <= now' /\ InFlight # Idle /\ presence[k] # Idle
    BY <1>1, <1>6, <1>8, ClassesApart
  <2>2. QED
    BY <1>1, <1>2, <1>3, <1>6, <2>1, LinksKept
<1> DEFINE dd == [item |-> q[n + 1], state |-> resident[k]]
<1>12. dd.item.key = k
  BY <1>2, <1>4 DEF KeyedQueues, BookInv
<1>13. \A d \in outstanding : d.item.key \in Keys \ {k} /\ presence'[d.item.key] = InFlight
  BY <1>1, <1>3, <1>8, OwnedKeys, ClassesApart DEF BookInv, OwnersAgree
<1>14. \A f \in flushing : f.key \in Keys \ {k} /\ presence'[f.key] = Evicting
  BY <1>1, <1>3, <1>8, OwnedKeys, ClassesApart DEF BookInv, OwnersAgree
<1>15. presence'[k] = InFlight /\ outstanding' = outstanding \cup {dd}
  BY <1>1, <1>2, <1>3
<1> HIDE DEF dd
<1>16. OwnersAgree'
  BY <1>6, <1>12, <1>13, <1>14, <1>15 DEF OwnersAgree
<1>17. ExclusiveOwner'
  BY <1>6, <1>12, <1>13, <1>14, <1>15 DEF ExclusiveOwner, BookInv
<1>18. KeyedQueues'
  <2>1. n + 2 \in Nat \ {0} /\ KeyedQueues
    BY <1>4 DEF BookInv
  <2>2. queue' = [queue EXCEPT ![k] = SubSeq(queue[k], n + 2, Len(queue[k]))]
    BY <1>3
  <2>3. QED
    BY <1>1, <1>2, <2>1, <2>2, KeyedSuffix
<1>19. QED
  BY <1>10, <1>11, <1>16, <1>17, <1>18

(* An iteration of next that finds only expired work of its class: the key *)
(* settles in another ring or goes idle.                                   *)
LEMMA NextSkipsAgrees ==
  ASSUME BookInv, NEW c \in Classes, NextSkips(c)
  PROVE  RingsAgree' /\ LinksAgree' /\ OwnersAgree' /\ ExclusiveOwner' /\ KeyedQueues'
<1> DEFINE k == Head(ready[c])
           q == queue[k]
           rings == [ready EXCEPT ![c] = Tail(@)]
<1>1. /\ presence \in [Keys -> Presences] /\ queue \in [Keys -> Seq(Items)]
      /\ ready \in [Classes -> Seq(Keys)] /\ now \in Nat /\ ready[c] # <<>>
      /\ TypeOK /\ LinksAgree
  BY DEF TypeOK, BookInv, NextSkips
<1>2. /\ k \in Keys /\ q \in Seq(Items) /\ rings \in [Classes -> Seq(Keys)]
      /\ ready[c][1] = k /\ 1 \in 1 .. Len(ready[c])
  BY <1>1
<1>3. PICK n \in 0 .. Len(q) :
        /\ queue' = [queue EXCEPT ![k] = SubSeq(q, n + 1, Len(q))]
        /\ Place(k, SubSeq(q, n + 1, Len(q)), rings)
  BY DEF NextSkips
<1>4. n \in Nat /\ Len(q) \in Nat /\ n <= Len(q)
  BY <1>2, <1>3
<1>5. SubSeq(q, n + 1, Len(q)) \in Seq(Items)
  BY <1>2, <1>4, SubSeqType
<1>6. now' = now /\ outstanding' = outstanding /\ flushing' = flushing
  BY DEF NextSkips, caller
<1>7. RingsFor(ready, presence, queue)
  BY RingsForAgree DEF BookInv
<1>8. presence[k] = c /\ presence[k] # Idle
  BY <1>2, <1>7, ClassesApart DEF RingsFor
<1>9. RingsBut(rings, presence, queue, k)
  BY <1>1, <1>7, Popped
<1>10. /\ RingsAgree' /\ LinksAgree'
       /\ \A l \in Keys : l # k => presence'[l] = presence[l]
  BY <1>1, <1>2, <1>3, <1>5, <1>6, <1>8, <1>9, PlaceAgrees
<1>11. OwnersAgree'
  BY <1>1, <1>6, <1>8, <1>10, OwnedKeys, ClassesApart DEF BookInv, OwnersAgree
<1>12. ExclusiveOwner'
  BY <1>6 DEF ExclusiveOwner, BookInv
<1>13. KeyedQueues'
  <2>1. n + 1 \in Nat \ {0} /\ KeyedQueues
    BY <1>4 DEF BookInv
  <2>2. queue' = [queue EXCEPT ![k] = SubSeq(queue[k], n + 1, Len(queue[k]))]
    BY <1>3
  <2>3. QED
    BY <1>1, <1>2, <2>1, <2>2, KeyedSuffix
<1>14. QED
  BY <1>10, <1>11, <1>12, <1>13

(* complete: the only owner gives the key back.                            *)
LEMMA CompleteAgrees ==
  ASSUME BookInv, NEW d \in outstanding, NEW keep \in BOOLEAN, Complete(d, keep)
  PROVE  RingsAgree' /\ LinksAgree' /\ OwnersAgree' /\ ExclusiveOwner' /\ KeyedQueues'
<1> DEFINE k == d.item.key
<1>1. /\ presence \in [Keys -> Presences] /\ queue \in [Keys -> Seq(Items)]
      /\ ready \in [Classes -> Seq(Keys)] /\ TypeOK /\ LinksAgree /\ k \in Keys
  BY OwnedKeys DEF TypeOK, BookInv
<1>2. /\ outstanding' = outstanding \ {d} /\ queue' = queue /\ now' = now
      /\ flushing' = flushing /\ Place(k, queue[k], ready)
  BY DEF Complete
<1>3. presence[k] = InFlight
  BY DEF BookInv, OwnersAgree
<1>4. RingsBut(ready, presence, queue, k)
  BY <1>1, <1>3, RingsForAgree, NotListed, ClassesApart DEF BookInv
<1>5. queue[k] \in Seq(Items) /\ queue' = [queue EXCEPT ![k] = queue[k]] /\ presence[k] # Idle
  BY <1>1, <1>2, <1>3, ClassesApart
<1>6. /\ RingsAgree' /\ LinksAgree'
      /\ \A l \in Keys : l # k => presence'[l] = presence[l]
  BY <1>1, <1>2, <1>4, <1>5, PlaceAgrees
<1>7. \A e \in outstanding' : e.item.key \in Keys \ {k}
  BY <1>1, <1>2, OwnedKeys DEF ExclusiveOwner, BookInv
<1>8. \A f \in flushing : f.key \in Keys \ {k}
  BY <1>1, OwnedKeys DEF ExclusiveOwner, BookInv
<1>9. OwnersAgree'
  BY <1>2, <1>6, <1>7, <1>8 DEF BookInv, OwnersAgree
<1>10. ExclusiveOwner' /\ KeyedQueues'
  BY <1>2 DEF ExclusiveOwner, KeyedQueues, BookInv
<1>11. QED
  BY <1>6, <1>9, <1>10

(* release: the oldest idle key, which has no owner, is quiesced for its   *)
(* flush or forgotten.                                                     *)
LEMMA ReleaseAgrees ==
  ASSUME BookInv, ReleaseHead, idle_head # None
  PROVE  RingsAgree' /\ LinksAgree' /\ OwnersAgree' /\ ExclusiveOwner' /\ KeyedQueues'
<1> DEFINE k == idle_head
<1>1. /\ presence \in [Keys -> Presences] /\ queue \in [Keys -> Seq(Items)]
      /\ ready \in [Classes -> Seq(Keys)] /\ TypeOK /\ LinksAgree /\ k \in Keys
      /\ presence[k] = Idle
  BY DEF TypeOK, BookInv, LinksAgree
<1>2. /\ queue' = queue /\ now' = now /\ ready' = ready
      /\ outstanding' = outstanding /\ Unlink(k)
  BY DEF ReleaseHead
<1>3. \/ presence' = [presence EXCEPT ![k] = Absent] /\ flushing' = flushing
      \/ /\ presence' = [presence EXCEPT ![k] = Evicting]
         /\ flushing' = flushing \cup {[key |-> k, state |-> resident[k]]}
  BY DEF ReleaseHead, Releases
<1>4. RingsBut(ready, presence, queue, k) /\ queue[k] = <<>>
  BY <1>1, RingsForAgree, NotListed, ClassesApart DEF BookInv, RingsAgree
<1>5. PICK v \in {Absent, Evicting} : presence' = [presence EXCEPT ![k] = v]
  BY <1>3
<1>6. v \notin Classes /\ v # Idle /\ v # InFlight
  BY ClassesApart
<1>7. RingsAgree'
  <2>1. queue[k] \in Seq(Items) /\ queue = [queue EXCEPT ![k] = queue[k]]
    BY <1>1
  <2>2. RingsFor(ready, [presence EXCEPT ![k] = v], [queue EXCEPT ![k] = queue[k]])
    BY <1>1, <1>4, <1>6, <2>1, Leaves
  <2>3. QED
    BY <1>2, <1>5, <2>1, <2>2, RingsForAgreeNext
<1>8. LinksAgree'
  BY <1>1, <1>2, <1>5, <1>6, LinksRemove
<1>9. \A l \in Keys : l # k => presence'[l] = presence[l]
  BY <1>1, <1>5
<1>10. /\ \A d \in outstanding : d.item.key \in Keys \ {k}
       /\ \A f \in flushing : f.key \in Keys \ {k}
  BY <1>1, OwnedKeys, ClassesApart DEF BookInv, OwnersAgree
<1>11. OwnersAgree'
  <2>1. \A d \in outstanding' : presence'[d.item.key] = InFlight
    BY <1>2, <1>9, <1>10 DEF BookInv, OwnersAgree
  <2>2. CASE flushing' = flushing
    BY <1>9, <1>10, <2>1, <2>2 DEF BookInv, OwnersAgree
  <2>3. CASE /\ presence' = [presence EXCEPT ![k] = Evicting]
             /\ flushing' = flushing \cup {[key |-> k, state |-> resident[k]]}
    BY <1>1, <1>9, <1>10, <2>1, <2>3 DEF BookInv, OwnersAgree
  <2>4. QED
    BY <1>3, <2>2, <2>3
<1>12. ExclusiveOwner'
  BY <1>2, <1>3, <1>10 DEF ExclusiveOwner, BookInv
<1>13. KeyedQueues'
  BY <1>2 DEF KeyedQueues, BookInv
<1>14. QED
  BY <1>7, <1>8, <1>11, <1>12, <1>13

(* finish_evict: the flush gives the key back.                             *)
LEMMA FinishEvictAgrees ==
  ASSUME BookInv, NEW f \in flushing, FinishEvict(f)
  PROVE  RingsAgree' /\ LinksAgree' /\ OwnersAgree' /\ ExclusiveOwner' /\ KeyedQueues'
<1> DEFINE k == f.key
<1>1. /\ presence \in [Keys -> Presences] /\ queue \in [Keys -> Seq(Items)]
      /\ ready \in [Classes -> Seq(Keys)] /\ TypeOK /\ LinksAgree /\ k \in Keys
      /\ now \in Nat
  BY OwnedKeys DEF TypeOK, BookInv
<1>2. /\ outstanding' = outstanding /\ queue' = queue /\ now' = now
      /\ flushing' = flushing \ {f}
  BY DEF FinishEvict
<1>3. presence[k] = Evicting /\ presence[k] # Idle /\ presence[k] \notin Classes
  BY ClassesApart DEF BookInv, OwnersAgree
<1>4. RingsBut(ready, presence, queue, k)
  BY <1>1, <1>3, RingsForAgree, NotListed DEF BookInv
<1>5. queue[k] \in Seq(Items) /\ queue' = [queue EXCEPT ![k] = queue[k]]
  BY <1>1, <1>2
<1>6. /\ RingsAgree' /\ LinksAgree'
      /\ \A l \in Keys : l # k => presence'[l] = presence[l]
  <2>1. CASE queue[k] # <<>>
    <3>1. Place(k, queue[k], ready)
      BY <2>1 DEF FinishEvict
    <3>2. QED
      BY <1>1, <1>2, <1>3, <1>4, <1>5, <3>1, PlaceAgrees
  <2>2. CASE queue[k] = <<>>
    <3>1. presence' = [presence EXCEPT ![k] = Absent] /\ ready' = ready /\ UNCHANGED links
      BY <2>2 DEF FinishEvict
    <3>2. Absent \notin Classes /\ Absent # Idle /\ now' \in Nat /\ now <= now'
      BY <1>1, <1>2, ClassesApart
    <3>3. RingsFor(ready, [presence EXCEPT ![k] = Absent], [queue EXCEPT ![k] = queue[k]])
      BY <1>1, <1>4, <1>5, <2>2, <3>2, Leaves
    <3>4. RingsAgree'
      BY <1>5, <3>1, <3>3, RingsForAgreeNext
    <3>5. LinksAgree'
      BY <1>1, <1>3, <3>1, <3>2, LinksKept
    <3>6. QED
      BY <1>1, <3>1, <3>4, <3>5
  <2>3. QED
    BY <2>1, <2>2
<1>7. \A g \in flushing' : g.key \in Keys \ {k}
  BY <1>1, <1>2, OwnedKeys DEF ExclusiveOwner, BookInv
<1>8. \A d \in outstanding : d.item.key \in Keys \ {k}
  BY <1>1, OwnedKeys DEF ExclusiveOwner, BookInv
<1>9. OwnersAgree'
  BY <1>2, <1>6, <1>7, <1>8 DEF BookInv, OwnersAgree
<1>10. ExclusiveOwner' /\ KeyedQueues'
  BY <1>2 DEF ExclusiveOwner, KeyedQueues, BookInv
<1>11. QED
  BY <1>6, <1>9, <1>10

(* Every step of the book keeps the inductive invariant.                   *)
LEMMA BookStep == BookInv /\ [Next]_vars => BookInv'
<1> SUFFICES ASSUME BookInv, [Next]_vars PROVE BookInv'
  OBVIOUS
<1>1. TypeOK'
  BY TypeStep DEF BookInv
<1>2. ASSUME UNCHANGED <<presence, queue, links, ready, outstanding, flushing>>,
             now' \in Nat, now <= now'
      PROVE  RingsAgree' /\ LinksAgree' /\ OwnersAgree' /\ ExclusiveOwner' /\ KeyedQueues'
  <2>1. /\ RingsAgree' /\ OwnersAgree' /\ ExclusiveOwner' /\ KeyedQueues'
    BY <1>2 DEF BookInv, RingsAgree, OwnersAgree, ExclusiveOwner, KeyedQueues
  <2>2. LinksAgree'
    <3>1. /\ idle_since' = idle_since /\ idle_prev' = idle_prev /\ presence' = presence
          /\ idle_next' = idle_next /\ idle_head' = idle_head /\ idle_tail' = idle_tail
      BY <1>2 DEF links
    <3>2. now \in Nat /\ idle_since \in [Keys -> Nat]
      BY DEF BookInv, TypeOK
    <3>3. QED
      BY <1>2, <3>1, <3>2 DEF LinksAgree, BookInv
  <2>3. QED
    BY <2>1, <2>2
<1>3. now \in Nat /\ now' \in Nat
  BY <1>1 DEF BookInv, TypeOK
<1>4. ASSUME PopExpired PROVE RingsAgree' /\ LinksAgree' /\ OwnersAgree' /\ ExclusiveOwner' /\ KeyedQueues'
  <2>1. UNCHANGED <<presence, queue, links, ready, outstanding, flushing>> /\ now <= now'
    BY <1>3, <1>4 DEF PopExpired, caller
  <2>2. QED
    BY <1>2, <1>3, <2>1
<1>5. ASSUME Evict PROVE RingsAgree' /\ LinksAgree' /\ OwnersAgree' /\ ExclusiveOwner' /\ KeyedQueues'
  BY <1>5, ReleaseAgrees DEF Evict
<1>6. ASSUME EvictBreaks PROVE RingsAgree' /\ LinksAgree' /\ OwnersAgree' /\ ExclusiveOwner' /\ KeyedQueues'
  <2>1. UNCHANGED <<presence, queue, links, ready, outstanding, flushing>> /\ now <= now'
    BY <1>3, <1>6 DEF EvictBreaks, caller
  <2>2. QED
    BY <1>2, <1>3, <2>1
<1>7. ASSUME EvictAll PROVE RingsAgree' /\ LinksAgree' /\ OwnersAgree' /\ ExclusiveOwner' /\ KeyedQueues'
  BY <1>7, ReleaseAgrees DEF EvictAll
<1>8. ASSUME ClockAdvances PROVE RingsAgree' /\ LinksAgree' /\ OwnersAgree' /\ ExclusiveOwner' /\ KeyedQueues'
  <2>1. UNCHANGED <<presence, queue, links, ready, outstanding, flushing>> /\ now <= now'
    BY <1>3, <1>8 DEF ClockAdvances, caller
  <2>2. QED
    BY <1>2, <1>3, <2>1
<1>9. ASSUME UNCHANGED vars PROVE RingsAgree' /\ LinksAgree' /\ OwnersAgree' /\ ExclusiveOwner' /\ KeyedQueues'
  <2>1. UNCHANGED <<presence, queue, links, ready, outstanding, flushing>> /\ now <= now'
    BY <1>3, <1>9 DEF vars, caller
  <2>2. QED
    BY <1>2, <1>3, <2>1
<1>10. RingsAgree' /\ LinksAgree' /\ OwnersAgree' /\ ExclusiveOwner' /\ KeyedQueues'
  BY <1>4, <1>5, <1>6, <1>7, <1>8, <1>9, AdmitAgrees, NextTakesAgrees,
     NextSkipsAgrees, CompleteAgrees, FinishEvictAgrees DEF Next
<1>11. QED
  BY <1>1, <1>10 DEF BookInv

(* The inductive invariant holds of every reachable state.                 *)
LEMMA BookInvariant == Spec => []BookInv
<1>1. Init => BookInv
  <2> SUFFICES ASSUME Init PROVE BookInv
    OBVIOUS
  <2>1. TypeOK
    BY BookConstants DEF Init, TypeOK, NoCall, NoState, Presences
  <2>2. RingsAgree
    BY ClassesApart DEF Init, RingsAgree, Ready
  <2>3. LinksAgree
    BY ClassesApart DEF Init, LinksAgree
  <2>4. OwnersAgree /\ ExclusiveOwner /\ KeyedQueues
    BY DEF Init, OwnersAgree, ExclusiveOwner, KeyedQueues
  <2>5. QED
    BY <2>1, <2>2, <2>3, <2>4 DEF BookInv
<1>2. QED
  BY <1>1, BookStep, PTL DEF Spec

(* No key ever has two owners: two dispatches, two flushes, or one of      *)
(* each, whatever is admitted, expires, completes or is evicted.           *)
THEOREM OwnershipIsExclusive == Spec => []ExclusiveOwner
<1>1. BookInv => ExclusiveOwner
  BY DEF BookInv
<1>2. QED
  BY <1>1, BookInvariant, PTL

(* No ready key is lost from its ring or listed twice, and the ring is     *)
(* that of the item it will run.                                           *)
THEOREM RingsAlwaysAgree == Spec => []RingsAgree
<1>1. BookInv => RingsAgree
  BY DEF BookInv
<1>2. QED
  BY <1>1, BookInvariant, PTL

(* The intrusive idle list stays well linked, holds idle keys only and is  *)
(* ordered by the moment each key went idle.                               *)
THEOREM LinksAlwaysAgree == Spec => []LinksAgree
<1>1. BookInv => LinksAgree
  BY DEF BookInv
<1>2. QED
  BY <1>1, BookInvariant, PTL

-----------------------------------------------------------------------------
(* State.                                                                  *)

(* Where a placed key ends up, and that only it moves.                     *)
LEMMA PlaceMoves ==
  ASSUME TypeOK, NEW k \in Keys, NEW q \in Seq(Items),
         NEW rings \in [Classes -> Seq(Keys)], Place(k, q, rings)
  PROVE  /\ presence'[k] \in Classes \cup {Idle}
         /\ \A l \in Keys : l # k => presence'[l] = presence[l]
<1>1. presence \in [Keys -> Presences]
  BY DEF TypeOK
<1>2. CASE q # <<>>
  <2>1. presence' = [presence EXCEPT ![k] = Head(q).class]
    BY <1>2 DEF Place, Ready, TargetRing
  <2>2. Head(q) \in Items
    BY <1>2
  <2>3. Head(q).class \in Classes
    BY <2>2, ItemType
  <2>4. QED
    BY <1>1, <2>1, <2>3
<1>3. CASE q = <<>>
  <2>1. presence' = [presence EXCEPT ![k] = Idle]
    BY <1>3 DEF Place
  <2>2. QED
    BY <1>1, <2>1
<1>4. QED
  BY <1>2, <1>3

(* A step that gives out no state and records no completion, and in which  *)
(* a key that keeps state keeps a place where it may.                      *)
LEMMA StateKept ==
  ASSUME StateIsLatest, resident' = resident, last_done' = last_done,
         outstanding' \subseteq outstanding, flushing' \subseteq flushing,
         \A k \in Keys : resident[k] # NoState => presence'[k] \in Classes \cup {Idle}
  PROVE  StateIsLatest'
  BY DEF StateIsLatest

(* admit: no state moves, and a key that holds some stays ready.           *)
LEMMA AdmitKeepsState ==
  ASSUME BookInv, StateIsLatest, NEW k \in Keys, NEW c \in Classes, NEW d \in Deadlines,
         Admit(k, c, d)
  PROVE  StateIsLatest'
<1>1. /\ resident' = resident /\ last_done' = last_done
      /\ outstanding' = outstanding /\ flushing' = flushing
      /\ presence' = presence \/ presence' = [presence EXCEPT ![k] = c]
  BY DEF Admit, caller, Ready
<1>2. presence \in [Keys -> Presences]
  BY DEF BookInv, TypeOK
<1>3. \A l \in Keys : presence'[l] = presence[l] \/ presence'[l] \in Classes
  BY <1>1, <1>2
<1>4. \A l \in Keys : resident[l] # NoState => presence'[l] \in Classes \cup {Idle}
  BY <1>3 DEF StateIsLatest
<1>5. QED
  BY <1>1, <1>4, StateKept

(* A dispatch takes the state with it.                                     *)
LEMMA NextTakesKeepsState ==
  ASSUME BookInv, StateIsLatest, NEW c \in Classes, NextTakes(c)
  PROVE  StateIsLatest'
<1> DEFINE k == Head(ready[c])
           q == queue[k]
<1>1. /\ presence \in [Keys -> Presences] /\ queue \in [Keys -> Seq(Items)]
      /\ ready \in [Classes -> Seq(Keys)] /\ ready[c] # <<>>
      /\ resident \in [Keys -> Nat]
  BY DEF BookInv, TypeOK, NextTakes
<1>2. k \in Keys /\ q \in Seq(Items) /\ resident[k] \in Nat
  BY <1>1
<1>3. PICK n \in 0 .. Len(q) - 1 :
        /\ outstanding' = outstanding \cup {[item |-> q[n + 1], state |-> resident[k]]}
        /\ presence' = [presence EXCEPT ![k] = InFlight]
        /\ resident' = [resident EXCEPT ![k] = NoState]
  BY DEF NextTakes
<1>4. last_done' = last_done /\ flushing' = flushing
  BY DEF NextTakes, history
<1>5. q[n + 1].key = k
  <2>1. n + 1 \in 1 .. Len(q)
    BY <1>2, <1>3
  <2>2. QED
    BY <1>2, <2>1 DEF KeyedQueues, BookInv
<1>6. \A l \in Keys : l # k => resident'[l] = resident[l] /\ presence'[l] = presence[l]
  BY <1>1, <1>3
<1>7. resident'[k] = NoState
  BY <1>1, <1>2, <1>3
<1>8. resident[k] \in {NoState, last_done[k]}
  BY <1>2 DEF StateIsLatest
<1> DEFINE dd == [item |-> q[n + 1], state |-> resident[k]]
<1>9. dd.item.key = k /\ dd.state = resident[k]
  BY <1>5
<1>10. outstanding' = outstanding \cup {dd}
  BY <1>3
<1> HIDE DEF dd, k, q
<1>11. \A l \in Keys : resident'[l] # NoState =>
         resident'[l] = last_done'[l] /\ presence'[l] \in Classes \cup {Idle}
  BY <1>2, <1>4, <1>6, <1>7 DEF StateIsLatest
<1>12. \A d \in outstanding' : d.state \in {NoState, last_done'[d.item.key]}
  BY <1>4, <1>8, <1>9, <1>10 DEF StateIsLatest
<1>13. \A f \in flushing' : f.state = last_done'[f.key]
  BY <1>4 DEF StateIsLatest
<1>14. QED
  BY <1>11, <1>12, <1>13 DEF StateIsLatest

(* Shedding: no state moves, and the key is settled ready or idle.         *)
LEMMA NextSkipsKeepsState ==
  ASSUME BookInv, StateIsLatest, NEW c \in Classes, NextSkips(c)
  PROVE  StateIsLatest'
<1> DEFINE k == Head(ready[c])
           q == queue[k]
           rings == [ready EXCEPT ![c] = Tail(@)]
<1>1. /\ TypeOK /\ queue \in [Keys -> Seq(Items)]
      /\ ready \in [Classes -> Seq(Keys)] /\ ready[c] # <<>>
  BY DEF BookInv, TypeOK, NextSkips
<1>2. k \in Keys /\ q \in Seq(Items) /\ rings \in [Classes -> Seq(Keys)]
  BY <1>1
<1>3. PICK n \in 0 .. Len(q) : Place(k, SubSeq(q, n + 1, Len(q)), rings)
  BY DEF NextSkips
<1>4. n + 1 \in Nat \ {0} /\ Len(q) \in Nat
  BY <1>2, <1>3
<1>5. SubSeq(q, n + 1, Len(q)) \in Seq(Items)
  BY <1>2, <1>4, SubSeqType
<1> HIDE DEF k, q, rings
<1>6. /\ presence'[k] \in Classes \cup {Idle}
      /\ \A l \in Keys : l # k => presence'[l] = presence[l]
  BY <1>1, <1>2, <1>3, <1>5, PlaceMoves
<1>7. /\ resident' = resident /\ last_done' = last_done
      /\ outstanding' = outstanding /\ flushing' = flushing
  BY DEF NextSkips, caller, history
<1>8. \A l \in Keys : resident[l] # NoState => presence'[l] \in Classes \cup {Idle}
  BY <1>6 DEF StateIsLatest
<1>9. QED
  BY <1>7, <1>8, StateKept

(* A completion brings the latest state, and its key has no other owner.   *)
LEMMA CompleteKeepsState ==
  ASSUME BookInv, StateIsLatest, NEW d \in outstanding, NEW keep \in BOOLEAN,
         Complete(d, keep)
  PROVE  StateIsLatest'
<1> DEFINE k == d.item.key
<1>1. /\ TypeOK /\ queue \in [Keys -> Seq(Items)] /\ ready \in [Classes -> Seq(Keys)]
      /\ resident \in [Keys -> Nat] /\ last_done \in [Keys -> Nat] /\ k \in Keys
  BY OwnedKeys DEF BookInv, TypeOK
<1>2. queue[k] \in Seq(Items) /\ Place(k, queue[k], ready)
  BY <1>1 DEF Complete
<1>3. /\ presence'[k] \in Classes \cup {Idle}
      /\ \A l \in Keys : l # k => presence'[l] = presence[l]
  BY <1>1, <1>2, PlaceMoves
<1>4. /\ outstanding' = outstanding \ {d} /\ flushing' = flushing
      /\ resident' = [resident EXCEPT ![k] = Returned(d, keep)]
      /\ last_done' = [last_done EXCEPT ![k] = d.item.id]
  BY DEF Complete
<1>5. /\ \A l \in Keys : l # k => resident'[l] = resident[l] /\ last_done'[l] = last_done[l]
      /\ last_done'[k] = d.item.id
      /\ resident'[k] \in {NoState, last_done'[k]}
  BY <1>1, <1>4 DEF Returned
<1>6. \A e \in outstanding' : e.item.key \in Keys \ {k}
  BY <1>1, <1>4, OwnedKeys DEF ExclusiveOwner, BookInv
<1>7. \A f \in flushing : f.key \in Keys \ {k}
  BY <1>1, OwnedKeys DEF ExclusiveOwner, BookInv
<1> HIDE DEF k
<1>8. \A l \in Keys : resident'[l] # NoState =>
         resident'[l] = last_done'[l] /\ presence'[l] \in Classes \cup {Idle}
  BY <1>3, <1>5 DEF StateIsLatest
<1>9. \A e \in outstanding' : e.state \in {NoState, last_done'[e.item.key]}
  BY <1>4, <1>5, <1>6 DEF StateIsLatest
<1>10. \A f \in flushing' : f.state = last_done'[f.key]
  BY <1>4, <1>5, <1>7 DEF StateIsLatest
<1>11. QED
  BY <1>8, <1>9, <1>10 DEF StateIsLatest

(* A released key hands its state to the flush and keeps none.             *)
LEMMA ReleaseKeepsState ==
  ASSUME BookInv, StateIsLatest, ReleaseHead, idle_head # None
  PROVE  StateIsLatest'
<1> DEFINE k == idle_head
<1>1. /\ presence \in [Keys -> Presences] /\ resident \in [Keys -> Nat] /\ k \in Keys
  BY DEF TypeOK, BookInv
<1>2. /\ outstanding' = outstanding /\ last_done' = last_done
      /\ resident' = [resident EXCEPT ![k] = NoState]
  BY DEF ReleaseHead, history
<1>3. \/ presence' = [presence EXCEPT ![k] = Absent] /\ flushing' = flushing
      \/ /\ resident[k] # NoState
         /\ presence' = [presence EXCEPT ![k] = Evicting]
         /\ flushing' = flushing \cup {[key |-> k, state |-> resident[k]]}
  BY DEF ReleaseHead, Releases
<1>4. /\ \A l \in Keys : l # k => resident'[l] = resident[l] /\ presence'[l] = presence[l]
      /\ resident'[k] = NoState
  BY <1>1, <1>2, <1>3
<1> HIDE DEF k
<1>5. \A f \in flushing' : f.state = last_done'[f.key]
  BY <1>1, <1>2, <1>3 DEF StateIsLatest
<1>6. \A l \in Keys : resident'[l] # NoState =>
         resident'[l] = last_done'[l] /\ presence'[l] \in Classes \cup {Idle}
  BY <1>2, <1>4 DEF StateIsLatest
<1>7. \A d \in outstanding' : d.state \in {NoState, last_done'[d.item.key]}
  BY <1>2 DEF StateIsLatest
<1>8. QED
  BY <1>5, <1>6, <1>7 DEF StateIsLatest

(* finish_evict: the flush and its state go, the key holds none.           *)
LEMMA FinishEvictKeepsState ==
  ASSUME BookInv, StateIsLatest, NEW f \in flushing, FinishEvict(f)
  PROVE  StateIsLatest'
<1> DEFINE k == f.key
<1>1. /\ TypeOK /\ queue \in [Keys -> Seq(Items)] /\ ready \in [Classes -> Seq(Keys)]
      /\ presence \in [Keys -> Presences] /\ k \in Keys /\ queue[k] \in Seq(Items)
  BY OwnedKeys DEF TypeOK, BookInv
<1>2. /\ outstanding' = outstanding /\ flushing' = flushing \ {f}
      /\ resident' = resident /\ last_done' = last_done
  BY DEF FinishEvict, history
<1>3. resident[k] = NoState
  <2>1. presence[k] = Evicting /\ Evicting \notin Classes \cup {Idle}
    BY ClassesApart DEF BookInv, OwnersAgree, Evicting, Idle
  <2>2. QED
    BY <1>1, <2>1 DEF StateIsLatest
<1>4. \A l \in Keys : l # k => presence'[l] = presence[l]
  <2>1. CASE queue[k] # <<>>
    <3>1. Place(k, queue[k], ready)
      BY <2>1 DEF FinishEvict
    <3>2. QED
      BY <1>1, <3>1, PlaceMoves
  <2>2. CASE queue[k] = <<>>
    BY <1>1, <2>2 DEF FinishEvict
  <2>3. QED
    BY <2>1, <2>2
<1> HIDE DEF k
<1>5. \A l \in Keys : resident[l] # NoState => presence'[l] \in Classes \cup {Idle}
  BY <1>3, <1>4 DEF StateIsLatest
<1>6. QED
  BY <1>2, <1>5, StateKept

(* Every step keeps the state of every key the latest.                     *)
LEMMA StateStep ==
  ASSUME BookInv, StateIsLatest, [Next]_vars
  PROVE  StateIsLatest'
<1>1. ASSUME UNCHANGED <<presence, resident, outstanding, flushing, last_done>>
      PROVE  StateIsLatest'
  BY <1>1 DEF StateIsLatest
<1>2. CASE \E k \in Keys, c \in Classes, d \in Deadlines : Admit(k, c, d)
  BY <1>2, AdmitKeepsState
<1>3. CASE \E c \in Classes : NextTakes(c) \/ NextSkips(c)
  BY <1>3, NextTakesKeepsState, NextSkipsKeepsState
<1>4. CASE PopExpired \/ EvictBreaks \/ ClockAdvances \/ UNCHANGED vars
  BY <1>1, <1>4 DEF PopExpired, EvictBreaks, ClockAdvances, vars, caller, history
<1>5. CASE \E d \in outstanding, keep \in BOOLEAN : Complete(d, keep)
  BY <1>5, CompleteKeepsState
<1>6. CASE Evict \/ EvictAll
  BY <1>6, ReleaseKeepsState DEF Evict, EvictAll
<1>7. CASE \E f \in flushing : FinishEvict(f)
  BY <1>7, FinishEvictKeepsState
<1>8. QED
  BY <1>2, <1>3, <1>4, <1>5, <1>6, <1>7 DEF Next

(* State is never stale: what a dispatch is given, a flush carries or a    *)
(* slot keeps is what the last completed item of the key produced.         *)
THEOREM StateIsAlwaysLatest == Spec => []StateIsLatest
<1>1. Init => StateIsLatest
  BY DEF Init, StateIsLatest
<1>2. QED
  BY <1>1, BookInvariant, StateStep, PTL DEF Spec

-----------------------------------------------------------------------------
(* The book implements Affinity.  OwnerIn is OwnerOf with the caller's     *)
(* sets as parameters.                                                     *)

OwnerIn(o, fl, k) ==
  IF \E d \in o : d.item.key = k
  THEN [by |-> "work", id |-> (CHOOSE d \in o : d.item.key = k).item.id]
  ELSE IF \E f \in fl : f.key = k
  THEN [by |-> "flush", id |-> 0]
  ELSE [by |-> "nobody", id |-> 0]

(* OwnerIn is OwnerOf, before and after a step.                            *)
LEMMA OwnerInIs ==
  /\ [k \in Keys |-> OwnerOf(k)] = [k \in Keys |-> OwnerIn(outstanding, flushing, k)]
  /\ [k \in Keys |-> OwnerOf(k)]' = [k \in Keys |-> OwnerIn(outstanding', flushing', k)]
  BY DEF OwnerOf, OwnerIn

(* No two owners of a key among the caller's sets.                         *)
Exclusive(o, fl) ==
  /\ \A d, e \in o : d.item.key = e.item.key => d = e
  /\ \A f, g \in fl : f.key = g.key => f = g
  /\ \A d \in o, f \in fl : d.item.key # f.key

(* A dispatch is the owner of its key.                                     *)
LEMMA OwnedByWork ==
  ASSUME NEW o, NEW fl, Exclusive(o, fl), NEW d \in o
  PROVE  OwnerIn(o, fl, d.item.key) = [by |-> "work", id |-> d.item.id]
<1> DEFINE k == d.item.key
           e == CHOOSE x \in o : x.item.key = k
<1>1. e \in o /\ e.item.key = k
  OBVIOUS
<1>2. e = d
  BY <1>1 DEF Exclusive
<1>3. QED
  BY <1>2 DEF OwnerIn

(* A flush is the owner of its key.                                        *)
LEMMA OwnedByFlush ==
  ASSUME NEW o, NEW fl, Exclusive(o, fl), NEW f \in fl
  PROVE  OwnerIn(o, fl, f.key) = [by |-> "flush", id |-> 0]
  BY DEF OwnerIn, Exclusive

(* A key neither dispatched nor flushed is free.                           *)
LEMMA OwnedByNobody ==
  ASSUME NEW o, NEW fl, NEW k, \A d \in o : d.item.key # k, \A f \in fl : f.key # k
  PROVE  OwnerIn(o, fl, k) = [by |-> "nobody", id |-> 0]
  BY DEF OwnerIn

(* Who owns a key depends on the dispatches and flushes of that key only.  *)
LEMMA OwnerIsLocal ==
  ASSUME NEW o, NEW fl, NEW oo, NEW ffl, NEW k,
         Exclusive(o, fl), Exclusive(oo, ffl),
         \A d : d.item.key = k => (d \in o <=> d \in oo),
         \A f : f.key = k => (f \in fl <=> f \in ffl)
  PROVE  OwnerIn(o, fl, k) = OwnerIn(oo, ffl, k)
<1>1. CASE \E d \in o : d.item.key = k
  <2>1. PICK d \in o : d.item.key = k
    BY <1>1
  <2>2. d \in oo
    BY <2>1
  <2>3. QED
    BY <2>1, <2>2, OwnedByWork
<1>2. CASE \E f \in fl : f.key = k
  <2>1. PICK f \in fl : f.key = k
    BY <1>2
  <2>2. f \in ffl
    BY <2>1
  <2>3. QED
    BY <2>1, <2>2, OwnedByFlush
<1>3. CASE (\A d \in o : d.item.key # k) /\ (\A f \in fl : f.key # k)
  <2>1. (\A d \in oo : d.item.key # k) /\ (\A f \in ffl : f.key # k)
    BY <1>3
  <2>2. QED
    BY <1>3, <2>1, OwnedByNobody
<1>4. QED
  BY <1>1, <1>2, <1>3

(* Only the owner of k changes, and it becomes v.                          *)
LEMMA OwnerChanges ==
  ASSUME NEW o, NEW fl, NEW oo, NEW ffl, NEW k \in Keys, NEW v,
         Exclusive(o, fl), Exclusive(oo, ffl), OwnerIn(oo, ffl, k) = v,
         \A d : d.item.key # k => (d \in o <=> d \in oo),
         \A f : f.key # k => (f \in fl <=> f \in ffl)
  PROVE  [l \in Keys |-> OwnerIn(oo, ffl, l)]
           = [[l \in Keys |-> OwnerIn(o, fl, l)] EXCEPT ![k] = v]
<1>1. \A l \in Keys : l # k => OwnerIn(o, fl, l) = OwnerIn(oo, ffl, l)
  BY OwnerIsLocal
<1>2. QED
  BY <1>1

(* ExclusiveOwner, before and after a step, of the caller's sets.          *)
LEMMA ExclusiveIs ==
  /\ ExclusiveOwner <=> Exclusive(outstanding, flushing)
  /\ ExclusiveOwner' <=> Exclusive(outstanding', flushing')
  BY DEF ExclusiveOwner, Exclusive

(* The owners as Affinity sees them.                                       *)
Owners == [k \in Keys |-> OwnerOf(k)]

(* A step that leaves the queues and the caller's sets alone stutters.     *)
LEMMA AffinityStutters ==
  ASSUME queue' = queue, outstanding' = outstanding, flushing' = flushing
  PROVE  UNCHANGED Affine!vars
<1>1. Owners' = Owners
  BY OwnerInIs DEF Owners
<1>2. QED
  BY <1>1 DEF Affine!vars, Owners

(* admit is a submission.                                                  *)
LEMMA AdmitSubmits ==
  ASSUME BookInv, NEW k \in Keys, NEW c \in Classes, NEW d \in Deadlines, Admit(k, c, d)
  PROVE  Affine!Submit(k)
<1> DEFINE item == [id |-> admitted + 1, key |-> k, class |-> c, deadline |-> d]
<1>1. /\ queue' = [queue EXCEPT ![k] = Append(@, item)]
      /\ outstanding' = outstanding /\ flushing' = flushing
  BY DEF Admit, Enqueued, caller
<1>2. queue \in [Keys -> Seq(Items)] /\ item \in Items
  <2>1. queue \in [Keys -> Seq(Items)] /\ admitted \in Nat
    BY DEF BookInv, TypeOK
  <2>2. d \in Int /\ admitted + 1 \in Nat \ {0}
    BY <2>1, BookConstants
  <2>3. item \in Items
    BY <2>2 DEF Items
  <2>4. QED
    BY <2>1, <2>3
<1> HIDE DEF item
<1>3. queue[k] \in Seq(Items) /\ queue'[k] = Append(queue[k], item)
  BY <1>1, <1>2
<1>4. Len(queue'[k]) = Len(queue[k]) + 1 /\ queue'[k][Len(queue[k]) + 1] = item
  BY <1>2, <1>3
<1>5. queue' = [queue EXCEPT ![k] = Append(@, queue'[k][Len(@) + 1])]
  BY <1>1, <1>4
<1>6. Owners' = Owners
  BY <1>1, OwnerInIs DEF Owners
<1>7. QED
  BY <1>4, <1>5, <1>6 DEF Affine!Submit, Owners

(* A key in a ring, idle or unknown has no owner.                          *)
LEMMA FreeUnlessOwned ==
  ASSUME BookInv, NEW k \in Keys, presence[k] # InFlight, presence[k] # Evicting
  PROVE  /\ OwnerIn(outstanding, flushing, k) = [by |-> "nobody", id |-> 0]
         /\ \A d \in outstanding : d.item.key # k
         /\ \A f \in flushing : f.key # k
<1>1. (\A d \in outstanding : d.item.key # k) /\ (\A f \in flushing : f.key # k)
  BY DEF BookInv, OwnersAgree
<1>2. QED
  BY <1>1, OwnedByNobody

(* An iteration of next that dispatches is a run.                          *)
LEMMA NextTakesRuns ==
  ASSUME BookInv, ExclusiveOwner', NEW c \in Classes, NextTakes(c)
  PROVE  \E k \in Keys : Affine!Run(k)
<1> DEFINE k == Head(ready[c])
           q == queue[k]
<1>1. /\ presence \in [Keys -> Presences] /\ queue \in [Keys -> Seq(Items)]
      /\ ready \in [Classes -> Seq(Keys)] /\ ready[c] # <<>>
  BY DEF BookInv, TypeOK, NextTakes
<1>2. k \in Keys /\ q \in Seq(Items) /\ ready[c][1] = k /\ 1 \in 1 .. Len(ready[c])
  BY <1>1
<1>3. PICK n \in 0 .. Len(q) - 1 :
        /\ ShedsExactly(q, c, n)
        /\ queue' = [queue EXCEPT ![k] = SubSeq(q, n + 2, Len(q))]
        /\ outstanding' = outstanding \cup {[item |-> q[n + 1], state |-> resident[k]]}
  BY DEF NextTakes
<1>4. flushing' = flushing
  BY DEF NextTakes
<1>5. presence[k] = c /\ c \notin {InFlight, Evicting}
  BY <1>2, ClassesApart DEF BookInv, RingsAgree, Ready
<1>6. /\ OwnerIn(outstanding, flushing, k) = [by |-> "nobody", id |-> 0]
      /\ \A d \in outstanding : d.item.key # k
  BY <1>2, <1>5, FreeUnlessOwned
<1> DEFINE dd == [item |-> q[n + 1], state |-> resident[k]]
<1>7. dd.item.key = k /\ dd.item = q[n + 1]
  <2>1. n + 1 \in 1 .. Len(q)
    BY <1>2, <1>3
  <2>2. q[n + 1].key = k
    BY <1>2, <2>1 DEF KeyedQueues, BookInv
  <2>3. QED
    BY <2>2
<1>8. outstanding' = outstanding \cup {dd}
  BY <1>3
<1>9. Exclusive(outstanding, flushing) /\ Exclusive(outstanding', flushing')
  BY ExclusiveIs DEF BookInv
<1> HIDE DEF dd
<1>10. OwnerIn(outstanding', flushing', k) = [by |-> "work", id |-> q[n + 1].id]
  <2>1. dd \in outstanding'
    BY <1>8
  <2>2. OwnerIn(outstanding', flushing', dd.item.key) = [by |-> "work", id |-> dd.item.id]
    BY <1>9, <2>1, OwnedByWork
  <2>3. QED
    BY <1>7, <2>2
<1>11. Owners' = [Owners EXCEPT ![k] = [by |-> "work", id |-> q[n + 1].id]]
  <2>1. /\ \A d : d.item.key # k => (d \in outstanding <=> d \in outstanding')
        /\ \A f : f.key # k => (f \in flushing <=> f \in flushing')
    BY <1>4, <1>7, <1>8
  <2>2. [l \in Keys |-> OwnerIn(outstanding', flushing', l)]
          = [[l \in Keys |-> OwnerIn(outstanding, flushing, l)]
               EXCEPT ![k] = [by |-> "work", id |-> q[n + 1].id]]
    BY <1>2, <1>9, <1>10, <2>1, OwnerChanges
  <2>3. QED
    BY <2>2, OwnerInIs DEF Owners
<1>12. Owners[k] = [by |-> "nobody", id |-> 0]
  BY <1>2, <1>6, OwnerInIs DEF Owners
<1>13. \A i \in 1 .. n : q[i].deadline # Never
  BY <1>3 DEF ShedsExactly, Sheds
<1>14. Affine!Run(k)
  <2>1. Affine!MayDrop(k, n)
    BY <1>13 DEF Affine!MayDrop
  <2>2. QED
    BY <1>3, <1>11, <1>12, <2>1 DEF Affine!Run, Affine!Free, Affine!Work, Owners
<1>15. QED
  BY <1>2, <1>14

(* An iteration of next that finds only expired work drops it.             *)
LEMMA NextSkipsDrops ==
  ASSUME BookInv, NEW c \in Classes, NextSkips(c)
  PROVE  (\E k \in Keys : Affine!Drop(k)) \/ UNCHANGED Affine!vars
<1> DEFINE k == Head(ready[c])
           q == queue[k]
<1>1. /\ presence \in [Keys -> Presences] /\ queue \in [Keys -> Seq(Items)]
      /\ ready \in [Classes -> Seq(Keys)] /\ ready[c] # <<>>
  BY DEF BookInv, TypeOK, NextSkips
<1>2. k \in Keys /\ q \in Seq(Items) /\ ready[c][1] = k /\ 1 \in 1 .. Len(ready[c])
  BY <1>1
<1>3. PICK n \in 0 .. Len(q) :
        /\ ShedsExactly(q, c, n)
        /\ queue' = [queue EXCEPT ![k] = SubSeq(q, n + 1, Len(q))]
  BY DEF NextSkips
<1>4. outstanding' = outstanding /\ flushing' = flushing
  BY DEF NextSkips, caller
<1>5. presence[k] = c /\ c \notin {InFlight, Evicting}
  BY <1>2, ClassesApart DEF BookInv, RingsAgree, Ready
<1>6. OwnerIn(outstanding, flushing, k) = [by |-> "nobody", id |-> 0]
  BY <1>2, <1>5, FreeUnlessOwned
<1>7. CASE n = 0
  <2>1. SubSeq(q, 1, Len(q)) = q
    BY <1>2
  <2>2. queue' = queue
    BY <1>1, <1>2, <1>3, <1>7, <2>1
  <2>3. QED
    BY <1>4, <2>2, AffinityStutters
<1>8. CASE n # 0
  <2>1. n \in 1 .. Len(q)
    BY <1>2, <1>3, <1>8
  <2>2. Owners' = Owners /\ Owners[k] = [by |-> "nobody", id |-> 0]
    BY <1>2, <1>4, <1>6, OwnerInIs DEF Owners
  <2>3. \A i \in 1 .. n : q[i].deadline # Never
    BY <1>3 DEF ShedsExactly, Sheds
  <2>4. Affine!MayDrop(k, n)
    BY <2>3 DEF Affine!MayDrop
  <2>5. Affine!Drop(k)
    BY <1>3, <2>1, <2>2, <2>4 DEF Affine!Drop, Affine!Free, Owners
  <2>6. QED
    BY <1>2, <2>5
<1>9. QED
  BY <1>7, <1>8

(* complete is a finish.                                                   *)
LEMMA CompleteFinishes ==
  ASSUME BookInv, ExclusiveOwner', NEW d \in outstanding, NEW keep \in BOOLEAN,
         Complete(d, keep)
  PROVE  \E k \in Keys : Affine!Finish(k)
<1> DEFINE k == d.item.key
<1>1. k \in Keys
  BY OwnedKeys DEF BookInv
<1>2. queue' = queue /\ outstanding' = outstanding \ {d} /\ flushing' = flushing
  BY DEF Complete
<1>3. Exclusive(outstanding, flushing) /\ Exclusive(outstanding', flushing')
  BY ExclusiveIs DEF BookInv
<1>4. OwnerIn(outstanding, flushing, k) = [by |-> "work", id |-> d.item.id]
  BY <1>3, OwnedByWork
<1>5. OwnerIn(outstanding', flushing', k) = [by |-> "nobody", id |-> 0]
  <2>1. (\A e \in outstanding' : e.item.key # k) /\ (\A f \in flushing' : f.key # k)
    BY <1>2, <1>3 DEF Exclusive
  <2>2. QED
    BY <2>1, OwnedByNobody
<1>6. Owners' = [Owners EXCEPT ![k] = [by |-> "nobody", id |-> 0]]
  <2>1. /\ \A e : e.item.key # k => (e \in outstanding <=> e \in outstanding')
        /\ \A f : f.key # k => (f \in flushing <=> f \in flushing')
    BY <1>2
  <2>2. [l \in Keys |-> OwnerIn(outstanding', flushing', l)]
          = [[l \in Keys |-> OwnerIn(outstanding, flushing, l)]
               EXCEPT ![k] = [by |-> "nobody", id |-> 0]]
    BY <1>1, <1>3, <1>5, <2>1, OwnerChanges
  <2>3. QED
    BY <2>2, OwnerInIs DEF Owners
<1>7. Owners[k].by = "work"
  BY <1>1, <1>4, OwnerInIs DEF Owners
<1>8. Affine!Finish(k)
  BY <1>2, <1>6, <1>7 DEF Affine!Finish, Affine!Free, Owners
<1>9. QED
  BY <1>1, <1>8

(* A release starts a flush, or forgets a key that has nothing to flush.   *)
LEMMA ReleaseFlushes ==
  ASSUME BookInv, ExclusiveOwner', ReleaseHead, idle_head # None
  PROVE  (\E k \in Keys : Affine!StartFlush(k)) \/ UNCHANGED Affine!vars
<1> DEFINE k == idle_head
           ff == [key |-> k, state |-> resident[k]]
<1>1. k \in Keys /\ presence[k] = Idle /\ queue[k] = <<>>
  BY ClassesApart DEF TypeOK, BookInv, LinksAgree, RingsAgree
<1>2. queue' = queue /\ outstanding' = outstanding
  BY DEF ReleaseHead
<1>3. flushing' = flushing \/ flushing' = flushing \cup {ff}
  BY DEF ReleaseHead, Releases
<1>4. CASE flushing' = flushing
  BY <1>2, <1>4, AffinityStutters
<1>5. CASE flushing' = flushing \cup {ff}
  <2>1. ff.key = k
    OBVIOUS
  <2> HIDE DEF ff
  <2>2. Exclusive(outstanding, flushing) /\ Exclusive(outstanding', flushing')
    BY ExclusiveIs DEF BookInv
  <2>3. OwnerIn(outstanding, flushing, k) = [by |-> "nobody", id |-> 0]
    BY <1>1, ClassesApart, FreeUnlessOwned
  <2>4. OwnerIn(outstanding', flushing', k) = [by |-> "flush", id |-> 0]
    BY <1>5, <2>1, <2>2, OwnedByFlush
  <2>5. Owners' = [Owners EXCEPT ![k] = [by |-> "flush", id |-> 0]]
    <3>1. /\ \A d : d.item.key # k => (d \in outstanding <=> d \in outstanding')
          /\ \A f : f.key # k => (f \in flushing <=> f \in flushing')
      BY <1>2, <1>5, <2>1
    <3>2. [l \in Keys |-> OwnerIn(outstanding', flushing', l)]
            = [[l \in Keys |-> OwnerIn(outstanding, flushing, l)]
                 EXCEPT ![k] = [by |-> "flush", id |-> 0]]
      BY <1>1, <2>2, <2>4, <3>1, OwnerChanges
    <3>3. QED
      BY <3>2, OwnerInIs DEF Owners
  <2>6. Owners[k] = [by |-> "nobody", id |-> 0]
    BY <1>1, <2>3, OwnerInIs DEF Owners
  <2>7. Affine!StartFlush(k)
    BY <1>1, <1>2, <2>5, <2>6 DEF Affine!StartFlush, Affine!Free, Affine!Flush, Owners
  <2>8. QED
    BY <1>1, <2>7
<1>6. QED
  BY <1>3, <1>4, <1>5

(* finish_evict ends the flush.                                            *)
LEMMA FinishEvictEndsFlush ==
  ASSUME BookInv, ExclusiveOwner', NEW f \in flushing, FinishEvict(f)
  PROVE  \E k \in Keys : Affine!EndFlush(k)
<1> DEFINE k == f.key
<1>1. k \in Keys
  BY OwnedKeys DEF BookInv
<1>2. queue' = queue /\ outstanding' = outstanding /\ flushing' = flushing \ {f}
  BY DEF FinishEvict
<1>3. Exclusive(outstanding, flushing) /\ Exclusive(outstanding', flushing')
  BY ExclusiveIs DEF BookInv
<1>4. OwnerIn(outstanding, flushing, k) = [by |-> "flush", id |-> 0]
  BY <1>3, OwnedByFlush
<1>5. OwnerIn(outstanding', flushing', k) = [by |-> "nobody", id |-> 0]
  <2>1. (\A e \in outstanding' : e.item.key # k) /\ (\A g \in flushing' : g.key # k)
    BY <1>2, <1>3 DEF Exclusive
  <2>2. QED
    BY <2>1, OwnedByNobody
<1>6. Owners' = [Owners EXCEPT ![k] = [by |-> "nobody", id |-> 0]]
  <2>1. /\ \A e : e.item.key # k => (e \in outstanding <=> e \in outstanding')
        /\ \A g : g.key # k => (g \in flushing <=> g \in flushing')
    BY <1>2
  <2>2. [l \in Keys |-> OwnerIn(outstanding', flushing', l)]
          = [[l \in Keys |-> OwnerIn(outstanding, flushing, l)]
               EXCEPT ![k] = [by |-> "nobody", id |-> 0]]
    BY <1>1, <1>3, <1>5, <2>1, OwnerChanges
  <2>3. QED
    BY <2>2, OwnerInIs DEF Owners
<1>7. Owners[k] = [by |-> "flush", id |-> 0]
  BY <1>1, <1>4, OwnerInIs DEF Owners
<1>8. Affine!EndFlush(k)
  BY <1>2, <1>6, <1>7 DEF Affine!EndFlush, Affine!Free, Affine!Flush, Owners
<1>9. QED
  BY <1>1, <1>8

(* Every step of the book is a step of Affinity, or none.                  *)
LEMMA AffinityStep ==
  ASSUME BookInv, BookInv', [Next]_vars
  PROVE  [Affine!Next]_(Affine!vars)
<1>1. ExclusiveOwner'
  BY DEF BookInv
<1>2. CASE \E k \in Keys, c \in Classes, d \in Deadlines : Admit(k, c, d)
  BY <1>2, AdmitSubmits DEF Affine!Next
<1>3. CASE \E c \in Classes : NextTakes(c)
  BY <1>1, <1>3, NextTakesRuns DEF Affine!Next
<1>4. CASE \E c \in Classes : NextSkips(c)
  BY <1>4, NextSkipsDrops DEF Affine!Next
<1>5. CASE PopExpired \/ EvictBreaks \/ ClockAdvances \/ UNCHANGED vars
  BY <1>5, AffinityStutters DEF PopExpired, EvictBreaks, ClockAdvances, vars, caller
<1>6. CASE \E d \in outstanding, keep \in BOOLEAN : Complete(d, keep)
  BY <1>1, <1>6, CompleteFinishes DEF Affine!Next
<1>7. CASE Evict \/ EvictAll
  BY <1>1, <1>7, ReleaseFlushes DEF Evict, EvictAll, Affine!Next
<1>8. CASE \E f \in flushing : FinishEvict(f)
  BY <1>1, <1>8, FinishEvictEndsFlush DEF Affine!Next
<1>9. QED
  BY <1>2, <1>3, <1>4, <1>5, <1>6, <1>7, <1>8 DEF Next

(* The scheduler keeps the per-key promise, for any keys, classes, budgets *)
(* and deadlines: work of a key runs in submission order, one owner at a   *)
(* time holds it, a flush starts only when nothing waits and keeps later   *)
(* work waiting, and only work with a deadline is dropped unrun.           *)
THEOREM BookImplementsAffinity == Spec => ImplementsAffinity
<1>1. Init => Affine!Init
  <2> SUFFICES ASSUME Init PROVE Affine!Init
    OBVIOUS
  <2>1. \A k \in Keys : OwnerIn(outstanding, flushing, k) = [by |-> "nobody", id |-> 0]
    BY OwnedByNobody DEF Init
  <2>2. Owners = [k \in Keys |-> [by |-> "nobody", id |-> 0]]
    BY <2>1, OwnerInIs DEF Owners
  <2>3. QED
    BY <2>2 DEF Init, Affine!Init, Affine!Free, Owners
<1>2. QED
  BY <1>1, AffinityStep, BookInvariant, PTL DEF Spec, ImplementsAffinity, Affine!Spec

-----------------------------------------------------------------------------
(* The counters.  What each one counts, with the state as parameters.      *)

OfClass(o, c) == {d \in o : d.item.class = c}
IdleKeys(p) == {k \in Keys : p[k] = Idle}
QueuedAt(q) == UNION {{<<k, i>> : i \in DOMAIN q[k]} : k \in Keys}

(* The queued places, one by one.                                          *)
LEMMA QueuedPlaces ==
  ASSUME NEW q \in [Keys -> Seq(Items)]
  PROVE  QueuedAt(q) = {s \in Keys \X Nat : s[2] \in 1 .. Len(q[s[1]])}
<1>1. \A k \in Keys : DOMAIN q[k] = 1 .. Len(q[k]) /\ DOMAIN q[k] \subseteq Nat
  OBVIOUS
<1>2. ASSUME NEW s \in QueuedAt(q) PROVE s \in Keys \X Nat /\ s[2] \in 1 .. Len(q[s[1]])
  <2>1. PICK k \in Keys : s \in {<<k, i>> : i \in DOMAIN q[k]}
    BY <1>2 DEF QueuedAt
  <2>2. PICK i \in DOMAIN q[k] : s = <<k, i>>
    BY <2>1
  <2>3. QED
    BY <1>1, <2>2
<1>3. ASSUME NEW s \in Keys \X Nat, s[2] \in 1 .. Len(q[s[1]]) PROVE s \in QueuedAt(q)
  <2>1. s[1] \in Keys /\ s[2] \in DOMAIN q[s[1]] /\ s = <<s[1], s[2]>>
    BY <1>1, <1>3
  <2>2. s \in {<<s[1], i>> : i \in DOMAIN q[s[1]]}
    BY <2>1
  <2>3. QED
    BY <2>1, <2>2 DEF QueuedAt
<1>4. QED
  BY <1>2, <1>3

(* FS_Interval for an interval that may be empty.                          *)
LEMMA IntervalSize ==
  ASSUME NEW a \in Int, NEW b \in Int, NEW n \in Nat, b - a + 1 = n
  PROVE  IsFiniteSet(a .. b) /\ Cardinality(a .. b) = n
<1>1. /\ IsFiniteSet(a .. b)
      /\ Cardinality(a .. b) = IF a > b THEN 0 ELSE b - a + 1
  BY FS_Interval
<1>2. QED
  BY <1>1

(* An item that joins a queue is one place more.                           *)
LEMMA QueuedGrows ==
  ASSUME NEW q \in [Keys -> Seq(Items)], NEW k \in Keys, NEW x \in Items,
         IsFiniteSet(QueuedAt(q))
  PROVE  LET r == [q EXCEPT ![k] = Append(@, x)]
         IN IsFiniteSet(QueuedAt(r)) /\ Cardinality(QueuedAt(r)) = Cardinality(QueuedAt(q)) + 1
<1> DEFINE r == [q EXCEPT ![k] = Append(@, x)]
           e == <<k, Len(q[k]) + 1>>
<1>1. r \in [Keys -> Seq(Items)] /\ Len(r[k]) = Len(q[k]) + 1 /\ Len(q[k]) \in Nat
  OBVIOUS
<1>2. \A l \in Keys : l # k => r[l] = q[l]
  OBVIOUS
<1> HIDE DEF r
<1>3. QueuedAt(r) = {s \in Keys \X Nat : s[2] \in 1 .. Len(r[s[1]])}
  BY <1>1, QueuedPlaces
<1>4. QueuedAt(q) = {s \in Keys \X Nat : s[2] \in 1 .. Len(q[s[1]])}
  BY QueuedPlaces
<1>5. e \notin QueuedAt(q)
  BY <1>1, <1>4
<1>6. QueuedAt(r) = QueuedAt(q) \cup {e}
  <2>1. ASSUME NEW s \in Keys \X Nat
        PROVE  s[2] \in 1 .. Len(r[s[1]]) <=> (s[2] \in 1 .. Len(q[s[1]]) \/ s = e)
    <3>1. CASE s[1] = k
      BY <1>1, <3>1
    <3>2. CASE s[1] # k
      BY <1>2, <3>2
    <3>3. QED
      BY <3>1, <3>2
  <2>2. e \in Keys \X Nat
    BY <1>1
  <2>3. QED
    BY <1>3, <1>4, <2>1, <2>2
<1>7. QED
  BY <1>5, <1>6, FS_AddElement DEF r

(* The first n items leaving a queue are n places fewer.                   *)
LEMMA QueuedShrinks ==
  ASSUME NEW q \in [Keys -> Seq(Items)], NEW k \in Keys, NEW n \in Nat, n <= Len(q[k]),
         IsFiniteSet(QueuedAt(q))
  PROVE  LET r == [q EXCEPT ![k] = SubSeq(q[k], n + 1, Len(q[k]))]
         IN IsFiniteSet(QueuedAt(r)) /\ Cardinality(QueuedAt(r)) = Cardinality(QueuedAt(q)) - n
<1> DEFINE r == [q EXCEPT ![k] = SubSeq(q[k], n + 1, Len(q[k]))]
           m == Len(q[k]) - n
           ends == m + 1 .. Len(q[k])
           gone == {s \in {k} \X Nat : s[2] \in ends}
           f == [i \in ends |-> <<k, i>>]
<1>1. Len(q[k]) \in Nat /\ m \in Nat
  OBVIOUS
<1>2. SubSeq(q[k], n + 1, Len(q[k])) \in Seq(Items) /\ Len(SubSeq(q[k], n + 1, Len(q[k]))) = m
  BY <1>1, SubSeqType
<1>3. r \in [Keys -> Seq(Items)] /\ Len(r[k]) = m
  BY <1>2
<1>4. \A l \in Keys : l # k => r[l] = q[l]
  OBVIOUS
<1> HIDE DEF r, m
<1>5. QueuedAt(r) = {s \in Keys \X Nat : s[2] \in 1 .. Len(r[s[1]])}
  BY <1>3, QueuedPlaces
<1>6. QueuedAt(q) = {s \in Keys \X Nat : s[2] \in 1 .. Len(q[s[1]])}
  BY QueuedPlaces
<1>7. QueuedAt(q) = QueuedAt(r) \cup gone /\ QueuedAt(r) \cap gone = {}
  <2>1. m <= Len(q[k])
    BY <1>1 DEF m
  <2>2. ASSUME NEW s \in Keys \X Nat
        PROVE  /\ s[2] \in 1 .. Len(q[s[1]]) <=> (s[2] \in 1 .. Len(r[s[1]]) \/ s \in gone)
               /\ ~(s[2] \in 1 .. Len(r[s[1]]) /\ s \in gone)
    <3>1. CASE s[1] = k
      BY <1>1, <1>3, <2>1, <3>1
    <3>2. CASE s[1] # k
      BY <1>4, <3>2
    <3>3. QED
      BY <3>1, <3>2
  <2>3. gone \subseteq Keys \X Nat
    OBVIOUS
  <2>4. QED
    BY <1>5, <1>6, <2>2, <2>3
<1>8. IsFiniteSet(ends) /\ Cardinality(ends) = n
  <2>1. m + 1 \in Int /\ Len(q[k]) \in Int /\ Len(q[k]) - (m + 1) + 1 = n
    BY <1>1 DEF m
  <2>2. QED
    BY <2>1, IntervalSize
<1>9. f \in Bijection(ends, gone)
  <2>1. ends \subseteq Nat
    BY <1>1
  <2>2. f \in [ends -> gone]
    BY <2>1
  <2>3. \A i, j \in ends : f[i] = f[j] => i = j
    OBVIOUS
  <2>4. \A s \in gone : \E i \in ends : f[i] = s
    OBVIOUS
  <2>5. QED
    BY <2>2, <2>3, <2>4 DEF Bijection, Injection, Surjection, IsInjective
<1>10. IsFiniteSet(gone) /\ Cardinality(gone) = n
  BY <1>8, <1>9, FS_Bijection DEF ExistsBijection
<1>11. IsFiniteSet(QueuedAt(r))
  BY <1>7, FS_Subset
<1> HIDE DEF gone
<1>12. Cardinality(QueuedAt(q)) = Cardinality(QueuedAt(r)) + n
  <2>1. Cardinality(QueuedAt(r) \cup gone)
          = Cardinality(QueuedAt(r)) + Cardinality(gone) - Cardinality(QueuedAt(r) \cap gone)
    BY <1>10, <1>11, FS_Union
  <2>2. Cardinality(QueuedAt(r)) \in Nat
    BY <1>11, FS_CardinalityType
  <2>3. QED
    <3>1. Cardinality(QueuedAt(r) \cap gone) = 0
      BY <1>7, FS_EmptySet
    <3>2. QED
      BY <1>7, <1>10, <2>1, <2>2, <3>1
<1>13. Cardinality(QueuedAt(r)) \in Nat /\ Cardinality(QueuedAt(q)) \in Nat
  BY <1>11, FS_CardinalityType
<1>14. QED
  BY <1>11, <1>12, <1>13 DEF r

-----------------------------------------------------------------------------
(* The dispatches per class, the flushes and the idle keys.                *)

(* What the counts of in-flight work per class are to be.                  *)
CountsDispatches(n, o) ==
  /\ IsFiniteSet(o)
  /\ \A c \in Classes : n[c] = Cardinality(OfClass(o, c))

(* A dispatch is counted in its class.                                     *)
LEMMA DispatchCounted ==
  ASSUME NEW n \in [Classes -> Int], NEW o, CountsDispatches(n, o),
         NEW d, d \notin o, d.item.class \in Classes
  PROVE  /\ CountsDispatches([n EXCEPT ![d.item.class] = @ + 1], o \cup {d})
         /\ Cardinality(o \cup {d}) = Cardinality(o) + 1
<1> DEFINE b == d.item.class
           m == [n EXCEPT ![b] = @ + 1]
<1>1. IsFiniteSet(o \cup {d}) /\ Cardinality(o \cup {d}) = Cardinality(o) + 1
  BY FS_AddElement DEF CountsDispatches
<1>2. ASSUME NEW c \in Classes PROVE m[c] = Cardinality(OfClass(o \cup {d}, c))
  <2>1. n[c] = Cardinality(OfClass(o, c))
    BY DEF CountsDispatches
  <2>2. CASE c = b
    <3>1. OfClass(o \cup {d}, c) = OfClass(o, c) \cup {d}
      BY <2>2 DEF OfClass
    <3>2. d \notin OfClass(o, c) /\ IsFiniteSet(OfClass(o, c))
      BY FS_Subset DEF OfClass, CountsDispatches
    <3>3. Cardinality(OfClass(o, c) \cup {d}) = Cardinality(OfClass(o, c)) + 1
      BY <3>2, FS_AddElement
    <3>4. m[c] = n[c] + 1
      BY <2>2
    <3>5. QED
      BY <2>1, <3>1, <3>3, <3>4
  <2>3. CASE c # b
    <3>1. OfClass(o \cup {d}, c) = OfClass(o, c)
      BY <2>3 DEF OfClass
    <3>2. m[c] = n[c]
      BY <2>3
    <3>3. QED
      BY <2>1, <3>1, <3>2
  <2>4. QED
    BY <2>2, <2>3
<1>3. QED
  BY <1>1, <1>2 DEF CountsDispatches

(* A completion is taken off the count of its class.                       *)
LEMMA CompletionCounted ==
  ASSUME NEW n \in [Classes -> Int], NEW o, CountsDispatches(n, o),
         NEW d \in o, d.item.class \in Classes
  PROVE  /\ CountsDispatches([n EXCEPT ![d.item.class] = @ - 1], o \ {d})
         /\ Cardinality(o \ {d}) = Cardinality(o) - 1
<1> DEFINE b == d.item.class
           m == [n EXCEPT ![b] = @ - 1]
<1>1. IsFiniteSet(o \ {d}) /\ Cardinality(o \ {d}) = Cardinality(o) - 1
  BY FS_RemoveElement DEF CountsDispatches
<1>2. ASSUME NEW c \in Classes PROVE m[c] = Cardinality(OfClass(o \ {d}, c))
  <2>1. n[c] = Cardinality(OfClass(o, c))
    BY DEF CountsDispatches
  <2>2. CASE c = b
    <3>1. OfClass(o \ {d}, c) = OfClass(o, c) \ {d}
      BY <2>2 DEF OfClass
    <3>2. d \in OfClass(o, c) /\ IsFiniteSet(OfClass(o, c))
      BY <2>2, FS_Subset DEF OfClass, CountsDispatches
    <3>3. Cardinality(OfClass(o, c) \ {d}) = Cardinality(OfClass(o, c)) - 1
      BY <3>2, FS_RemoveElement
    <3>4. m[c] = n[c] - 1
      BY <2>2
    <3>5. QED
      BY <2>1, <3>1, <3>3, <3>4
  <2>3. CASE c # b
    <3>1. OfClass(o \ {d}, c) = OfClass(o, c)
      BY <2>3 DEF OfClass
    <3>2. m[c] = n[c]
      BY <2>3
    <3>3. QED
      BY <2>1, <3>1, <3>2
  <2>4. QED
    BY <2>2, <2>3
<1>3. QED
  BY <1>1, <1>2 DEF CountsDispatches

(* The idle keys are finitely many.                                        *)
LEMMA IdleKeysFinite ==
  ASSUME NEW p
  PROVE  IsFiniteSet(IdleKeys(p)) /\ Cardinality(IdleKeys(p)) \in Nat
<1>1. IsFiniteSet(Keys) /\ IdleKeys(p) \in SUBSET Keys
  BY BookConstants DEF IdleKeys
<1>2. IsFiniteSet(IdleKeys(p))
  BY <1>1, FS_Subset
<1>3. QED
  BY <1>2, FS_CardinalityType

(* A key that goes idle is counted.                                        *)
LEMMA IdleGains ==
  ASSUME NEW p \in [Keys -> Presences], NEW k \in Keys, p[k] # Idle
  PROVE  Cardinality(IdleKeys([p EXCEPT ![k] = Idle])) = Cardinality(IdleKeys(p)) + 1
<1>1. IdleKeys([p EXCEPT ![k] = Idle]) = IdleKeys(p) \cup {k}
  BY DEF IdleKeys
<1>2. k \notin IdleKeys(p) /\ IsFiniteSet(IdleKeys(p))
  BY IdleKeysFinite DEF IdleKeys
<1>3. QED
  BY <1>1, <1>2, FS_AddElement

(* A key that stops being idle is taken off the count.                     *)
LEMMA IdleLoses ==
  ASSUME NEW p \in [Keys -> Presences], NEW k \in Keys, p[k] = Idle, NEW v, v # Idle
  PROVE  Cardinality(IdleKeys([p EXCEPT ![k] = v])) = Cardinality(IdleKeys(p)) - 1
<1>1. IdleKeys([p EXCEPT ![k] = v]) = IdleKeys(p) \ {k}
  BY DEF IdleKeys
<1>2. k \in IdleKeys(p) /\ IsFiniteSet(IdleKeys(p))
  BY IdleKeysFinite DEF IdleKeys
<1>3. QED
  BY <1>1, <1>2, FS_RemoveElement

(* A key that neither was nor becomes idle changes nothing.                *)
LEMMA IdleSame ==
  ASSUME NEW p \in [Keys -> Presences], NEW k \in Keys, p[k] # Idle, NEW v, v # Idle
  PROVE  IdleKeys([p EXCEPT ![k] = v]) = IdleKeys(p)
  BY DEF IdleKeys

(* Placing a key that was not idle keeps the count of the idle list.       *)
LEMMA PlaceCounts ==
  ASSUME TypeOK, NEW k \in Keys, NEW q \in Seq(Items), NEW rings, Place(k, q, rings),
         presence[k] # Idle, idle = Cardinality(IdleKeys(presence))
  PROVE  idle' = Cardinality(IdleKeys(presence'))
<1>1. presence \in [Keys -> Presences] /\ idle \in Int
  BY DEF TypeOK
<1>2. CASE q # <<>>
  <2>1. presence' = [presence EXCEPT ![k] = Head(q).class] /\ idle' = idle
    BY <1>2 DEF Place, Ready, TargetRing, links
  <2>2. Head(q) \in Items
    BY <1>2
  <2>3. Head(q).class # Idle
    BY <2>2, ItemType, ClassesApart
  <2>4. QED
    BY <1>1, <2>1, <2>3, IdleSame
<1>3. CASE q = <<>>
  <2>1. presence' = [presence EXCEPT ![k] = Idle] /\ idle' = idle + 1
    BY <1>3 DEF Place, IdleLink
  <2>2. QED
    BY <1>1, <2>1, IdleGains
<1>4. QED
  BY <1>2, <1>3

-----------------------------------------------------------------------------
(* The inductive invariant of the counters: what CountersAgree says, that  *)
(* the sets counted are finite, and that next goes on only within budget,  *)
(* which its caller checked when it began.                                 *)

BudgetsKept ==
  /\ \A c \in Classes : inflight[c] <= MaxInflight[c]
  /\ call.op = "next" => call.arg \in Classes /\ inflight[call.arg] < MaxInflight[call.arg]

FlushesCounted == IsFiniteSet(flushing) /\ evicting = Cardinality(flushing)

IdleCounted == idle = Cardinality(IdleKeys(presence))

PendingCounted ==
  /\ IsFiniteSet(QueuedAt(queue))
  /\ pending = Cardinality(QueuedAt(queue)) + Cardinality(outstanding)
  /\ pending <= MaxPending

Accounts ==
  /\ CountsDispatches(inflight, outstanding)
  /\ BudgetsKept
  /\ FlushesCounted
  /\ IdleCounted
  /\ PendingCounted

(* The invariant implies what the run checks.                              *)
LEMMA AccountsImplyAgree == Accounts => CountersAgree
  BY DEF Accounts, CountsDispatches, BudgetsKept, FlushesCounted, IdleCounted,
     PendingCounted, CountersAgree, OfClass, IdleKeys, QueuedAt

(* The cardinalities involved are numbers.                                 *)
LEMMA AccountsAreNumbers ==
  ASSUME TypeOK, Accounts
  PROVE  /\ Cardinality(QueuedAt(queue)) \in Nat /\ Cardinality(outstanding) \in Nat
         /\ Cardinality(flushing) \in Nat
         /\ pending \in Int /\ idle \in Int /\ evicting \in Int
         /\ inflight \in [Classes -> Int] /\ MaxPending \in Nat
         /\ MaxInflight \in [Classes -> Nat]
  BY FS_CardinalityType, BookConstants
     DEF Accounts, CountsDispatches, FlushesCounted, PendingCounted, TypeOK

(* admit: one place more, within max_pending.                              *)
LEMMA AdmitAccounts ==
  ASSUME BookInv, Accounts, NEW k \in Keys, NEW c \in Classes, NEW d \in Deadlines,
         Admit(k, c, d)
  PROVE  Accounts'
<1> DEFINE item == [id |-> admitted + 1, key |-> k, class |-> c, deadline |-> d]
<1>1. /\ TypeOK /\ queue \in [Keys -> Seq(Items)] /\ presence \in [Keys -> Presences]
      /\ admitted \in Nat
  BY DEF BookInv, TypeOK
<1>2. item \in Items
  <2>1. d \in Int /\ admitted + 1 \in Nat \ {0}
    BY <1>1, BookConstants
  <2>2. QED
    BY <2>1 DEF Items
<1>3. /\ queue' = [queue EXCEPT ![k] = Append(@, item)]
      /\ pending' = pending + 1 /\ pending < MaxPending
      /\ inflight' = inflight /\ outstanding' = outstanding /\ call' = call
      /\ evicting' = evicting /\ flushing' = flushing
  BY <1>1, AccountsAreNumbers DEF Admit, Enqueued, caller, IsSaturated
<1> HIDE DEF item
<1>4. PendingCounted'
  <2>1. /\ IsFiniteSet(QueuedAt(queue'))
        /\ Cardinality(QueuedAt(queue')) = Cardinality(QueuedAt(queue)) + 1
    BY <1>1, <1>2, <1>3, QueuedGrows DEF Accounts, PendingCounted
  <2>2. pending' = Cardinality(QueuedAt(queue')) + Cardinality(outstanding')
    BY <1>1, <1>3, <2>1, AccountsAreNumbers DEF Accounts, PendingCounted
  <2>3. pending' <= MaxPending
    BY <1>1, <1>3, AccountsAreNumbers
  <2>4. QED
    BY <2>1, <2>2, <2>3 DEF PendingCounted
<1>5. IdleCounted'
  <2>1. CASE ~Joins(k)
    BY <2>1 DEF Admit, links, Accounts, IdleCounted
  <2>2. CASE Joins(k) /\ presence[k] = Idle
    <3>1. presence' = [presence EXCEPT ![k] = c] /\ idle' = idle - 1
      BY <2>2 DEF Admit, Ready, Unlink
    <3>2. Cardinality(IdleKeys(presence')) = Cardinality(IdleKeys(presence)) - 1
      BY <1>1, <2>2, <3>1, IdleLoses, ClassesApart
    <3>3. QED
      BY <3>1, <3>2 DEF Accounts, IdleCounted
  <2>3. CASE Joins(k) /\ presence[k] # Idle
    <3>1. presence' = [presence EXCEPT ![k] = c] /\ idle' = idle
      BY <2>3 DEF Admit, Ready, links
    <3>2. IdleKeys(presence') = IdleKeys(presence)
      BY <1>1, <2>3, <3>1, IdleSame, ClassesApart
    <3>3. QED
      BY <3>1, <3>2 DEF Accounts, IdleCounted
  <2>4. QED
    BY <2>1, <2>2, <2>3
<1>6. CountsDispatches(inflight', outstanding') /\ BudgetsKept' /\ FlushesCounted'
  BY <1>3 DEF Accounts, BudgetsKept, FlushesCounted
<1>7. QED
  BY <1>4, <1>5, <1>6 DEF Accounts

(* next is entered, and goes on, only within budget.                       *)
LEMMA NextIsWithinBudget ==
  ASSUME Accounts, NEW c \in Classes, InNext(c)
  PROVE  inflight[c] < MaxInflight[c]
  BY DEF InNext, WithinBudget, Accounts, BudgetsKept

(* A dispatch: n + 1 places fewer, one dispatch more, n items off pending. *)
LEMMA NextTakesAccounts ==
  ASSUME BookInv, Accounts, NEW c \in Classes, NextTakes(c)
  PROVE  Accounts'
<1> DEFINE k == Head(ready[c])
           q == queue[k]
<1>1. /\ TypeOK /\ presence \in [Keys -> Presences] /\ queue \in [Keys -> Seq(Items)]
      /\ ready \in [Classes -> Seq(Keys)] /\ ready[c] # <<>>
  BY DEF BookInv, TypeOK, NextTakes
<1>2. k \in Keys /\ q \in Seq(Items) /\ ready[c][1] = k /\ 1 \in 1 .. Len(ready[c])
  BY <1>1
<1>3. PICK n \in 0 .. Len(q) - 1 :
        /\ q[n + 1].class = c
        /\ queue' = [queue EXCEPT ![k] = SubSeq(q, n + 2, Len(q))]
        /\ pending' = pending - n
        /\ outstanding' = outstanding \cup {[item |-> q[n + 1], state |-> resident[k]]}
        /\ presence' = [presence EXCEPT ![k] = InFlight]
  BY DEF NextTakes
<1>4. /\ inflight' = [inflight EXCEPT ![c] = @ + 1] /\ call' = NoCall
      /\ idle' = idle /\ evicting' = evicting /\ flushing' = flushing
  BY DEF NextTakes, links
<1>5. presence[k] = c
  BY <1>2 DEF BookInv, RingsAgree, Ready
<1> DEFINE dd == [item |-> q[n + 1], state |-> resident[k]]
<1>6. dd.item.key = k /\ dd.item.class = c
  <2>1. n + 1 \in 1 .. Len(q)
    BY <1>2, <1>3
  <2>2. q[n + 1].key = k
    BY <1>2, <2>1 DEF KeyedQueues, BookInv
  <2>3. QED
    BY <1>3, <2>2
<1>7. outstanding' = outstanding \cup {dd}
  BY <1>3
<1> HIDE DEF dd
<1>8. dd \notin outstanding
  BY <1>5, <1>6, ClassesApart DEF BookInv, OwnersAgree
<1>9. /\ CountsDispatches(inflight', outstanding')
      /\ Cardinality(outstanding') = Cardinality(outstanding) + 1
  BY <1>1, <1>4, <1>6, <1>7, <1>8, DispatchCounted, AccountsAreNumbers DEF Accounts
<1>10. PendingCounted'
  <2>1. n + 1 \in Nat /\ n + 1 <= Len(q) /\ n + 1 + 1 = n + 2
    BY <1>2, <1>3
  <2>2. queue' = [queue EXCEPT ![k] = SubSeq(queue[k], n + 1 + 1, Len(queue[k]))]
    BY <1>3, <2>1
  <2>3. /\ IsFiniteSet(QueuedAt(queue'))
        /\ Cardinality(QueuedAt(queue')) = Cardinality(QueuedAt(queue)) - (n + 1)
    BY <1>1, <1>2, <2>1, <2>2, QueuedShrinks DEF Accounts, PendingCounted
  <2>4. pending' = Cardinality(QueuedAt(queue')) + Cardinality(outstanding')
    BY <1>1, <1>3, <1>9, <2>1, <2>3, AccountsAreNumbers DEF Accounts, PendingCounted
  <2>5. pending' <= MaxPending
    BY <1>1, <1>3, <2>1, AccountsAreNumbers DEF Accounts, PendingCounted
  <2>6. QED
    BY <2>3, <2>4, <2>5 DEF PendingCounted
<1>11. IdleCounted'
  <2>1. IdleKeys(presence') = IdleKeys(presence)
    <3>1. presence[k] # Idle /\ InFlight # Idle
      BY <1>5, ClassesApart
    <3>2. QED
      BY <1>1, <1>2, <1>3, <3>1, IdleSame
  <2>2. QED
    BY <1>4, <2>1 DEF Accounts, IdleCounted
<1>12. BudgetsKept'
  <2>1. inflight[c] < MaxInflight[c]
    BY NextIsWithinBudget DEF NextTakes
  <2>2. \A b \in Classes : inflight'[b] <= MaxInflight[b]
    <3>1. /\ inflight \in [Classes -> Int] /\ MaxInflight \in [Classes -> Nat]
          /\ \A b \in Classes : inflight[b] <= MaxInflight[b]
      BY <1>1, AccountsAreNumbers DEF Accounts, BudgetsKept
    <3>2. QED
      BY <1>4, <2>1, <3>1
  <2>3. call'.op # "next"
    BY <1>4 DEF NoCall
  <2>4. QED
    BY <2>2, <2>3 DEF BudgetsKept
<1>13. FlushesCounted'
  BY <1>4 DEF Accounts, FlushesCounted
<1>14. QED
  BY <1>9, <1>10, <1>11, <1>12, <1>13 DEF Accounts

(* Shedding: n places fewer, n items off pending.                          *)
LEMMA NextSkipsAccounts ==
  ASSUME BookInv, Accounts, NEW c \in Classes, NextSkips(c)
  PROVE  Accounts'
<1> DEFINE k == Head(ready[c])
           q == queue[k]
           rings == [ready EXCEPT ![c] = Tail(@)]
<1>1. /\ TypeOK /\ presence \in [Keys -> Presences] /\ queue \in [Keys -> Seq(Items)]
      /\ ready \in [Classes -> Seq(Keys)] /\ ready[c] # <<>>
  BY DEF BookInv, TypeOK, NextSkips
<1>2. k \in Keys /\ q \in Seq(Items) /\ ready[c][1] = k /\ 1 \in 1 .. Len(ready[c])
  BY <1>1
<1>3. PICK n \in 0 .. Len(q) :
        /\ queue' = [queue EXCEPT ![k] = SubSeq(q, n + 1, Len(q))]
        /\ pending' = pending - n
        /\ Place(k, SubSeq(q, n + 1, Len(q)), rings)
  BY DEF NextSkips
<1>4. /\ inflight' = inflight /\ evicting' = evicting
      /\ outstanding' = outstanding /\ flushing' = flushing
      /\ call' = NoCall \/ call' = [op |-> "next", arg |-> c]
  BY DEF NextSkips, caller
<1>5. presence[k] = c
  BY <1>2 DEF BookInv, RingsAgree, Ready
<1>6. n \in Nat /\ n + 1 \in Nat \ {0} /\ Len(q) \in Nat /\ n <= Len(q)
  BY <1>2, <1>3
<1>7. SubSeq(q, n + 1, Len(q)) \in Seq(Items)
  BY <1>2, <1>6, SubSeqType
<1>8. IdleCounted'
  BY <1>1, <1>2, <1>3, <1>5, <1>7, PlaceCounts, ClassesApart DEF Accounts, IdleCounted
<1>9. PendingCounted'
  <2>1. queue' = [queue EXCEPT ![k] = SubSeq(queue[k], n + 1, Len(queue[k]))]
    BY <1>3
  <2>2. /\ IsFiniteSet(QueuedAt(queue'))
        /\ Cardinality(QueuedAt(queue')) = Cardinality(QueuedAt(queue)) - n
    BY <1>1, <1>2, <1>6, <2>1, QueuedShrinks DEF Accounts, PendingCounted
  <2>3. pending' = Cardinality(QueuedAt(queue')) + Cardinality(outstanding')
    BY <1>1, <1>3, <1>4, <1>6, <2>2, AccountsAreNumbers DEF Accounts, PendingCounted
  <2>4. pending' <= MaxPending
    BY <1>1, <1>3, <1>6, AccountsAreNumbers DEF Accounts, PendingCounted
  <2>5. QED
    BY <2>2, <2>3, <2>4 DEF PendingCounted
<1>10. BudgetsKept'
  <2>1. inflight[c] < MaxInflight[c]
    BY NextIsWithinBudget DEF NextSkips
  <2>2. \A b \in Classes : inflight'[b] <= MaxInflight[b]
    BY <1>4 DEF Accounts, BudgetsKept
  <2>3. call'.op = "next" => call'.arg = c
    BY <1>4 DEF NoCall
  <2>4. QED
    BY <1>4, <2>1, <2>2, <2>3 DEF BudgetsKept
<1>11. FlushesCounted' /\ CountsDispatches(inflight', outstanding')
  BY <1>4 DEF Accounts, FlushesCounted
<1>12. QED
  BY <1>8, <1>9, <1>10, <1>11 DEF Accounts

(* complete: one dispatch fewer.                                           *)
LEMMA CompleteAccounts ==
  ASSUME BookInv, Accounts, NEW d \in outstanding, NEW keep \in BOOLEAN,
         Complete(d, keep)
  PROVE  Accounts'
<1> DEFINE k == d.item.key
           b == d.item.class
<1>1. /\ TypeOK /\ queue \in [Keys -> Seq(Items)] /\ k \in Keys /\ queue[k] \in Seq(Items)
  BY OwnedKeys DEF BookInv, TypeOK
<1>2. b \in Classes
  <2>1. d.item \in Items
    BY DEF BookInv, TypeOK
  <2>2. QED
    BY <2>1, ItemType
<1>3. /\ outstanding' = outstanding \ {d} /\ inflight' = [inflight EXCEPT ![b] = @ - 1]
      /\ pending' = pending - 1 /\ Place(k, queue[k], ready)
      /\ queue' = queue /\ evicting' = evicting /\ call' = call /\ flushing' = flushing
      /\ call = NoCall
  BY DEF Complete
<1>4. presence[k] = InFlight
  BY DEF BookInv, OwnersAgree
<1> HIDE DEF k, b
<1>5. IdleCounted'
  BY <1>1, <1>3, <1>4, PlaceCounts, ClassesApart DEF Accounts, IdleCounted
<1>6. /\ CountsDispatches(inflight', outstanding')
      /\ Cardinality(outstanding') = Cardinality(outstanding) - 1
  BY <1>1, <1>2, <1>3, CompletionCounted, AccountsAreNumbers DEF Accounts, b
<1>7. PendingCounted'
  <2>1. /\ IsFiniteSet(QueuedAt(queue')) /\ pending <= MaxPending
        /\ pending = Cardinality(QueuedAt(queue')) + Cardinality(outstanding)
    BY <1>3 DEF Accounts, PendingCounted
  <2>2. /\ pending \in Int /\ MaxPending \in Nat
        /\ Cardinality(QueuedAt(queue')) \in Nat /\ Cardinality(outstanding) \in Nat
    BY <1>1, <1>3, AccountsAreNumbers
  <2>3. /\ pending' <= MaxPending
        /\ pending' = Cardinality(QueuedAt(queue')) + Cardinality(outstanding')
    BY <1>3, <1>6, <2>1, <2>2
  <2>4. QED
    BY <2>1, <2>3 DEF PendingCounted
<1>8. BudgetsKept'
  <2>1. \A c \in Classes : inflight'[c] <= MaxInflight[c]
    <3>1. /\ inflight \in [Classes -> Int] /\ MaxInflight \in [Classes -> Nat]
          /\ \A c \in Classes : inflight[c] <= MaxInflight[c]
      BY <1>1, AccountsAreNumbers DEF Accounts, BudgetsKept
    <3>2. QED
      BY <1>2, <1>3, <3>1
  <2>2. call'.op # "next"
    BY <1>3 DEF NoCall
  <2>3. QED
    BY <2>1, <2>2 DEF BudgetsKept
<1>9. FlushesCounted'
  BY <1>3 DEF Accounts, FlushesCounted
<1>10. QED
  BY <1>5, <1>6, <1>7, <1>8, <1>9 DEF Accounts

(* release: one idle key fewer, and one flush more or none.                *)
LEMMA ReleaseAccounts ==
  ASSUME BookInv, Accounts, ReleaseHead, idle_head # None, call'.op # "next"
  PROVE  Accounts'
<1> DEFINE k == idle_head
           ff == [key |-> k, state |-> resident[k]]
<1>1. TypeOK /\ presence \in [Keys -> Presences] /\ k \in Keys /\ presence[k] = Idle
  BY DEF TypeOK, BookInv, LinksAgree
<1>2. /\ queue' = queue /\ outstanding' = outstanding /\ pending' = pending
      /\ inflight' = inflight /\ idle' = idle - 1
  BY DEF ReleaseHead, Unlink
<1>3. \/ presence' = [presence EXCEPT ![k] = Absent] /\ flushing' = flushing
         /\ evicting' = evicting
      \/ /\ presence' = [presence EXCEPT ![k] = Evicting] /\ evicting' = evicting + 1
         /\ flushing' = flushing \cup {ff}
  BY DEF ReleaseHead, Releases
<1>4. ff.key = k
  OBVIOUS
<1> HIDE DEF ff, k
<1>5. IdleCounted'
  <2>1. Cardinality(IdleKeys(presence')) = Cardinality(IdleKeys(presence)) - 1
    BY <1>1, <1>3, IdleLoses, ClassesApart
  <2>2. QED
    BY <1>2, <2>1 DEF Accounts, IdleCounted
<1>6. FlushesCounted'
  <2>1. CASE flushing' = flushing /\ evicting' = evicting
    BY <2>1 DEF Accounts, FlushesCounted
  <2>2. CASE flushing' = flushing \cup {ff} /\ evicting' = evicting + 1
    <3>1. ff \notin flushing
      BY <1>1, <1>4, ClassesApart DEF BookInv, OwnersAgree
    <3>2. IsFiniteSet(flushing')  /\ Cardinality(flushing') = Cardinality(flushing) + 1
      BY <2>2, <3>1, FS_AddElement DEF Accounts, FlushesCounted
    <3>3. QED
      BY <2>2, <3>2 DEF Accounts, FlushesCounted
  <2>3. QED
    BY <1>3, <2>1, <2>2
<1>7. CountsDispatches(inflight', outstanding') /\ BudgetsKept' /\ PendingCounted'
  BY <1>2 DEF Accounts, BudgetsKept, PendingCounted
<1>8. QED
  BY <1>5, <1>6, <1>7 DEF Accounts

(* finish_evict: one flush fewer.                                          *)
LEMMA FinishEvictAccounts ==
  ASSUME BookInv, Accounts, NEW f \in flushing, FinishEvict(f)
  PROVE  Accounts'
<1> DEFINE k == f.key
<1>1. /\ TypeOK /\ queue \in [Keys -> Seq(Items)] /\ presence \in [Keys -> Presences]
      /\ k \in Keys /\ queue[k] \in Seq(Items)
  BY OwnedKeys DEF TypeOK, BookInv
<1>2. /\ outstanding' = outstanding /\ flushing' = flushing \ {f} /\ queue' = queue
      /\ evicting' = evicting - 1 /\ inflight' = inflight /\ pending' = pending
      /\ call' = call
  BY DEF FinishEvict
<1>3. presence[k] = Evicting
  BY DEF BookInv, OwnersAgree
<1>4. IdleCounted'
  <2>1. CASE queue[k] # <<>>
    <3>1. Place(k, queue[k], ready)
      BY <2>1 DEF FinishEvict
    <3>2. QED
      BY <1>1, <1>3, <3>1, PlaceCounts, ClassesApart DEF Accounts, IdleCounted
  <2>2. CASE queue[k] = <<>>
    <3>1. presence' = [presence EXCEPT ![k] = Absent] /\ idle' = idle
      BY <2>2 DEF FinishEvict, links
    <3>2. IdleKeys(presence') = IdleKeys(presence)
      BY <1>1, <1>3, <3>1, IdleSame, ClassesApart
    <3>3. QED
      BY <3>1, <3>2 DEF Accounts, IdleCounted
  <2>3. QED
    BY <2>1, <2>2
<1>5. FlushesCounted'
  <2>1. IsFiniteSet(flushing \ {f}) /\ Cardinality(flushing \ {f}) = Cardinality(flushing) - 1
    BY FS_RemoveElement DEF Accounts, FlushesCounted
  <2>2. QED
    BY <1>2, <2>1 DEF Accounts, FlushesCounted
<1>6. CountsDispatches(inflight', outstanding') /\ BudgetsKept' /\ PendingCounted'
  BY <1>2 DEF Accounts, BudgetsKept, PendingCounted
<1>7. QED
  BY <1>4, <1>5, <1>6 DEF Accounts

(* Every step keeps the accounts.                                          *)
LEMMA AccountsStep ==
  ASSUME BookInv, Accounts, [Next]_vars
  PROVE  Accounts'
<1>1. ASSUME UNCHANGED <<presence, queue, outstanding, flushing, idle, inflight,
                         pending, evicting>>,
             call' = call \/ call'.op # "next"
      PROVE  Accounts'
  BY <1>1 DEF Accounts, BudgetsKept, FlushesCounted, IdleCounted, PendingCounted
<1>2. CASE \E k \in Keys, c \in Classes, d \in Deadlines : Admit(k, c, d)
  BY <1>2, AdmitAccounts
<1>3. CASE \E c \in Classes : NextTakes(c) \/ NextSkips(c)
  BY <1>3, NextTakesAccounts, NextSkipsAccounts
<1>4. CASE PopExpired \/ EvictBreaks \/ ClockAdvances \/ UNCHANGED vars
  BY <1>1, <1>4 DEF PopExpired, EvictBreaks, ClockAdvances, vars, caller, links, NoCall
<1>5. CASE \E d \in outstanding, keep \in BOOLEAN : Complete(d, keep)
  BY <1>5, CompleteAccounts
<1>6. CASE Evict \/ EvictAll
  <2>1. ReleaseHead /\ idle_head # None /\ call'.op # "next"
    BY <1>6 DEF Evict, EvictAll, NoCall
  <2>2. QED
    BY <2>1, ReleaseAccounts
<1>7. CASE \E f \in flushing : FinishEvict(f)
  BY <1>7, FinishEvictAccounts
<1>8. QED
  BY <1>2, <1>3, <1>4, <1>5, <1>6, <1>7 DEF Next

(* The accounts are right from the start.                                  *)
LEMMA AccountsInit == Init => Accounts
<1> SUFFICES ASSUME Init PROVE Accounts
  OBVIOUS
<1>1. QueuedAt(queue) = {}
  BY DEF Init, QueuedAt
<1>2. IdleKeys(presence) = {}
  BY ClassesApart DEF Init, IdleKeys
<1>3. \A c \in Classes : OfClass(outstanding, c) = {}
  BY DEF Init, OfClass
<1>4. CountsDispatches(inflight, outstanding)
  BY <1>3, FS_EmptySet DEF Init, CountsDispatches
<1>5. FlushesCounted /\ IdleCounted
  BY <1>2, FS_EmptySet DEF Init, FlushesCounted, IdleCounted
<1>6. PendingCounted
  <2>1. IsFiniteSet(QueuedAt(queue)) /\ Cardinality(QueuedAt(queue)) = 0
    BY <1>1, FS_EmptySet
  <2>2. Cardinality(outstanding) = 0 /\ pending = 0 /\ 0 <= MaxPending
    BY FS_EmptySet, BookConstants DEF Init
  <2>3. QED
    BY <2>1, <2>2 DEF PendingCounted
<1>7. BudgetsKept
  BY BookConstants DEF Init, BudgetsKept, NoCall
<1>8. QED
  BY <1>4, <1>5, <1>6, <1>7 DEF Accounts

(* The accounts hold in every state.                                       *)
LEMMA AccountsInvariant == Spec => []Accounts
  BY AccountsInit, AccountsStep, BookInvariant, PTL DEF Spec

(* The counters check_invariants reconciles are right in every state, for  *)
(* any keys, budgets and number of items: in-flight work per class, never  *)
(* beyond its budget, quiesced keys, the idle list's length, and pending   *)
(* work, never beyond max_pending.                                         *)
THEOREM CountersAlwaysAgree == Spec => []CountersAgree
  BY AccountsInvariant, AccountsImplyAgree, PTL

-----------------------------------------------------------------------------
(* Conservation.  Every admitted id is in exactly one of four places: a    *)
(* queue, the caller's dispatches, the shed items, the finished ones.  The *)
(* ids in each, with the state as parameters.                              *)

QueueIds(q) == {m \in Nat : \E k \in Keys : \E i \in 1 .. Len(q[k]) : q[k][i].id = m}
HeldIds(o)  == {m \in Nat : \E d \in o : d.item.id = m}
ListIds(x)  == {m \in Nat : \E i \in 1 .. Len(x) : x[i].id = m}

(* No id twice in the same place.                                          *)
OnceQueued(q) ==
  \A k, l \in Keys : \A i \in 1 .. Len(q[k]), j \in 1 .. Len(q[l]) :
    q[k][i].id = q[l][j].id => k = l /\ i = j
OnceHeld(o) == \A d, e \in o : d.item.id = e.item.id => d = e
OnceListed(x) == \A i, j \in 1 .. Len(x) : x[i].id = x[j].id => i = j

(* The four places share the ids out among them.                           *)
Parted(qs, os, xs, dn, ids) ==
  /\ qs \cup os \cup xs \cup dn = ids
  /\ qs \cap os = {} /\ qs \cap xs = {} /\ qs \cap dn = {}
  /\ os \cap xs = {} /\ os \cap dn = {} /\ xs \cap dn = {}

(* The i-th of n items waiting leaves room for those behind it: ids grow   *)
(* along a queue, so that none is longer than the number of items.         *)
InOrder(q, a) ==
  \A k \in Keys : \A i \in 1 .. Len(q[k]) : q[k][i].id + (Len(q[k]) - i) <= a

(* The inductive invariant.                                                *)
Shared ==
  /\ OnceQueued(queue) /\ OnceHeld(outstanding) /\ OnceListed(expired)
  /\ InOrder(queue, admitted)
  /\ admitted <= MaxItems
  /\ Parted(QueueIds(queue), HeldIds(outstanding), ListIds(expired), done, 1 .. admitted)

(* One element of a sequence of items.                                     *)
LEMMA ElementId ==
  ASSUME NEW x \in Seq(Items), NEW i \in 1 .. Len(x)
  PROVE  x[i].id \in Nat \ {0} /\ x[i].id \in ListIds(x)
<1>1. x[i] \in Items
  OBVIOUS
<1>2. x[i].id \in Nat \ {0}
  BY <1>1, ItemType
<1>3. QED
  BY <1>2 DEF ListIds

(* One item of a queue.                                                    *)
LEMMA QueuedId ==
  ASSUME NEW q \in [Keys -> Seq(Items)], NEW k \in Keys, NEW i \in 1 .. Len(q[k])
  PROVE  q[k][i].id \in Nat \ {0} /\ q[k][i].id \in QueueIds(q)
<1>1. q[k] \in Seq(Items)
  OBVIOUS
<1>2. q[k][i].id \in Nat \ {0}
  BY <1>1, ElementId
<1>3. QED
  BY <1>2 DEF QueueIds

(* A new id joins a queue.                                                 *)
LEMMA JoinQueue ==
  ASSUME NEW q \in [Keys -> Seq(Items)], NEW k \in Keys, NEW x \in Items, NEW a \in Nat,
         OnceQueued(q), InOrder(q, a), x.id = a + 1, x.id \notin QueueIds(q)
  PROVE  LET r == [q EXCEPT ![k] = Append(@, x)]
         IN /\ OnceQueued(r) /\ InOrder(r, a + 1)
            /\ QueueIds(r) = QueueIds(q) \cup {x.id}
<1> DEFINE r == [q EXCEPT ![k] = Append(@, x)]
           n == Len(q[k])
<1>1. /\ q[k] \in Seq(Items) /\ n \in Nat /\ Len(r[k]) = n + 1 /\ r[k][n + 1] = x
      /\ \A i \in 1 .. n : r[k][i] = q[k][i]
  OBVIOUS
<1>2. \A l \in Keys : l # k => r[l] = q[l]
  OBVIOUS
<1>3. \A l \in Keys : q[l] \in Seq(Items) /\ Len(q[l]) \in Nat
  OBVIOUS
<1> HIDE DEF r, n
<1>4. ASSUME NEW l \in Keys, NEW i \in 1 .. Len(r[l])
      PROVE  \/ i \in 1 .. Len(q[l]) /\ r[l][i] = q[l][i]
             \/ l = k /\ i = n + 1 /\ r[l][i] = x
  <2>1. CASE l = k
    BY <1>1, <2>1 DEF n
  <2>2. CASE l # k
    BY <1>2, <2>2
  <2>3. QED
    BY <2>1, <2>2
<1>5. \A l \in Keys : \A i \in 1 .. Len(q[l]) :
        i \in 1 .. Len(r[l]) /\ r[l][i] = q[l][i] /\ q[l][i].id # x.id
  <2> SUFFICES ASSUME NEW l \in Keys, NEW i \in 1 .. Len(q[l])
               PROVE  i \in 1 .. Len(r[l]) /\ r[l][i] = q[l][i] /\ q[l][i].id # x.id
    OBVIOUS
  <2>1. q[l][i].id # x.id
    BY QueuedId
  <2>2. CASE l = k
    BY <1>1, <2>1, <2>2 DEF n
  <2>3. CASE l # k
    BY <1>2, <2>1, <2>3
  <2>4. QED
    BY <2>2, <2>3
<1>6. OnceQueued(r)
  <2> SUFFICES ASSUME NEW l1 \in Keys, NEW l2 \in Keys, NEW i \in 1 .. Len(r[l1]),
                      NEW j \in 1 .. Len(r[l2]), r[l1][i].id = r[l2][j].id
               PROVE  l1 = l2 /\ i = j
    BY DEF OnceQueued
  <2>1. CASE i \in 1 .. Len(q[l1]) /\ r[l1][i] = q[l1][i]
    <3>1. j \in 1 .. Len(q[l2]) /\ r[l2][j] = q[l2][j]
      BY <1>4, <1>5, <2>1
    <3>2. QED
      BY <2>1, <3>1 DEF OnceQueued
  <2>2. CASE l1 = k /\ i = n + 1 /\ r[l1][i] = x
    <3>1. CASE j \in 1 .. Len(q[l2]) /\ r[l2][j] = q[l2][j]
      <4>1. q[l2][j].id # x.id
        BY <1>5, <3>1
      <4>2. QED
        BY <2>2, <3>1, <4>1
    <3>2. CASE l2 = k /\ j = n + 1 /\ r[l2][j] = x
      BY <2>2, <3>2
    <3>3. QED
      BY <1>4, <3>1, <3>2
  <2>3. QED
    BY <1>4, <2>1, <2>2
<1>7. InOrder(r, a + 1)
  <2> SUFFICES ASSUME NEW l \in Keys, NEW i \in 1 .. Len(r[l])
               PROVE  r[l][i].id + (Len(r[l]) - i) <= a + 1
    BY DEF InOrder
  <2>1. CASE i \in 1 .. Len(q[l]) /\ r[l][i] = q[l][i]
    <3> DEFINE b == q[l][i].id
    <3>1. b \in Nat /\ b + (Len(q[l]) - i) <= a
      BY <2>1, QueuedId DEF InOrder
    <3>2. Len(r[l]) = Len(q[l]) \/ Len(r[l]) = Len(q[l]) + 1
      BY <1>1, <1>2 DEF n
    <3>3. Len(q[l]) \in Nat /\ i \in Nat /\ r[l][i].id = b
      BY <1>3, <2>1
    <3> HIDE DEF b
    <3>4. b + (Len(r[l]) - i) <= a + 1
      BY <3>1, <3>2, <3>3
    <3>5. QED
      BY <3>3, <3>4
  <2>2. CASE l = k /\ i = n + 1 /\ r[l][i] = x
    BY <1>1, <2>2
  <2>3. QED
    BY <1>4, <2>1, <2>2
<1>8. QueueIds(r) = QueueIds(q) \cup {x.id}
  <2>1. ASSUME NEW m \in QueueIds(r) PROVE m \in QueueIds(q) \cup {x.id}
    <3>1a. PICK l \in Keys : \E i \in 1 .. Len(r[l]) : r[l][i].id = m
      BY <2>1 DEF QueueIds
    <3>1. PICK i \in 1 .. Len(r[l]) : r[l][i].id = m
      BY <3>1a
    <3>2. m \in Nat
      BY <2>1 DEF QueueIds
    <3>3. QED
      BY <1>4, <3>1, <3>2 DEF QueueIds
  <2>2. ASSUME NEW m \in QueueIds(q) PROVE m \in QueueIds(r)
    <3>1a. PICK l \in Keys : \E i \in 1 .. Len(q[l]) : q[l][i].id = m
      BY <2>2 DEF QueueIds
    <3>1. PICK i \in 1 .. Len(q[l]) : q[l][i].id = m
      BY <3>1a
    <3>2. m \in Nat
      BY <2>2 DEF QueueIds
    <3>3. QED
      BY <1>5, <3>1, <3>2 DEF QueueIds
  <2>3. x.id \in QueueIds(r)
    <3>1. n + 1 \in 1 .. Len(r[k]) /\ r[k][n + 1].id = x.id /\ x.id \in Nat
      BY <1>1
    <3>2. QED
      BY <3>1 DEF QueueIds
  <2>4. QED
    BY <2>1, <2>2, <2>3
<1>9. QED
  BY <1>6, <1>7, <1>8 DEF r

(* The first n items leave a queue, each once and none left behind.        *)
LEMMA CutQueue ==
  ASSUME NEW q \in [Keys -> Seq(Items)], NEW k \in Keys, NEW n \in Nat, n <= Len(q[k]),
         NEW a \in Nat, OnceQueued(q), InOrder(q, a)
  PROVE  LET r == [q EXCEPT ![k] = SubSeq(q[k], n + 1, Len(q[k]))]
             y == SubSeq(q[k], 1, n)
         IN /\ OnceQueued(r) /\ InOrder(r, a) /\ OnceListed(y)
            /\ QueueIds(q) = QueueIds(r) \cup ListIds(y)
            /\ QueueIds(r) \cap ListIds(y) = {}
<1> DEFINE r == [q EXCEPT ![k] = SubSeq(q[k], n + 1, Len(q[k]))]
           y == SubSeq(q[k], 1, n)
           Old(l, i) == IF l = k THEN i + n ELSE i
<1>1. q[k] \in Seq(Items) /\ Len(q[k]) \in Nat
  OBVIOUS
<1>2. Len(y) = n /\ \A i \in 1 .. n : y[i] = q[k][i] /\ i \in 1 .. Len(q[k])
  BY <1>1
<1>3. /\ Len(r[k]) = Len(q[k]) - n
      /\ \A i \in 1 .. Len(q[k]) - n : r[k][i] = q[k][i + n]
  BY <1>1
<1>4. \A l \in Keys : l # k => r[l] = q[l]
  OBVIOUS
<1> HIDE DEF r, y
<1>5. ASSUME NEW l \in Keys, NEW i \in 1 .. Len(r[l])
      PROVE  /\ Old(l, i) \in 1 .. Len(q[l]) /\ r[l][i] = q[l][Old(l, i)]
             /\ Len(q[l]) - Old(l, i) = Len(r[l]) - i
             /\ l = k => Old(l, i) > n
  <2>1. CASE l = k
    <3>1. i \in 1 .. Len(q[k]) - n
      BY <1>3, <2>1
    <3>2. i + n \in 1 .. Len(q[k]) /\ i + n > n /\ Len(q[k]) - (i + n) = Len(q[k]) - n - i
      BY <1>1, <3>1
    <3>3. r[k][i] = q[k][i + n]
      BY <1>3, <3>1
    <3>4. Old(l, i) = i + n
      BY <2>1
    <3>5. QED
      BY <1>3, <2>1, <3>2, <3>3, <3>4
  <2>2. CASE l # k
    <3>1. r[l] = q[l] /\ Old(l, i) = i
      BY <1>4, <2>2
    <3>2. QED
      BY <2>2, <3>1
  <2>3. QED
    BY <2>1, <2>2
<1>6. OnceQueued(r)
  <2> SUFFICES ASSUME NEW l1 \in Keys, NEW l2 \in Keys, NEW i \in 1 .. Len(r[l1]),
                      NEW j \in 1 .. Len(r[l2]), r[l1][i].id = r[l2][j].id
               PROVE  l1 = l2 /\ i = j
    BY DEF OnceQueued
  <2>1. Old(l1, i) \in 1 .. Len(q[l1]) /\ r[l1][i] = q[l1][Old(l1, i)]
    BY <1>5
  <2>2. Old(l2, j) \in 1 .. Len(q[l2]) /\ r[l2][j] = q[l2][Old(l2, j)]
    BY <1>5
  <2> HIDE DEF Old
  <2>3. l1 = l2 /\ Old(l1, i) = Old(l2, j)
    BY <2>1, <2>2 DEF OnceQueued
  <2>4. QED
    BY <2>3 DEF Old
<1>7. InOrder(r, a)
  <2> SUFFICES ASSUME NEW l \in Keys, NEW i \in 1 .. Len(r[l])
               PROVE  r[l][i].id + (Len(r[l]) - i) <= a
    BY DEF InOrder
  <2>1. q[l][Old(l, i)].id + (Len(q[l]) - Old(l, i)) <= a
    BY <1>5 DEF InOrder
  <2>2. QED
    BY <1>5, <2>1
<1>8. OnceListed(y)
  <2> SUFFICES ASSUME NEW i \in 1 .. Len(y), NEW j \in 1 .. Len(y), y[i].id = y[j].id
               PROVE  i = j
    BY DEF OnceListed
  <2>1. q[k][i].id = q[k][j].id /\ i \in 1 .. Len(q[k]) /\ j \in 1 .. Len(q[k])
    BY <1>2
  <2>2. QED
    BY <2>1 DEF OnceQueued
<1>9. QueueIds(r) \subseteq QueueIds(q)
  <2> SUFFICES ASSUME NEW m \in QueueIds(r) PROVE m \in QueueIds(q)
    OBVIOUS
  <2>1. m \in Nat /\ \E l \in Keys : \E i \in 1 .. Len(r[l]) : r[l][i].id = m
    BY DEF QueueIds
  <2>2a. PICK l \in Keys : \E i \in 1 .. Len(r[l]) : r[l][i].id = m
    BY <2>1
  <2>2. PICK i \in 1 .. Len(r[l]) : r[l][i].id = m
    BY <2>2a
  <2>3. Old(l, i) \in 1 .. Len(q[l]) /\ q[l][Old(l, i)].id = m
    BY <1>5, <2>2
  <2>4. QED
    BY <2>1, <2>3 DEF QueueIds
<1>10. ListIds(y) \subseteq QueueIds(q)
  <2> SUFFICES ASSUME NEW m \in ListIds(y) PROVE m \in QueueIds(q)
    OBVIOUS
  <2>1. m \in Nat /\ \E i \in 1 .. Len(y) : y[i].id = m
    BY DEF ListIds
  <2>2. PICK i \in 1 .. Len(y) : y[i].id = m
    BY <2>1
  <2>3. i \in 1 .. Len(q[k]) /\ q[k][i].id = m
    BY <1>2, <2>2
  <2>4. QED
    BY <2>1, <2>3 DEF QueueIds
<1>11. QueueIds(q) \subseteq QueueIds(r) \cup ListIds(y)
  <2> SUFFICES ASSUME NEW m \in QueueIds(q) PROVE m \in QueueIds(r) \cup ListIds(y)
    OBVIOUS
  <2>1. m \in Nat /\ \E l \in Keys : \E i \in 1 .. Len(q[l]) : q[l][i].id = m
    BY DEF QueueIds
  <2>2a. PICK l \in Keys : \E i \in 1 .. Len(q[l]) : q[l][i].id = m
    BY <2>1
  <2>2. PICK i \in 1 .. Len(q[l]) : q[l][i].id = m
    BY <2>2a
  <2>3. CASE l # k
    <3>1. i \in 1 .. Len(r[l]) /\ r[l][i].id = m
      BY <1>4, <2>2, <2>3
    <3>2. QED
      BY <2>1, <3>1 DEF QueueIds
  <2>4. CASE l = k /\ i <= n
    <3>1. i \in 1 .. Len(y) /\ y[i].id = m
      BY <1>2, <2>2, <2>4
    <3>2. QED
      BY <2>1, <3>1 DEF ListIds
  <2>5. CASE l = k /\ i > n
    <3>1. i - n \in 1 .. Len(q[k]) - n /\ i - n + n = i
      BY <1>1, <2>5
    <3>2. i - n \in 1 .. Len(r[k]) /\ r[k][i - n] = q[k][i - n + n]
      BY <1>3, <3>1
    <3>3. r[k][i - n].id = m
      BY <2>2, <2>5, <3>1, <3>2
    <3>4. QED
      BY <2>1, <3>2, <3>3 DEF QueueIds
  <2>6. QED
    BY <2>3, <2>4, <2>5
<1>12. QueueIds(r) \cap ListIds(y) = {}
  <2> SUFFICES ASSUME NEW m \in QueueIds(r), m \in ListIds(y) PROVE FALSE
    OBVIOUS
  <2>1a. PICK l \in Keys : \E i \in 1 .. Len(r[l]) : r[l][i].id = m
    BY DEF QueueIds
  <2>1. PICK i \in 1 .. Len(r[l]) : r[l][i].id = m
    BY <2>1a
  <2>2. PICK j \in 1 .. Len(y) : y[j].id = m
    BY DEF ListIds
  <2>3. Old(l, i) \in 1 .. Len(q[l]) /\ q[l][Old(l, i)].id = m /\ (l = k => Old(l, i) > n)
    BY <1>5, <2>1
  <2>4. j \in 1 .. Len(q[k]) /\ q[k][j].id = m /\ j <= n
    BY <1>2, <2>2
  <2>5. l = k /\ Old(l, i) = j
    BY <2>3, <2>4 DEF OnceQueued
  <2>6. QED
    BY <2>3, <2>4, <2>5
<1>13. QED
  BY <1>6, <1>7, <1>8, <1>9, <1>10, <1>11, <1>12 DEF r, y

(* A list behind another with which it shares no id.                       *)
LEMMA JoinLists ==
  ASSUME NEW x \in Seq(Items), NEW y \in Seq(Items), OnceListed(x), OnceListed(y),
         ListIds(x) \cap ListIds(y) = {}
  PROVE  OnceListed(x \o y) /\ ListIds(x \o y) = ListIds(x) \cup ListIds(y)
<1> DEFINE z == x \o y
           m == Len(x)
           n == Len(y)
<1>1. m \in Nat /\ n \in Nat /\ Len(z) = m + n
  OBVIOUS
<1>2. \A i \in 1 .. m : z[i] = x[i]
  OBVIOUS
<1>3. \A i \in 1 .. n : z[i + m] = y[i]
  OBVIOUS
<1> HIDE DEF z
<1>4. ASSUME NEW i \in 1 .. Len(z)
      PROVE  \/ i \in 1 .. m /\ z[i] = x[i] /\ z[i].id \in ListIds(x)
             \/ /\ i - m \in 1 .. n /\ z[i] = y[i - m] /\ z[i].id \in ListIds(y)
                /\ i \notin 1 .. m
  <2>1. CASE i \in 1 .. m
    BY <1>2, <2>1, ElementId
  <2>2. CASE i \notin 1 .. m
    <3>1. i - m \in 1 .. n /\ i - m + m = i
      BY <1>1, <2>2
    <3> HIDE DEF m, n
    <3>2. z[i] = y[i - m]
      BY <1>3, <3>1
    <3>3. y[i - m].id \in ListIds(y)
      BY <3>1, ElementId DEF n
    <3>4. QED
      BY <2>2, <3>1, <3>2, <3>3
  <2>3. QED
    BY <2>1, <2>2
<1> HIDE DEF m, n
<1>5. OnceListed(z)
  <2> SUFFICES ASSUME NEW i \in 1 .. Len(z), NEW j \in 1 .. Len(z), z[i].id = z[j].id
               PROVE  i = j
    BY DEF OnceListed
  <2>1. CASE i \in 1 .. m /\ z[i] = x[i] /\ z[i].id \in ListIds(x)
    <3>1. j \in 1 .. m /\ z[j] = x[j]
      BY <1>4, <2>1
    <3>2. QED
      BY <2>1, <3>1 DEF OnceListed, m
  <2>2. CASE /\ i - m \in 1 .. n /\ z[i] = y[i - m] /\ z[i].id \in ListIds(y)
             /\ i \notin 1 .. m
    <3>1. j - m \in 1 .. n /\ z[j] = y[j - m]
      BY <1>4, <2>2
    <3>2. i - m = j - m
      BY <2>2, <3>1 DEF OnceListed, n
    <3>3. i \in Int /\ j \in Int
      BY <1>1
    <3>4. QED
      BY <1>1, <3>2, <3>3
  <2>3. QED
    BY <1>4, <2>1, <2>2
<1>6. ListIds(z) \subseteq ListIds(x) \cup ListIds(y)
  <2> SUFFICES ASSUME NEW a \in ListIds(z) PROVE a \in ListIds(x) \cup ListIds(y)
    OBVIOUS
  <2>1. PICK i \in 1 .. Len(z) : z[i].id = a
    BY DEF ListIds
  <2>2. QED
    BY <1>4, <2>1
<1>7. ListIds(x) \subseteq ListIds(z)
  <2> SUFFICES ASSUME NEW a \in ListIds(x) PROVE a \in ListIds(z)
    OBVIOUS
  <2>1. a \in Nat /\ \E i \in 1 .. m : x[i].id = a
    BY DEF ListIds, m
  <2>2. PICK i \in 1 .. m : x[i].id = a
    BY <2>1
  <2>3. i \in 1 .. Len(z)
    BY <1>1
  <2>4. QED
    BY <1>2, <2>1, <2>2, <2>3 DEF ListIds
<1>8. ListIds(y) \subseteq ListIds(z)
  <2> SUFFICES ASSUME NEW a \in ListIds(y) PROVE a \in ListIds(z)
    OBVIOUS
  <2>1. a \in Nat /\ \E i \in 1 .. n : y[i].id = a
    BY DEF ListIds, n
  <2>2. PICK i \in 1 .. n : y[i].id = a
    BY <2>1
  <2>3. i + m \in 1 .. Len(z)
    BY <1>1
  <2>4. QED
    BY <1>3, <2>1, <2>2, <2>3 DEF ListIds
<1>9. QED
  BY <1>5, <1>6, <1>7, <1>8 DEF z

(* The first of a list taken off.                                          *)
LEMMA TakeFirst ==
  ASSUME NEW x \in Seq(Items), x # <<>>, OnceListed(x)
  PROVE  /\ OnceListed(Tail(x)) /\ Head(x).id \notin ListIds(Tail(x))
         /\ ListIds(x) = ListIds(Tail(x)) \cup {Head(x).id}
<1> DEFINE t == Tail(x)
           n == Len(x)
<1>1. n \in Nat \ {0} /\ Len(t) = n - 1 /\ \A i \in 1 .. n - 1 : t[i] = x[i + 1]
  OBVIOUS
<1>2. Head(x) = x[1] /\ 1 \in 1 .. n
  BY <1>1
<1> HIDE DEF t
<1>3. ASSUME NEW i \in 1 .. Len(t) PROVE t[i] = x[i + 1] /\ i + 1 \in 1 .. n /\ i + 1 # 1
  BY <1>1
<1>4. OnceListed(t)
  <2> SUFFICES ASSUME NEW i \in 1 .. Len(t), NEW j \in 1 .. Len(t), t[i].id = t[j].id
               PROVE  i = j
    BY DEF OnceListed
  <2>1. x[i + 1].id = x[j + 1].id /\ i + 1 \in 1 .. n /\ j + 1 \in 1 .. n
    BY <1>3
  <2>2. i + 1 = j + 1
    BY <2>1 DEF OnceListed
  <2>3. QED
    BY <2>2
<1>5. ASSUME x[1].id \in ListIds(t) PROVE FALSE
  <2>1. PICK i \in 1 .. Len(t) : t[i].id = x[1].id
    BY <1>5 DEF ListIds
  <2>2. x[i + 1].id = x[1].id /\ i + 1 \in 1 .. n /\ i + 1 # 1
    BY <1>3, <2>1
  <2>3. QED
    BY <1>2, <2>2 DEF OnceListed
<1>6. ListIds(x) \subseteq ListIds(t) \cup {x[1].id}
  <2> SUFFICES ASSUME NEW a \in ListIds(x), a # x[1].id PROVE a \in ListIds(t)
    OBVIOUS
  <2>1. a \in Nat /\ \E i \in 1 .. n : x[i].id = a
    BY DEF ListIds
  <2>2. PICK i \in 1 .. n : x[i].id = a
    BY <2>1
  <2>3. i # 1
    BY <2>2
  <2>4. i - 1 \in 1 .. Len(t) /\ i - 1 + 1 = i
    BY <1>1, <2>3
  <2>5. t[i - 1] = x[i]
    BY <1>3, <2>4
  <2>6. QED
    BY <2>1, <2>2, <2>4, <2>5 DEF ListIds
<1>7. ListIds(t) \subseteq ListIds(x)
  <2> SUFFICES ASSUME NEW a \in ListIds(t) PROVE a \in ListIds(x)
    OBVIOUS
  <2>1. a \in Nat /\ \E i \in 1 .. Len(t) : t[i].id = a
    BY DEF ListIds
  <2>2. PICK i \in 1 .. Len(t) : t[i].id = a
    BY <2>1
  <2>3. QED
    BY <1>3, <2>1, <2>2 DEF ListIds
<1>8. x[1].id \in ListIds(x)
  BY <1>2, ElementId
<1>9. QED
  BY <1>2, <1>4, <1>5, <1>6, <1>7, <1>8 DEF t

(* The last of a prefix taken off.                                         *)
LEMMA TakeLast ==
  ASSUME NEW q \in Seq(Items), NEW n \in Nat, n + 1 <= Len(q),
         OnceListed(SubSeq(q, 1, n + 1))
  PROVE  /\ OnceListed(SubSeq(q, 1, n)) /\ q[n + 1].id \notin ListIds(SubSeq(q, 1, n))
         /\ ListIds(SubSeq(q, 1, n + 1)) = ListIds(SubSeq(q, 1, n)) \cup {q[n + 1].id}
<1> DEFINE y == SubSeq(q, 1, n + 1)
           z == SubSeq(q, 1, n)
<1>1. Len(q) \in Nat /\ n + 1 \in 1 .. n + 1
  OBVIOUS
<1>2. Len(y) = n + 1 /\ \A i \in 1 .. n + 1 : y[i] = q[i]
  BY <1>1
<1>3. Len(z) = n /\ \A i \in 1 .. n : z[i] = q[i] /\ i \in 1 .. n + 1 /\ i # n + 1
  BY <1>1
<1>4. y[n + 1] = q[n + 1] /\ y \in Seq(Items)
  BY <1>1, <1>2, SubSeqType
<1> HIDE DEF y, z
<1>5. \A i \in 1 .. n : z[i] = y[i]
  BY <1>2, <1>3
<1>6. OnceListed(z)
  BY <1>2, <1>3, <1>5 DEF OnceListed, y
<1>7. ASSUME q[n + 1].id \in ListIds(z) PROVE FALSE
  <2>1. PICK i \in 1 .. Len(z) : z[i].id = q[n + 1].id
    BY <1>7 DEF ListIds
  <2>2. y[i].id = y[n + 1].id /\ i \in 1 .. Len(y) /\ n + 1 \in 1 .. Len(y) /\ i # n + 1
    BY <1>1, <1>2, <1>3, <1>4, <1>5, <2>1
  <2>3. OnceListed(y)
    BY DEF y
  <2>4. QED
    BY <2>2, <2>3 DEF OnceListed
<1>8. ListIds(z) \subseteq ListIds(y)
  <2> SUFFICES ASSUME NEW a \in ListIds(z) PROVE a \in ListIds(y)
    OBVIOUS
  <2>1. a \in Nat /\ \E i \in 1 .. Len(z) : z[i].id = a
    BY DEF ListIds
  <2>2. QED
    BY <1>2, <1>3, <1>5, <2>1 DEF ListIds
<1>9. q[n + 1].id \in ListIds(y)
  BY <1>1, <1>2, <1>4, ElementId
<1>10. ListIds(y) \subseteq ListIds(z) \cup {q[n + 1].id}
  <2> SUFFICES ASSUME NEW a \in ListIds(y), a # q[n + 1].id PROVE a \in ListIds(z)
    OBVIOUS
  <2>1. a \in Nat /\ \E i \in 1 .. n + 1 : y[i].id = a
    BY <1>2 DEF ListIds
  <2>2. PICK i \in 1 .. n + 1 : y[i].id = a
    BY <2>1
  <2>3. i # n + 1
    BY <1>4, <2>2
  <2>4. i \in 1 .. n
    BY <2>3
  <2>5. QED
    BY <1>3, <1>5, <2>1, <2>2, <2>4 DEF ListIds
<1>11. QED
  BY <1>6, <1>7, <1>8, <1>9, <1>10 DEF y, z

(* A dispatch handed out.                                                  *)
LEMMA HoldOne ==
  ASSUME NEW o, NEW d, d.item.id \in Nat, d.item.id \notin HeldIds(o), OnceHeld(o)
  PROVE  OnceHeld(o \cup {d}) /\ HeldIds(o \cup {d}) = HeldIds(o) \cup {d.item.id}
<1>1. \A e \in o : e.item.id # d.item.id
  BY DEF HeldIds
<1>2. OnceHeld(o \cup {d})
  BY <1>1 DEF OnceHeld
<1>3. QED
  BY <1>2 DEF HeldIds

(* A dispatch taken back.                                                  *)
LEMMA ReturnOne ==
  ASSUME NEW o, NEW d \in o, d.item.id \in Nat, OnceHeld(o)
  PROVE  /\ OnceHeld(o \ {d}) /\ d.item.id \notin HeldIds(o \ {d})
         /\ HeldIds(o) = HeldIds(o \ {d}) \cup {d.item.id}
<1>1. \A e \in o : e # d => e.item.id # d.item.id
  BY DEF OnceHeld
<1>2. OnceHeld(o \ {d})
  BY DEF OnceHeld
<1>3. QED
  BY <1>1, <1>2 DEF HeldIds

(* An admission: the next id, in a queue.                                  *)
LEMMA AdmitShares ==
  ASSUME TypeOK, Shared, NEW k \in Keys, NEW c \in Classes, NEW d \in Deadlines,
         Admit(k, c, d)
  PROVE  Shared'
<1> DEFINE x == [id |-> admitted + 1, key |-> k, class |-> c, deadline |-> d]
<1>1. /\ queue \in [Keys -> Seq(Items)] /\ admitted \in Nat /\ MaxItems \in Nat
  BY BookConstants DEF TypeOK
<1>2. x \in Items /\ x.id = admitted + 1
  BY <1>1, BookConstants DEF Items
<1>3. /\ queue' = [queue EXCEPT ![k] = Append(@, x)] /\ admitted' = admitted + 1
      /\ outstanding' = outstanding /\ expired' = expired /\ done' = done
      /\ admitted < MaxItems
  BY DEF Admit, Enqueued, caller
<1> HIDE DEF x
<1>4. x.id \notin 1 .. admitted /\ 1 .. admitted' = 1 .. admitted \cup {x.id}
      /\ admitted' <= MaxItems
  BY <1>1, <1>2, <1>3
<1>5. x.id \notin QueueIds(queue)
  BY <1>4 DEF Shared, Parted
<1>6. /\ OnceQueued(queue') /\ InOrder(queue', admitted')
      /\ QueueIds(queue') = QueueIds(queue) \cup {x.id}
  BY <1>1, <1>2, <1>3, <1>5, JoinQueue DEF Shared
<1>7. Parted(QueueIds(queue'), HeldIds(outstanding'), ListIds(expired'), done',
             1 .. admitted')
  <2>1. Parted(QueueIds(queue), HeldIds(outstanding), ListIds(expired), done,
               1 .. admitted)
    BY DEF Shared
  <2>2. Parted(QueueIds(queue) \cup {x.id}, HeldIds(outstanding), ListIds(expired), done,
               1 .. admitted \cup {x.id})
    BY <1>4, <2>1 DEF Parted
  <2>3. QED
    BY <1>3, <1>4, <1>6, <2>2
<1>8. QED
  BY <1>3, <1>4, <1>6, <1>7 DEF Shared

(* A dispatch: n ids shed, the one behind them handed out.                 *)
LEMMA NextTakesShares ==
  ASSUME TypeOK, Shared, NEW c \in Classes, NextTakes(c)
  PROVE  Shared'
<1> DEFINE k == Head(ready[c])
           q == queue[k]
<1>1. /\ queue \in [Keys -> Seq(Items)] /\ ready \in [Classes -> Seq(Keys)]
      /\ ready[c] # <<>> /\ expired \in Seq(Items) /\ admitted \in Nat
  BY DEF TypeOK, NextTakes
<1>2. k \in Keys /\ q \in Seq(Items)
  BY <1>1
<1>3. PICK n \in 0 .. Len(q) - 1 :
        /\ queue' = [queue EXCEPT ![k] = SubSeq(q, n + 2, Len(q))]
        /\ expired' = expired \o SubSeq(q, 1, n)
        /\ outstanding' = outstanding \cup {[item |-> q[n + 1], state |-> resident[k]]}
  BY DEF NextTakes
<1>4. done' = done /\ admitted' = admitted
  BY DEF NextTakes, history
<1>5. n \in Nat /\ n + 1 \in Nat /\ n + 1 <= Len(q) /\ n + 1 + 1 = n + 2
      /\ n + 1 \in 1 .. Len(q) /\ n <= Len(q) /\ 1 \in Nat \ {0}
  BY <1>2, <1>3
<1> DEFINE y == SubSeq(q, 1, n + 1)
           z == SubSeq(q, 1, n)
           m == q[n + 1].id
           dd == [item |-> q[n + 1], state |-> resident[k]]
<1>6. dd.item.id = m /\ m \in Nat
  BY <1>2, <1>5, ElementId
<1>7. outstanding' = outstanding \cup {dd} /\ expired' = expired \o z /\ z \in Seq(Items)
  BY <1>2, <1>3, <1>5, SubSeqType
<1>8. /\ OnceQueued(queue') /\ InOrder(queue', admitted) /\ OnceListed(y)
      /\ QueueIds(queue) = QueueIds(queue') \cup ListIds(y)
      /\ QueueIds(queue') \cap ListIds(y) = {}
  <2>1. queue' = [queue EXCEPT ![k] = SubSeq(queue[k], n + 1 + 1, Len(queue[k]))]
    BY <1>3, <1>5
  <2>2. QED
    BY <1>1, <1>2, <1>5, <2>1, CutQueue DEF Shared
<1>9. OnceListed(z) /\ m \notin ListIds(z) /\ ListIds(y) = ListIds(z) \cup {m}
  BY <1>2, <1>5, <1>8, TakeLast
<1> HIDE DEF k, q, y, z, dd, m
<1>10. ListIds(expired) \cap ListIds(z) = {} /\ m \notin HeldIds(outstanding)
  BY <1>8, <1>9 DEF Shared, Parted
<1>11. OnceListed(expired') /\ ListIds(expired') = ListIds(expired) \cup ListIds(z)
  BY <1>1, <1>7, <1>9, <1>10, JoinLists DEF Shared
<1>12. OnceHeld(outstanding') /\ HeldIds(outstanding') = HeldIds(outstanding) \cup {m}
  BY <1>6, <1>7, <1>10, HoldOne DEF Shared
<1>13. Parted(QueueIds(queue'), HeldIds(outstanding'), ListIds(expired'), done,
              1 .. admitted)
  BY <1>8, <1>9, <1>11, <1>12 DEF Shared, Parted
<1>14. QED
  BY <1>4, <1>8, <1>11, <1>12, <1>13 DEF Shared

(* Shedding alone: n ids from the queue to the shed items.                 *)
LEMMA NextSkipsShares ==
  ASSUME TypeOK, Shared, NEW c \in Classes, NextSkips(c)
  PROVE  Shared'
<1> DEFINE k == Head(ready[c])
           q == queue[k]
<1>1. /\ queue \in [Keys -> Seq(Items)] /\ ready \in [Classes -> Seq(Keys)]
      /\ ready[c] # <<>> /\ expired \in Seq(Items) /\ admitted \in Nat
  BY DEF TypeOK, NextSkips
<1>2. k \in Keys /\ q \in Seq(Items)
  BY <1>1
<1>3. PICK n \in 0 .. Len(q) :
        /\ queue' = [queue EXCEPT ![k] = SubSeq(q, n + 1, Len(q))]
        /\ expired' = expired \o SubSeq(q, 1, n)
  BY DEF NextSkips
<1>4. done' = done /\ admitted' = admitted /\ outstanding' = outstanding
  BY DEF NextSkips, history, caller
<1>5. n \in Nat /\ n <= Len(q) /\ 1 \in Nat \ {0}
  BY <1>2, <1>3
<1> DEFINE z == SubSeq(q, 1, n)
<1>6. z \in Seq(Items) /\ expired' = expired \o z
  BY <1>2, <1>3, <1>5, SubSeqType
<1>7. /\ OnceQueued(queue') /\ InOrder(queue', admitted) /\ OnceListed(z)
      /\ QueueIds(queue) = QueueIds(queue') \cup ListIds(z)
      /\ QueueIds(queue') \cap ListIds(z) = {}
  BY <1>1, <1>2, <1>3, <1>5, CutQueue DEF Shared
<1> HIDE DEF k, q, z
<1>8. ListIds(expired) \cap ListIds(z) = {}
  BY <1>7 DEF Shared, Parted
<1>9. OnceListed(expired') /\ ListIds(expired') = ListIds(expired) \cup ListIds(z)
  BY <1>1, <1>6, <1>7, <1>8, JoinLists DEF Shared
<1>10. Parted(QueueIds(queue'), HeldIds(outstanding), ListIds(expired'), done,
              1 .. admitted)
  BY <1>7, <1>9 DEF Shared, Parted
<1>11. QED
  BY <1>4, <1>7, <1>9, <1>10 DEF Shared

(* pop_expired: one id from the shed items to the finished ones.           *)
LEMMA PopExpiredShares ==
  ASSUME TypeOK, Shared, PopExpired
  PROVE  Shared'
<1> DEFINE m == Head(expired).id
           t == Tail(expired)
<1>1. /\ expired \in Seq(Items) /\ expired # <<>> /\ expired' = t /\ done' = done \cup {m}
      /\ queue' = queue /\ outstanding' = outstanding /\ admitted' = admitted
  BY DEF TypeOK, PopExpired, caller
<1>2. OnceListed(t) /\ m \notin ListIds(t) /\ ListIds(expired) = ListIds(t) \cup {m}
  BY <1>1, TakeFirst DEF Shared
<1> HIDE DEF m, t
<1>3. Parted(QueueIds(queue), HeldIds(outstanding), ListIds(expired'), done', 1 .. admitted)
  BY <1>1, <1>2 DEF Shared, Parted
<1>4. QED
  BY <1>1, <1>2, <1>3 DEF Shared

(* complete: one id from the caller to the finished ones.                  *)
LEMMA CompleteShares ==
  ASSUME TypeOK, Shared, NEW d \in outstanding, NEW keep \in BOOLEAN, Complete(d, keep)
  PROVE  Shared'
<1> DEFINE m == d.item.id
<1>1. m \in Nat
  <2>1. d.item \in Items
    BY DEF TypeOK
  <2>2. QED
    BY <2>1, ItemType
<1>2. /\ outstanding' = outstanding \ {d} /\ done' = done \cup {m}
      /\ queue' = queue /\ expired' = expired /\ admitted' = admitted
  BY DEF Complete
<1>3. /\ OnceHeld(outstanding') /\ m \notin HeldIds(outstanding')
      /\ HeldIds(outstanding) = HeldIds(outstanding') \cup {m}
  BY <1>1, <1>2, ReturnOne DEF Shared
<1> HIDE DEF m
<1>4. Parted(QueueIds(queue), HeldIds(outstanding'), ListIds(expired), done', 1 .. admitted)
  BY <1>2, <1>3 DEF Shared, Parted
<1>5. QED
  BY <1>2, <1>3, <1>4 DEF Shared

(* Every step shares the ids out anew.                                     *)
LEMMA SharedStep ==
  ASSUME TypeOK, Shared, [Next]_vars
  PROVE  Shared'
<1>1. ASSUME UNCHANGED <<queue, outstanding, expired, done, admitted>> PROVE Shared'
  BY <1>1 DEF Shared
<1>2. CASE \E k \in Keys, c \in Classes, d \in Deadlines : Admit(k, c, d)
  BY <1>2, AdmitShares
<1>3. CASE \E c \in Classes : NextTakes(c) \/ NextSkips(c)
  BY <1>3, NextTakesShares, NextSkipsShares
<1>4. CASE PopExpired
  BY <1>4, PopExpiredShares
<1>5. CASE \E d \in outstanding, keep \in BOOLEAN : Complete(d, keep)
  BY <1>5, CompleteShares
<1>6. CASE Evict \/ EvictAll
  <2>1. ReleaseHead
    BY <1>6 DEF Evict, EvictAll
  <2>2. QED
    BY <1>1, <2>1 DEF ReleaseHead, history
<1>7. CASE \E f \in flushing : FinishEvict(f)
  BY <1>1, <1>7 DEF FinishEvict, history
<1>8. CASE EvictBreaks \/ ClockAdvances \/ UNCHANGED vars
  BY <1>1, <1>8 DEF EvictBreaks, ClockAdvances, vars, caller, history
<1>9. QED
  BY <1>2, <1>3, <1>4, <1>5, <1>6, <1>7, <1>8 DEF Next

(* Nothing is anywhere at the start.                                       *)
LEMMA SharedInit == Init => Shared
<1> SUFFICES ASSUME Init PROVE Shared
  OBVIOUS
<1>1. /\ queue = [k \in Keys |-> <<>>] /\ outstanding = {} /\ expired = <<>>
      /\ done = {} /\ admitted = 0 /\ \A k \in Keys : Len(queue[k]) = 0
  BY DEF Init
<1>2. OnceQueued(queue) /\ InOrder(queue, admitted) /\ QueueIds(queue) = {}
  BY <1>1 DEF OnceQueued, InOrder, QueueIds
<1>3. OnceHeld(outstanding) /\ HeldIds(outstanding) = {}
  BY <1>1 DEF OnceHeld, HeldIds
<1>4. OnceListed(expired) /\ ListIds(expired) = {}
  BY <1>1 DEF OnceListed, ListIds
<1>5. 1 .. admitted = {} /\ admitted <= MaxItems
  BY <1>1, BookConstants
<1>6. QED
  BY <1>1, <1>2, <1>3, <1>4, <1>5 DEF Shared, Parted

(* The four kinds of place of Places.                                      *)
QueuePlaces(id) ==
  {s \in [at : Keys, nth : 1 .. MaxItems] :
     s.nth <= Len(queue[s.at]) /\ queue[s.at][s.nth].id = id}
HeldPlaces(id) == {d \in outstanding : d.item.id = id}
ShedPlaces(id) == {[shed |-> i] : i \in {n \in DOMAIN expired : expired[n].id = id}}
DonePlaces(id) == {[finished |-> i] : i \in done \cap {id}}

(* An id that is in no queue has no place in one; one that is has exactly  *)
(* one.                                                                    *)
LEMMA QueuePlace ==
  ASSUME TypeOK, Shared, NEW m \in Nat
  PROVE  /\ m \notin QueueIds(queue) => QueuePlaces(m) = {}
         /\ m \in QueueIds(queue) => \E s : QueuePlaces(m) = {s}
<1>1. queue \in [Keys -> Seq(Items)] /\ admitted \in Nat /\ MaxItems \in Nat
  BY BookConstants DEF TypeOK
<1>2. \A s \in QueuePlaces(m) : /\ s.at \in Keys /\ s.nth \in 1 .. Len(queue[s.at])
                                /\ queue[s.at][s.nth].id = m
                                /\ s = [at |-> s.at, nth |-> s.nth]
  BY <1>1 DEF QueuePlaces
<1>3. ASSUME m \notin QueueIds(queue) PROVE QueuePlaces(m) = {}
  <2>1. \A k \in Keys : \A i \in 1 .. Len(queue[k]) : queue[k][i].id # m
    BY <1>3 DEF QueueIds
  <2>2. QED
    BY <1>2, <2>1
<1>4. ASSUME m \in QueueIds(queue) PROVE \E s : QueuePlaces(m) = {s}
  <2>1. PICK k \in Keys : \E i \in 1 .. Len(queue[k]) : queue[k][i].id = m
    BY <1>4 DEF QueueIds
  <2>2. PICK i \in 1 .. Len(queue[k]) : queue[k][i].id = m
    BY <2>1
  <2>3. queue[k] \in Seq(Items) /\ Len(queue[k]) \in Nat /\ 1 \in 1 .. Len(queue[k])
    BY <1>1
  <2>4. /\ queue[k][1].id \in Nat \ {0}
        /\ queue[k][1].id + (Len(queue[k]) - 1) <= admitted /\ admitted <= MaxItems
    BY <1>1, <2>3, QueuedId DEF Shared, InOrder
  <2>5. i \in 1 .. MaxItems
    BY <1>1, <2>3, <2>4
  <2> DEFINE s == [at |-> k, nth |-> i]
  <2>6. s \in QueuePlaces(m)
    BY <2>2, <2>5 DEF QueuePlaces
  <2>7. ASSUME NEW t \in QueuePlaces(m) PROVE t = s
    <3>1. t.at \in Keys /\ t.nth \in 1 .. Len(queue[t.at]) /\ queue[t.at][t.nth].id = m
          /\ t = [at |-> t.at, nth |-> t.nth]
      BY <1>2
    <3>2. t.at = k /\ t.nth = i
      BY <2>2, <3>1 DEF Shared, OnceQueued
    <3>3. QED
      BY <3>1, <3>2
  <2> HIDE DEF s
  <2>8. QueuePlaces(m) = {s}
    BY <2>6, <2>7
  <2>9. QED
    BY <2>8
<1>5. QED
  BY <1>3, <1>4

(* The same of the caller's dispatches.                                    *)
LEMMA HeldPlace ==
  ASSUME Shared, NEW m \in Nat
  PROVE  /\ m \notin HeldIds(outstanding) => HeldPlaces(m) = {}
         /\ m \in HeldIds(outstanding) => \E s : HeldPlaces(m) = {s}
<1>1. m \notin HeldIds(outstanding) => HeldPlaces(m) = {}
  BY DEF HeldIds, HeldPlaces
<1>2. ASSUME m \in HeldIds(outstanding) PROVE \E s : HeldPlaces(m) = {s}
  <2>1. PICK d \in outstanding : d.item.id = m
    BY <1>2 DEF HeldIds
  <2>2. HeldPlaces(m) = {d}
    BY <2>1 DEF HeldPlaces, Shared, OnceHeld
  <2>3. QED
    BY <2>2
<1>3. QED
  BY <1>1, <1>2

(* The same of the shed items.                                             *)
LEMMA ShedPlace ==
  ASSUME TypeOK, Shared, NEW m \in Nat
  PROVE  /\ m \notin ListIds(expired) => ShedPlaces(m) = {}
         /\ m \in ListIds(expired) => \E s : ShedPlaces(m) = {s}
<1> DEFINE I == {n \in DOMAIN expired : expired[n].id = m}
<1>1. expired \in Seq(Items) /\ DOMAIN expired = 1 .. Len(expired)
  BY DEF TypeOK
<1>2. ASSUME m \notin ListIds(expired) PROVE ShedPlaces(m) = {}
  <2>1. I = {}
    BY <1>1, <1>2 DEF ListIds
  <2>2. QED
    BY <2>1 DEF ShedPlaces
<1>3. ASSUME m \in ListIds(expired) PROVE \E s : ShedPlaces(m) = {s}
  <2>1. PICK n \in 1 .. Len(expired) : expired[n].id = m
    BY <1>3 DEF ListIds
  <2>2. I = {n}
    BY <1>1, <2>1 DEF Shared, OnceListed
  <2>3. ShedPlaces(m) = {[shed |-> n]}
    BY <2>2 DEF ShedPlaces
  <2>4. QED
    BY <2>3
<1>4. QED
  BY <1>2, <1>3

(* The same of the finished ids.                                           *)
LEMMA DonePlace ==
  ASSUME NEW m \in Nat
  PROVE  /\ m \notin done => DonePlaces(m) = {}
         /\ m \in done => \E s : DonePlaces(m) = {s}
<1>1. ASSUME m \notin done PROVE DonePlaces(m) = {}
  <2>1. done \cap {m} = {}
    BY <1>1
  <2>2. QED
    BY <2>1 DEF DonePlaces
<1>2. ASSUME m \in done PROVE \E s : DonePlaces(m) = {s}
  <2>1. done \cap {m} = {m}
    BY <1>2
  <2>2. DonePlaces(m) = {[finished |-> m]}
    BY <2>1 DEF DonePlaces
  <2>3. QED
    BY <2>2
<1>3. QED
  BY <1>1, <1>2

(* Shared ids are in exactly one place each.                               *)
LEMMA SharedMeansConserved ==
  ASSUME TypeOK, Shared
  PROVE  Conserved
<1> SUFFICES ASSUME NEW m \in 1 .. admitted PROVE Cardinality(Places(m)) = 1
  BY DEF Conserved
<1>1. m \in Nat
  BY DEF TypeOK
<1>2. Places(m) = QueuePlaces(m) \cup HeldPlaces(m) \cup ShedPlaces(m) \cup DonePlaces(m)
  BY DEF Places, QueuePlaces, HeldPlaces, ShedPlaces, DonePlaces
<1>3. /\ m \notin QueueIds(queue) => QueuePlaces(m) = {}
      /\ m \in QueueIds(queue) => \E s : QueuePlaces(m) = {s}
  BY <1>1, QueuePlace
<1>4. /\ m \notin HeldIds(outstanding) => HeldPlaces(m) = {}
      /\ m \in HeldIds(outstanding) => \E s : HeldPlaces(m) = {s}
  BY <1>1, HeldPlace
<1>5. /\ m \notin ListIds(expired) => ShedPlaces(m) = {}
      /\ m \in ListIds(expired) => \E s : ShedPlaces(m) = {s}
  BY <1>1, ShedPlace
<1>6. /\ m \notin done => DonePlaces(m) = {}
      /\ m \in done => \E s : DonePlaces(m) = {s}
  BY <1>1, DonePlace
<1>7. \/ /\ m \in QueueIds(queue) /\ m \notin HeldIds(outstanding)
         /\ m \notin ListIds(expired) /\ m \notin done
      \/ /\ m \notin QueueIds(queue) /\ m \in HeldIds(outstanding)
         /\ m \notin ListIds(expired) /\ m \notin done
      \/ /\ m \notin QueueIds(queue) /\ m \notin HeldIds(outstanding)
         /\ m \in ListIds(expired) /\ m \notin done
      \/ /\ m \notin QueueIds(queue) /\ m \notin HeldIds(outstanding)
         /\ m \notin ListIds(expired) /\ m \in done
  BY DEF Shared, Parted
<1>8. \E s : Places(m) = {s}
  BY <1>2, <1>3, <1>4, <1>5, <1>6, <1>7
<1>9. PICK s : Places(m) = {s}
  BY <1>8
<1>10. QED
  BY <1>9, FS_Singleton

(* The ids are shared out in every state.                                  *)
LEMMA SharedInvariant == Spec => []Shared
  BY SharedInit, SharedStep, TypeCorrect, PTL DEF Spec

(* Nothing is lost and nothing runs twice, whatever the order of           *)
(* admissions, sheddings, dispatches, completions and evictions: every id  *)
(* admit gave out is in exactly one place in every state.                  *)
THEOREM NothingIsLost == Spec => []Conserved
  BY SharedInvariant, TypeCorrect, SharedMeansConserved, PTL

-----------------------------------------------------------------------------
(* The idle list reaches every idle key.  The links agree even of a ring   *)
(* detached from head and tail, so LinksAgree does not say it; a rank that *)
(* grows along the list does, because a set of ranks has a least element.  *)

RankedBy(r, p, prev) ==
  \A k \in Keys : p[k] = Idle /\ prev[k] # None => r[prev[k]] < r[k]

Ranked == \E r \in [Keys -> Nat] : RankedBy(r, presence, idle_prev)

(* A set of natural numbers has a least element.                           *)
LEMMA LeastNatural ==
  ASSUME NEW T, T \subseteq Nat, T # {}
  PROVE  \E x \in T : \A y \in T : x <= y
<1> DEFINE R == OpToRel(<, Nat)
<1>1. IsWellFoundedOn(R, Nat)
  BY NatLessThanWellFounded
<1>2. \A x, y \in Nat : y < x => <<y, x>> \in R
  BY DEF OpToRel
<1> HIDE DEF R
<1>3. \E x \in T : \A y \in T : ~ (<<y, x>> \in R)
  BY <1>1, WFMin
<1>4. PICK x \in T : \A y \in T : ~ (<<y, x>> \in R)
  BY <1>3
<1>5. ASSUME NEW y \in T PROVE x <= y
  <2>1. x \in Nat /\ y \in Nat /\ ~ (<<y, x>> \in R)
    BY <1>4
  <2>2. ~ (y < x)
    BY <1>2, <2>1
  <2>3. QED
    BY <2>1, <2>2
<1>6. QED
  BY <1>5

(* A ranked list with no head is empty.                                    *)
LEMMA NoHeadNoIdle ==
  ASSUME BookInv, Ranked, idle_head = None
  PROVE  \A k \in Keys : presence[k] # Idle
<1> SUFFICES ASSUME NEW k0 \in Keys, presence[k0] = Idle PROVE FALSE
  OBVIOUS
<1>1. PICK r \in [Keys -> Nat] : RankedBy(r, presence, idle_prev)
  BY DEF Ranked
<1> DEFINE T == {r[k] : k \in {l \in Keys : presence[l] = Idle}}
<1>2. T \subseteq Nat /\ T # {}
  BY <1>1
<1> HIDE DEF T
<1>3. PICK x \in T : \A y \in T : x <= y
  BY <1>2, LeastNatural
<1>4. PICK k \in Keys : presence[k] = Idle /\ x = r[k]
  BY <1>3 DEF T
<1> DEFINE p == idle_prev[k]
<1>5. p # None /\ presence[p] = Idle
  <2>1. IF p = None THEN idle_head = k ELSE presence[p] = Idle
    BY <1>4 DEF BookInv, LinksAgree
  <2>2. k # None
    BY BookConstants
  <2>3. QED
    BY <2>1, <2>2
<1>6. p \in Keys
  BY <1>5 DEF BookInv, TypeOK
<1>7. r[p] < r[k] /\ r[p] \in Nat /\ r[k] \in Nat
  BY <1>1, <1>4, <1>5, <1>6 DEF RankedBy
<1>8. r[p] \in T
  BY <1>5, <1>6 DEF T
<1>9. r[k] <= r[p]
  BY <1>3, <1>4, <1>8
<1>10. QED
  BY <1>7, <1>9

(* No key becomes idle and no link moves.                                  *)
LEMMA RankKept ==
  ASSUME Ranked, idle_prev' = idle_prev,
         \A k \in Keys : presence'[k] = Idle => presence[k] = Idle
  PROVE  Ranked'
  BY DEF Ranked, RankedBy

(* A key joins the tail: it ranks behind it.                               *)
LEMMA RankJoins ==
  ASSUME BookInv, Ranked, NEW k \in Keys, IdleLink(k), presence[k] # Idle,
         presence' = [presence EXCEPT ![k] = Idle]
  PROVE  Ranked'
<1>1. PICK r \in [Keys -> Nat] : RankedBy(r, presence, idle_prev)
  BY DEF Ranked
<1>2. /\ presence \in [Keys -> Presences] /\ idle_prev \in [Keys -> Keys \cup {None}]
      /\ idle_tail \in Keys \cup {None}
  BY DEF BookInv, TypeOK
<1>3. idle_prev' = [idle_prev EXCEPT ![k] = idle_tail]
  BY DEF IdleLink
<1> DEFINE v == IF idle_tail = None THEN 0 ELSE r[idle_tail] + 1
           s == [r EXCEPT ![k] = v]
<1>4. v \in Nat
  BY <1>2
<1>5. idle_tail # None => idle_tail \in Keys /\ idle_tail # k /\ r[idle_tail] < v
  BY <1>2 DEF BookInv, LinksAgree
<1> HIDE DEF v
<1>6. s \in [Keys -> Nat]
  BY <1>4
<1>7. s[k] = v /\ \A l \in Keys : l # k => s[l] = r[l]
  OBVIOUS
<1> HIDE DEF s
<1>8. ASSUME NEW l \in Keys, presence'[l] = Idle, idle_prev'[l] # None
      PROVE  s[idle_prev'[l]] < s[l]
  <2>1. CASE l = k
    <3>1. idle_prev'[l] = idle_tail
      BY <1>2, <1>3, <2>1
    <3>2. idle_tail \in Keys /\ idle_tail # k /\ r[idle_tail] < v
      BY <1>5, <1>8, <3>1
    <3>3. s[idle_tail] = r[idle_tail] /\ s[l] = v
      BY <1>7, <2>1, <3>2
    <3>4. QED
      BY <3>1, <3>2, <3>3
  <2>2. CASE l # k
    <3>1. presence[l] = Idle /\ idle_prev'[l] = idle_prev[l]
      BY <1>2, <1>3, <1>8, <2>2
    <3>2. idle_prev[l] \in Keys /\ presence[idle_prev[l]] = Idle
      BY <1>2, <1>8, <3>1 DEF BookInv, LinksAgree
    <3>3. r[idle_prev[l]] < r[l]
      BY <1>1, <1>8, <3>1 DEF RankedBy
    <3>4. idle_prev[l] # k
      BY <3>2
    <3>5. QED
      BY <1>7, <2>2, <3>1, <3>2, <3>3, <3>4
  <2>3. QED
    BY <2>1, <2>2
<1>9. RankedBy(s, presence', idle_prev')
  BY <1>8 DEF RankedBy
<1>10. QED
  BY <1>6, <1>9 DEF Ranked

(* A key leaves: the rank of the one behind it still exceeds that of the   *)
(* one before it.                                                          *)
LEMMA RankLeaves ==
  ASSUME BookInv, Ranked, NEW k \in Keys, Unlink(k), presence[k] = Idle,
         NEW v, v # Idle, presence' = [presence EXCEPT ![k] = v]
  PROVE  Ranked'
<1>1. PICK r \in [Keys -> Nat] : RankedBy(r, presence, idle_prev)
  BY DEF Ranked
<1>2. /\ presence \in [Keys -> Presences] /\ idle_prev \in [Keys -> Keys \cup {None}]
      /\ idle_next \in [Keys -> Keys \cup {None}]
  BY DEF BookInv, TypeOK
<1> DEFINE p == idle_prev[k]
           n == idle_next[k]
<1>3. idle_prev' = [j \in Keys |-> IF j = k THEN None ELSE IF j = n THEN p ELSE idle_prev[j]]
  BY DEF Unlink, Relinked
<1>4. ASSUME NEW l \in Keys, presence'[l] = Idle, idle_prev'[l] # None
      PROVE  r[idle_prev'[l]] < r[l]
  <2>1. l # k /\ presence[l] = Idle
    BY <1>2, <1>4
  <2>2. CASE l # n
    <3>1. idle_prev'[l] = idle_prev[l]
      BY <1>3, <2>1, <2>2
    <3>2. QED
      BY <1>1, <1>4, <2>1, <3>1 DEF RankedBy
  <2>3. CASE l = n
    <3>1. idle_prev'[l] = p
      BY <1>3, <2>1, <2>3
    <3>2. n # None
      BY <2>3, BookConstants
    <3>3. idle_prev[n] = k
      BY <3>2 DEF BookInv, LinksAgree
    <3>4. k # None
      BY BookConstants
    <3>5. r[k] < r[l]
      BY <1>1, <2>1, <2>3, <3>3, <3>4 DEF RankedBy
    <3>6. r[p] < r[k] /\ p \in Keys
      BY <1>1, <1>2, <1>4, <3>1 DEF RankedBy
    <3>7. r[p] \in Nat /\ r[k] \in Nat /\ r[l] \in Nat
      BY <3>6
    <3>8. QED
      BY <3>1, <3>5, <3>6, <3>7
  <2>4. QED
    BY <2>2, <2>3
<1>5. RankedBy(r, presence', idle_prev')
  BY <1>4 DEF RankedBy
<1>6. QED
  BY <1>5 DEF Ranked

(* settle and place: a ring, or the tail of the idle list.                 *)
LEMMA PlaceRanks ==
  ASSUME BookInv, Ranked, NEW k \in Keys, presence[k] # Idle, NEW q \in Seq(Items),
         NEW rings, Place(k, q, rings)
  PROVE  Ranked'
<1>1. presence \in [Keys -> Presences]
  BY DEF BookInv, TypeOK
<1>2. CASE q # <<>>
  <2>1. presence' = [presence EXCEPT ![k] = Head(q).class] /\ idle_prev' = idle_prev
    BY <1>2 DEF Place, Ready, TargetRing, links
  <2>2. Head(q) \in Items
    BY <1>2
  <2>3. Head(q).class # Idle
    BY <2>2, ItemType, ClassesApart
  <2>4. \A l \in Keys : presence'[l] = Idle => presence[l] = Idle
    BY <1>1, <2>1, <2>3
  <2>5. QED
    BY <2>1, <2>4, RankKept
<1>3. CASE q = <<>>
  <2>1. presence' = [presence EXCEPT ![k] = Idle] /\ IdleLink(k)
    BY <1>3 DEF Place
  <2>2. QED
    BY <2>1, RankJoins
<1>4. QED
  BY <1>2, <1>3

(* Every step keeps the list ranked.                                       *)
LEMMA RankedStep ==
  ASSUME BookInv, Ranked, [Next]_vars
  PROVE  Ranked'
<1>1. /\ presence \in [Keys -> Presences] /\ queue \in [Keys -> Seq(Items)]
      /\ ready \in [Classes -> Seq(Keys)]
  BY DEF BookInv, TypeOK
<1>2. ASSUME NEW k \in Keys, NEW c \in Classes, NEW d \in Deadlines, Admit(k, c, d)
      PROVE  Ranked'
  <2>1. c # Idle
    BY ClassesApart
  <2>2. CASE presence[k] = Idle
    <3>1. Unlink(k) /\ presence' = [presence EXCEPT ![k] = c]
      BY <1>2, <2>2 DEF Admit, Joins, Ready
    <3>2. QED
      BY <2>1, <2>2, <3>1, RankLeaves
  <2>3. CASE presence[k] # Idle
    <3>1. idle_prev' = idle_prev
      BY <1>2, <2>3 DEF Admit, links
    <3>2. presence' = presence \/ presence' = [presence EXCEPT ![k] = c]
      BY <1>2 DEF Admit, Ready
    <3>3. \A l \in Keys : presence'[l] = Idle => presence[l] = Idle
      BY <1>1, <2>1, <3>2
    <3>4. QED
      BY <3>1, <3>3, RankKept
  <2>4. QED
    BY <2>2, <2>3
<1>3. ASSUME NEW c \in Classes, NextTakes(c) PROVE Ranked'
  <2>1. PICK k : presence' = [presence EXCEPT ![k] = InFlight]
    BY <1>3 DEF NextTakes
  <2>2. idle_prev' = idle_prev
    BY <1>3 DEF NextTakes, links
  <2>3. \A l \in Keys : presence'[l] = Idle => presence[l] = Idle
    BY <1>1, <2>1, ClassesApart
  <2>4. QED
    BY <2>2, <2>3, RankKept
<1>4. ASSUME NEW c \in Classes, NextSkips(c) PROVE Ranked'
  <2> DEFINE k == Head(ready[c])
             q == queue[k]
             rings == [ready EXCEPT ![c] = Tail(@)]
  <2>1. ready[c] # <<>>
    BY <1>4 DEF NextSkips
  <2>2. k \in Keys /\ q \in Seq(Items) /\ ready[c][1] = k /\ 1 \in 1 .. Len(ready[c])
    BY <1>1, <2>1
  <2>3. presence[k] = c
    BY <2>2 DEF BookInv, RingsAgree, Ready
  <2>4. PICK n \in 0 .. Len(q) : Place(k, SubSeq(q, n + 1, Len(q)), rings)
    BY <1>4 DEF NextSkips
  <2>5. n + 1 \in Nat \ {0} /\ Len(q) \in Nat
    BY <2>2, <2>4
  <2>6. SubSeq(q, n + 1, Len(q)) \in Seq(Items)
    BY <2>2, <2>5, SubSeqType
  <2>7. presence[k] # Idle
    BY <2>3, ClassesApart
  <2> HIDE DEF k, q, rings
  <2>8. QED
    BY <2>2, <2>4, <2>6, <2>7, PlaceRanks
<1>5. ASSUME NEW d \in outstanding, NEW keep \in BOOLEAN, Complete(d, keep) PROVE Ranked'
  <2> DEFINE k == d.item.key
  <2>1. k \in Keys /\ queue[k] \in Seq(Items)
    BY <1>1, OwnedKeys DEF BookInv
  <2>2. presence[k] # Idle
    BY ClassesApart DEF BookInv, OwnersAgree
  <2>3. Place(k, queue[k], ready)
    BY <1>5 DEF Complete
  <2> HIDE DEF k
  <2>4. QED
    BY <2>1, <2>2, <2>3, PlaceRanks
<1>6. CASE Evict \/ EvictAll
  <2>1. ReleaseHead /\ idle_head # None
    BY <1>6 DEF Evict, EvictAll
  <2>2. idle_head \in Keys /\ presence[idle_head] = Idle
    BY <2>1 DEF BookInv, TypeOK, LinksAgree
  <2>3. /\ Unlink(idle_head)
        /\ \/ presence' = [presence EXCEPT ![idle_head] = Absent]
           \/ presence' = [presence EXCEPT ![idle_head] = Evicting]
    BY <2>1 DEF ReleaseHead, Releases
  <2>4. QED
    BY <2>2, <2>3, RankLeaves, ClassesApart
<1>7. ASSUME NEW f \in flushing, FinishEvict(f) PROVE Ranked'
  <2> DEFINE k == f.key
  <2>1. k \in Keys /\ queue[k] \in Seq(Items)
    BY <1>1, OwnedKeys DEF BookInv
  <2>2. presence[k] # Idle
    BY ClassesApart DEF BookInv, OwnersAgree
  <2>3. CASE queue[k] # <<>>
    <3>1. Place(k, queue[k], ready)
      BY <1>7, <2>3 DEF FinishEvict
    <3> HIDE DEF k
    <3>2. QED
      BY <2>1, <2>2, <3>1, PlaceRanks
  <2>4. CASE queue[k] = <<>>
    <3>1. presence' = [presence EXCEPT ![k] = Absent] /\ idle_prev' = idle_prev
      BY <1>7, <2>4 DEF FinishEvict, links
    <3>2. \A l \in Keys : presence'[l] = Idle => presence[l] = Idle
      BY <1>1, <3>1, ClassesApart
    <3>3. QED
      BY <3>1, <3>2, RankKept
  <2>5. QED
    BY <2>3, <2>4
<1>8. CASE PopExpired \/ EvictBreaks \/ ClockAdvances \/ UNCHANGED vars
  <2>1. idle_prev' = idle_prev /\ presence' = presence
    BY <1>8 DEF PopExpired, EvictBreaks, ClockAdvances, vars, links
  <2>2. QED
    BY <2>1, RankKept
<1>9. QED
  BY <1>2, <1>3, <1>4, <1>5, <1>6, <1>7, <1>8 DEF Next

(* evict and evict_all walk the whole list: as long as a key is idle the   *)
(* list has a head, so that evict_all, which ends with the list, leaves no *)
(* idle key behind.                                                        *)
IdleIsReachable == (\E k \in Keys : presence[k] = Idle) => idle_head # None

(* The idle list is ranked in every state.                                 *)
LEMMA RankedInvariant == Spec => []Ranked
<1>1. Init => Ranked
  <2> SUFFICES ASSUME Init PROVE Ranked
    OBVIOUS
  <2>1. \A k \in Keys : presence[k] # Idle
    BY ClassesApart DEF Init
  <2>2. RankedBy([k \in Keys |-> 0], presence, idle_prev)
    BY <2>1 DEF RankedBy
  <2>3. QED
    BY <2>2 DEF Ranked
<1>2. QED
  BY <1>1, RankedStep, BookInvariant, PTL DEF Spec

(* No idle key is ever out of reach of the eviction walk, for any number   *)
(* of keys and any order of admissions and completions.                    *)
THEOREM IdleAlwaysReachable == Spec => []IdleIsReachable
<1>1. BookInv /\ Ranked => IdleIsReachable
  BY NoHeadNoIdle DEF IdleIsReachable
<1>2. QED
  BY <1>1, RankedInvariant, BookInvariant, PTL

=============================================================================
