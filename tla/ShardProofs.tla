---------------------------- MODULE ShardProofs ----------------------------
(***************************************************************************)
(* What holds of a running shard, whatever submitters, futures and ticks   *)
(* do, for every configuration.                                            *)
(*                                                                         *)
(* The reactor drives the book by its methods only, so what BookProofs     *)
(* shows of the book holds inside it.  On top of that, four inductive      *)
(* invariants of the loop: FlushesGated and FuturesTracked (the            *)
(* outstanding set never overflows), Quiet with RingsQuiet (it never       *)
(* sleeps on work), Indexed (the coalescing index is exact), and Leaving   *)
(* with LeftBehind (what is left when it returns).                         *)
(***************************************************************************)
EXTENDS Shard, BookProofs

(* What a stage hands to the book is in range: the class it visits, and    *)
(* the envelopes it may receive.                                           *)
ArgumentsInRange ==
  /\ class \in Classes
  /\ inbox \in Seq(Envelopes)

(* Every stage of a turn that is not a call of the book leaves it alone,   *)
(* and every other is one step of one of its methods.                      *)
LEMMA TurnIsBookStep ==
  ASSUME ArgumentsInRange, Turn
  PROVE  [Next]_vars
<1> USE DEF book
<1>1. CASE DispatchTakes \/ DispatchSkips
  BY <1>1 DEF ArgumentsInRange, DispatchTakes, DispatchSkips, Next
<1>2. CASE DispatchEnds \/ BeginFlushes \/ FinalFlush \/ FinalEnds
  BY <1>2 DEF DispatchEnds, BeginFlushes, FinalFlush, FinalEnds
<1>3. CASE Shed
  BY <1>3 DEF Shed, Next
<1>4. CASE FinalEvicts
  BY <1>4 DEF FinalEvicts, Next
<1>5. CASE DrainAdmits
  <2>1. Head(inbox) \in Envelopes
    BY <1>5 DEF DrainAdmits, ArgumentsInRange
  <2>2. PICK k \in Keys, c \in Classes, d \in Deadlines : Admit(k, c, d)
    BY <1>5, <2>1 DEF DrainAdmits, Envelopes
  <2>3. QED
    BY <2>2 DEF Next
<1>6. CASE DrainCoalesces \/ DrainFindsNothing \/ DrainStops \/ HarvestBegins \/ HarvestEnds
  BY <1>6 DEF DrainCoalesces, DrainFindsNothing, DrainStops, HarvestBegins, HarvestEnds
<1>7. ASSUME NEW f \in batch, PollSuspends(f) PROVE UNCHANGED vars
  BY <1>7 DEF PollSuspends
<1>8. ASSUME NEW d \in batch, NEW keep \in BOOLEAN, NEW panicked \in BOOLEAN,
             PollCompletes(d, keep, panicked)
      PROVE  Next
  BY <1>8 DEF PollCompletes, Next
<1>9. ASSUME NEW f \in batch, PollFlushed(f) PROVE Next
  BY <1>9 DEF PollFlushed, Next
<1>10. CASE SweepEvicts \/ SweepBreaks
  BY <1>10 DEF SweepEvicts, SweepBreaks, Next
<1>11. CASE TickFires \/ SweepFindsNothing \/ GoOn \/ Sleep \/ Awake
  BY <1>11 DEF TickFires, SweepFindsNothing, GoOn, Sleep, Awake
<1>12. QED
  BY <1>1, <1>2, <1>3, <1>4, <1>5, <1>6, <1>7, <1>8, <1>9, <1>10, <1>11 DEF Turn

(* The same of every step of the shard and its surroundings.               *)
LEMMA ShardIsBookStep ==
  ASSUME ArgumentsInRange, [ShardNext]_shardvars
  PROVE  [Next]_vars
<1> USE DEF book
<1>1. CASE Turn
  BY <1>1, TurnIsBookStep
<1>2. CASE ReadsClock
  BY <1>2 DEF ReadsClock, Next
<1>3. ASSUME \/ TickWakes \/ Shutdown \/ UNCHANGED shardvars
             \/ \E f \in suspended : FutureWakes(f)
             \/ \E e \in Submissions : Send(e)
      PROVE  UNCHANGED vars
  BY <1>3 DEF TickWakes, Shutdown, shardvars, FutureWakes, Send
<1>4. QED
  BY <1>1, <1>2, <1>3 DEF ShardNext

(* Every step keeps the arguments in range.                                *)
LEMMA ArgumentsStep ==
  ASSUME ArgumentsInRange, [ShardNext]_shardvars
  PROVE  ArgumentsInRange'
<1> USE DEF turn, scan, flow, futures, outside
<1>1. class' = class \/ NextClass \/ class' = 0
  BY DEF ShardNext, shardvars, Turn, DispatchTakes, DispatchSkips, DispatchEnds, Shed,
     BeginFlushes, FinalFlush, FinalEvicts, FinalEnds, DrainAdmits, DrainCoalesces,
     Receive, DrainFindsNothing, DrainStops, HarvestBegins, PollSuspends, Polled,
     PollCompletes, PollFlushed, HarvestEnds, TickFires, SweepEvicts, SweepBreaks,
     SweepFindsNothing, GoOn, Sleep, Awake, TickWakes, ReadsClock, FutureWakes, Send,
     Shutdown
<1>2. class' \in Classes
  BY <1>1, BookConstants DEF NextClass, ArgumentsInRange, Classes
<1>3. \/ inbox' = inbox
      \/ inbox # <<>> /\ inbox' = Tail(inbox)
      \/ \E e \in Submissions : inbox' = Append(inbox, e)
  BY DEF ShardNext, shardvars, Turn, DispatchTakes, DispatchSkips, DispatchEnds, Shed,
     BeginFlushes, FinalFlush, FinalEvicts, FinalEnds, DrainAdmits, DrainCoalesces,
     Receive, DrainFindsNothing, DrainStops, HarvestBegins, PollSuspends, Polled,
     PollCompletes, PollFlushed, HarvestEnds, TickFires, SweepEvicts, SweepBreaks,
     SweepFindsNothing, GoOn, Sleep, Awake, TickWakes, ReadsClock, FutureWakes, Send,
     Shutdown
<1>4. inbox' \in Seq(Envelopes)
  BY <1>3, ShardConstants DEF ArgumentsInRange
<1>5. QED
  BY <1>2, <1>4 DEF ArgumentsInRange

-----------------------------------------------------------------------------

(* A shard runs its book as the book means to be run: every behaviour of   *)
(* the reactor loop is, seen from the book, a behaviour of Book (run of    *)
(* shard.rs against the contract of grommet-core).                         *)
THEOREM ShardRunsTheBook == ShardSpec => Spec
<1>1. ShardInit => Init /\ ArgumentsInRange
  BY BookConstants DEF ShardInit, ArgumentsInRange, Classes
<1>2. ArgumentsInRange /\ [ShardNext]_shardvars => [Next]_vars /\ ArgumentsInRange'
  BY ShardIsBookStep, ArgumentsStep
<1>3. QED
  BY <1>1, <1>2, PTL DEF ShardSpec, Spec

(* In a running shard a key never has two owners: not two dispatches, not  *)
(* two flushes, not one of each, across expiries, panics and shutdown.     *)
THEOREM ShardOwnsExclusively == ShardSpec => []ExclusiveOwner
BY ShardRunsTheBook, OwnershipIsExclusive, PTL

(* Nothing a shard admits is lost or runs twice, whatever expires, panics  *)
(* or is evicted meanwhile.                                                *)
THEOREM ShardLosesNothing == ShardSpec => []Conserved
BY ShardRunsTheBook, NothingIsLost, PTL

(* A shard's dispatches, flushes and queues add up to its counters, within *)
(* every budget of its configuration.                                      *)
THEOREM ShardCountsRight == ShardSpec => []CountersAgree
BY ShardRunsTheBook, CountersAlwaysAgree, PTL

(* What a shard hands to a processor or to on_evict is the latest state.   *)
THEOREM ShardStateIsLatest == ShardSpec => []StateIsLatest
BY ShardRunsTheBook, StateIsAlwaysLatest, PTL

(* A shard keeps the per-key promise: first come first run, one owner at a *)
(* time, across its whole life.                                            *)
THEOREM ShardImplementsAffinity == ShardSpec => ImplementsAffinity
BY ShardRunsTheBook, BookImplementsAffinity, PTL

-----------------------------------------------------------------------------
(* The flush gate.  Evicted keys are staged, in flight, or back; the       *)
(* flushes in flight are counted by `flushes` and never exceed the slots.  *)

Candidates == [key : Keys, state : Nat]

(* No candidate is staged twice.                                           *)
OnceStaged(s) == \A i, j \in 1 .. Len(s) : s[i] = s[j] => i = j

FlushesGated ==
  /\ staged \in Seq(Candidates)
  /\ OnceStaged(staged)
  /\ \A i \in 1 .. Len(staged) : staged[i] \in flushing
  /\ flushes \in Int
  /\ flushes <= FlushSlots
  /\ evicting = flushes + Len(staged)

StagedSet(s) == {s[i] : i \in 1 .. Len(s)}

(* The futures the loop tracks are the outstanding ones; none is both      *)
(* marked and in the harvest under way; no harvest outlives its stage.     *)
FuturesTracked ==
  /\ marked \cup batch \cup suspended \subseteq outstanding \cup (flushing \ StagedSet(staged))
  /\ marked \cap batch = {}
  /\ pc # "poll" => batch = {}

(* ToSet of a sequence, by its positions.                                  *)
LEMMA ToSetStaged ==
  ASSUME NEW S, NEW s \in Seq(S)
  PROVE  ToSet(s) = StagedSet(s)
BY DEF ToSet, StagedSet

(* The one way to list a set of at most one element.                       *)
LEMMA ListNone == SetToSeq({}) = <<>>
<1>1. Cardinality({}) = 0 /\ 1 .. 0 = {}
  BY FS_EmptySet
<1>2. \A f \in [1 .. 0 -> {}] : f = <<>>
  OBVIOUS
<1>3. <<>> \in [1 .. 0 -> {}] /\ IsInjective(<<>>)
  BY DEF IsInjective
<1>4. SetToSeq({}) \in [1 .. 0 -> {}]
  BY <1>1, <1>3 DEF SetToSeq
<1>5. QED
  BY <1>2, <1>4

(* SetToSeq of one element.                                                *)
LEMMA ListOne ==
  ASSUME NEW x
  PROVE  SetToSeq({x}) = <<x>>
<1>1. Cardinality({x}) = 1
  BY FS_Singleton
<1>2. \A f \in [1 .. 1 -> {x}] : f = <<x>>
  OBVIOUS
<1>3. <<x>> \in [1 .. 1 -> {x}] /\ IsInjective(<<x>>)
  BY DEF IsInjective
<1>4. SetToSeq({x}) \in [1 .. 1 -> {x}]
  BY <1>1, <1>3 DEF SetToSeq
<1>5. QED
  BY <1>2, <1>4

(* A dispatch is not a flush.                                              *)
LEMMA DispatchIsNoFlush ==
  ASSUME TypeOK, NEW d \in outstanding, NEW f \in Candidates
  PROVE  d # f
<1>1. d \in [item : Items, state : Nat]
  BY DEF TypeOK
<1>2. DOMAIN d = {"item", "state"} /\ DOMAIN f = {"key", "state"}
  BY <1>1 DEF Candidates
<1>3. QED
  BY <1>2

(* A release hands out a flush.                                            *)
HandsOut(ff) ==
  ff \notin flushing /\ flushing' = flushing \cup {ff} /\ evicting' = evicting + 1

(* What a release does to the flushes.                                     *)
LEMMA ReleaseHandsOut ==
  ASSUME BookInv, ReleaseHead, idle_head # None
  PROVE  UNCHANGED <<flushing, evicting>> \/ \E ff \in Candidates : HandsOut(ff)
<1> DEFINE k == idle_head
           ff == [key |-> k, state |-> resident[k]]
<1>1. /\ k \in Keys /\ presence[k] = Idle /\ resident \in [Keys -> Nat]
  BY DEF TypeOK, BookInv, LinksAgree
<1>2. \/ flushing' = flushing /\ evicting' = evicting
      \/ evicting' = evicting + 1 /\ flushing' = flushing \cup {ff}
  BY DEF ReleaseHead, Releases
<1>3. ff.key = k /\ ff \in Candidates
  BY <1>1 DEF Candidates
<1> HIDE DEF ff, k
<1>4. ff \notin flushing
  BY <1>1, <1>3, ClassesApart DEF BookInv, OwnersAgree
<1>5. QED
  BY <1>2, <1>3, <1>4 DEF HandsOut

(* One candidate more, of no key staged or in flight.                      *)
LEMMA StageOne ==
  ASSUME NEW s \in Seq(Candidates), NEW F, NEW x \in Candidates, x \notin F, OnceStaged(s),
         \A i \in 1 .. Len(s) : s[i] \in F
  PROVE  LET t == Append(s, x)
         IN /\ t \in Seq(Candidates) /\ OnceStaged(t) /\ Len(t) = Len(s) + 1
            /\ \A i \in 1 .. Len(t) : t[i] \in F \cup {x}
            /\ StagedSet(t) = StagedSet(s) \cup {x}
<1> DEFINE t == Append(s, x)
           n == Len(s)
<1>1. n \in Nat /\ t \in Seq(Candidates) /\ Len(t) = n + 1 /\ t[n + 1] = x
  OBVIOUS
<1>2. \A i \in 1 .. n : t[i] = s[i] /\ t[i] # x
  OBVIOUS
<1> HIDE DEF t
<1>3. \A i \in 1 .. Len(t) : (i \in 1 .. n /\ t[i] = s[i]) \/ (i = n + 1 /\ t[i] = x)
  BY <1>1, <1>2
<1>4. OnceStaged(t)
  BY <1>2, <1>3 DEF OnceStaged
<1>5. \A i \in 1 .. Len(t) : t[i] \in F \cup {x}
  BY <1>3
<1>6. \A i \in 1 .. n : i \in 1 .. Len(t)
  BY <1>1
<1>7. StagedSet(t) = StagedSet(s) \cup {x}
  <2>1. ASSUME NEW y \in StagedSet(t) PROVE y \in StagedSet(s) \cup {x}
    BY <1>3, <2>1 DEF StagedSet
  <2>2. ASSUME NEW y \in StagedSet(s) PROVE y \in StagedSet(t)
    <3>1. PICK i \in 1 .. n : y = s[i]
      BY <2>2 DEF StagedSet
    <3>2. QED
      BY <1>2, <1>6, <3>1 DEF StagedSet
  <2>3. n + 1 \in 1 .. Len(t)
    BY <1>1
  <2>4. x \in StagedSet(t)
    BY <1>1, <2>3 DEF StagedSet
  <2>5. QED
    BY <2>1, <2>2, <2>4
<1>8. QED
  BY <1>1, <1>4, <1>5, <1>7 DEF t

(* What a sweep or the last pass stages.                                   *)
LEMMA EvictStages ==
  ASSUME BookInv, FlushesGated, ReleaseHead, idle_head # None, staged' = Staged
  PROVE  \/ UNCHANGED <<staged, flushing, evicting>>
         \/ \E ff \in Candidates : HandsOut(ff) /\ staged' = Append(staged, ff)
<1>1. staged \in Seq(Candidates)
  BY DEF FlushesGated
<1>2. CASE UNCHANGED <<flushing, evicting>>
  <2>1. flushing' \ flushing = {}
    BY <1>2
  <2>2. staged' = staged \o <<>>
    BY <2>1, ListNone DEF Staged
  <2>3. QED
    BY <1>1, <1>2, <2>2
<1>3. ASSUME NEW ff \in Candidates, HandsOut(ff)
      PROVE  staged' = Append(staged, ff)
  <2>1. flushing' \ flushing = {ff}
    BY <1>3 DEF HandsOut
  <2>2. staged' = staged \o <<ff>>
    BY <2>1, ListOne DEF Staged
  <2>3. QED
    BY <1>1, <2>2
<1>4. QED
  BY <1>2, <1>3, ReleaseHandsOut

(* The first n candidates leave: they are in flight, the others staged.    *)
LEMMA CutStaged ==
  ASSUME NEW s \in Seq(Candidates), OnceStaged(s), NEW n \in Nat, n <= Len(s)
  PROVE  LET a == SubSeq(s, 1, n)
             t == SubSeq(s, n + 1, Len(s))
         IN /\ t \in Seq(Candidates) /\ OnceStaged(t) /\ Len(t) = Len(s) - n
            /\ \A i \in 1 .. Len(t) : t[i] \in StagedSet(s)
            /\ StagedSet(t) \subseteq StagedSet(s)
            /\ ToSet(a) \subseteq StagedSet(s) \ StagedSet(t)
<1> DEFINE a == SubSeq(s, 1, n)
           t == SubSeq(s, n + 1, Len(s))
<1>1. Len(s) \in Nat /\ \A i \in 1 .. Len(s) : s[i] \in Candidates
  OBVIOUS
<1>2. t \in Seq(Candidates) /\ a \in Seq(Candidates)
  <2>1. \A i \in n + 1 .. Len(s) : s[i] \in Candidates
    BY <1>1
  <2>2. \A i \in 1 .. n : s[i] \in Candidates
    BY <1>1
  <2>3. t \in Seq(Candidates)
    BY <1>1, <2>1
  <2>4. a \in Seq(Candidates)
    BY <1>1, <2>2
  <2>5. QED
    BY <2>3, <2>4
<1>3. Len(t) = Len(s) - n /\ \A i \in 1 .. Len(s) - n : t[i] = s[i + n]
  BY <1>1
<1>4. Len(a) = n /\ \A i \in 1 .. n : a[i] = s[i]
  BY <1>1
<1> HIDE DEF a, t
<1>5. ASSUME NEW i \in 1 .. Len(t) PROVE t[i] = s[i + n] /\ i + n \in 1 .. Len(s) /\ i + n > n
  BY <1>1, <1>3
<1>6. OnceStaged(t)
  <2> SUFFICES ASSUME NEW i \in 1 .. Len(t), NEW j \in 1 .. Len(t), t[i] = t[j] PROVE i = j
    BY DEF OnceStaged
  <2>1. s[i + n] = s[j + n] /\ i + n \in 1 .. Len(s) /\ j + n \in 1 .. Len(s)
    BY <1>5
  <2>2. i + n = j + n
    BY <2>1 DEF OnceStaged
  <2>3. QED
    BY <2>2
<1>7. \A i \in 1 .. Len(t) : t[i] \in StagedSet(s)
  BY <1>5 DEF StagedSet
<1>8. StagedSet(t) \subseteq StagedSet(s)
  BY <1>7 DEF StagedSet
<1>9. ASSUME NEW x \in ToSet(a) PROVE x \in StagedSet(s) /\ x \notin StagedSet(t)
  <2>1. x \in StagedSet(a)
    BY <1>2, <1>9, ToSetStaged
  <2>2. PICK j \in 1 .. n : x = s[j]
    BY <1>4, <2>1 DEF StagedSet
  <2>3. j \in 1 .. Len(s)
    BY <1>1
  <2>4. ASSUME NEW i \in 1 .. Len(t), x = t[i] PROVE FALSE
    <3>1. s[j] = s[i + n] /\ i + n \in 1 .. Len(s) /\ i + n > n
      BY <1>5, <2>2, <2>4
    <3>2. j = i + n
      BY <2>3, <3>1 DEF OnceStaged
    <3>3. QED
      BY <3>1, <3>2
  <2>5. QED
    BY <2>2, <2>3, <2>4 DEF StagedSet
<1>10. QED
  BY <1>2, <1>3, <1>6, <1>7, <1>8, <1>9 DEF a, t

(* How many flushes may start.                                             *)
LEMMA FlushRoomFits ==
  ASSUME FlushesGated
  PROVE  /\ FlushRoom \in Nat /\ FlushRoom <= Len(staged)
         /\ flushes + FlushRoom <= FlushSlots
         /\ FlushRoom < Len(staged) => flushes + FlushRoom = FlushSlots
<1>1. Len(staged) \in Nat /\ flushes \in Int /\ FlushSlots \in Nat /\ flushes <= FlushSlots
  BY ShardConstants DEF FlushesGated
<1>2. QED
  BY <1>1 DEF FlushRoom

(* Every other step leaves the gate alone.                                 *)
LEMMA GateActions ==
  ASSUME [ShardNext]_shardvars
  PROVE  \/ UNCHANGED <<staged, flushes, flushing, evicting>>
         \/ BeginFlushes \/ FinalEvicts \/ SweepEvicts
         \/ \E f \in batch : PollFlushed(f)
<1> USE DEF turn, flow, futures, outside, book, vars, caller
<1>1. CASE DispatchTakes \/ DispatchSkips \/ DispatchEnds \/ Shed
  BY <1>1 DEF DispatchTakes, DispatchSkips, DispatchEnds, Shed, NextTakes, NextSkips,
     PopExpired
<1>2. CASE FinalFlush \/ FinalEnds \/ HarvestBegins \/ HarvestEnds
  BY <1>2 DEF FinalFlush, FinalEnds, HarvestBegins, HarvestEnds
<1>3. CASE DrainAdmits \/ DrainCoalesces \/ DrainFindsNothing \/ DrainStops
  BY <1>3 DEF DrainAdmits, DrainCoalesces, DrainFindsNothing, DrainStops, Receive, Admit
<1>4. CASE \/ \E f \in batch : PollSuspends(f)
           \/ \E d \in batch, keep, panicked \in BOOLEAN : PollCompletes(d, keep, panicked)
  BY <1>4 DEF PollSuspends, PollCompletes, Complete
<1>5. CASE TickFires \/ SweepBreaks \/ SweepFindsNothing \/ GoOn \/ Sleep \/ Awake
  BY <1>5 DEF TickFires, SweepBreaks, SweepFindsNothing, GoOn, Sleep, Awake, EvictBreaks
<1>6. CASE \/ TickWakes \/ ReadsClock \/ Shutdown \/ UNCHANGED shardvars
           \/ \E f \in suspended : FutureWakes(f)
           \/ \E e \in Submissions : Send(e)
  BY <1>6 DEF TickWakes, ReadsClock, Shutdown, shardvars, FutureWakes, Send, ClockAdvances
<1>7. QED
  BY <1>1, <1>2, <1>3, <1>4, <1>5, <1>6 DEF ShardNext, Turn

(* Every step keeps the flush gate.                                        *)
LEMMA GateStep ==
  ASSUME BookInv, FlushesGated, FuturesTracked, [ShardNext]_shardvars
  PROVE  FlushesGated'
<1>1. CASE UNCHANGED <<staged, flushes, flushing, evicting>>
  BY <1>1 DEF FlushesGated
<1>2. CASE BeginFlushes
  <2> DEFINE n == FlushRoom
             t == SubSeq(staged, n + 1, Len(staged))
  <2>1. /\ n \in Nat /\ n <= Len(staged) /\ flushes + n <= FlushSlots
    BY FlushRoomFits
  <2>2. /\ staged' = t /\ flushes' = flushes + n
        /\ flushing' = flushing /\ evicting' = evicting
    BY <1>2 DEF BeginFlushes, book, vars, caller
  <2>3. staged \in Seq(Candidates) /\ Len(staged) \in Nat
    BY DEF FlushesGated
  <2>4. /\ t \in Seq(Candidates) /\ OnceStaged(t) /\ Len(t) = Len(staged) - n
        /\ \A i \in 1 .. Len(t) : t[i] \in StagedSet(staged)
    BY <2>1, <2>3, CutStaged DEF FlushesGated
  <2> HIDE DEF n, t
  <2>5. \A i \in 1 .. Len(t) : t[i] \in flushing
    BY <2>4 DEF FlushesGated, StagedSet
  <2>6. flushes' \in Int /\ evicting' = flushes' + Len(t)
    BY <2>1, <2>2, <2>3, <2>4 DEF FlushesGated
  <2>7. QED
    BY <2>1, <2>2, <2>4, <2>5, <2>6 DEF FlushesGated
<1>3. CASE FinalEvicts \/ SweepEvicts
  <2>1. ReleaseHead /\ idle_head # None /\ staged' = Staged /\ flushes' = flushes
    BY <1>3 DEF FinalEvicts, SweepEvicts, EvictAll, Evict
  <2>2. CASE UNCHANGED <<staged, flushing, evicting>>
    BY <2>1, <2>2 DEF FlushesGated
  <2>3. ASSUME NEW ff \in Candidates, HandsOut(ff), staged' = Append(staged, ff)
        PROVE  FlushesGated'
    <3>1. staged \in Seq(Candidates) /\ Len(staged) \in Nat
      BY DEF FlushesGated
    <3>2. /\ staged' \in Seq(Candidates) /\ OnceStaged(staged')
          /\ Len(staged') = Len(staged) + 1
          /\ \A i \in 1 .. Len(staged') : staged'[i] \in flushing'
      BY <2>3, <3>1, StageOne DEF FlushesGated, HandsOut
    <3>3. evicting' = flushes' + Len(staged')
      BY <2>1, <2>3, <3>1, <3>2 DEF FlushesGated, HandsOut
    <3>4. QED
      BY <2>1, <3>2, <3>3 DEF FlushesGated
  <2>4. QED
    BY <2>1, <2>2, <2>3, EvictStages
<1>4. ASSUME NEW f \in batch, PollFlushed(f) PROVE FlushesGated'
  <2>1. /\ f \in flushing /\ flushing' = flushing \ {f} /\ evicting' = evicting - 1
        /\ flushes' = flushes - 1 /\ staged' = staged
    BY <1>4 DEF PollFlushed, FinishEvict
  <2>2. f \in Candidates
    BY <2>1 DEF BookInv, TypeOK, Candidates
  <2>3. f \notin StagedSet(staged)
    <3>1. f \notin outstanding
      BY <2>2, DispatchIsNoFlush DEF BookInv
    <3>2. QED
      BY <3>1 DEF FuturesTracked
  <2>4. \A i \in 1 .. Len(staged) : staged[i] \in flushing'
    BY <2>1, <2>3 DEF FlushesGated, StagedSet
  <2>5. /\ flushes' \in Int /\ flushes' <= FlushSlots /\ evicting' = flushes' + Len(staged)
    <3>1. Len(staged) \in Nat /\ FlushSlots \in Nat
      BY ShardConstants DEF FlushesGated
    <3>2. QED
      BY <2>1, <3>1 DEF FlushesGated
  <2>6. QED
    BY <2>1, <2>4, <2>5 DEF FlushesGated
<1>5. QED
  BY <1>1, <1>2, <1>3, <1>4, GateActions

(* The futures in the outstanding set, with the state as parameters.       *)
Live(o, fl, s) == o \cup (fl \ StagedSet(s))

(* Every other step leaves the futures alone, and no harvest under way.    *)
LEMMA FutureActions ==
  ASSUME [ShardNext]_shardvars
  PROVE  \/ /\ UNCHANGED <<marked, batch, suspended, outstanding, flushing, staged>>
            /\ pc # "poll" \/ pc' = pc
         \/ DispatchTakes \/ BeginFlushes \/ FinalEvicts \/ SweepEvicts
         \/ HarvestBegins \/ HarvestEnds
         \/ \E f \in batch : PollSuspends(f)
         \/ \E d \in batch, keep, panicked \in BOOLEAN : PollCompletes(d, keep, panicked)
         \/ \E f \in batch : PollFlushed(f)
         \/ \E f \in suspended : FutureWakes(f)
<1> USE DEF turn, flow, futures, outside, book, vars, caller
<1>1. CASE DispatchSkips \/ DispatchEnds \/ Shed
  BY <1>1 DEF DispatchSkips, DispatchEnds, Shed, NextSkips, PopExpired
<1>2. CASE FinalFlush \/ FinalEnds
  BY <1>2 DEF FinalFlush, FinalEnds
<1>3. CASE DrainAdmits \/ DrainCoalesces \/ DrainFindsNothing \/ DrainStops
  BY <1>3 DEF DrainAdmits, DrainCoalesces, DrainFindsNothing, DrainStops, Receive, Admit,
     Draining
<1>4. CASE TickFires \/ SweepBreaks \/ SweepFindsNothing \/ GoOn \/ Sleep \/ Awake
  BY <1>4 DEF TickFires, SweepBreaks, SweepFindsNothing, GoOn, Sleep, Awake, EvictBreaks
<1>5. CASE \/ TickWakes \/ ReadsClock \/ Shutdown \/ UNCHANGED shardvars
           \/ \E e \in Submissions : Send(e)
  BY <1>5 DEF TickWakes, ReadsClock, Shutdown, shardvars, Send, ClockAdvances
<1>6. QED
  BY <1>1, <1>2, <1>3, <1>4, <1>5 DEF ShardNext, Turn

(* Every step tracks the futures.                                          *)
LEMMA FuturesStep ==
  ASSUME BookInv, FlushesGated, FuturesTracked, [ShardNext]_shardvars
  PROVE  FuturesTracked'
<1> DEFINE X == Live(outstanding, flushing, staged)
<1>1. /\ marked \subseteq X /\ batch \subseteq X /\ suspended \subseteq X
      /\ marked \cap batch = {} /\ (pc # "poll" => batch = {})
  BY DEF FuturesTracked, Live
<1>2. ASSUME marked' \subseteq Live(outstanding', flushing', staged'),
             batch' \subseteq Live(outstanding', flushing', staged'),
             suspended' \subseteq Live(outstanding', flushing', staged'),
             marked' \cap batch' = {}, pc' # "poll" => batch' = {}
      PROVE  FuturesTracked'
  BY <1>2 DEF FuturesTracked, Live
<1> HIDE DEF X
<1>3. CASE /\ UNCHANGED <<marked, batch, suspended, outstanding, flushing, staged>>
           /\ pc # "poll" \/ pc' = pc
  BY <1>1, <1>2, <1>3 DEF X
<1>4. CASE DispatchTakes
  <2>1. /\ pc = "dispatch" /\ pc' = pc /\ batch' = batch /\ suspended' = suspended
        /\ marked' = marked \cup (outstanding' \ outstanding) /\ staged' = staged
        /\ flushing' = flushing /\ outstanding \subseteq outstanding'
    BY <1>4 DEF DispatchTakes, NextTakes, turn, flow
  <2>2. X \subseteq Live(outstanding', flushing', staged')
    BY <2>1 DEF Live, X
  <2>3. outstanding' \subseteq Live(outstanding', flushing', staged')
    BY DEF Live
  <2>4. batch = {}
    BY <1>1, <2>1
  <2>5. QED
    BY <1>1, <1>2, <2>1, <2>2, <2>3, <2>4
<1>5. CASE BeginFlushes
  <2> DEFINE n == FlushRoom
             a == SubSeq(staged, 1, n)
             t == SubSeq(staged, n + 1, Len(staged))
  <2>1. /\ pc = "shed" /\ batch' = batch /\ suspended' = suspended
        /\ marked' = marked \cup ToSet(a) /\ staged' = t
        /\ flushing' = flushing /\ outstanding' = outstanding
    BY <1>5 DEF BeginFlushes, book, vars, caller
  <2>2. n \in Nat /\ n <= Len(staged)
    BY FlushRoomFits
  <2>3. /\ StagedSet(t) \subseteq StagedSet(staged)
        /\ ToSet(a) \subseteq StagedSet(staged) \ StagedSet(t)
    BY <2>2, CutStaged DEF FlushesGated
  <2>4. StagedSet(staged) \subseteq flushing
    BY DEF FlushesGated, StagedSet
  <2> HIDE DEF n, a, t
  <2>5. X \cup ToSet(a) \subseteq Live(outstanding', flushing', staged')
    BY <2>1, <2>3, <2>4 DEF Live, X
  <2>6. batch = {}
    BY <1>1, <2>1
  <2>7. QED
    BY <1>1, <1>2, <2>1, <2>5, <2>6
<1>6. CASE FinalEvicts \/ SweepEvicts
  <2>1. /\ ReleaseHead /\ idle_head # None /\ staged' = Staged /\ pc # "poll"
        /\ marked' = marked /\ batch' = batch /\ suspended' = suspended
    BY <1>6 DEF FinalEvicts, SweepEvicts, EvictAll, Evict, futures
  <2>2. outstanding' = outstanding
    BY <2>1 DEF ReleaseHead
  <2>3. batch = {}
    BY <1>1, <2>1
  <2>4. CASE UNCHANGED <<staged, flushing, evicting>>
    BY <1>1, <1>2, <2>1, <2>2, <2>3, <2>4 DEF X
  <2>5. ASSUME NEW ff \in Candidates, HandsOut(ff), staged' = Append(staged, ff)
        PROVE  FuturesTracked'
    <3>1. ff \notin flushing /\ flushing' = flushing \cup {ff}
      BY <2>5 DEF HandsOut
    <3>2. StagedSet(staged') = StagedSet(staged) \cup {ff}
      BY <2>5, <3>1, StageOne DEF FlushesGated
    <3>3. X \subseteq Live(outstanding', flushing', staged')
      BY <2>2, <3>1, <3>2 DEF Live, X
    <3>4. QED
      BY <1>1, <1>2, <2>1, <2>3, <3>3
  <2>6. QED
    BY <2>1, <2>4, <2>5, EvictStages
<1>7. CASE HarvestBegins \/ HarvestEnds
  <2>1. /\ outstanding' = outstanding /\ flushing' = flushing /\ staged' = staged
        /\ suspended' = suspended
        /\ \/ batch' = marked /\ marked' = {} /\ pc' = "poll"
           \/ marked' = marked \cup batch /\ batch' = {}
    BY <1>7 DEF HarvestBegins, HarvestEnds, Stage, book, vars, caller, flow
  <2>2. QED
    BY <1>1, <1>2, <2>1 DEF X
<1>8. ASSUME NEW f \in batch, PollSuspends(f) PROVE FuturesTracked'
  <2>1. /\ outstanding' = outstanding /\ flushing' = flushing /\ staged' = staged
        /\ suspended' = suspended \cup {f} /\ batch' = batch \ {f} /\ marked' = marked
        /\ pc' = pc
    BY <1>8 DEF PollSuspends, Polled, book, vars, caller, flow
  <2>2. QED
    BY <1>1, <1>2, <1>8, <2>1 DEF X
<1>9. ASSUME NEW d \in batch, NEW keep \in BOOLEAN, NEW panicked \in BOOLEAN,
             PollCompletes(d, keep, panicked)
      PROVE  FuturesTracked'
  <2>1. /\ outstanding' = outstanding \ {d} /\ flushing' = flushing /\ staged' = staged
        /\ suspended' = suspended \ {d} /\ batch' = batch \ {d} /\ marked' = marked
        /\ pc' = pc
    BY <1>9 DEF PollCompletes, Polled, Complete
  <2>2. X \ {d} \subseteq Live(outstanding', flushing', staged')
    BY <2>1 DEF Live, X
  <2>3. QED
    BY <1>1, <1>2, <1>9, <2>1, <2>2
<1>10. ASSUME NEW f \in batch, PollFlushed(f) PROVE FuturesTracked'
  <2>1. /\ outstanding' = outstanding /\ flushing' = flushing \ {f} /\ staged' = staged
        /\ suspended' = suspended \ {f} /\ batch' = batch \ {f} /\ marked' = marked
        /\ pc' = pc
    BY <1>10 DEF PollFlushed, Polled, FinishEvict
  <2>2. X \ {f} \subseteq Live(outstanding', flushing', staged')
    BY <2>1 DEF Live, X
  <2>3. QED
    BY <1>1, <1>2, <1>10, <2>1, <2>2
<1>11. ASSUME NEW f \in suspended, FutureWakes(f) PROVE FuturesTracked'
  <2>1. /\ outstanding' = outstanding /\ flushing' = flushing /\ staged' = staged
        /\ suspended' = suspended /\ batch' = batch /\ marked' = marked \cup {f}
        /\ pc' = pc /\ f \notin batch
    BY <1>11 DEF FutureWakes, book, vars, caller, flow, turn
  <2>2. QED
    BY <1>1, <1>2, <1>11, <2>1 DEF X
<1>12. QED
  BY <1>3, <1>4, <1>5, <1>6, <1>7, <1>8, <1>9, <1>10, <1>11, FutureActions

(* The gate and the futures, from the start on.                            *)
LEMMA GateInvariant == ShardSpec => []BookInv /\ [](FlushesGated /\ FuturesTracked)
<1>1. ShardInit => FlushesGated /\ FuturesTracked
  <2> SUFFICES ASSUME ShardInit PROVE FlushesGated /\ FuturesTracked
    OBVIOUS
  <2>1. /\ staged = <<>> /\ flushes = 0 /\ evicting = 0
        /\ marked = {} /\ batch = {} /\ suspended = {}
    BY DEF ShardInit, Init
  <2>2. staged \in Seq(Candidates) /\ Len(staged) = 0
    BY <2>1
  <2>3. FlushesGated
    BY <2>1, <2>2, ShardConstants DEF FlushesGated, OnceStaged
  <2>4. QED
    BY <2>1, <2>3 DEF FuturesTracked
<1>2. BookInv /\ FlushesGated /\ FuturesTracked /\ [ShardNext]_shardvars
        => FlushesGated' /\ FuturesTracked'
  BY GateStep, FuturesStep
<1>3. ShardSpec => []BookInv
  BY ShardRunsTheBook, BookInvariant, PTL
<1>4. QED
  BY <1>1, <1>2, <1>3, PTL DEF ShardSpec

(* A sequence without repetition has as many elements as positions.        *)
LEMMA StagedSize ==
  ASSUME NEW s \in Seq(Candidates), OnceStaged(s)
  PROVE  IsFiniteSet(StagedSet(s)) /\ Cardinality(StagedSet(s)) = Len(s)
<1> DEFINE n == Len(s)
           S == StagedSet(s)
<1>1. n \in Nat /\ s \in [1 .. n -> S]
  BY DEF StagedSet
<1>2. s \in Bijection(1 .. n, S)
  BY <1>1 DEF Bijection, Injection, IsInjective, Surjection, OnceStaged, StagedSet
<1>3. IsFiniteSet(1 .. n) /\ Cardinality(1 .. n) = n
  BY <1>1, IntervalSize
<1>4. QED
  BY <1>2, <1>3, FS_Bijection DEF ExistsBijection

(* The outstanding set never overflows, for any budgets and any number of  *)
(* flush slots: its push, which panics beyond the sum of the two, is       *)
(* always within it.                                                       *)
THEOREM OutstandingAlwaysFits == ShardSpec => []FitsOutstanding
<1>1. BookInv /\ Accounts /\ CountersAgree /\ FlushesGated => FitsOutstanding
  <2> SUFFICES ASSUME BookInv, Accounts, CountersAgree, FlushesGated PROVE FitsOutstanding
    OBVIOUS
  <2>1. /\ staged \in Seq(Candidates) /\ OnceStaged(staged) /\ Len(staged) \in Nat
        /\ ToSet(staged) = StagedSet(staged) /\ DOMAIN staged = 1 .. Len(staged)
    BY ToSetStaged DEF FlushesGated
  <2>2. StagedSet(staged) \subseteq flushing
    BY DEF FlushesGated, StagedSet
  <2>3. IsInjective(staged)
    BY <2>1 DEF IsInjective, OnceStaged
  <2>4. IsFiniteSet(flushing) /\ evicting = Cardinality(flushing)
    BY DEF Accounts, FlushesCounted
  <2>5. IsFiniteSet(StagedSet(staged)) /\ Cardinality(StagedSet(staged)) = Len(staged)
    BY <2>1, StagedSize
  <2>6. flushing \cap StagedSet(staged) = StagedSet(staged)
    BY <2>2
  <2>7. Cardinality(flushing \ StagedSet(staged))
          = Cardinality(flushing) - Cardinality(flushing \cap StagedSet(staged))
    BY <2>4, FS_Difference
  <2>8. Cardinality(Flights) = evicting - Len(staged)
    BY <2>1, <2>4, <2>5, <2>6, <2>7 DEF Flights
  <2>9. flushes = Cardinality(Flights) /\ flushes <= FlushSlots
    BY <2>1, <2>8 DEF FlushesGated
  <2>10. \A c \in Classes :
          Cardinality({d \in outstanding : d.item.class = c}) <= MaxInflight[c]
    BY DEF CountersAgree
  <2>11. QED
    BY <2>1, <2>2, <2>3, <2>9, <2>10 DEF FitsOutstanding
<1>2. QED
  BY <1>1, ShardRunsTheBook, GateInvariant, AccountsInvariant, CountersAlwaysAgree, PTL

-----------------------------------------------------------------------------
(* Going to sleep.  A turn that did nothing and was not woken leaves       *)
(* nothing to do, stage by stage: the flush gate is full or empty once the *)
(* flushes have begun; the inbox is empty with the task's waker in its     *)
(* bell, or the book is saturated, once the inbox was drained; and no      *)
(* future is ready once the harvest is over.                               *)

AfterFlushes == {"drain", "harvest", "poll", "timers", "asleep"}
AfterDrain   == {"harvest", "poll", "timers", "asleep"}
AfterHarvest == {"timers", "asleep"}

StagedQuiet ==
  pc \in AfterFlushes /\ ~progress => (staged # <<>> => flushes >= FlushSlots)

InboxQuiet ==
  pc \in AfterDrain /\ ~progress /\ ~woken =>
    IsSaturated \/ (inbox = <<>> /\ (handles => parked /\ bell))

FuturesQuiet == pc \in AfterHarvest /\ ~progress /\ ~woken => marked = {}

(* The inbox is closed only when it is empty and no handle is left.        *)
ClosedForGood == ~open => ~handles /\ inbox = <<>>

Quiet ==
  /\ StagedQuiet /\ InboxQuiet /\ FuturesQuiet /\ ClosedForGood
  /\ pc = "asleep" => ~progress
  /\ used \in Nat
  /\ pc = "drain" => open /\ (used > 0 => progress)
  /\ pc \in Stages
  /\ progress \in BOOLEAN /\ woken \in BOOLEAN /\ handles \in BOOLEAN /\ open \in BOOLEAN
  /\ bell \in BOOLEAN /\ parked \in BOOLEAN

(* The dispatch, shed and exit stages: nothing is claimed yet.             *)
LEMMA EarlyStagesQuiet ==
  ASSUME Quiet, FlushesGated,
         DispatchTakes \/ DispatchSkips \/ DispatchEnds \/ Shed \/ BeginFlushes
         \/ FinalFlush \/ FinalEvicts \/ FinalEnds
  PROVE  Quiet'
<1> USE DEF turn, flow, futures, outside, Stage
<1>1. /\ UNCHANGED outside /\ open' = open /\ progress' = progress
      /\ \/ pc' \in {"dispatch", "shed", "exit", "final", "done"}
         \/ BeginFlushes
  BY DEF Quiet, DispatchTakes, DispatchSkips, DispatchEnds, NextClass, Shed, BeginFlushes,
     FinalFlush, FinalEvicts, FinalEnds
<1>2. used' \in Nat
  BY DEF Quiet, DispatchTakes, DispatchSkips, DispatchEnds, NextClass, Shed, BeginFlushes,
     FinalFlush, FinalEvicts, FinalEnds
<1>3. ClosedForGood'
  BY <1>1 DEF Quiet, ClosedForGood
<1>4. CASE pc' \in {"dispatch", "shed", "exit", "final", "done"}
  BY <1>1, <1>2, <1>3, <1>4 DEF Quiet, StagedQuiet, InboxQuiet, FuturesQuiet, AfterFlushes,
     AfterDrain, AfterHarvest, Stages
<1>5. CASE BeginFlushes
  <2>1. /\ staged' = SubSeq(staged, FlushRoom + 1, Len(staged))
        /\ flushes' = flushes + FlushRoom /\ used' = 0
        /\ pc' = IF open THEN "drain" ELSE IF Drained THEN "exit" ELSE "harvest"
    BY <1>5 DEF BeginFlushes
  <2>2. staged' # <<>> => flushes' >= FlushSlots
    <3>1. /\ FlushRoom \in Nat /\ FlushRoom <= Len(staged)
          /\ FlushRoom < Len(staged) => flushes + FlushRoom = FlushSlots
      BY FlushRoomFits
    <3>2. staged \in Seq(Candidates) /\ Len(staged) \in Nat /\ OnceStaged(staged)
      BY DEF FlushesGated
    <3>3. Len(staged') = Len(staged) - FlushRoom /\ staged' \in Seq(Candidates)
      BY <2>1, <3>1, <3>2, CutStaged
    <3>4. staged' # <<>> => Len(staged') > 0
      BY <3>3
    <3>5. CASE FlushRoom < Len(staged)
      BY <2>1, <3>1, <3>5, ShardConstants
    <3>6. CASE FlushRoom = Len(staged)
      BY <3>1, <3>2, <3>3, <3>4, <3>6
    <3>7. QED
      BY <3>1, <3>2, <3>5, <3>6
  <2>3. StagedQuiet'
    BY <2>2 DEF StagedQuiet
  <2>4. InboxQuiet'
    BY <1>1, <2>1 DEF Quiet, InboxQuiet, ClosedForGood, AfterDrain
  <2>5. FuturesQuiet'
    BY <2>1 DEF FuturesQuiet, AfterHarvest
  <2>6. /\ pc' \in Stages /\ pc' # "asleep" /\ (pc' = "drain" => open') /\ used' = 0
    BY <1>1, <2>1 DEF Stages
  <2>7. QED
    BY <1>1, <1>3, <2>3, <2>4, <2>5, <2>6 DEF Quiet
<1>6. QED
  BY <1>1, <1>4, <1>5

(* The drain: something received is progress; an empty inbox is closed, or *)
(* has the waker; a full book needs no more.                               *)
LEMMA DrainQuiet ==
  ASSUME Quiet, DrainAdmits \/ DrainCoalesces \/ DrainFindsNothing \/ DrainStops
  PROVE  Quiet'
<1> USE DEF turn, flow, futures, outside, Stage
<1>1. CASE DrainAdmits \/ DrainCoalesces
  <2>1. /\ pc = "drain" /\ pc' = pc /\ used' = used + 1 /\ progress' = TRUE
        /\ open' = open /\ inbox # <<>> /\ parked' = FALSE
        /\ UNCHANGED <<handles, bell, woken>>
    BY <1>1 DEF DrainAdmits, DrainCoalesces, Receive, Draining
  <2>2. used' \in Nat /\ open
    BY <2>1 DEF Quiet
  <2>3. QED
    BY <2>1, <2>2 DEF Quiet, StagedQuiet, InboxQuiet, FuturesQuiet, ClosedForGood
<1>2. CASE DrainFindsNothing
  <2>1. /\ inbox = <<>> /\ open' = handles /\ progress' = (progress \/ ~handles)
        /\ bell' = TRUE /\ parked' = handles /\ pc' = "harvest" /\ used' = 0 /\ pc = "drain"
        /\ UNCHANGED <<staged, flushes, inbox, handles, woken>>
    BY <1>2 DEF DrainFindsNothing, Draining
  <2>2. StagedQuiet'
    BY <2>1 DEF Quiet, StagedQuiet, AfterFlushes
  <2>3. InboxQuiet' /\ FuturesQuiet' /\ ClosedForGood'
    BY <2>1 DEF InboxQuiet, FuturesQuiet, ClosedForGood, AfterHarvest
  <2>4. QED
    BY <2>1, <2>2, <2>3 DEF Quiet, Stages
<1>3. CASE DrainStops
  <2>1. /\ pc = "drain" /\ pc' = "harvest" /\ used' = 0 /\ (used >= AdmitBatch \/ IsSaturated)
        /\ pending' = pending
        /\ UNCHANGED <<staged, flushes, inbox, handles, woken, open, progress, bell, parked>>
    BY <1>3 DEF DrainStops, book, vars
  <2>2. progress \/ IsSaturated
    BY <2>1, ShardConstants DEF Quiet
  <2>3. IsSaturated' <=> IsSaturated
    BY <2>1 DEF IsSaturated
  <2>4. StagedQuiet'
    BY <2>1 DEF Quiet, StagedQuiet, AfterFlushes
  <2>5. InboxQuiet' /\ FuturesQuiet' /\ ClosedForGood'
    BY <2>1, <2>2, <2>3 DEF Quiet, InboxQuiet, FuturesQuiet, ClosedForGood, AfterHarvest
  <2>6. QED
    BY <2>1, <2>4, <2>5 DEF Quiet, Stages
<1>4. QED
  BY <1>1, <1>2, <1>3

(* The harvest: a future over is progress, and so is one left ready.       *)
LEMMA HarvestQuiet ==
  ASSUME Quiet,
         \/ HarvestBegins \/ HarvestEnds
         \/ \E f \in batch : PollSuspends(f)
         \/ \E d \in batch, keep, panicked \in BOOLEAN : PollCompletes(d, keep, panicked)
         \/ \E f \in batch : PollFlushed(f)
  PROVE  Quiet'
<1> USE DEF turn, flow, futures, outside, Stage
<1>1. UNCHANGED <<inbox, handles, woken, open, bell, parked>>
  BY DEF HarvestBegins, HarvestEnds, PollSuspends, PollCompletes, PollFlushed, Polled
<1>2. ClosedForGood' /\ used' \in Nat
  BY <1>1 DEF Quiet, ClosedForGood, HarvestBegins, HarvestEnds, PollSuspends, PollCompletes,
     PollFlushed, Polled
<1>3. CASE HarvestBegins \/ \E f \in batch : PollSuspends(f)
  <2>1. /\ pc \in {"harvest", "poll"} /\ pc' = "poll" /\ progress' = progress
        /\ UNCHANGED <<staged, flushes, pending>>
    BY <1>3 DEF HarvestBegins, PollSuspends, Polls, Polled, book, vars
  <2>2. IsSaturated' <=> IsSaturated
    BY <2>1 DEF IsSaturated
  <2>3. StagedQuiet' /\ InboxQuiet' /\ FuturesQuiet'
    BY <1>1, <2>1, <2>2 DEF Quiet, StagedQuiet, InboxQuiet, FuturesQuiet, AfterFlushes,
       AfterDrain, AfterHarvest
  <2>4. QED
    BY <1>1, <1>2, <2>1, <2>3 DEF Quiet, Stages
<1>4. CASE \/ \E d \in batch, keep, panicked \in BOOLEAN : PollCompletes(d, keep, panicked)
           \/ \E f \in batch : PollFlushed(f)
  <2>1. pc' = "poll" /\ progress' = TRUE
    BY <1>4 DEF PollCompletes, PollFlushed, Polls, Polled
  <2>2. QED
    BY <1>1, <1>2, <2>1 DEF Quiet, StagedQuiet, InboxQuiet, FuturesQuiet, Stages
<1>5. CASE HarvestEnds
  <2>1. /\ pc = "poll" /\ pc' \in {"aborted", "timers"} /\ progress' = (progress \/ marked' # {})
        /\ UNCHANGED <<staged, flushes, pending>>
    BY <1>5 DEF HarvestEnds, book, vars
  <2>2. IsSaturated' <=> IsSaturated
    BY <2>1 DEF IsSaturated
  <2>3. StagedQuiet' /\ InboxQuiet' /\ FuturesQuiet'
    BY <1>1, <2>1, <2>2 DEF Quiet, StagedQuiet, InboxQuiet, FuturesQuiet, AfterFlushes,
       AfterDrain, AfterHarvest
  <2>4. QED
    BY <1>1, <1>2, <2>1, <2>3 DEF Quiet, Stages
<1>6. QED
  BY <1>3, <1>4, <1>5

(* The timers, the way to sleep and the way back.                          *)
LEMMA TimersQuiet ==
  ASSUME Quiet,
         TickFires \/ SweepEvicts \/ SweepBreaks \/ SweepFindsNothing \/ GoOn \/ Sleep \/ Awake
  PROVE  Quiet'
<1> USE DEF turn, flow, futures, outside, Stage, Again
<1>1. UNCHANGED <<inbox, handles, open, bell, parked>>
  BY DEF TickFires, SweepEvicts, SweepBreaks, SweepFindsNothing, GoOn, Sleep, Awake
<1>2. ClosedForGood' /\ used' \in Nat /\ progress' \in BOOLEAN /\ woken' \in BOOLEAN
  <2>1. /\ used' = used \/ used' = 0
        /\ progress' = progress \/ progress' = FALSE
        /\ woken' = woken \/ woken' = FALSE
    BY DEF TickFires, SweepEvicts, SweepBreaks, SweepFindsNothing, GoOn, Sleep, Awake
  <2>2. ClosedForGood'
    BY <1>1 DEF Quiet, ClosedForGood
  <2>3. used \in Nat /\ progress \in BOOLEAN /\ woken \in BOOLEAN
    BY DEF Quiet
  <2>4. used' \in Nat
    BY <2>1, <2>3
  <2>5. progress' \in BOOLEAN /\ woken' \in BOOLEAN
    BY <2>1, <2>3, Zenon
  <2>6. QED
    BY <2>2, <2>4, <2>5
<1>3. CASE TickFires \/ SweepEvicts \/ SweepBreaks \/ SweepFindsNothing \/ GoOn \/ Awake
  <2>1. pc' \in {"sweep", "dispatch"}
    BY <1>3 DEF TickFires, SweepEvicts, SweepBreaks, SweepFindsNothing, GoOn, Awake
  <2>2. QED
    BY <1>1, <1>2, <2>1 DEF Quiet, StagedQuiet, InboxQuiet, FuturesQuiet, AfterFlushes,
       AfterDrain, AfterHarvest, Stages
<1>4. CASE Sleep
  <2>1. /\ pc = "timers" /\ pc' = "asleep" /\ ~progress
        /\ UNCHANGED <<progress, woken, staged, flushes, pending, marked>>
    BY <1>4 DEF Sleep, book, vars
  <2>2. IsSaturated' <=> IsSaturated
    BY <2>1 DEF IsSaturated
  <2>3. StagedQuiet' /\ InboxQuiet' /\ FuturesQuiet'
    BY <1>1, <2>1, <2>2 DEF Quiet, StagedQuiet, InboxQuiet, FuturesQuiet, AfterFlushes,
       AfterDrain, AfterHarvest
  <2>4. QED
    BY <1>1, <1>2, <2>1, <2>3 DEF Quiet, Stages
<1>5. QED
  BY <1>3, <1>4

(* What happens around the thread: whoever brings work wakes a task that   *)
(* left its waker.                                                         *)
LEMMA OutsideQuiet ==
  ASSUME Quiet,
         \/ TickWakes \/ ReadsClock \/ Shutdown \/ UNCHANGED shardvars
         \/ \E f \in suspended : FutureWakes(f)
         \/ \E e \in Submissions : Send(e)
  PROVE  Quiet'
<1> USE DEF turn, flow, futures, outside
<1>1. UNCHANGED <<pc, used, progress, open, staged, flushes, pending>>
  BY DEF TickWakes, ReadsClock, Shutdown, shardvars, FutureWakes, Send, ClockAdvances, book, vars
<1>2. IsSaturated' <=> IsSaturated
  BY <1>1 DEF IsSaturated
<1>3. StagedQuiet'
  BY <1>1 DEF Quiet, StagedQuiet
<1>4. CASE TickWakes \/ \E f \in suspended : FutureWakes(f)
  <2>1. woken' = TRUE /\ UNCHANGED <<inbox, handles, bell, parked>>
    BY <1>4 DEF TickWakes, FutureWakes
  <2>2. QED
    BY <1>1, <1>3, <2>1 DEF Quiet, InboxQuiet, FuturesQuiet, ClosedForGood
<1>5. CASE ReadsClock \/ UNCHANGED shardvars
  <2>1. UNCHANGED <<inbox, handles, bell, parked, woken, marked>>
    BY <1>5 DEF ReadsClock, shardvars
  <2>2. QED
    BY <1>1, <1>2, <1>3, <2>1 DEF Quiet, InboxQuiet, FuturesQuiet, ClosedForGood
<1>6. CASE Shutdown
  <2>1. /\ handles /\ handles' = FALSE /\ woken' = (woken \/ bell) /\ bell' = FALSE
        /\ UNCHANGED <<inbox, parked, marked>>
    BY <1>6 DEF Shutdown
  <2>2. InboxQuiet' /\ FuturesQuiet' /\ ClosedForGood'
    BY <1>1, <1>2, <2>1 DEF Quiet, InboxQuiet, FuturesQuiet, ClosedForGood
  <2>3. QED
    BY <1>1, <1>3, <2>1, <2>2 DEF Quiet
<1>7. CASE \E e \in Submissions : Send(e)
  <2>1. /\ handles /\ handles' = handles /\ woken' = (woken \/ (parked /\ bell))
        /\ bell' = (bell /\ ~parked) /\ UNCHANGED <<parked, marked>>
    BY <1>7 DEF Send
  <2>2. InboxQuiet' /\ FuturesQuiet' /\ ClosedForGood'
    BY <1>1, <1>2, <2>1 DEF Quiet, InboxQuiet, FuturesQuiet, ClosedForGood
  <2>3. QED
    BY <1>1, <1>3, <2>1, <2>2 DEF Quiet
<1>8. QED
  BY <1>4, <1>5, <1>6, <1>7

(* The shard is quiet about nothing it could do, from the start on.        *)
LEMMA QuietInvariant == ShardSpec => []Quiet
<1>1. ShardInit => Quiet
  <2> SUFFICES ASSUME ShardInit PROVE Quiet
    OBVIOUS
  <2>1. /\ pc = "dispatch" /\ used = 0 /\ progress = FALSE /\ open = TRUE /\ handles = TRUE
        /\ bell = FALSE /\ parked = FALSE /\ woken = FALSE
    BY DEF ShardInit
  <2>2. StagedQuiet /\ InboxQuiet /\ FuturesQuiet /\ ClosedForGood
    BY <2>1 DEF StagedQuiet, InboxQuiet, FuturesQuiet, ClosedForGood, AfterFlushes,
       AfterDrain, AfterHarvest
  <2>3. QED
    BY <2>1, <2>2 DEF Quiet, Stages
<1>2. Quiet /\ FlushesGated /\ [ShardNext]_shardvars => Quiet'
  BY EarlyStagesQuiet, DrainQuiet, HarvestQuiet, TimersQuiet, OutsideQuiet DEF ShardNext, Turn
<1>3. QED
  BY <1>1, <1>2, GateInvariant, PTL DEF ShardSpec

(* The rings, class by class.  A class the dispatch loop has left is out   *)
(* of budget, or its ring holds only keys that were put there afterwards;  *)
(* it stays so until the turn does something.                              *)

Exhausted(c) == WithinBudget(c) => ToSet(ready[c]) \subseteq passed

AfterDispatch == {"shed", "drain", "harvest", "poll", "timers", "asleep"}

RingsQuiet ==
  /\ pc # "dispatch" => class = 0
  /\ pc = "dispatch" => \A c \in Classes : c < class => Exhausted(c)
  /\ pc \in AfterDispatch /\ ~progress => \A c \in Classes : Exhausted(c)

(* The steps after the loop leave the rings and the budgets alone, or      *)
(* count as progress, or end the turn.                                     *)
LEMMA RingsActions ==
  ASSUME [ShardNext]_shardvars
  PROVE  \/ DispatchTakes \/ DispatchSkips \/ DispatchEnds
         \/ UNCHANGED <<inflight, ready, class, passed, pc, progress>>
         \/ /\ UNCHANGED <<inflight, ready, class, passed>>
            /\ pc \in AfterDispatch /\ pc' # "dispatch" /\ (progress => progress')
         \/ class' = class /\ pc # "dispatch" /\ pc' \notin AfterDispatch
         \/ class' = class /\ pc # "dispatch" /\ pc' # "dispatch" /\ progress'
<1> USE DEF turn, scan, flow, outside, Stage, AfterDispatch
<1>1. CASE Turn
  <2>1. CASE Shed
    BY <2>1 DEF Shed, PopExpired
  <2>2. CASE BeginFlushes \/ DrainFindsNothing \/ DrainStops
    BY <2>2 DEF BeginFlushes, DrainFindsNothing, DrainStops, Draining, book, vars
  <2>3. CASE FinalFlush \/ FinalEvicts \/ FinalEnds
    BY <2>3 DEF FinalFlush, FinalEvicts, FinalEnds
  <2>4. CASE DrainAdmits \/ DrainCoalesces
    BY <2>4 DEF DrainAdmits, DrainCoalesces, Receive, Draining
  <2>5. CASE HarvestBegins \/ HarvestEnds \/ \E f \in batch : PollSuspends(f)
    BY <2>5 DEF HarvestBegins, HarvestEnds, PollSuspends, Polls, Polled, book, vars
  <2>6. CASE \/ \E d \in batch, keep, panicked \in BOOLEAN : PollCompletes(d, keep, panicked)
             \/ \E f \in batch : PollFlushed(f)
    BY <2>6 DEF PollCompletes, PollFlushed, Polls, Polled
  <2>7. CASE TickFires \/ SweepEvicts \/ SweepBreaks \/ SweepFindsNothing \/ GoOn \/ Awake
    BY <2>7 DEF TickFires, SweepEvicts, SweepBreaks, SweepFindsNothing, GoOn, Awake, Again
  <2>8. CASE Sleep
    BY <2>8 DEF Sleep, book, vars
  <2>9. QED
    BY <1>1, <2>1, <2>2, <2>3, <2>4, <2>5, <2>6, <2>7, <2>8 DEF Turn
<1>2. CASE ReadsClock
  BY <1>2 DEF ReadsClock, ClockAdvances
<1>3. CASE \/ TickWakes \/ Shutdown \/ UNCHANGED shardvars
           \/ \E f \in suspended : FutureWakes(f)
           \/ \E e \in Submissions : Send(e)
  BY <1>3 DEF TickWakes, Shutdown, shardvars, FutureWakes, Send, book, vars
<1>4. QED
  BY <1>1, <1>2, <1>3 DEF ShardNext

(* An iteration that dispatches nothing leaves the budgets alone; the last *)
(* one leaves the ring of its class empty, because a key settles by work   *)
(* of another class.                                                       *)
LEMMA SkipEmpties ==
  ASSUME TypeOK, NEW c \in Classes, NextSkips(c)
  PROVE  /\ inflight' = inflight
         /\ call' = NoCall => ready'[c] = <<>>
<1>1. ready \in [Classes -> Seq(Keys)] /\ ready[c] \in Seq(Keys) /\ ready[c] # <<>>
  BY DEF TypeOK, NextSkips
<1>2. PICK n \in 0 .. Len(queue[Head(ready[c])]) :
        /\ n < Len(queue[Head(ready[c])]) => queue[Head(ready[c])][n + 1].class # c
        /\ Place(Head(ready[c]),
                 SubSeq(queue[Head(ready[c])], n + 1, Len(queue[Head(ready[c])])),
                 [ready EXCEPT ![c] = Tail(@)])
  BY DEF NextSkips
<1> DEFINE k == Head(ready[c])
           q == queue[k]
           rest == SubSeq(q, n + 1, Len(q))
<1>3. k \in Keys /\ q \in Seq(Items) /\ Len(q) \in Nat
  BY <1>1 DEF TypeOK
<1>4. rest # <<>> => n < Len(q) /\ Head(rest) = q[n + 1]
  <2>1. rest \in Seq(Items) /\ Len(rest) = Len(q) - n
    BY <1>2, <1>3, SubSeqType
  <2>2. rest # <<>> => Len(rest) > 0
    BY <2>1, EmptySeq
  <2>3. n < Len(q) => rest[1] = q[n + 1]
    BY <1>2, <1>3
  <2>4. QED
    BY <2>1, <2>2, <2>3
<1>5. rest # <<>> => TargetRing(k, rest) # c
  BY <1>2, <1>4 DEF TargetRing
<1>6. ready'[c] = Tail(ready[c])
  <2>1. ([ready EXCEPT ![c] = Tail(@)])[c] = Tail(ready[c])
    BY <1>1
  <2>2. CASE rest = <<>>
    BY <1>2, <2>1, <2>2 DEF Place
  <2>3. CASE rest # <<>>
    <3>1. ready' = [[ready EXCEPT ![c] = Tail(@)] EXCEPT ![TargetRing(k, rest)] = Append(@, k)]
      BY <1>2, <2>3 DEF Place
    <3>2. QED
      BY <1>1, <1>5, <2>3, <3>1
  <2>4. QED
    BY <2>2, <2>3
<1>7. call' = NoCall => Len(ready[c]) = 1
  BY DEF NextSkips, NoCall
<1>8. Len(ready[c]) = 1 => Tail(ready[c]) = <<>>
  <2> SUFFICES ASSUME Len(ready[c]) = 1 PROVE Tail(ready[c]) = <<>>
    OBVIOUS
  <2>1. Tail(ready[c]) \in Seq(Keys) /\ Len(Tail(ready[c])) = 0
    BY <1>1
  <2>2. QED
    BY <2>1, EmptySeq
<1>9. QED
  BY <1>6, <1>7, <1>8 DEF NextSkips

(* The loop over the classes leaves each of them exhausted.                *)
LEMMA DispatchQuiet ==
  ASSUME BookInv, ArgumentsInRange, RingsQuiet,
         DispatchTakes \/ DispatchSkips \/ DispatchEnds
  PROVE  RingsQuiet'
<1>1. pc = "dispatch" /\ class \in Classes /\ \A c \in Classes : c < class => Exhausted(c)
  BY DEF RingsQuiet, ArgumentsInRange, DispatchTakes, DispatchSkips, DispatchEnds
<1>2. TypeOK /\ Classes \subseteq Int
  BY BookConstants DEF BookInv, Classes
<1>3. ASSUME NextClass, \A c \in Classes : c <= class => Exhausted(c)' PROVE RingsQuiet'
  <2>1. CASE class = NClasses - 1
    <3>1. \A c \in Classes : c <= class
      BY <1>1, <2>1, BookConstants DEF Classes
    <3>2. pc' = "shed" /\ class' = 0
      BY <1>3, <2>1 DEF NextClass
    <3>3. QED
      BY <1>3, <3>1, <3>2 DEF RingsQuiet
  <2>2. CASE class # NClasses - 1
    <3>1. pc' = "dispatch" /\ class' = class + 1
      BY <1>1, <1>3, <2>2 DEF NextClass
    <3>2. \A c \in Classes : c < class' => Exhausted(c)'
      BY <1>1, <1>2, <1>3, <3>1
    <3>3. QED
      BY <3>1, <3>2 DEF RingsQuiet, AfterDispatch
  <2>3. QED
    BY <2>1, <2>2
<1>4. ASSUME pc' = pc, class' = class, \A c \in Classes : c < class => Exhausted(c)'
      PROVE  RingsQuiet'
  BY <1>1, <1>4 DEF RingsQuiet, AfterDispatch
<1>5. CASE DispatchTakes
  <2>1. NextTakes(class) /\ UNCHANGED <<pc, class, passed>>
    BY <1>5 DEF DispatchTakes, turn, scan
  <2>2. /\ ready' = [ready EXCEPT ![class] = Tail(@)]
        /\ inflight' = [inflight EXCEPT ![class] = @ + 1]
    BY <2>1 DEF NextTakes
  <2>3. \A c \in Classes : c < class => ready'[c] = ready[c] /\ inflight'[c] = inflight[c]
    BY <1>1, <1>2, <2>2 DEF TypeOK
  <2>4. \A c \in Classes : c < class => Exhausted(c)'
    BY <1>1, <2>1, <2>3 DEF Exhausted, WithinBudget
  <2>5. QED
    BY <1>4, <2>1, <2>4
<1>6. CASE DispatchSkips
  <2>1. /\ NextSkips(class) /\ (IF call' = NoCall THEN NextClass ELSE UNCHANGED <<pc, class>>)
        /\ passed' = passed \cup
             UNION {ToSet(ready'[c]) \ ToSet(ready[c]) : c \in 0 .. class - 1}
    BY <1>6 DEF DispatchSkips
  <2>2. inflight' = inflight /\ (call' = NoCall => ready'[class] = <<>>)
    BY <1>1, <1>2, <2>1, SkipEmpties
  <2>3. ASSUME NEW c \in Classes, c < class PROVE Exhausted(c)'
    <3>1. c \in 0 .. class - 1
      BY <1>1, <2>3, BookConstants DEF Classes
    <3>2. WithinBudget(c)' => ToSet(ready[c]) \subseteq passed
      BY <1>1, <2>2, <2>3 DEF Exhausted, WithinBudget
    <3>3. ToSet(ready'[c]) \ ToSet(ready[c]) \subseteq passed' /\ passed \subseteq passed'
      BY <2>1, <3>1
    <3>4. QED
      BY <3>2, <3>3 DEF Exhausted, WithinBudget
  <2>4. CASE call' = NoCall
    <3>1. \A c \in Classes : c <= class => Exhausted(c)'
      <4> TAKE c \in Classes
      <4>1. c = class \/ c < class \/ ~(c <= class)
        BY <1>1, <1>2
      <4>2. CASE c = class
        BY <2>2, <2>4, <4>2 DEF Exhausted, ToSet
      <4>3. QED
        BY <2>3, <4>1, <4>2
    <3>2. QED
      BY <1>3, <2>1, <2>4, <3>1
  <2>5. CASE call' # NoCall
    BY <1>4, <2>1, <2>3, <2>5
  <2>6. QED
    BY <2>4, <2>5
<1>7. CASE DispatchEnds
  <2>1. /\ NextClass /\ (~WithinBudget(class) \/ ready[class] = <<>>)
        /\ UNCHANGED <<inflight, ready, passed>>
    BY <1>7 DEF DispatchEnds, book, vars
  <2>2. \A c \in Classes : c <= class => Exhausted(c)'
    <3> TAKE c \in Classes
    <3>1. c = class \/ c < class \/ ~(c <= class)
      BY <1>1, <1>2
    <3>2. CASE c = class
      BY <2>1, <3>2 DEF Exhausted, WithinBudget, ToSet
    <3>3. CASE c < class
      BY <1>1, <2>1, <3>3 DEF Exhausted, WithinBudget
    <3>4. QED
      BY <3>1, <3>2, <3>3
  <2>3. QED
    BY <1>3, <2>1, <2>2
<1>8. QED
  BY <1>5, <1>6, <1>7

(* Every step keeps the rings quiet.                                       *)
LEMMA RingsStep ==
  ASSUME BookInv, ArgumentsInRange, RingsQuiet, [ShardNext]_shardvars
  PROVE  RingsQuiet'
<1>1. CASE DispatchTakes \/ DispatchSkips \/ DispatchEnds
  BY <1>1, DispatchQuiet
<1>2. CASE UNCHANGED <<inflight, ready, class, passed, pc, progress>>
  BY <1>2 DEF RingsQuiet, Exhausted, WithinBudget
<1>3. CASE /\ UNCHANGED <<inflight, ready, class, passed>>
           /\ pc \in AfterDispatch /\ pc' # "dispatch" /\ (progress => progress')
  <2>1. pc # "dispatch"
    BY <1>3 DEF AfterDispatch
  <2>2. QED
    BY <1>3, <2>1 DEF RingsQuiet, Exhausted, WithinBudget
<1>4. CASE class' = class /\ pc # "dispatch" /\ pc' \notin AfterDispatch
  <2>1. class' = 0 /\ \A c \in Classes : ~(c < 0)
    BY <1>4, BookConstants DEF RingsQuiet, Classes
  <2>2. QED
    BY <1>4, <2>1 DEF RingsQuiet
<1>5. CASE class' = class /\ pc # "dispatch" /\ pc' # "dispatch" /\ progress'
  BY <1>5 DEF RingsQuiet
<1>6. QED
  BY <1>1, <1>2, <1>3, <1>4, <1>5, RingsActions

(* The rings are quiet from the start on.                                  *)
LEMMA RingsInvariant == ShardSpec => []RingsQuiet
<1>1. ShardInit => RingsQuiet /\ ArgumentsInRange
  <2> SUFFICES ASSUME ShardInit PROVE RingsQuiet /\ ArgumentsInRange
    OBVIOUS
  <2>1. pc = "dispatch" /\ class = 0 /\ inbox = <<>>
    BY DEF ShardInit
  <2>2. \A c \in Classes : ~(c < 0)
    BY BookConstants DEF Classes
  <2>3. QED
    BY <2>1, <2>2, BookConstants DEF RingsQuiet, AfterDispatch, ArgumentsInRange, Classes
<1>2. BookInv /\ ArgumentsInRange /\ RingsQuiet /\ [ShardNext]_shardvars
        => RingsQuiet' /\ ArgumentsInRange'
  BY RingsStep, ArgumentsStep
<1>3. QED
  BY <1>1, <1>2, GateInvariant, PTL DEF ShardSpec

(* Together they are what NoSleepOnWork says of a sleeping shard, and      *)
(* more.                                                                   *)
LEMMA QuietSleeps ==
  ASSUME Quiet, RingsQuiet
  PROVE  NoSleepOnWork
BY DEF Quiet, NoSleepOnWork, StagedQuiet, InboxQuiet, FuturesQuiet, RingsQuiet, Exhausted,
   AfterDispatch, AfterFlushes, AfterDrain, AfterHarvest

(* No wakeup is lost, for any batch sizes, slots, budgets and inbox        *)
(* capacity: a shard that sleeps and is not about to be polled again has   *)
(* no ready future, no item it has room for, no candidate it has a slot    *)
(* for, and no key it could dispatch but those that this turn's loop put   *)
(* on the ring of a class it had left (shard.rs, the wait of run).         *)
THEOREM NeverSleepsOnWork == ShardSpec => []NoSleepOnWork
BY QuietInvariant, RingsInvariant, QuietSleeps, PTL

-----------------------------------------------------------------------------
(* Coalescing.  The items a shard still owes an answer for, by place.      *)

QueueItems(q) == {i \in Items : \E k \in Keys : \E n \in 1 .. Len(q[k]) : q[k][n] = i}
ListItems(x)  == {i \in Items : \E n \in 1 .. Len(x) : x[n] = i}
HeldItems(o)  == {i \in Items : \E d \in o : d.item = i}
Owed(q, x, o) == QueueItems(q) \cup ListItems(x) \cup HeldItems(o)

(* Unanswered is what is in the three places.                              *)
LEMMA UnansweredIsOwed ==
  ASSUME TypeOK
  PROVE  Unanswered = Owed(queue, expired, outstanding)
<1>1. /\ queue \in [Keys -> Seq(Items)] /\ expired \in Seq(Items)
      /\ outstanding \subseteq [item : Items, state : Nat]
  BY DEF TypeOK
<1>2. UNION {ToSet(queue[k]) : k \in Keys} = QueueItems(queue)
  <2>1. ASSUME NEW i \in UNION {ToSet(queue[k]) : k \in Keys} PROVE i \in QueueItems(queue)
    <3>1. PICK k \in Keys : i \in ToSet(queue[k])
      BY <2>1
    <3>2. queue[k] \in Seq(Items)
      BY <1>1
    <3>3. PICK n \in 1 .. Len(queue[k]) : queue[k][n] = i
      BY <3>1, <3>2 DEF ToSet
    <3>4. i \in Items
      BY <3>2, <3>3
    <3>5. QED
      BY <3>3, <3>4 DEF QueueItems
  <2>2. ASSUME NEW i \in QueueItems(queue) PROVE i \in UNION {ToSet(queue[k]) : k \in Keys}
    <3>1. PICK k \in Keys : \E n \in 1 .. Len(queue[k]) : queue[k][n] = i
      BY <2>2 DEF QueueItems
    <3>2. queue[k] \in Seq(Items)
      BY <1>1
    <3>3. i \in ToSet(queue[k])
      BY <3>1, <3>2 DEF ToSet
    <3>4. QED
      BY <3>3
  <2>3. QED
    BY <2>1, <2>2
<1>3. ToSet(expired) = ListItems(expired)
  BY <1>1 DEF ToSet, ListItems
<1>4. {d.item : d \in outstanding} = HeldItems(outstanding)
  <2>1. \A d \in outstanding : d.item \in Items
    BY <1>1
  <2>2. {d.item : d \in outstanding} \subseteq HeldItems(outstanding)
    BY <2>1, Zenon DEF HeldItems
  <2>3. HeldItems(outstanding) \subseteq {d.item : d \in outstanding}
    BY Zenon DEF HeldItems
  <2>4. QED
    BY <2>2, <2>3
<1> DEFINE A == UNION {ToSet(queue[k]) : k \in Keys}
           B == ToSet(expired)
           C == {d.item : d \in outstanding}
<1>5. Unanswered = A \cup B \cup C
  BY Zenon DEF Unanswered
<1> HIDE DEF A, B, C
<1>6. A = QueueItems(queue) /\ B = ListItems(expired) /\ C = HeldItems(outstanding)
  BY <1>2, <1>3, <1>4, Zenon DEF A, B, C
<1>7. QED
  BY <1>5, <1>6 DEF Owed

(* The same after a step.                                                  *)
LEMMA UnansweredIsOwedNext ==
  ASSUME TypeOK'
  PROVE  Unanswered' = Owed(queue', expired', outstanding')
<1>1. /\ queue' \in [Keys -> Seq(Items)] /\ expired' \in Seq(Items)
      /\ outstanding' \subseteq [item : Items, state : Nat]
  BY DEF TypeOK
<1>2. UNION {ToSet(queue'[k]) : k \in Keys} = QueueItems(queue')
  <2>1. ASSUME NEW i \in UNION {ToSet(queue'[k]) : k \in Keys} PROVE i \in QueueItems(queue')
    <3>1. PICK k \in Keys : i \in ToSet(queue'[k])
      BY <2>1
    <3>2. queue'[k] \in Seq(Items)
      BY <1>1
    <3>3. PICK n \in 1 .. Len(queue'[k]) : queue'[k][n] = i
      BY <3>1, <3>2 DEF ToSet
    <3>4. i \in Items
      BY <3>2, <3>3
    <3>5. QED
      BY <3>3, <3>4 DEF QueueItems
  <2>2. ASSUME NEW i \in QueueItems(queue') PROVE i \in UNION {ToSet(queue'[k]) : k \in Keys}
    <3>1. PICK k \in Keys : \E n \in 1 .. Len(queue'[k]) : queue'[k][n] = i
      BY <2>2 DEF QueueItems
    <3>2. queue'[k] \in Seq(Items)
      BY <1>1
    <3>3. i \in ToSet(queue'[k])
      BY <3>1, <3>2 DEF ToSet
    <3>4. QED
      BY <3>3
  <2>3. QED
    BY <2>1, <2>2
<1>3. ToSet(expired') = ListItems(expired')
  BY <1>1 DEF ToSet, ListItems
<1>4. {d.item : d \in outstanding'} = HeldItems(outstanding')
  <2>1. \A d \in outstanding' : d.item \in Items
    BY <1>1
  <2>2. {d.item : d \in outstanding'} \subseteq HeldItems(outstanding')
    BY <2>1, Zenon DEF HeldItems
  <2>3. HeldItems(outstanding') \subseteq {d.item : d \in outstanding'}
    BY Zenon DEF HeldItems
  <2>4. QED
    BY <2>2, <2>3
<1> DEFINE A == UNION {ToSet(queue'[k]) : k \in Keys}
           B == ToSet(expired')
           C == {d.item : d \in outstanding'}
<1>5. Unanswered' = A \cup B \cup C
  BY Zenon DEF Unanswered
<1> HIDE DEF A, B, C
<1>6. A = QueueItems(queue') /\ B = ListItems(expired') /\ C = HeldItems(outstanding')
  BY <1>2, <1>3, <1>4, Zenon DEF A, B, C
<1>7. QED
  BY <1>5, <1>6 DEF Owed

(* An item somewhere has its id there.                                     *)
LEMMA OwedIds ==
  ASSUME NEW q, NEW x, NEW o, NEW i \in Owed(q, x, o)
  PROVE  /\ i \in Items
         /\ i.id \in QueueIds(q) \cup ListIds(x) \cup HeldIds(o)
<1>1. i \in Items /\ i.id \in Nat
  BY ItemType DEF Owed, QueueItems, ListItems, HeldItems
<1>2. CASE i \in QueueItems(q)
  BY <1>1, <1>2 DEF QueueItems, QueueIds
<1>3. CASE i \in ListItems(x)
  BY <1>1, <1>3 DEF ListItems, ListIds
<1>4. CASE i \in HeldItems(o)
  BY <1>1, <1>4 DEF HeldItems, HeldIds
<1>5. QED
  BY <1>1, <1>2, <1>3, <1>4 DEF Owed

(* An item joins a queue.                                                  *)
LEMMA JoinItems ==
  ASSUME NEW q \in [Keys -> Seq(Items)], NEW k \in Keys, NEW x \in Items
  PROVE  QueueItems([q EXCEPT ![k] = Append(@, x)]) = QueueItems(q) \cup {x}
<1> DEFINE r == [q EXCEPT ![k] = Append(@, x)]
           n == Len(q[k])
<1>1. /\ q[k] \in Seq(Items) /\ n \in Nat /\ Len(r[k]) = n + 1 /\ r[k][n + 1] = x
      /\ \A i \in 1 .. n : r[k][i] = q[k][i]
  OBVIOUS
<1>2. \A l \in Keys : l # k => r[l] = q[l]
  OBVIOUS
<1> HIDE DEF r, n
<1>3. ASSUME NEW i \in QueueItems(r) PROVE i \in QueueItems(q) \cup {x}
  <2>1. i \in Items /\ \E l \in Keys : \E j \in 1 .. Len(r[l]) : r[l][j] = i
    BY <1>3 DEF QueueItems
  <2>2. PICK l \in Keys : \E j \in 1 .. Len(r[l]) : r[l][j] = i
    BY <2>1
  <2>3. PICK j \in 1 .. Len(r[l]) : r[l][j] = i
    BY <2>2
  <2>4. CASE l # k
    BY <1>2, <2>1, <2>3, <2>4 DEF QueueItems
  <2>5. CASE l = k /\ j = n + 1
    BY <1>1, <2>3, <2>5
  <2>6. CASE l = k /\ j # n + 1
    <3>1. j \in 1 .. Len(q[k])
      BY <1>1, <2>6 DEF n
    <3>2. q[k][j] = i
      BY <1>1, <2>3, <2>6, <3>1 DEF n
    <3>3. QED
      BY <2>1, <3>1, <3>2 DEF QueueItems
  <2>7. QED
    BY <2>4, <2>5, <2>6
<1>4. ASSUME NEW i \in QueueItems(q) PROVE i \in QueueItems(r)
  <2>1. i \in Items /\ \E l \in Keys : \E j \in 1 .. Len(q[l]) : q[l][j] = i
    BY <1>4 DEF QueueItems
  <2>2. PICK l \in Keys : \E j \in 1 .. Len(q[l]) : q[l][j] = i
    BY <2>1
  <2>3. PICK j \in 1 .. Len(q[l]) : q[l][j] = i
    BY <2>2
  <2>4. CASE l # k
    BY <1>2, <2>1, <2>3, <2>4 DEF QueueItems
  <2>5. CASE l = k
    <3>1. j \in 1 .. Len(r[k]) /\ r[k][j] = i
      BY <1>1, <2>3, <2>5 DEF n
    <3>2. QED
      BY <2>1, <3>1 DEF QueueItems
  <2>6. QED
    BY <2>4, <2>5
<1>5. x \in QueueItems(r)
  <2>1. n + 1 \in 1 .. Len(r[k])
    BY <1>1
  <2>2. QED
    BY <1>1, <2>1 DEF QueueItems
<1>6. QED
  BY <1>3, <1>4, <1>5 DEF r

(* The first n items leave a queue.                                        *)
LEMMA CutItems ==
  ASSUME NEW q \in [Keys -> Seq(Items)], NEW k \in Keys, NEW n \in Nat, n <= Len(q[k])
  PROVE  QueueItems(q) = QueueItems([q EXCEPT ![k] = SubSeq(q[k], n + 1, Len(q[k]))])
                         \cup ListItems(SubSeq(q[k], 1, n))
<1> DEFINE r == [q EXCEPT ![k] = SubSeq(q[k], n + 1, Len(q[k]))]
           y == SubSeq(q[k], 1, n)
<1>1. q[k] \in Seq(Items) /\ Len(q[k]) \in Nat
  OBVIOUS
<1>2. Len(y) = n /\ \A i \in 1 .. n : y[i] = q[k][i] /\ i \in 1 .. Len(q[k])
  BY <1>1
<1>3. /\ Len(r[k]) = Len(q[k]) - n
      /\ \A i \in 1 .. Len(q[k]) - n : r[k][i] = q[k][i + n]
  BY <1>1
<1>4. \A l \in Keys : l # k => r[l] = q[l]
  OBVIOUS
<1> HIDE DEF r, y
<1>5. ASSUME NEW i \in QueueItems(r) PROVE i \in QueueItems(q)
  <2>1. i \in Items /\ \E l \in Keys : \E j \in 1 .. Len(r[l]) : r[l][j] = i
    BY <1>5 DEF QueueItems
  <2>2. PICK l \in Keys : \E j \in 1 .. Len(r[l]) : r[l][j] = i
    BY <2>1
  <2>3. PICK j \in 1 .. Len(r[l]) : r[l][j] = i
    BY <2>2
  <2>4. CASE l # k
    BY <1>4, <2>1, <2>3, <2>4 DEF QueueItems
  <2>5. CASE l = k
    <3>1. j \in 1 .. Len(q[k]) - n
      BY <1>3, <2>5
    <3>2. j + n \in 1 .. Len(q[k])
      BY <1>1, <3>1
    <3>3. q[k][j + n] = i
      BY <1>3, <2>3, <2>5, <3>1
    <3>4. QED
      BY <2>1, <3>2, <3>3 DEF QueueItems
  <2>6. QED
    BY <2>4, <2>5
<1>6. ASSUME NEW i \in ListItems(y) PROVE i \in QueueItems(q)
  BY <1>2, <1>6 DEF ListItems, QueueItems
<1>7. ASSUME NEW i \in QueueItems(q) PROVE i \in QueueItems(r) \cup ListItems(y)
  <2>1. i \in Items /\ \E l \in Keys : \E j \in 1 .. Len(q[l]) : q[l][j] = i
    BY <1>7 DEF QueueItems
  <2>2. PICK l \in Keys : \E j \in 1 .. Len(q[l]) : q[l][j] = i
    BY <2>1
  <2>3. PICK j \in 1 .. Len(q[l]) : q[l][j] = i
    BY <2>2
  <2>4. CASE l # k
    BY <1>4, <2>1, <2>3, <2>4 DEF QueueItems
  <2>5. CASE l = k /\ j <= n
    <3>1. j \in 1 .. Len(y) /\ y[j] = i
      BY <1>2, <2>3, <2>5
    <3>2. QED
      BY <2>1, <3>1 DEF ListItems
  <2>6. CASE l = k /\ j > n
    <3>1. j - n \in 1 .. Len(q[k]) - n /\ j - n + n = j
      BY <1>1, <2>6
    <3>2. j - n \in 1 .. Len(r[k]) /\ r[k][j - n] = q[k][j - n + n]
      BY <1>3, <3>1
    <3>3. r[k][j - n] = i
      BY <2>3, <2>6, <3>1, <3>2
    <3>4. QED
      BY <2>1, <3>2, <3>3 DEF QueueItems
  <2>7. QED
    BY <2>4, <2>5, <2>6
<1>8. QED
  BY <1>5, <1>6, <1>7 DEF r, y

(* One list after the other.                                               *)
LEMMA JoinedItems ==
  ASSUME NEW x \in Seq(Items), NEW y \in Seq(Items)
  PROVE  ListItems(x \o y) = ListItems(x) \cup ListItems(y)
<1> DEFINE z == x \o y
           m == Len(x)
           n == Len(y)
<1>1. m \in Nat /\ n \in Nat /\ Len(z) = m + n
  OBVIOUS
<1>2. (\A i \in 1 .. m : z[i] = x[i]) /\ (\A i \in 1 .. n : z[i + m] = y[i])
  OBVIOUS
<1> HIDE DEF z
<1>3. ASSUME NEW i \in ListItems(z) PROVE i \in ListItems(x) \cup ListItems(y)
  <2>1. i \in Items /\ \E j \in 1 .. Len(z) : z[j] = i
    BY <1>3 DEF ListItems
  <2>2. PICK j \in 1 .. Len(z) : z[j] = i
    BY <2>1
  <2>3. CASE j <= m
    <3>1. j \in 1 .. Len(x) /\ x[j] = i
      BY <1>1, <1>2, <2>2, <2>3
    <3>2. QED
      BY <2>1, <3>1 DEF ListItems
  <2>4. CASE j > m
    <3>1. j - m \in 1 .. n /\ j - m + m = j
      BY <1>1, <2>4
    <3>2. y[j - m] = i
      BY <1>2, <2>2, <3>1
    <3>3. QED
      BY <2>1, <3>1, <3>2 DEF ListItems
  <2>5. QED
    BY <1>1, <2>3, <2>4
<1>4. ASSUME NEW i \in ListItems(x) PROVE i \in ListItems(z)
  <2>1. i \in Items /\ \E j \in 1 .. Len(x) : x[j] = i
    BY <1>4 DEF ListItems
  <2>2. PICK j \in 1 .. Len(x) : x[j] = i
    BY <2>1
  <2>3. j \in 1 .. Len(z) /\ z[j] = i
    BY <1>1, <1>2, <2>2
  <2>4. QED
    BY <2>1, <2>3 DEF ListItems
<1>5. ASSUME NEW i \in ListItems(y) PROVE i \in ListItems(z)
  <2>1. i \in Items /\ \E j \in 1 .. Len(y) : y[j] = i
    BY <1>5 DEF ListItems
  <2>2. PICK j \in 1 .. Len(y) : y[j] = i
    BY <2>1
  <2>3. j + m \in 1 .. Len(z)
    BY <1>1, <2>2
  <2>4. z[j + m] = i
    BY <1>2, <2>2
  <2>5. QED
    BY <2>1, <2>3, <2>4 DEF ListItems
<1>6. QED
  BY <1>3, <1>4, <1>5 DEF z

(* The items of a list of one.                                             *)
LEMMA OneItem ==
  ASSUME NEW i \in Items
  PROVE  <<i>> \in Seq(Items) /\ ListItems(<<i>>) = {i}
<1>1. <<i>> \in Seq(Items) /\ Len(<<i>>) = 1 /\ <<i>>[1] = i
  OBVIOUS
<1>2. 1 \in 1 .. 1 /\ \A n \in 1 .. 1 : n = 1
  OBVIOUS
<1>3. QED
  BY <1>1, <1>2 DEF ListItems

(* A list is its first item and the rest.                                  *)
LEMMA FirstItem ==
  ASSUME NEW x \in Seq(Items), x # <<>>
  PROVE  Head(x) \in Items /\ ListItems(x) = ListItems(Tail(x)) \cup {Head(x)}
<1>1. Head(x) \in Items /\ Tail(x) \in Seq(Items)
  OBVIOUS
<1>2. x = <<Head(x)>> \o Tail(x)
  OBVIOUS
<1>3. <<Head(x)>> \in Seq(Items) /\ ListItems(<<Head(x)>>) = {Head(x)}
  BY <1>1, OneItem
<1>4. ListItems(<<Head(x)>> \o Tail(x)) = ListItems(<<Head(x)>>) \cup ListItems(Tail(x))
  BY <1>1, <1>3, JoinedItems
<1>5. QED
  BY <1>1, <1>2, <1>3, <1>4

(* The first n + 1 items of a list are the first n and one more.           *)
LEMMA LastItem ==
  ASSUME NEW x \in Seq(Items), NEW n \in Nat, n + 1 <= Len(x)
  PROVE  /\ x[n + 1] \in Items
         /\ ListItems(SubSeq(x, 1, n + 1)) = ListItems(SubSeq(x, 1, n)) \cup {x[n + 1]}
<1> DEFINE y == SubSeq(x, 1, n)
<1>1. x[n + 1] \in Items /\ y \in Seq(Items)
  BY SubSeqType
<1>2. SubSeq(x, 1, n + 1) = y \o <<x[n + 1]>>
  <2>1. SubSeq(x, 1, n + 1) = Append(y, x[n + 1])
    OBVIOUS
  <2>2. QED
    BY <1>1, <2>1
<1> HIDE DEF y
<1>3. <<x[n + 1]>> \in Seq(Items) /\ ListItems(<<x[n + 1]>>) = {x[n + 1]}
  BY <1>1, OneItem
<1>4. ListItems(y \o <<x[n + 1]>>) = ListItems(y) \cup ListItems(<<x[n + 1]>>)
  BY <1>1, <1>3, JoinedItems
<1>5. QED
  BY <1>1, <1>2, <1>3, <1>4 DEF y

-----------------------------------------------------------------------------
(* What every method of the book does to the items owed.                   *)

(* An item owed has an id that was given out and is not finished, its own. *)
LEMMA OwedOnce ==
  ASSUME TypeOK, Shared
  PROVE  /\ Unanswered \subseteq Items
         /\ \A i \in Unanswered : i.id \in 1 .. admitted /\ i.id \notin done
<1>1. ASSUME NEW i \in Unanswered PROVE i \in Items /\ i.id \in 1 .. admitted /\ i.id \notin done
  <2>1. i \in Owed(queue, expired, outstanding)
    BY <1>1, UnansweredIsOwed
  <2>2. i \in Items /\ i.id \in QueueIds(queue) \cup ListIds(expired) \cup HeldIds(outstanding)
    BY <2>1, OwedIds
  <2>3. QED
    BY <2>2 DEF Shared, Parted
<1>2. QED
  BY <1>1

(* The same after a step.                                                  *)
LEMMA OwedOnceNext ==
  ASSUME TypeOK', Shared'
  PROVE  \A i \in Unanswered' : i.id \notin done'
<1>1. ASSUME NEW i \in Unanswered' PROVE i.id \notin done'
  <2>1. i \in Owed(queue', expired', outstanding')
    BY <1>1, UnansweredIsOwedNext
  <2>2. i \in Items /\ i.id \in QueueIds(queue') \cup ListIds(expired') \cup HeldIds(outstanding')
    BY <2>1, OwedIds
  <2>3. QED
    BY <2>2 DEF Shared, Parted
<1>2. QED
  BY <1>1

(* admit: one item more.                                                   *)
LEMMA AdmitOwes ==
  ASSUME TypeOK, TypeOK', NEW k \in Keys, NEW c \in Classes, NEW d \in Deadlines, Admit(k, c, d)
  PROVE  \E x \in Items : /\ x.id = admitted + 1 /\ x.key = k
                          /\ Unanswered' = Unanswered \cup {x}
<1> DEFINE x == [id |-> admitted + 1, key |-> k, class |-> c, deadline |-> d]
<1>1. x \in Items /\ x.id = admitted + 1 /\ x.key = k
  BY BookConstants DEF Items, TypeOK
<1>2. /\ queue' = [queue EXCEPT ![k] = Append(@, x)]
      /\ expired' = expired /\ outstanding' = outstanding
  BY DEF Admit, Enqueued, caller
<1>3. queue \in [Keys -> Seq(Items)]
  BY DEF TypeOK
<1> HIDE DEF x
<1>4. QueueItems(queue') = QueueItems(queue) \cup {x}
  BY <1>1, <1>2, <1>3, JoinItems
<1>5. Unanswered' = Unanswered \cup {x}
  <2>1. Owed(queue', expired', outstanding') = Owed(queue, expired, outstanding) \cup {x}
    BY <1>2, <1>4 DEF Owed
  <2>2. QED
    BY <2>1, UnansweredIsOwed, UnansweredIsOwedNext
<1>6. QED
  BY <1>1, <1>5

(* next: items change places.                                              *)
LEMMA NextOwesTheSame ==
  ASSUME TypeOK, TypeOK', NEW c \in Classes, NextTakes(c) \/ NextSkips(c)
  PROVE  Unanswered' = Unanswered
<1> DEFINE k == Head(ready[c])
           q == queue[k]
<1>1. /\ queue \in [Keys -> Seq(Items)] /\ ready \in [Classes -> Seq(Keys)]
      /\ ready[c] # <<>> /\ expired \in Seq(Items)
  BY DEF TypeOK, NextTakes, NextSkips
<1>2. k \in Keys /\ q \in Seq(Items)
  BY <1>1
<1>3. CASE NextTakes(c)
  <2>1. PICK n \in 0 .. Len(q) - 1 :
          /\ queue' = [queue EXCEPT ![k] = SubSeq(q, n + 2, Len(q))]
          /\ expired' = expired \o SubSeq(q, 1, n)
          /\ outstanding' = outstanding \cup {[item |-> q[n + 1], state |-> resident[k]]}
    BY <1>3 DEF NextTakes
  <2>2. n \in Nat /\ n + 1 \in Nat /\ n + 1 <= Len(q) /\ n + 1 + 1 = n + 2 /\ n <= Len(q)
    BY <1>2, <2>1
  <2> DEFINE z == SubSeq(q, 1, n)
             y == SubSeq(q, 1, n + 1)
             i == q[n + 1]
             d == [item |-> i, state |-> resident[k]]
  <2>3. z \in Seq(Items)
    BY <1>2, <2>2, SubSeqType
  <2>4. i \in Items /\ ListItems(y) = ListItems(z) \cup {i}
    BY <1>2, <2>2, LastItem
  <2>5. QueueItems(queue) = QueueItems(queue') \cup ListItems(y)
    <3> DEFINE m == n + 1
    <3>1. m \in Nat /\ m <= Len(queue[k])
      BY <2>2
    <3>2. queue' = [queue EXCEPT ![k] = SubSeq(queue[k], m + 1, Len(queue[k]))]
      BY <2>1, <2>2
    <3> HIDE DEF m
    <3>3. QueueItems(queue) =
            QueueItems([queue EXCEPT ![k] = SubSeq(queue[k], m + 1, Len(queue[k]))])
            \cup ListItems(SubSeq(queue[k], 1, m))
      <4> HIDE DEF k
      <4>1. QED
        BY <1>1, <1>2, <3>1, CutItems
    <3>4. QED
      BY <3>2, <3>3 DEF m
  <2>6. d.item = i /\ outstanding' = outstanding \cup {d}
    BY <2>1
  <2> HIDE DEF z, y, i, d
  <2>7. ListItems(expired') = ListItems(expired) \cup ListItems(z)
    BY <1>1, <2>1, <2>3, JoinedItems DEF z
  <2>8. HeldItems(outstanding') = HeldItems(outstanding) \cup {i}
    BY <2>4, <2>6 DEF HeldItems
  <2>9. Owed(queue', expired', outstanding') = Owed(queue, expired, outstanding)
    BY <2>4, <2>5, <2>7, <2>8 DEF Owed
  <2>10. QED
    BY <2>9, UnansweredIsOwed, UnansweredIsOwedNext
<1>4. CASE NextSkips(c)
  <2>1. PICK n \in 0 .. Len(q) :
          /\ queue' = [queue EXCEPT ![k] = SubSeq(q, n + 1, Len(q))]
          /\ expired' = expired \o SubSeq(q, 1, n)
    BY <1>4 DEF NextSkips
  <2>2. n \in Nat /\ n <= Len(q)
    BY <1>2, <2>1
  <2> DEFINE z == SubSeq(q, 1, n)
  <2>3. z \in Seq(Items)
    BY <1>2, <2>2, SubSeqType
  <2>4. QueueItems(queue) = QueueItems(queue') \cup ListItems(z)
    <3>1. QueueItems(queue) =
            QueueItems([queue EXCEPT ![k] = SubSeq(queue[k], n + 1, Len(queue[k]))])
            \cup ListItems(SubSeq(queue[k], 1, n))
      <4> HIDE DEF k
      <4>1. QED
        BY <1>1, <1>2, <2>2, CutItems
    <3>2. QED
      BY <2>1, <3>1
  <2> HIDE DEF z
  <2>5. ListItems(expired') = ListItems(expired) \cup ListItems(z)
    BY <1>1, <2>1, <2>3, JoinedItems DEF z
  <2>6. outstanding' = outstanding
    BY <1>4 DEF NextSkips, caller
  <2>7. Owed(queue', expired', outstanding') = Owed(queue, expired, outstanding)
    BY <2>4, <2>5, <2>6 DEF Owed
  <2>8. QED
    BY <2>7, UnansweredIsOwed, UnansweredIsOwedNext
<1>5. QED
  BY <1>3, <1>4

(* pop_expired: the first shed item is answered.                           *)
LEMMA PopExpiredAnswers ==
  ASSUME TypeOK, TypeOK', Shared', PopExpired
  PROVE  Head(expired) \in Unanswered /\ Unanswered' = Unanswered \ {Head(expired)}
<1> DEFINE x == Head(expired)
<1>1. /\ expired \in Seq(Items) /\ expired # <<>> /\ expired' = Tail(expired)
      /\ queue' = queue /\ outstanding' = outstanding /\ x.id \in done'
  BY DEF TypeOK, PopExpired, caller
<1>2. ListItems(expired) = ListItems(expired') \cup {x}
  BY <1>1, FirstItem
<1> HIDE DEF x
<1>3. Unanswered = Unanswered' \cup {x}
  <2>1. Owed(queue, expired, outstanding) = Owed(queue', expired', outstanding') \cup {x}
    BY <1>1, <1>2 DEF Owed
  <2>2. QED
    BY <2>1, UnansweredIsOwed, UnansweredIsOwedNext
<1>4. x \notin Unanswered'
  BY <1>1, OwedOnceNext
<1>5. QED
  BY <1>3, <1>4 DEF x

(* complete: the dispatched item is answered.                              *)
LEMMA CompleteAnswers ==
  ASSUME TypeOK, TypeOK', Shared', NEW d \in outstanding, NEW keep \in BOOLEAN, Complete(d, keep)
  PROVE  d.item \in Unanswered /\ Unanswered' = Unanswered \ {d.item}
<1>1. /\ outstanding' = outstanding \ {d} /\ d.item.id \in done'
      /\ queue' = queue /\ expired' = expired /\ d.item \in Items
  BY DEF TypeOK, Complete
<1>2. HeldItems(outstanding) = HeldItems(outstanding') \cup {d.item}
  <2>1. ASSUME NEW i \in Items
        PROVE  (\E e \in outstanding : e.item = i)
                 <=> (\E e \in outstanding' : e.item = i) \/ i = d.item
    <3>1. \A e \in outstanding' : e \in outstanding
      BY <1>1
    <3>2. \A e \in outstanding : e \in outstanding' \/ e = d
      BY <1>1
    <3>3. QED
      BY <3>1, <3>2, Zenon
  <2>2. QED
    BY <1>1, <2>1 DEF HeldItems
<1>3. Unanswered = Unanswered' \cup {d.item}
  <2>1. Owed(queue, expired, outstanding) = Owed(queue', expired', outstanding') \cup {d.item}
    BY <1>1, <1>2 DEF Owed
  <2>2. QED
    BY <2>1, UnansweredIsOwed, UnansweredIsOwedNext
<1>4. d.item \notin Unanswered'
  BY <1>1, OwedOnceNext
<1>5. QED
  BY <1>3, <1>4

-----------------------------------------------------------------------------
(* The index against the items owed, with both as parameters.              *)

Exact(L, U, t) ==
  /\ \A p \in L : \E i \in U : t[i.id] # NoId /\ p = <<i.key, t[i.id]>>
  /\ \A i \in U : t[i.id] # NoId => <<i.key, t[i.id]>> \in L
  /\ \A i, j \in U : i.key = j.key /\ t[i.id] = t[j.id] /\ t[i.id] # NoId => i = j

(* Exact is what CoalescingExact says.                                     *)
LEMMA ExactIs ==
  CoalescingExact <=> Exact(live, Unanswered, tag)
<1> DEFINE R == {<<i.key, tag[i.id]>> : i \in {j \in Unanswered : tag[j.id] # NoId}}
<1>1. \A p : p \in R <=> \E i \in Unanswered : tag[i.id] # NoId /\ p = <<i.key, tag[i.id]>>
  BY Zenon
<1> HIDE DEF R
<1>2. (live = R) <=> /\ \A p \in live : \E i \in Unanswered : tag[i.id] # NoId /\ p = <<i.key, tag[i.id]>>
                     /\ \A i \in Unanswered : tag[i.id] # NoId => <<i.key, tag[i.id]>> \in live
  BY <1>1
<1>3. QED
  BY <1>2, Zenon DEF CoalescingExact, Exact, R

(* The same after a step.                                                  *)
LEMMA ExactIsNext ==
  CoalescingExact' <=> Exact(live', Unanswered', tag')
<1> DEFINE R == {<<i.key, tag'[i.id]>> : i \in {j \in Unanswered' : tag'[j.id] # NoId}}
<1>1. \A p : p \in R <=> \E i \in Unanswered' : tag'[i.id] # NoId /\ p = <<i.key, tag'[i.id]>>
  BY Zenon
<1> HIDE DEF R
<1>2. (live' = R) <=>
        /\ \A p \in live' : \E i \in Unanswered' : tag'[i.id] # NoId /\ p = <<i.key, tag'[i.id]>>
        /\ \A i \in Unanswered' : tag'[i.id] # NoId => <<i.key, tag'[i.id]>> \in live'
  BY <1>1
<1>3. QED
  BY <1>2, Zenon DEF CoalescingExact, Exact, R

(* A new item, with an id that is not in the index under its key.          *)
LEMMA ExactAdds ==
  ASSUME NEW L, NEW U, NEW T, NEW t \in Seq(T), NEW x, NEW r \in T,
         \A i \in U : i.id \in 1 .. Len(t),
         x.id = Len(t) + 1,
         r # NoId => <<x.key, r>> \notin L,
         Exact(L, U, t)
  PROVE  Exact(IF r = NoId THEN L ELSE L \cup {<<x.key, r>>}, U \cup {x}, Append(t, r))
<1> DEFINE s == Append(t, r)
           M == IF r = NoId THEN L ELSE L \cup {<<x.key, r>>}
<1>1. s[x.id] = r /\ \A n \in 1 .. Len(t) : s[n] = t[n]
  OBVIOUS
<1>2. \A i \in U : s[i.id] = t[i.id]
  BY <1>1
<1> HIDE DEF s
<1>3. ASSUME NEW p \in M
      PROVE  \E i \in U \cup {x} : s[i.id] # NoId /\ p = <<i.key, s[i.id]>>
  <2>1. CASE p \in L
    BY <1>2, <2>1 DEF Exact
  <2>2. CASE p \notin L
    <3>1. r # NoId /\ p = <<x.key, r>>
      BY <1>3, <2>2
    <3>2. QED
      BY <1>1, <3>1
  <2>3. QED
    BY <2>1, <2>2
<1>4. ASSUME NEW i \in U \cup {x}, s[i.id] # NoId PROVE <<i.key, s[i.id]>> \in M
  <2>1. CASE i \in U
    BY <1>2, <1>4, <2>1 DEF Exact
  <2>2. CASE i = x
    BY <1>1, <1>4, <2>2
  <2>3. QED
    BY <2>1, <2>2
<1>5. ASSUME NEW i \in U, i.key = x.key, t[i.id] = r, r # NoId PROVE FALSE
  <2>1. <<i.key, t[i.id]>> \in L
    BY <1>5 DEF Exact
  <2>2. QED
    BY <1>5, <2>1
<1>6. ASSUME NEW i \in U \cup {x}, NEW j \in U \cup {x},
             i.key = j.key, s[i.id] = s[j.id], s[i.id] # NoId
      PROVE  i = j
  <2>1. CASE i \in U /\ j \in U
    BY <1>2, <1>6, <2>1 DEF Exact
  <2>2. CASE i = x /\ j \in U
    BY <1>1, <1>2, <1>5, <1>6, <2>2
  <2>3. CASE i \in U /\ j = x
    BY <1>1, <1>2, <1>5, <1>6, <2>3
  <2>4. QED
    BY <2>1, <2>2, <2>3
<1> HIDE DEF M
<1>7. Exact(M, U \cup {x}, s)
  BY <1>3, <1>4, <1>6 DEF Exact
<1>8. QED
  BY <1>7 DEF M, s

(* An item is over.                                                        *)
LEMMA ExactDrops ==
  ASSUME NEW L, NEW U, NEW t, NEW x \in U, Exact(L, U, t)
  PROVE  Exact(L \ {<<x.key, t[x.id]>>}, U \ {x}, t)
<1> DEFINE M == L \ {<<x.key, t[x.id]>>}
           V == U \ {x}
<1>1. ASSUME NEW p \in M PROVE \E i \in V : t[i.id] # NoId /\ p = <<i.key, t[i.id]>>
  <2>1. PICK i \in U : t[i.id] # NoId /\ p = <<i.key, t[i.id]>>
    BY <1>1 DEF Exact
  <2>2. QED
    BY <1>1, <2>1
<1>2. ASSUME NEW i \in V, t[i.id] # NoId PROVE <<i.key, t[i.id]>> \in M
  <2>1. <<i.key, t[i.id]>> \in L
    BY <1>2 DEF Exact
  <2>2. ASSUME <<i.key, t[i.id]>> = <<x.key, t[x.id]>> PROVE FALSE
    <3>1. i.key = x.key /\ t[i.id] = t[x.id]
      BY <2>2
    <3>2. QED
      BY <1>2, <3>1 DEF Exact
  <2>3. QED
    BY <2>1, <2>2
<1>3. QED
  BY <1>1, <1>2 DEF Exact

-----------------------------------------------------------------------------
(* The inductive invariant: one tag per item admitted, and the index exact.*)

Tagged == tag \in Seq(RequestIds \cup {NoId}) /\ Len(tag) = admitted
Indexed == Tagged /\ CoalescingExact

(* Which steps answer an item or take one in; the others leave the index,  *)
(* the tags and the items owed alone.                                      *)
LEMMA IndexActions ==
  ASSUME ArgumentsInRange, [ShardNext]_shardvars
  PROVE  \/ Shed \/ DrainAdmits
         \/ \E d \in batch, keep, panicked \in BOOLEAN : PollCompletes(d, keep, panicked)
         \/ /\ UNCHANGED <<live, tag, admitted>>
            /\ \/ UNCHANGED <<queue, expired, outstanding>>
               \/ \E c \in Classes : NextTakes(c) \/ NextSkips(c)
<1> USE DEF book, vars, caller, history, flow
<1>1. CASE Turn
  <2>1. CASE DispatchTakes \/ DispatchSkips
    BY <2>1 DEF DispatchTakes, DispatchSkips, NextTakes, NextSkips, ArgumentsInRange
  <2>2. CASE DispatchEnds \/ BeginFlushes \/ FinalFlush \/ FinalEnds
    BY <2>2 DEF DispatchEnds, BeginFlushes, FinalFlush, FinalEnds
  <2>3. CASE FinalEvicts \/ SweepEvicts
    BY <2>3 DEF FinalEvicts, SweepEvicts, EvictAll, Evict, ReleaseHead
  <2>4. CASE DrainCoalesces \/ DrainFindsNothing \/ DrainStops
    BY <2>4 DEF DrainCoalesces, DrainFindsNothing, DrainStops
  <2>5. CASE HarvestBegins \/ HarvestEnds \/ \E f \in batch : PollSuspends(f)
    BY <2>5 DEF HarvestBegins, HarvestEnds, PollSuspends
  <2>6. CASE \E f \in batch : PollFlushed(f)
    BY <2>6 DEF PollFlushed, FinishEvict
  <2>7. CASE SweepBreaks
    BY <2>7 DEF SweepBreaks, EvictBreaks
  <2>8. CASE TickFires \/ SweepFindsNothing \/ GoOn \/ Sleep \/ Awake
    BY <2>8 DEF TickFires, SweepFindsNothing, GoOn, Sleep, Awake
  <2>9. QED
    BY <1>1, <2>1, <2>2, <2>3, <2>4, <2>5, <2>6, <2>7, <2>8 DEF Turn
<1>2. CASE ReadsClock
  BY <1>2 DEF ReadsClock, ClockAdvances
<1>3. CASE \/ TickWakes \/ Shutdown \/ UNCHANGED shardvars
           \/ \E f \in suspended : FutureWakes(f)
           \/ \E e \in Submissions : Send(e)
  BY <1>3 DEF TickWakes, Shutdown, shardvars, FutureWakes, Send
<1>4. QED
  BY <1>1, <1>2, <1>3 DEF ShardNext

(* Every step keeps the index exact.                                       *)
LEMMA IndexStep ==
  ASSUME BookInv, Shared, ArgumentsInRange, Indexed, [ShardNext]_shardvars
  PROVE  Indexed'
<1>1. [Next]_vars
  BY ShardIsBookStep
<1>2. TypeOK /\ TypeOK'
  BY <1>1, TypeStep DEF BookInv
<1>3. Shared'
  BY <1>1, <1>2, SharedStep
<1>4. Exact(live, Unanswered, tag) /\ Tagged
  BY ExactIs DEF Indexed
<1>5. CASE Shed
  <2>1. /\ PopExpired /\ tag' = tag /\ admitted' = admitted
        /\ live' = live \ {<<Head(expired).key, tag[Head(expired).id]>>}
    BY <1>5 DEF Shed, PopExpired, Untracked
  <2>2. Head(expired) \in Unanswered /\ Unanswered' = Unanswered \ {Head(expired)}
    BY <1>2, <1>3, <2>1, PopExpiredAnswers
  <2>3. Exact(live', Unanswered', tag')
    BY <1>4, <2>1, <2>2, ExactDrops
  <2>4. QED
    BY <1>4, <2>1, <2>3, ExactIsNext DEF Indexed, Tagged
<1>6. ASSUME NEW d \in batch, NEW keep \in BOOLEAN, NEW panicked \in BOOLEAN,
             PollCompletes(d, keep, panicked)
      PROVE  Indexed'
  <2>1. /\ d \in outstanding /\ Complete(d, keep) /\ tag' = tag /\ admitted' = admitted
        /\ live' = live \ {<<d.item.key, tag[d.item.id]>>}
    BY <1>6 DEF PollCompletes, Complete, Untracked
  <2>2. d.item \in Unanswered /\ Unanswered' = Unanswered \ {d.item}
    BY <1>2, <1>3, <2>1, CompleteAnswers
  <2>3. Exact(live', Unanswered', tag')
    BY <1>4, <2>1, <2>2, ExactDrops
  <2>4. QED
    BY <1>4, <2>1, <2>3, ExactIsNext DEF Indexed, Tagged
<1>7. CASE DrainAdmits
  <2> DEFINE e == Head(inbox)
             T == RequestIds \cup {NoId}
  <2>1. e \in Envelopes
    BY <1>7 DEF DrainAdmits, ArgumentsInRange
  <2>2. e.key \in Keys /\ e.class \in Classes /\ e.deadline \in Deadlines /\ e.rid \in T
    BY <2>1 DEF Envelopes
  <2>3. /\ ~Duplicate(e) /\ Admit(e.key, e.class, e.deadline) /\ tag' = Append(tag, e.rid)
        /\ live' = IF e.rid = NoId THEN live ELSE live \cup {<<e.key, e.rid>>}
    BY <1>7 DEF DrainAdmits
  <2> HIDE DEF e
  <2>4. PICK x \in Items : /\ x.id = admitted + 1 /\ x.key = e.key
                           /\ Unanswered' = Unanswered \cup {x}
    BY <1>2, <2>2, <2>3, AdmitOwes
  <2>5. \A i \in Unanswered : i.id \in 1 .. Len(tag)
    BY <1>2, <1>4, OwedOnce DEF Tagged
  <2>6. e.rid # NoId => <<x.key, e.rid>> \notin live
    BY <2>3, <2>4 DEF Duplicate
  <2>7. tag \in Seq(T) /\ x.id = Len(tag) + 1
    BY <1>4, <2>4 DEF Tagged
  <2>8. live' = IF e.rid = NoId THEN live ELSE live \cup {<<x.key, e.rid>>}
    BY <2>3, <2>4
  <2>9. Exact(live', Unanswered', tag')
    <3> HIDE DEF T
    <3>1. Exact(IF e.rid = NoId THEN live ELSE live \cup {<<x.key, e.rid>>},
                Unanswered \cup {x}, Append(tag, e.rid))
      BY <1>4, <2>2, <2>5, <2>6, <2>7, ExactAdds
    <3>2. QED
      BY <2>3, <2>4, <2>8, <3>1
  <2>10. admitted' = admitted + 1
    BY <2>3 DEF Admit
  <2>11. Tagged'
    BY <1>4, <2>2, <2>3, <2>7, <2>10 DEF Tagged
  <2>12. QED
    BY <2>9, <2>11, ExactIsNext DEF Indexed
<1>8. ASSUME UNCHANGED <<live, tag, admitted>>,
             \/ UNCHANGED <<queue, expired, outstanding>>
             \/ \E c \in Classes : NextTakes(c) \/ NextSkips(c)
      PROVE  Indexed'
  <2>1. Unanswered' = Unanswered
    <3>1. CASE UNCHANGED <<queue, expired, outstanding>>
      BY <1>2, <3>1, UnansweredIsOwed, UnansweredIsOwedNext
    <3>2. CASE \E c \in Classes : NextTakes(c) \/ NextSkips(c)
      BY <1>2, <3>2, NextOwesTheSame
    <3>3. QED
      BY <1>8, <3>1, <3>2
  <2>2. Exact(live', Unanswered', tag')
    BY <1>4, <1>8, <2>1
  <2>3. QED
    BY <1>4, <1>8, <2>2, ExactIsNext DEF Indexed, Tagged
<1>9. QED
  BY <1>5, <1>6, <1>7, <1>8, IndexActions

(* A shard that has just started has nothing to index.                     *)
LEMMA IndexInit == ShardInit => Indexed
<1> SUFFICES ASSUME ShardInit PROVE Indexed
  OBVIOUS
<1>1. /\ Init /\ live = {} /\ tag = <<>> /\ admitted = 0
      /\ queue = [k \in Keys |-> <<>>] /\ expired = <<>> /\ outstanding = {}
  BY DEF ShardInit, Init
<1>2. Owed(queue, expired, outstanding) = {}
  <2>1. \A k \in Keys : Len(queue[k]) = 0
    BY <1>1
  <2>2. QueueItems(queue) = {}
    BY <2>1 DEF QueueItems
  <2>3. ListItems(expired) = {} /\ HeldItems(outstanding) = {}
    BY <1>1 DEF ListItems, HeldItems
  <2>4. QED
    BY <2>2, <2>3 DEF Owed
<1>3. TypeOK
  BY <1>1, BookConstants DEF Init, TypeOK, NoCall, NoState, Presences
<1>4. Unanswered = {}
  BY <1>2, <1>3, UnansweredIsOwed
<1>5. Exact(live, Unanswered, tag)
  BY <1>1, <1>4 DEF Exact
<1>6. QED
  BY <1>1, <1>5, ExactIs DEF Indexed, Tagged

(* The index, from the start on.                                           *)
LEMMA IndexInvariant == ShardSpec => []Indexed
<1>1. ShardInit => ArgumentsInRange
  BY BookConstants DEF ShardInit, ArgumentsInRange, Classes
<1>2. ShardSpec => []ArgumentsInRange
  BY <1>1, ArgumentsStep, PTL DEF ShardSpec
<1>3. ShardSpec => []BookInv /\ []Shared
  BY ShardRunsTheBook, BookInvariant, SharedInvariant, PTL
<1>4. QED
  BY <1>2, <1>3, IndexInit, IndexStep, PTL DEF ShardSpec

(* Retries are coalesced exactly while they should be, whatever expires,   *)
(* fails or panics: an id is in the index as long as its item is queued,   *)
(* shed or dispatched and no longer, and never for two items of a key.     *)
THEOREM CoalescingAlwaysExact == ShardSpec => []CoalescingExact
<1>1. Indexed => CoalescingExact
  BY DEF Indexed
<1>2. QED
  BY <1>1, IndexInvariant, PTL

-----------------------------------------------------------------------------
(* The way out.  A key is busy while an item of it waits or is dispatched. *)

Busy(k) == queue[k] # <<>> \/ \E d \in outstanding : d.item.key = k

(* Nothing but admit makes a key busy, and a key goes idle only from work. *)
LEMMA OnlyAdmitBrings ==
  ASSUME BookInv, [Next]_vars, admitted' = admitted
  PROVE  \A k \in Keys : /\ Busy(k)' => Busy(k)
                         /\ presence'[k] = Idle => presence[k] = Idle \/ Busy(k)
<1>1. /\ TypeOK /\ queue \in [Keys -> Seq(Items)] /\ presence \in [Keys -> Presences]
      /\ ready \in [Classes -> Seq(Keys)] /\ admitted \in Nat
  BY DEF BookInv, TypeOK
<1>2. ASSUME UNCHANGED <<presence, queue, outstanding>>, NEW k \in Keys
      PROVE  /\ Busy(k)' => Busy(k)
             /\ presence'[k] = Idle => presence[k] = Idle \/ Busy(k)
  BY <1>2 DEF Busy
<1>3. ASSUME NEW c \in Classes, NextTakes(c) \/ NextSkips(c), NEW l \in Keys
      PROVE  /\ Busy(l)' => Busy(l)
             /\ presence'[l] = Idle => presence[l] = Idle \/ Busy(l)
  <2> DEFINE k == Head(ready[c])
             q == queue[k]
  <2>1. ready[c] # <<>> /\ ready[c] \in Seq(Keys)
    BY <1>1, <1>3 DEF NextTakes, NextSkips
  <2>2. k \in Keys /\ q \in Seq(Items) /\ 1 \in 1 .. Len(ready[c]) /\ ready[c][1] = k
    BY <1>1, <2>1
  <2>3. q # <<>>
    BY <2>2 DEF BookInv, RingsAgree
  <2>4. Busy(k)
    BY <2>3 DEF Busy
  <2>5. \A j \in Keys : j # k => queue'[j] = queue[j] /\ presence'[j] = presence[j]
    <3>1. CASE NextTakes(c)
      BY <1>1, <2>2, <3>1 DEF NextTakes
    <3>2. CASE NextSkips(c)
      <4>1. PICK n \in 0 .. Len(q) :
              /\ queue' = [queue EXCEPT ![k] = SubSeq(q, n + 1, Len(q))]
              /\ Place(k, SubSeq(q, n + 1, Len(q)), [ready EXCEPT ![c] = Tail(@)])
        BY <3>2 DEF NextSkips
      <4>2. SubSeq(q, n + 1, Len(q)) \in Seq(Items)
        BY <2>2, <4>1, SubSeqType
      <4>3. [ready EXCEPT ![c] = Tail(@)] \in [Classes -> Seq(Keys)]
        BY <1>1, <2>1
      <4>4. \A j \in Keys : j # k => presence'[j] = presence[j]
        <5> HIDE DEF k
        <5>1. QED
          BY <1>1, <2>2, <4>1, <4>2, <4>3, PlaceMoves
      <4>5. QED
        BY <1>1, <2>2, <4>1, <4>4
    <3>3. QED
      BY <1>3, <3>1, <3>2
  <2>6. \A d \in outstanding' : d \in outstanding \/ d.item.key = k
    <3>1. CASE NextTakes(c)
      <4>1. PICK n \in 0 .. Len(q) - 1 :
              outstanding' = outstanding \cup {[item |-> q[n + 1], state |-> resident[k]]}
        BY <3>1 DEF NextTakes
      <4>2. n + 1 \in 1 .. Len(q)
        BY <2>2, <4>1
      <4>3. q[n + 1].key = k
        BY <2>2, <4>2 DEF BookInv, KeyedQueues
      <4>4. QED
        BY <4>1, <4>3
    <3>2. CASE NextSkips(c)
      BY <3>2 DEF NextSkips, caller
    <3>3. QED
      BY <1>3, <3>1, <3>2
  <2> HIDE DEF k, q
  <2>7. CASE l = k
    BY <2>4, <2>7
  <2>8. CASE l # k
    BY <2>5, <2>6, <2>8 DEF Busy
  <2>9. QED
    BY <2>7, <2>8
<1>4. ASSUME NEW d \in outstanding, NEW keep \in BOOLEAN, Complete(d, keep), NEW l \in Keys
      PROVE  /\ Busy(l)' => Busy(l)
             /\ presence'[l] = Idle => presence[l] = Idle \/ Busy(l)
  <2> DEFINE k == d.item.key
  <2>1. k \in Keys /\ Busy(k)
    BY <1>1, OwnedKeys DEF Busy
  <2>2. /\ Place(k, queue[k], ready) /\ queue' = queue /\ outstanding' = outstanding \ {d}
    BY <1>4 DEF Complete
  <2>3. \A j \in Keys : j # k => presence'[j] = presence[j]
    <3> HIDE DEF k
    <3>1. queue[k] \in Seq(Items)
      BY <1>1, <2>1
    <3>2. QED
      BY <1>1, <2>1, <2>2, <3>1, PlaceMoves
  <2> HIDE DEF k
  <2>4. CASE l = k
    BY <2>1, <2>4
  <2>5. CASE l # k
    BY <2>2, <2>3, <2>5 DEF Busy
  <2>6. QED
    BY <2>4, <2>5
<1>5. ASSUME Evict \/ EvictAll, NEW l \in Keys
      PROVE  /\ Busy(l)' => Busy(l)
             /\ presence'[l] = Idle => presence[l] = Idle \/ Busy(l)
  <2>1. ReleaseHead /\ idle_head # None
    BY <1>5 DEF Evict, EvictAll
  <2>2. queue' = queue /\ outstanding' = outstanding
    BY <2>1 DEF ReleaseHead
  <2>3. \A j \in Keys : presence'[j] = presence[j] \/ presence'[j] \in {Evicting, Absent}
    BY <1>1, <2>1 DEF ReleaseHead, Releases
  <2>4. QED
    BY <2>2, <2>3, ClassesApart DEF Busy
<1>6. ASSUME NEW f \in flushing, FinishEvict(f), NEW l \in Keys
      PROVE  /\ Busy(l)' => Busy(l)
             /\ presence'[l] = Idle => presence[l] = Idle \/ Busy(l)
  <2> DEFINE k == f.key
  <2>1. k \in Keys /\ queue' = queue /\ outstanding' = outstanding
    BY <1>1, <1>6, OwnedKeys DEF FinishEvict
  <2>2. CASE queue[k] = <<>>
    <3>1. presence' = [presence EXCEPT ![k] = Absent]
      BY <1>6, <2>2 DEF FinishEvict
    <3>2. \A j \in Keys : presence'[j] = presence[j] \/ presence'[j] = Absent
      BY <1>1, <3>1
    <3>3. QED
      BY <2>1, <3>2, ClassesApart DEF Busy
  <2>3. CASE queue[k] # <<>>
    <3>1. Place(k, queue[k], ready)
      BY <1>6, <2>3 DEF FinishEvict
    <3> HIDE DEF k
    <3>2. queue[k] \in Seq(Items)
      BY <1>1, <2>1
    <3>3. \A j \in Keys : j # k => presence'[j] = presence[j]
      BY <1>1, <2>1, <3>1, <3>2, PlaceMoves
    <3>4. Busy(k)
      BY <2>3 DEF Busy
    <3>5. QED
      BY <2>1, <3>3, <3>4 DEF Busy
  <2>4. QED
    BY <2>2, <2>3
<1>7. ~ \E k \in Keys, c \in Classes, d \in Deadlines : Admit(k, c, d)
  <2>1. ASSUME NEW k \in Keys, NEW c \in Classes, NEW d \in Deadlines, Admit(k, c, d)
        PROVE  FALSE
    <3>1. admitted' = admitted + 1
      BY <2>1 DEF Admit
    <3>2. QED
      BY <1>1, <3>1
  <2>2. QED
    BY <2>1
<1>8. CASE PopExpired \/ EvictBreaks \/ ClockAdvances \/ UNCHANGED vars
  BY <1>2, <1>8 DEF PopExpired, EvictBreaks, ClockAdvances, vars, caller
<1>9. QED
  BY <1>3, <1>4, <1>5, <1>6, <1>7, <1>8 DEF Next

(* Past the exit test nothing is in flight and the inbox is closed, except *)
(* that the last pass may stage what it evicts.                            *)
Leaving ==
  /\ pc \in {"exit", "final", "done"} => outstanding = {} /\ expired = <<>> /\ ~open
  /\ pc \in {"exit", "done"} => flushing = {}
  /\ pc = "final" => flushing \subseteq StagedSet(staged)
  /\ pc = "drain" => open
  /\ ~final_flush => ~open
  /\ pc \in {"final", "done"} => ~final_flush

(* From the last pass on only keys that had work when it began are busy,   *)
(* and once it is over only they can be idle.                              *)
LeftBehind ==
  ~final_flush =>
    /\ \A k \in Keys : Busy(k) => k \in behind
    /\ pc # "final" => \A k \in Keys : presence[k] = Idle => k \in behind

(* The steps around the way out; the others stay on their side of it.      *)
LEMMA ExitActions ==
  ASSUME [ShardNext]_shardvars
  PROVE  \/ BeginFlushes \/ FinalFlush \/ FinalEvicts \/ FinalEnds \/ DrainFindsNothing
         \/ UNCHANGED <<vars, pc, open, final, staged>>
         \/ /\ pc \notin {"exit", "final", "done"} /\ pc' \notin {"exit", "final", "done"}
            /\ pc' = "drain" => pc = "drain"
            /\ UNCHANGED <<open, final>>
<1> USE DEF turn, flow, book
<1>1. CASE Turn
  <2>1. CASE DispatchTakes \/ DispatchSkips \/ DispatchEnds \/ Shed
    BY <2>1 DEF DispatchTakes, DispatchSkips, DispatchEnds, Shed, NextClass
  <2>2. CASE DrainAdmits \/ DrainCoalesces \/ DrainStops
    BY <2>2 DEF DrainAdmits, DrainCoalesces, DrainStops, Draining, Receive, Stage
  <2>3. CASE HarvestBegins \/ HarvestEnds
    BY <2>3 DEF HarvestBegins, HarvestEnds, Stage
  <2>4. ASSUME NEW f \in batch, PollSuspends(f) \/ PollFlushed(f)
        PROVE  pc = "poll" /\ pc' = "poll" /\ UNCHANGED <<open, final>>
    BY <2>4 DEF PollSuspends, PollFlushed, Polls, Polled
  <2>5. ASSUME NEW d \in batch, NEW keep \in BOOLEAN, NEW panicked \in BOOLEAN,
               PollCompletes(d, keep, panicked)
        PROVE  pc = "poll" /\ pc' = "poll" /\ UNCHANGED <<open, final>>
    BY <2>5 DEF PollCompletes, Polls, Polled
  <2>6. CASE TickFires \/ SweepEvicts \/ SweepBreaks \/ SweepFindsNothing
    BY <2>6 DEF TickFires, SweepEvicts, SweepBreaks, SweepFindsNothing, Again, Stage
  <2>7. CASE GoOn \/ Sleep \/ Awake
    BY <2>7 DEF GoOn, Sleep, Awake, Again, Stage
  <2>8. QED
    BY <1>1, <2>1, <2>2, <2>3, <2>4, <2>5, <2>6, <2>7 DEF Turn
<1>2. CASE ReadsClock
  BY <1>2 DEF ReadsClock
<1>3. CASE \/ TickWakes \/ Shutdown \/ UNCHANGED shardvars
           \/ \E f \in suspended : FutureWakes(f)
           \/ \E e \in Submissions : Send(e)
  BY <1>3 DEF TickWakes, Shutdown, shardvars, FutureWakes, Send
<1>4. QED
  BY <1>1, <1>2, <1>3 DEF ShardNext

(* Every step keeps what holds on the way out.                             *)
LEMMA LeavingStep ==
  ASSUME BookInv, FlushesGated, Leaving, [ShardNext]_shardvars
  PROVE  Leaving'
<1>1. CASE BeginFlushes
  <2>1. /\ expired = <<>> /\ UNCHANGED <<outstanding, flushing, expired, open, final_flush>>
        /\ pc' = IF open THEN "drain" ELSE IF Drained THEN "exit" ELSE "harvest"
    BY <1>1 DEF BeginFlushes, Stage, book, vars, caller, final
  <2>2. QED
    BY <2>1 DEF Leaving, Drained
<1>2. CASE FinalFlush
  <2>1. /\ pc = "exit" /\ UNCHANGED <<outstanding, flushing, expired, open>>
        /\ pc' \in {"final", "done"} /\ ~final_flush'
    BY <1>2 DEF FinalFlush, Stage, book, vars, caller
  <2>2. QED
    BY <2>1 DEF Leaving
<1>3. CASE FinalEvicts
  <2>1. /\ pc = "final" /\ pc' = "final" /\ UNCHANGED <<outstanding, expired, open, final_flush>>
        /\ ReleaseHead /\ idle_head # None /\ staged' = Staged
    BY <1>3 DEF FinalEvicts, EvictAll, ReleaseHead, turn, final
  <2>2. \/ UNCHANGED <<staged, flushing, evicting>>
        \/ \E ff \in Candidates : HandsOut(ff) /\ staged' = Append(staged, ff)
    BY <2>1, EvictStages
  <2>3. flushing' \subseteq StagedSet(staged')
    <3>1. CASE UNCHANGED <<staged, flushing>>
      BY <2>1, <3>1 DEF Leaving
    <3>2. ASSUME NEW ff \in Candidates, HandsOut(ff), staged' = Append(staged, ff)
          PROVE  flushing' \subseteq StagedSet(staged')
      <4>1. StagedSet(Append(staged, ff)) = StagedSet(staged) \cup {ff}
        BY <3>2, StageOne DEF FlushesGated, HandsOut
      <4>2. QED
        BY <2>1, <3>2, <4>1 DEF Leaving, HandsOut
    <3>3. QED
      BY <2>2, <3>1, <3>2
  <2>4. QED
    BY <2>1, <2>3 DEF Leaving
<1>4. CASE FinalEnds
  <2>1. /\ pc = "final" /\ UNCHANGED <<outstanding, flushing, expired, open, final_flush>>
        /\ pc' = IF staged = <<>> THEN "done" ELSE "dispatch"
    BY <1>4 DEF FinalEnds, Stage, book, vars, caller, flow, final
  <2>2. staged = <<>> => flushing = {}
    BY <2>1 DEF Leaving, StagedSet
  <2>3. QED
    BY <2>1, <2>2 DEF Leaving
<1>5. CASE DrainFindsNothing
  <2>1. pc = "drain" /\ pc' = "harvest" /\ final_flush' = final_flush
    BY <1>5 DEF DrainFindsNothing, Draining, Stage, final
  <2>2. final_flush
    BY <2>1 DEF Leaving
  <2>3. QED
    BY <2>1, <2>2 DEF Leaving
<1>6. CASE UNCHANGED <<vars, pc, open, final, staged>>
  BY <1>6 DEF Leaving, vars, caller, final
<1>7. CASE /\ pc \notin {"exit", "final", "done"} /\ pc' \notin {"exit", "final", "done"}
           /\ pc' = "drain" => pc = "drain"
           /\ UNCHANGED <<open, final>>
  BY <1>7 DEF Leaving, final
<1>8. QED
  BY <1>1, <1>2, <1>3, <1>4, <1>5, <1>6, <1>7, ExitActions

(* Every step keeps what the last pass leaves behind.                      *)
LEMMA LeftBehindStep ==
  ASSUME BookInv, Ranked, ArgumentsInRange, Leaving, LeftBehind, [ShardNext]_shardvars
  PROVE  LeftBehind'
<1>1. [Next]_vars
  BY ShardIsBookStep
<1>2. CASE FinalFlush
  <2>1. /\ pc = "exit" /\ UNCHANGED <<outstanding, queue, presence>>
        /\ behind' = IF final_flush THEN {k \in Keys : queue[k] # <<>>} ELSE behind
        /\ pc' = IF final_flush THEN "final" ELSE "done"
    BY <1>2 DEF FinalFlush, Stage, book, vars, caller
  <2>2. outstanding = {}
    BY <2>1 DEF Leaving
  <2>3. CASE final_flush
    BY <2>1, <2>2, <2>3 DEF LeftBehind, Busy
  <2>4. CASE ~final_flush
    BY <2>1, <2>4 DEF LeftBehind, Busy
  <2>5. QED
    BY <2>3, <2>4
<1>3. CASE FinalEnds
  <2>1. /\ pc = "final" /\ idle_head = None
        /\ UNCHANGED <<outstanding, queue, presence, final_flush, behind>>
    BY <1>3 DEF FinalEnds, book, vars, caller, flow, final
  <2>2. \A k \in Keys : presence[k] # Idle
    BY <2>1, NoHeadNoIdle
  <2>3. QED
    BY <2>1, <2>2 DEF LeftBehind, Busy
<1>4. CASE ~FinalFlush /\ ~FinalEnds
  <2>1. UNCHANGED <<final_flush, behind>> /\ (pc' # "final" => pc # "final")
    BY <1>4, ExitActions DEF BeginFlushes, FinalEvicts, DrainFindsNothing, Draining, turn,
       final
  <2> SUFFICES ASSUME ~final_flush' PROVE LeftBehind'
    BY DEF LeftBehind
  <2>2. ~final_flush /\ ~open /\ pc # "drain"
    BY <2>1 DEF Leaving
  <2>3. admitted' = admitted
    BY <2>2, IndexActions DEF Shed, PopExpired, DrainAdmits, Draining, PollCompletes, Complete
  <2>4. \A k \in Keys : /\ Busy(k)' => Busy(k)
                        /\ presence'[k] = Idle => presence[k] = Idle \/ Busy(k)
    BY <1>1, <2>3, OnlyAdmitBrings
  <2>5. QED
    BY <2>1, <2>2, <2>4 DEF LeftBehind
<1>5. QED
  BY <1>2, <1>3, <1>4

(* The way out, from the start on.                                         *)
LEMMA LeavingInvariant == ShardSpec => [](Leaving /\ LeftBehind)
<1>1. ShardInit => ArgumentsInRange
  BY BookConstants DEF ShardInit, ArgumentsInRange, Classes
<1>2. ShardSpec => []ArgumentsInRange
  BY <1>1, ArgumentsStep, PTL DEF ShardSpec
<1>3. ShardSpec => []BookInv /\ []Ranked
  BY ShardRunsTheBook, BookInvariant, RankedInvariant, PTL
<1>4. ShardInit => Leaving /\ LeftBehind
  BY DEF ShardInit, Leaving, LeftBehind
<1>5. QED
  BY <1>2, <1>3, <1>4, GateInvariant, LeavingStep, LeftBehindStep, PTL DEF ShardSpec

(* What holds on the way out makes the exit clean.                         *)
LEMMA LeavingIsClean ==
  ASSUME BookInv, FlushesGated, StateIsLatest, Indexed, ClosedForGood, Leaving, LeftBehind
  PROVE  ExitIsClean
<1> SUFFICES ASSUME pc = "done"
             PROVE  /\ Outstanding = {} /\ staged = <<>> /\ expired = <<>> /\ inbox = <<>>
                    /\ live # {} => \E k \in Keys : queue[k] # <<>>
                    /\ \A k \in Keys : resident[k] # NoState => k \in behind
  BY DEF ExitIsClean
<1>1. outstanding = {} /\ expired = <<>> /\ flushing = {} /\ ~open /\ ~final_flush
  BY DEF Leaving
<1>2. inbox = <<>>
  BY <1>1 DEF ClosedForGood
<1>3. staged = <<>>
  <2>1. staged \in Seq(Candidates) /\ \A i \in 1 .. Len(staged) : staged[i] \in {}
    BY <1>1 DEF FlushesGated
  <2>2. QED
    BY <2>1
<1>4. Outstanding = {}
  BY <1>1 DEF Outstanding, Flights
<1>5. ASSUME live # {} PROVE \E k \in Keys : queue[k] # <<>>
  <2>1. TypeOK /\ Exact(live, Unanswered, tag)
    BY ExactIs DEF BookInv, Indexed
  <2>2. PICK i \in Unanswered : TRUE
    BY <1>5, <2>1 DEF Exact
  <2>3. i \in Owed(queue, expired, outstanding)
    BY <2>1, UnansweredIsOwed
  <2>4. i \in QueueItems(queue)
    BY <1>1, <2>3 DEF Owed, ListItems, HeldItems
  <2>5. PICK k \in Keys : \E n \in 1 .. Len(queue[k]) : queue[k][n] = i
    BY <2>4 DEF QueueItems
  <2>6. queue[k] # <<>>
    BY <2>5
  <2>7. QED
    BY <2>6
<1>6. ASSUME NEW k \in Keys, resident[k] # NoState PROVE k \in behind
  <2>1. presence[k] \in Classes \/ presence[k] = Idle
    BY <1>6 DEF StateIsLatest
  <2>2. CASE presence[k] = Idle
    BY <1>1, <2>2 DEF LeftBehind
  <2>3. CASE presence[k] \in Classes
    <3>1. \E i \in 1 .. Len(ready[presence[k]]) : ready[presence[k]][i] = k
      BY <2>3 DEF BookInv, RingsAgree, Ready
    <3>2. queue[k] # <<>>
      BY <2>3, <3>1 DEF BookInv, RingsAgree
    <3>3. QED
      BY <1>1, <3>2 DEF LeftBehind, Busy
  <2>4. QED
    BY <2>1, <2>2, <2>3
<1>7. QED
  BY <1>1, <1>2, <1>3, <1>4, <1>5, <1>6

(* A shard leaves nothing in flight, unreported or unread, and no state it *)
(* could have flushed: the only keys that keep any had work waiting when   *)
(* the last eviction pass began.                                           *)
THEOREM ExitAlwaysClean == ShardSpec => []ExitIsClean
<1>1. Quiet => ClosedForGood
  BY DEF Quiet
<1>2. QED
  BY <1>1, LeavingIsClean, GateInvariant, ShardStateIsLatest, IndexInvariant, QuietInvariant,
     LeavingInvariant, PTL

=============================================================================
