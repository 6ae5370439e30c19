------------------------------- MODULE Timer -------------------------------
(***************************************************************************)
(* The hierarchical timer wheel of crates/grommet-core/src/timer.rs, for   *)
(* any number of levels and of bits per slot index (8 and 6 in the code).  *)
(*                                                                         *)
(* A slot's list is the set of the entries filed under it, the free list   *)
(* the set of free entries: order within a slot is unspecified and which   *)
(* free entry is taken makes no difference.  The heads and the occupancy   *)
(* bitmaps are read off the entries.  One iteration of advance_to_with is  *)
(* one step; a call that is refused changes nothing and is no step.  A     *)
(* call in ticks is the call in durations at a multiple of the granule.    *)
(***************************************************************************)
EXTENDS Integers, FiniteSetsExt

CONSTANTS
  Levels,         \* LEVELS
  SlotBits,       \* SLOT_BITS
  WordDigits,     \* digits of SlotBits bits in the tick word, 64 / 6 rounded up
  WheelCapacity,  \* the capacity of the wheel
  MaxGeneration,  \* u64::MAX as a generation
  Granule,        \* granularity(), in nanoseconds
  Durations,      \* the readings and deadlines of callers, in nanoseconds
  Starts          \* the readings at which a wheel is built

ASSUME TimerConstants ==
  /\ Levels \in Nat \ {0}
  /\ SlotBits \in Nat \ {0}
  /\ WordDigits \in Nat /\ WordDigits > Levels
  /\ WheelCapacity \in Nat
  /\ MaxGeneration \in Nat \ {0}
  /\ Granule \in Nat \ {0}
  /\ Durations \subseteq Nat /\ Starts \subseteq Nat

VARIABLES
  entries,     \* the slab
  wheelCursor, \* cursor
  nextEvent,   \* next_event, the cached earliest wakeup
  target       \* the target of the advance under way, NoTarget if none

timerVars == <<entries, wheelCursor, nextEvent, target>>

SlotCount == 2 ^ SlotBits
Width(level) == SlotCount ^ level
MaxDelay == SlotCount ^ Levels - 1
NoEvent == SlotCount ^ WordDigits - 1     \* u64::MAX
MaxTick == NoEvent - 1
Ticks == 0 .. MaxTick
NoTarget == -1
Free == -1                                \* FREE_LEVEL
Retired == -2                             \* RETIRED_LEVEL
Indices == 1 .. WheelCapacity

(* The powers above, of which the provers know nothing, are those of       *)
(* SlotCount.                                                              *)
ASSUME TimerTicks ==
  /\ SlotCount \in Nat /\ SlotCount > 1
  /\ Width(0) = 1
  /\ \A level \in 0 .. WordDigits :
       Width(level) \in Nat \ {0} /\ Width(level + 1) = SlotCount * Width(level)

IsLive(e) == e.level >= 0

(* The level-th digit of a tick.                                           *)
Digit(t, level) == (t \div Width(level)) % SlotCount

(* A clock reading is rounded down, a deadline up.                         *)
DurationToTickFloor(at) == at \div Granule
DurationToTickCeil(at) ==
  at \div Granule + (IF at % Granule # 0 THEN 1 ELSE 0)

(* with_capacity_at_duration: the cursor is the reading's tick, and a      *)
(* reading past the last tick is refused.                                  *)
TimerInit ==
  /\ entries = [i \in Indices |-> [deadline |-> 0, generation |-> 0,
                                   level |-> Free, slot |-> 0]]
  /\ wheelCursor \in Ticks \cap {DurationToTickFloor(at) : at \in Starts}
  /\ nextEvent = NoEvent
  /\ target = NoTarget

-----------------------------------------------------------------------------
(* Placement.                                                              *)

DeadlineFits(d) == d <= wheelCursor \/ d - wheelCursor <= MaxDelay

Placement_Unclamped(c, d) ==
  IF d <= c THEN <<0, Digit(c, 0)>>
  ELSE LET differing == {l \in 0 .. Levels - 1 : Digit(c, l) # Digit(d, l)}
           level == IF differing = {} THEN 0 ELSE Max(differing)
       IN <<level, Digit(d, level)>>

(* By the highest digit in which the deadline differs from the cursor,     *)
(* counted over the whole word and cut off at the top level.               *)
Placement(c, d) ==
  IF d <= c THEN <<0, Digit(c, 0)>>
  ELSE LET differing == Max({l \in 0 .. WordDigits - 1 : Digit(c, l) # Digit(d, l)})
           level == Min({differing, Levels - 1})
       IN <<level, Digit(d, level)>>

Filed(e, c, d) ==
  [e EXCEPT !.deadline = d, !.level = Placement(c, d)[1],
            !.slot = Placement(c, d)[2]]

(* The start of the next occurrence of a slot, saturating.                 *)
SlotWakeup(c, level, slot) ==
  LET rotation == Width(level + 1)
      within == c % rotation
      start == slot * Width(level)
      distance == IF start >= within THEN start - within
                  ELSE rotation - within + start
  IN Min({c + distance, NoEvent})

Occupied(es) == {<<es[i].level, es[i].slot>> : i \in {j \in Indices : IsLive(es[j])}}

(* The code looks, at each level, only at the nearest slot ahead and at    *)
(* the cursor's own: no other slot of the level can wake earlier.          *)
ComputeNextEvent(es, c) ==
  Min({NoEvent} \cup {SlotWakeup(c, o[1], o[2]) : o \in Occupied(es)})

(* file's update of the cache.                                             *)
WithFiled(es, i) ==
  Min({nextEvent, SlotWakeup(wheelCursor, es[i].level, es[i].slot)})

-----------------------------------------------------------------------------
(* The slab.                                                               *)

(* The deadline of a free entry is never read.                             *)
Release(e) ==
  [e EXCEPT !.level = IF e.generation = MaxGeneration THEN Retired ELSE Free,
            !.slot = 0, !.deadline = 0]

LiveIndex(i, g) == IsLive(entries[i]) /\ entries[i].generation = g

-----------------------------------------------------------------------------
(* Operations.                                                             *)

(* allocate and file: the entry's next occupant.                           *)
Allocated(e, d) == [Filed(e, wheelCursor, d) EXCEPT !.generation = e.generation + 1]

TryInsertAt(i, d) ==
  /\ target = NoTarget
  /\ entries[i].level = Free
  /\ d <= MaxTick
  /\ DeadlineFits(d)
  /\ entries' = [entries EXCEPT ![i] = Allocated(@, d)]
  /\ nextEvent' = WithFiled(entries', i)
  /\ UNCHANGED <<wheelCursor, target>>

RemovedEarliest_Never(i) == FALSE

(* Whether taking the entry out may make the cached event too early: it is *)
(* alone in its slot, and the slot is the one that wakes next.             *)
RemovedEarliest(i) ==
  LET e == entries[i]
  IN /\ \A j \in Indices \ {i} :
          ~(entries[j].level = e.level /\ entries[j].slot = e.slot)
     /\ SlotWakeup(wheelCursor, e.level, e.slot) = nextEvent

CancelTimer(i, g) ==
  /\ target = NoTarget
  /\ LiveIndex(i, g)
  /\ entries' = [entries EXCEPT ![i] = Release(@)]
  /\ nextEvent' = IF RemovedEarliest(i)
                  THEN ComputeNextEvent(entries', wheelCursor) ELSE nextEvent
  /\ UNCHANGED <<wheelCursor, target>>

RescheduleAt(i, g, d) ==
  /\ target = NoTarget
  /\ LiveIndex(i, g)
  /\ d <= MaxTick
  /\ DeadlineFits(d)
  /\ entries' = [entries EXCEPT ![i] = Filed(@, wheelCursor, d)]
  /\ nextEvent' = IF RemovedEarliest(i)
                  THEN ComputeNextEvent(entries', wheelCursor)
                  ELSE WithFiled(entries', i)
  /\ UNCHANGED <<wheelCursor, target>>

AdvanceTo(t) ==
  /\ target = NoTarget
  /\ t >= wheelCursor
  /\ target' = t
  /\ UNCHANGED <<entries, wheelCursor, nextEvent>>

(* cascade, from the top level down: an entry in the cursor's slot of a    *)
(* level is filed again.  Filing looks at the cursor and the deadline      *)
(* only, so an entry filed twice ends up where it was filed first.         *)
Cascaded(es, c) ==
  [i \in Indices |-> IF es[i].level >= 1 /\ es[i].slot = Digit(c, es[i].level)
                     THEN Filed(es[i], c, es[i].deadline) ELSE es[i]]

FiredAt(es, c) == {i \in Indices : es[i].level = 0 /\ es[i].slot = Digit(c, 0)}

AdvanceStep_NoRefresh ==
  /\ target # NoTarget
  /\ nextEvent # NoEvent /\ nextEvent <= target
  /\ wheelCursor' = nextEvent
  /\ LET es == Cascaded(entries, nextEvent)
         fired == FiredAt(es, nextEvent)
     IN entries' = [i \in Indices |-> IF i \in fired THEN Release(es[i]) ELSE es[i]]
  /\ UNCHANGED <<nextEvent, target>>

AdvanceStep ==
  /\ target # NoTarget
  /\ nextEvent # NoEvent /\ nextEvent <= target
  /\ wheelCursor' = nextEvent
  /\ LET es == Cascaded(entries, nextEvent)
         fired == FiredAt(es, nextEvent)
     IN entries' = [i \in Indices |-> IF i \in fired THEN Release(es[i]) ELSE es[i]]
  /\ nextEvent' = ComputeNextEvent(entries', nextEvent)
  /\ UNCHANGED target

AdvanceEnd ==
  /\ target # NoTarget
  /\ nextEvent = NoEvent \/ nextEvent > target
  /\ wheelCursor' = target
  /\ target' = NoTarget
  /\ UNCHANGED <<entries, nextEvent>>

TryInsertDuration(i, at) == TryInsertAt(i, DurationToTickCeil(at))

RescheduleDuration(i, g, at) == RescheduleAt(i, g, DurationToTickCeil(at))

AdvanceDuration(at) ==
  /\ DurationToTickFloor(at) <= MaxTick
  /\ AdvanceTo(DurationToTickFloor(at))

TimerNext ==
  \/ \E i \in Indices, at \in Durations :
       \/ TryInsertDuration(i, at)
       \/ \E g \in 1 .. MaxGeneration : RescheduleDuration(i, g, at)
  \/ \E i \in Indices, g \in 1 .. MaxGeneration : CancelTimer(i, g)
  \/ \E at \in Durations : AdvanceDuration(at)
  \/ AdvanceStep \/ AdvanceEnd

TimerSpec == TimerInit /\ [][TimerNext]_timerVars

-----------------------------------------------------------------------------

(* Every variable keeps its type.                                          *)
TimerTypeOK ==
  /\ entries \in [Indices -> [deadline : Ticks, generation : 0 .. MaxGeneration,
                              level : {Retired, Free} \cup 0 .. Levels - 1,
                              slot : 0 .. SlotCount - 1]]
  /\ wheelCursor \in Ticks
  /\ nextEvent \in 0 .. NoEvent
  /\ target \in {NoTarget} \cup Ticks

(* The cached wakeup is exact, although cancel and reschedule recompute it *)
(* only when they think they removed the earliest ("cached next event is   *)
(* not exact" of check_invariants), and never behind the cursor.           *)
NextEventExact ==
  /\ nextEvent = ComputeNextEvent(entries, wheelCursor)
  /\ nextEvent >= wheelCursor

(* advance_to_with returns, and does no wakeup twice: every iteration      *)
(* leaves the next event strictly later, so that no slot, cascaded into    *)
(* itself by the cut at the top level, keeps it going round.               *)
AdvanceProgresses ==
  [][target # NoTarget /\ target' # NoTarget => nextEvent' > nextEvent]_timerVars

(* The tick an entry is due at: filed behind the cursor, it is due now.    *)
DueAt(i) == Max({entries[i].deadline, wheelCursor})
HandleOf(i) == <<i, entries[i].generation>>
LiveHandles == {HandleOf(i) : i \in {j \in Indices : IsLive(entries[j])}}

A == INSTANCE Alarm WITH
       Handles <- Indices \X (1 .. MaxGeneration),
       now <- wheelCursor,
       due <- [h \in LiveHandles |-> DueAt(h[1])],
       spent <- {h \in Indices \X (1 .. MaxGeneration) :
                   h[2] <= entries[h[1]].generation}

(* The wheel keeps the promise of Alarm: whatever cascades happen on the   *)
(* way, an advance emits each timer at its own tick, in order, none early  *)
(* and none left behind, and generations keep old handles dead.            *)
ImplementsAlarm == A!Spec

=============================================================================
