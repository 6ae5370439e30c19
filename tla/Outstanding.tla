----------------------------- MODULE Outstanding -----------------------------
(***************************************************************************)
(* The outstanding set of crates/grommet/src/outstanding.rs: a slab of      *)
(* futures owned by one task, and the ready bits that wakers on any thread *)
(* set.                                                                    *)
(*                                                                         *)
(* A ready word is the set of its marked slots, a summary word the set of  *)
(* the ready words it announces.  A waker's mark, its announcement and its *)
(* ring are separate steps, as are the owner's takes of a summary word and *)
(* of a ready word.  Only the owner takes, so what it publishes in one go  *)
(* (a push, a restore) is one step.  The bell is atomic here (Doorbell     *)
(* looks inside it).                                                       *)
(*                                                                         *)
(* The owner is part of the model as the reactor uses the set: register,   *)
(* then push and harvest, and sleep only after a harvest with nothing more *)
(* ready.  A future that suspended may be woken at any time, any number of *)
(* times, also after its slot was freed or refilled.                       *)
(***************************************************************************)
EXTENDS Integers

CONSTANTS
  Shapes,       \* [bits, capacity] of the sets built; bits is 64 in the code
  Cap,          \* the cap of a harvest, at least one
  Notifiers,    \* threads that wake futures
  MaxPanics     \* bound of the model: polls and callbacks that unwind

ASSUME OutstandingConstants ==
  /\ Shapes \subseteq [bits : Nat \ {0}, capacity : Nat \ {0}]
  /\ Cap \in Nat \ {0}
  /\ MaxPanics \in Nat

VARIABLES
  shape,      \* of this set, fixed at construction
  occupied,   \* slots that hold a future
  marked,     \* the bits of all ready words
  announced,  \* the bits of all summary words
  cursor,     \* where the next scan starts
  at,         \* what the owner is doing
  cur, def,   \* RestoreGuard: bits in hand, and the cursor word's low bits
  sum, dsum,  \* RestoreGuard: words in hand, and those behind the cursor
  step,       \* summary words the rotation has visited
  polled,     \* Harvest::polled
  more,       \* Harvest::more_ready of the last harvest, TRUE after a push
  bell,       \* the bell holds the owner's waker
  closed,     \* the bell is closed
  woken,      \* the owner's task is scheduled
  waking,     \* what each notifier is doing, and to which slot
  armed,      \* slots whose waker is out there
  panics,     \* unwinds so far
  signalled   \* occupied slots woken and not polled since (history)

ready == <<marked, announced>>
guard == <<cur, def, sum, dsum, step>>
slab == <<shape, occupied, cursor>>
wakes == <<bell, closed, woken>>
vars == <<slab, ready, at, guard, polled, more, wakes, waking, armed, panics,
          signalled>>

WordBits == shape.bits                    \* WORD_BITS
Capacity == shape.capacity

CeilDiv(a, b) == (a + b - 1) \div b

Slots == 0 .. Capacity - 1
Word(s) == s \div WordBits                \* the word of a slot
NWords == CeilDiv(Capacity, WordBits)
Summary(w) == w \div WordBits             \* the summary word of a word
Summaries == IF NWords > 1 THEN CeilDiv(NWords, WordBits) ELSE 0

Bits(w) == {s \in marked : Word(s) = w}
Words(i) == {w \in announced : Summary(w) = i}

Lowest(S) == CHOOSE x \in S : \A y \in S : x <= y

Idle == [at |-> "idle", slot |-> 0]

Init ==
  /\ shape \in Shapes
  /\ occupied = {}
  /\ marked = {} /\ announced = {}
  /\ cursor = 0
  /\ at = "register"
  /\ cur = {} /\ def = {} /\ sum = {} /\ dsum = {} /\ step = 0
  /\ polled = 0 /\ more = TRUE
  /\ bell = FALSE /\ closed = FALSE /\ woken = FALSE
  /\ waking = [n \in Notifiers |-> Idle]
  /\ armed = {}
  /\ panics = 0
  /\ signalled = {}

-----------------------------------------------------------------------------
(* Publishing bits.                                                        *)

Announces_Never(S) == announced

(* The summary after the bits S were set: a word that was empty is         *)
(* announced, unless there is only one.                                    *)
Announces(S) ==
  IF Summaries = 0 THEN announced
  ELSE announced \cup {w \in {Word(s) : s \in S} : Bits(w) = {}}

(* Doorbell::ring.                                                         *)
Rung ==
  /\ woken' = (woken \/ bell)
  /\ bell' = FALSE
  /\ UNCHANGED closed

-----------------------------------------------------------------------------
(* The wakers: SlotWaker::wake, Shared::notify, ReadySet::mark.            *)

To(n, where, s) == waking' = [waking EXCEPT ![n] = [at |-> where, slot |-> s]]

NotifyBegins(n, s) ==
  /\ waking[n] = Idle
  /\ s \in armed
  /\ ~closed
  /\ To(n, "mark", s)
  /\ signalled' = signalled \cup ({s} \cap occupied)
  /\ UNCHANGED <<slab, ready, at, guard, polled, more, wakes, armed, panics>>

Mark(n) ==
  LET s == waking[n].slot
  IN /\ waking[n].at = "mark"
     /\ marked' = marked \cup {s}
     /\ IF Bits(Word(s)) = {} /\ Summaries > 0 THEN To(n, "announce", s)
        ELSE IF s \notin marked THEN To(n, "ring", 0)
        ELSE waking' = [waking EXCEPT ![n] = Idle]
     /\ UNCHANGED <<slab, announced, at, guard, polled, more, wakes, armed,
                    panics, signalled>>

Announce(n) ==
  LET s == waking[n].slot
  IN /\ waking[n].at = "announce"
     /\ announced' = announced \cup {Word(s)}
     /\ To(n, "ring", 0)
     /\ UNCHANGED <<slab, marked, at, guard, polled, more, wakes, armed, panics,
                    signalled>>

Ring(n) ==
  /\ waking[n].at = "ring"
  /\ waking' = [waking EXCEPT ![n] = Idle]
  /\ Rung
  /\ UNCHANGED <<slab, ready, at, guard, polled, more, armed, panics, signalled>>

-----------------------------------------------------------------------------
(* The owner between harvests.                                             *)

(* What the last harvest saw is out of date once the waker is in place.    *)
Register ==
  /\ at = "register"
  /\ bell' = TRUE
  /\ more' = TRUE
  /\ at' = "turn"
  /\ UNCHANGED <<slab, ready, guard, polled, closed, woken, waking, armed,
                 panics, signalled>>

(* try_push: the owner is running, so marking the slot is enough.  Which   *)
(* free slot the free list yields is left open.                            *)
Push ==
  /\ at = "turn"
  /\ \E s \in Slots \ occupied :
        /\ occupied' = occupied \cup {s}
        /\ marked' = marked \cup {s}
        /\ announced' = Announces({s})
        /\ signalled' = signalled \cup {s}
  /\ more' = TRUE
  /\ UNCHANGED <<shape, cursor, at, guard, polled, wakes, waking, armed,
                 panics>>

Sleep ==
  /\ at = "turn"
  /\ ~more
  /\ at' = "asleep"
  /\ UNCHANGED <<slab, ready, guard, polled, more, wakes, waking, armed, panics,
                 signalled>>

Awake ==
  /\ at = "asleep"
  /\ woken
  /\ woken' = FALSE
  /\ at' = "register"
  /\ UNCHANGED <<slab, ready, guard, polled, more, bell, closed, waking, armed,
                 panics, signalled>>

(* Inner::drop.                                                            *)
DropSet ==
  /\ at = "turn"
  /\ at' = "gone"
  /\ occupied' = {}
  /\ signalled' = {}
  /\ closed' = TRUE
  /\ bell' = FALSE
  /\ UNCHANGED <<shape, cursor, ready, guard, polled, more, woken,
                 waking, armed, panics>>

-----------------------------------------------------------------------------
(* harvest: one rotation from the cursor, stopping at the cap.             *)

Behind(S) == {x \in S : x < cursor}

HarvestOneWord ==
  /\ at = "turn"
  /\ Summaries = 0
  /\ marked' = {}
  /\ def' = Behind(marked)
  /\ cur' = marked \ Behind(marked)
  /\ step' = 0
  /\ polled' = 0
  /\ at' = "poll"
  /\ UNCHANGED <<slab, announced, sum, dsum, more, wakes, waking, armed, panics,
                 signalled>>

(* Take the cursor's summary word, split at the cursor's word.             *)
HarvestBegins ==
  LET taken == Words(Summary(Word(cursor)))
      low == {w \in taken : w < Word(cursor)}
  IN /\ at = "turn"
     /\ Summaries > 0
     /\ announced' = announced \ taken
     /\ dsum' = low
     /\ sum' = taken \ low
     /\ step' = 0
     /\ polled' = 0
     /\ at' = IF Word(cursor) \in taken THEN "start" ELSE "next"
     /\ UNCHANGED <<slab, marked, cur, def, more, wakes, waking, armed, panics,
                    signalled>>

(* Take the cursor's word, split at the cursor.                            *)
TakeStart ==
  LET bits == Bits(Word(cursor))
  IN /\ at = "start"
     /\ marked' = marked \ bits
     /\ sum' = sum \ {Word(cursor)}
     /\ def' = Behind(bits)
     /\ cur' = bits \ Behind(bits)
     /\ at' = "poll"
     /\ UNCHANGED <<slab, announced, dsum, step, polled, more, wakes, waking,
                    armed, panics, signalled>>

(* next_announced and take_word.                                           *)
TakeWord ==
  /\ at = "next"
  /\ sum # {}
  /\ sum' = sum \ {Lowest(sum)}
  /\ cur' = Bits(Lowest(sum))
  /\ marked' = marked \ cur'
  /\ at' = "poll"
  /\ UNCHANGED <<slab, announced, def, dsum, step, polled, more, wakes, waking,
                 armed, panics, signalled>>

TakeSummary ==
  LET taken == Words((Summary(Word(cursor)) + step + 1) % Summaries)
  IN /\ at = "next"
     /\ sum = {}
     /\ step + 1 < Summaries
     /\ step' = step + 1
     /\ sum' = taken
     /\ announced' = announced \ taken
     /\ UNCHANGED <<slab, marked, at, cur, def, dsum, polled, more, wakes,
                    waking, armed, panics, signalled>>

(* activate_deferred_summary: the words behind the cursor.                 *)
Wrap ==
  /\ at = "next"
  /\ sum = {}
  /\ step < Summaries
  /\ step + 1 >= Summaries
  /\ step' = Summaries
  /\ sum' = dsum
  /\ dsum' = {}
  /\ UNCHANGED <<slab, ready, at, cur, def, polled, more, wakes, waking, armed,
                 panics, signalled>>

(* activate_deferred: the bits behind the cursor in its own word.          *)
TakeDeferred ==
  /\ at = "next"
  /\ sum = {} /\ step = Summaries
  /\ def # {}
  /\ cur' = def
  /\ def' = {}
  /\ at' = "poll"
  /\ UNCHANGED <<slab, ready, sum, dsum, step, polled, more, wakes, waking,
                 armed, panics, signalled>>

HasReady == IF Summaries = 0 THEN marked # {} ELSE announced # {}

(* The rotation is complete.                                               *)
HarvestEnds ==
  /\ at = "next"
  /\ sum = {} /\ step = Summaries
  /\ def = {}
  /\ more' = HasReady
  /\ step' = 0
  /\ polled' = 0
  /\ at' = "turn"
  /\ UNCHANGED <<slab, ready, cur, def, sum, dsum, wakes, waking, armed, panics,
                 signalled>>

-----------------------------------------------------------------------------
(* poll_current: the lowest bit of the word in hand.                       *)

Polls(s) == at = "poll" /\ cur # {} /\ s = Lowest(cur)

After_Stays(s) == cursor

(* The cursor moves past a slot that was visited.                          *)
After(s) == IF s + 1 = Capacity THEN 0 ELSE s + 1

Visited(s) ==
  /\ cursor' = After(s)
  /\ cur' = cur \ {s}
  /\ at' = IF cur' = {} THEN "next" ELSE "poll"

(* A word found empty, or used up.                                         *)
PollNothing ==
  /\ at = "poll"
  /\ cur = {}
  /\ at' = "next"
  /\ UNCHANGED <<slab, ready, guard, polled, more, wakes, waking, armed, panics,
                 signalled>>

PollStale(s) ==
  /\ Polls(s)
  /\ s \notin occupied
  /\ Visited(s)
  /\ UNCHANGED <<shape, occupied, ready, def, sum, dsum, step, polled,
                 more, wakes, waking, armed, panics, signalled>>

(* The future keeps the slot's waker, whatever it returns.                 *)
Polled(s) ==
  /\ Polls(s)
  /\ s \in occupied
  /\ polled < Cap
  /\ polled' = polled + 1
  /\ armed' = armed \cup {s}
  /\ signalled' = signalled \ {s}

PollPending(s) ==
  /\ Polled(s)
  /\ Visited(s)
  /\ UNCHANGED <<shape, occupied, ready, def, sum, dsum, step, more,
                 wakes, waking, panics>>

PollReady(s) ==
  /\ Polled(s)
  /\ occupied' = occupied \ {s}
  /\ Visited(s)
  /\ UNCHANGED <<shape, ready, def, sum, dsum, step, more, wakes, waking,
                 panics>>

-----------------------------------------------------------------------------
(* RestoreGuard::restore: put back what was taken and not reached.         *)

Restored_DropsDeferred ==
  /\ marked' = marked \cup cur
  /\ announced' = Announces(cur) \cup sum
  /\ cur' = {} /\ def' = {} /\ sum' = {} /\ dsum' = {} /\ step' = 0

Restored ==
  /\ marked' = marked \cup cur \cup def
  /\ announced' = Announces(cur \cup def) \cup sum \cup dsum
  /\ cur' = {} /\ def' = {} /\ sum' = {} /\ dsum' = {} /\ step' = 0

Truncate_Quiet ==
  /\ at = "poll"
  /\ \E s \in cur : Polls(s) /\ s \in occupied
  /\ polled = Cap
  /\ Restored
  /\ more' = FALSE
  /\ polled' = 0
  /\ at' = "turn"
  /\ UNCHANGED <<slab, wakes, waking, armed, panics, signalled>>

Truncate ==
  /\ at = "poll"
  /\ \E s \in cur : Polls(s) /\ s \in occupied
  /\ polled = Cap
  /\ Restored
  /\ more' = TRUE
  /\ polled' = 0
  /\ at' = "turn"
  /\ UNCHANGED <<slab, wakes, waking, armed, panics, signalled>>

(* The poll unwinds, and the future stays; or the output callback does,    *)
(* and it is gone.  The bit is still in hand either way, and the owner is  *)
(* rung for what was put back.                                             *)
PollPanics(s, finished) ==
  /\ Polls(s)
  /\ s \in occupied
  /\ polled < Cap
  /\ panics < MaxPanics
  /\ panics' = panics + 1
  /\ armed' = armed \cup {s}
  /\ signalled' = IF finished THEN signalled \ {s} ELSE signalled
  /\ occupied' = IF finished THEN occupied \ {s} ELSE occupied
  /\ Restored
  /\ Rung
  /\ polled' = 0
  /\ at' = "turn"
  /\ UNCHANGED <<shape, cursor, more, waking>>

-----------------------------------------------------------------------------

Harvest ==
  \/ HarvestOneWord \/ HarvestBegins \/ TakeStart \/ TakeWord \/ TakeSummary
  \/ Wrap \/ TakeDeferred \/ HarvestEnds \/ Truncate \/ PollNothing
  \/ \E s \in cur :
       \/ PollStale(s) \/ PollPending(s) \/ PollReady(s)
       \/ \E finished \in BOOLEAN : PollPanics(s, finished)

Notify(n) == Mark(n) \/ Announce(n) \/ Ring(n)

Next ==
  \/ Register \/ Push \/ Sleep \/ Awake \/ DropSet \/ Harvest
  \/ \E n \in Notifiers : Notify(n) \/ \E s \in armed : NotifyBegins(n, s)

(* The owner's task runs when it is scheduled and goes round until it      *)
(* sleeps; a thread inside a wake finishes it.  Nothing makes a future be  *)
(* woken, or finish.                                                       *)
Fairness ==
  /\ WF_vars(Register \/ Awake \/ Harvest)
  /\ \A n \in Notifiers : WF_vars(Notify(n))

Spec == Init /\ [][Next]_vars /\ Fairness

-----------------------------------------------------------------------------

Stages == {"register", "turn", "asleep", "gone", "start", "next", "poll"}

(* Every variable keeps its type, and outside a harvest the guard is empty. *)
TypeOK ==
  /\ shape \in Shapes
  /\ occupied \subseteq Slots
  /\ marked \subseteq Slots
  /\ announced \subseteq 0 .. NWords - 1
  /\ cursor \in Slots
  /\ at \in Stages
  /\ cur \subseteq Slots /\ def \subseteq Slots
  /\ sum \subseteq 0 .. NWords - 1 /\ dsum \subseteq 0 .. NWords - 1
  /\ step \in 0 .. Summaries
  /\ polled \in 0 .. Cap
  /\ more \in BOOLEAN
  /\ bell \in BOOLEAN /\ closed \in BOOLEAN /\ woken \in BOOLEAN
  /\ waking \in [Notifiers -> [at : {"idle", "mark", "announce", "ring"},
                               slot : Slots]]
  /\ armed \subseteq Slots
  /\ panics \in 0 .. MaxPanics
  /\ signalled \subseteq occupied
  /\ at \in {"register", "turn", "asleep", "gone"} =>
       cur = {} /\ def = {} /\ sum = {} /\ dsum = {}

Announcing(w) ==
  \E n \in Notifiers : waking[n].at = "announce" /\ Word(waking[n].slot) = w

(* A ready word with a bit in it can always be found: its announcement is  *)
(* in the summary, in the hands of the harvest, or about to be made.  A    *)
(* mark that races a take, a truncated harvest or an unwind cannot strand  *)
(* a bit ("the publication order prevents false negatives").               *)
NoMarkStranded ==
  Summaries > 0 =>
    \A s \in marked : \/ Word(s) \in announced \cup sum \cup dsum
                      \/ Announcing(Word(s))

(* A woken future is not forgotten: until it is polled again its bit is    *)
(* set, in the hands of the harvest, or about to be set by its waker.      *)
SignalIsKept ==
  at # "gone" =>
    \A s \in signalled :
       \/ s \in marked \cup cur \cup def
       \/ \E n \in Notifiers : waking[n] = [at |-> "mark", slot |-> s]

(* The owner never sleeps on a ready future: a waker is about to ring it,  *)
(* with its waker in the bell, or it is already scheduled.                 *)
NoSleepOnReady ==
  at = "asleep" /\ ~woken /\ marked # {} =>
    bell /\ \E n \in Notifiers : waking[n].at \in {"announce", "ring"}

(* A woken future is polled in the end, however short the cap and however  *)
(* often other futures are woken, pushed and finished meanwhile, unless    *)
(* wakers are caught, again and again if not for good, between their mark  *)
(* of its word and the announcement: a truncated harvest that puts bits    *)
(* back into such a word leaves the announcement to them, and the next     *)
(* harvest passes it over.                                                 *)
SignalledIsPolled ==
  \A s \in UNION {0 .. p.capacity - 1 : p \in Shapes} :
    []<>(s \notin signalled) \/ []<>Announcing(Word(s))

=============================================================================
