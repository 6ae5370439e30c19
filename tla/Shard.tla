------------------------------- MODULE Shard -------------------------------
(***************************************************************************)
(* One shard: the reactor loop of crates/grommet/src/shard.rs (`run`) over *)
(* the book.  A turn of the loop goes through fixed stages; every method   *)
(* of the book that a stage calls is the action of Book of that name, and  *)
(* `pc` says which stage the thread is in.                                 *)
(*                                                                         *)
(* Around the thread: submitters fill the inbox and drop their handles,    *)
(* futures that suspended are woken, and the tick comes due.  The inbox is *)
(* a bounded queue whose poll_recv is atomic (Mailbox looks inside it).    *)
(* The outstanding set holds the dispatches of `outstanding` and the       *)
(* flushes of `flushing` that are no longer staged; a future is polled     *)
(* when it is marked.  The book's `now` is the last clock reading the      *)
(* thread used.  When the tick comes due is left open.                     *)
(***************************************************************************)
EXTENDS Book, SequencesExt

CONSTANTS
  RequestIds,     \* the ids submitters may attach to work
  NoId,           \* Option::None of a request id
  FlushSlots,     \* ShardConfig::flush_slots
  AdmitBatch,     \* ShardConfig::admit_batch, at least one
  CompleteBatch,  \* ShardConfig::complete_batch, at least one
  AbortOnPanic,   \* ShardConfig::panic_policy is Abort
  InboxCapacity,  \* the mailbox's capacity
  Submissions,    \* the envelopes submitters may send
  MaxSends        \* bound of the model: submissions

Envelopes == [key : Keys, class : Classes, deadline : Deadlines,
              rid : RequestIds \cup {NoId}]

ASSUME ShardConstants ==
  /\ NoId \notin RequestIds
  /\ FlushSlots \in Nat
  /\ AdmitBatch \in Nat \ {0}
  /\ CompleteBatch \in Nat \ {0}
  /\ AbortOnPanic \in BOOLEAN
  /\ InboxCapacity \in Nat \ {0}
  /\ Submissions \subseteq Envelopes
  /\ MaxSends \in Nat

VARIABLES
  pc,         \* the stage of the turn
  class,      \* dispatch_ready's loop variable
  passed,     \* keys put on a ring this turn's loop had left (history)
  used,       \* items taken, or futures polled, by the current stage
  progress,   \* whether the turn did anything
  open,       \* whether the inbox may still yield work
  final_flush, \* whether the last eviction pass is still to come
  behind,     \* keys with work when that pass began (history)
  staged,     \* eviction candidates waiting for a flush slot
  flushes,    \* flushes in flight, as counted
  live,       \* the coalescing index
  tag,        \* the tracked request id of each admitted item
  abort,      \* a caught panic demands an abort
  marked,     \* futures whose ready bit is set
  batch,      \* ready bits the current harvest has taken and not reached
  suspended,  \* futures that were polled and returned Pending
  inbox,      \* the shard's mailbox
  handles,    \* whether any submitter still holds a handle
  sends,      \* submissions so far
  bell,       \* the inbox's doorbell has the task's waker
  parked,     \* the inbox's `parked`
  woken       \* the task is scheduled to be polled

scan == <<class, passed>>
turn == <<pc, scan, used, progress>>
final == <<final_flush, behind>>
flow == <<open, final, staged, flushes, live, tag, abort>>
futures == <<marked, batch, suspended>>
outside == <<inbox, handles, sends, bell, parked, woken>>
book == vars
shardvars == <<book, turn, flow, futures, outside>>

ShardInit ==
  /\ Init
  /\ pc = "dispatch" /\ class = 0 /\ passed = {} /\ used = 0 /\ progress = FALSE
  /\ open = TRUE /\ final_flush = TRUE /\ behind = {}
  /\ staged = <<>> /\ flushes = 0
  /\ live = {} /\ tag = <<>>
  /\ abort = FALSE
  /\ marked = {} /\ batch = {} /\ suspended = {}
  /\ inbox = <<>> /\ handles = TRUE /\ sends = 0
  /\ bell = FALSE /\ parked = FALSE /\ woken = FALSE

(* The futures of the outstanding set.                                     *)
Flights == flushing \ ToSet(staged)
Outstanding == outstanding \cup Flights

Stage(to) == pc' = to /\ used' = 0

-----------------------------------------------------------------------------
(* dispatch_ready: for each class in turn, dispatch until next is done.    *)

NextClass ==
  IF class = NClasses - 1 THEN pc' = "shed" /\ class' = 0
  ELSE class' = class + 1 /\ UNCHANGED pc

DispatchTakes ==
  /\ pc = "dispatch"
  /\ NextTakes(class)
  /\ marked' = marked \cup (outstanding' \ outstanding)
  /\ UNCHANGED <<turn, flow, batch, suspended, outside>>

(* A key whose work of this class expired settles by the work behind it,   *)
(* perhaps on the ring of a class the loop has done with.                  *)
DispatchSkips ==
  /\ pc = "dispatch"
  /\ NextSkips(class)
  /\ passed' = passed \cup UNION {ToSet(ready'[c]) \ ToSet(ready[c]) : c \in 0 .. class - 1}
  /\ IF call' = NoCall THEN NextClass ELSE UNCHANGED <<pc, class>>
  /\ UNCHANGED <<used, progress, flow, futures, outside>>

DispatchEnds ==
  /\ pc = "dispatch"
  /\ call = NoCall
  /\ ~WithinBudget(class) \/ ready[class] = <<>>
  /\ NextClass
  /\ UNCHANGED <<book, passed, used, progress, flow, futures, outside>>

-----------------------------------------------------------------------------
(* shed_expired and begin_flushes.                                         *)

(* What stays in the index when the item is over.                          *)
Untracked(item) == live \ {<<item.key, tag[item.id]>>}

Shed_KeepsId ==
  /\ pc = "shed"
  /\ PopExpired
  /\ UNCHANGED <<turn, flow, futures, outside>>

Shed ==
  /\ pc = "shed"
  /\ PopExpired
  /\ live' = Untracked(Head(expired))
  /\ UNCHANGED <<turn, open, final, staged, flushes, tag, abort, futures,
                 outside>>

FlushRoom_Unbounded == Len(staged)

FlushRoom ==
  LET room == IF flushes < FlushSlots THEN FlushSlots - flushes ELSE 0
  IN IF room < Len(staged) THEN room ELSE Len(staged)

(* outstanding.is_empty() and staged.is_empty().                           *)
Drained == outstanding = {} /\ flushing = {}

(* Move candidates into flight, then look for the way out: a closed        *)
(* mailbox and nothing in flight.                                          *)
BeginFlushes ==
  /\ pc = "shed"
  /\ expired = <<>>
  /\ staged' = SubSeq(staged, FlushRoom + 1, Len(staged))
  /\ flushes' = flushes + FlushRoom
  /\ marked' = marked \cup ToSet(SubSeq(staged, 1, FlushRoom))
  /\ Stage(IF open THEN "drain" ELSE IF Drained THEN "exit" ELSE "harvest")
  /\ UNCHANGED <<book, scan, progress, open, final, live, tag, abort,
                 batch, suspended, outside>>

-----------------------------------------------------------------------------
(* The way out.                                                            *)

FinalFlush_Skipped ==
  /\ pc = "exit"
  /\ Stage("done")
  /\ UNCHANGED <<book, scan, progress, flow, futures, outside>>

(* evict_all on the first pass; when it found anything, go round again.    *)
FinalFlush ==
  /\ pc = "exit"
  /\ final_flush' = FALSE
  /\ behind' = IF final_flush THEN {k \in Keys : queue[k] # <<>>} ELSE behind
  /\ Stage(IF final_flush THEN "final" ELSE "done")
  /\ UNCHANGED <<book, scan, progress, open, staged, flushes, live, tag, abort,
                 futures, outside>>

(* A key released with state to flush is staged.                           *)
Staged == staged \o SetToSeq(flushing' \ flushing)

FinalEvicts ==
  /\ pc = "final"
  /\ EvictAll
  /\ staged' = Staged
  /\ UNCHANGED <<turn, open, final, flushes, live, tag, abort, futures,
                 outside>>

FinalEnds ==
  /\ pc = "final"
  /\ call = NoCall
  /\ idle_head = None
  /\ Stage(IF staged = <<>> THEN "done" ELSE "dispatch")
  /\ passed' = {}
  /\ UNCHANGED <<book, class, progress, flow, futures, outside>>

-----------------------------------------------------------------------------
(* drain_inbox: poll_recv until the batch or the book is full.             *)

Draining == pc = "drain" /\ used < AdmitBatch /\ ~IsSaturated

(* What every received envelope does to the inbox and the turn.            *)
Receive ==
  /\ inbox' = Tail(inbox)
  /\ parked' = FALSE
  /\ used' = used + 1
  /\ progress' = TRUE
  /\ UNCHANGED <<pc, scan, open, final, staged, flushes, abort, futures,
                 handles, sends, bell, woken>>

Duplicate(e) == e.rid # NoId /\ <<e.key, e.rid>> \in live

(* admit_one: into the book, its id into the index, ...                    *)
DrainAdmits ==
  /\ Draining
  /\ inbox # <<>>
  /\ LET e == Head(inbox)
     IN /\ ~Duplicate(e)
        /\ Admit(e.key, e.class, e.deadline)
        /\ tag' = Append(tag, e.rid)
        /\ live' = IF e.rid = NoId THEN live ELSE live \cup {<<e.key, e.rid>>}
  /\ Receive

(* ... or a retry whose original is still outstanding, which is answered   *)
(* and dropped.                                                            *)
DrainCoalesces ==
  /\ Draining
  /\ inbox # <<>>
  /\ Duplicate(Head(inbox))
  /\ Receive
  /\ UNCHANGED <<book, live, tag>>

(* The inbox is empty: it is over, or the task's waker is registered.      *)
DrainFindsNothing ==
  /\ Draining
  /\ inbox = <<>>
  /\ open' = handles
  /\ progress' = (progress \/ ~handles)
  /\ bell' = TRUE
  /\ parked' = handles
  /\ Stage("harvest")
  /\ UNCHANGED <<book, scan, final, staged, flushes, live, tag, abort,
                 futures, inbox, handles, sends, woken>>

DrainStops ==
  /\ pc = "drain"
  /\ used >= AdmitBatch \/ IsSaturated
  /\ Stage("harvest")
  /\ UNCHANGED <<book, scan, progress, flow, futures, outside>>

-----------------------------------------------------------------------------
(* harvest_completions: take the ready bits, poll up to the batch.         *)

HarvestBegins ==
  /\ pc = "harvest"
  /\ batch' = marked
  /\ marked' = {}
  /\ Stage("poll")
  /\ UNCHANGED <<book, scan, progress, flow, suspended, outside>>

Polls(f) == pc = "poll" /\ f \in batch /\ used < CompleteBatch

Polled(f) ==
  /\ batch' = batch \ {f}
  /\ used' = used + 1
  /\ UNCHANGED <<pc, scan, marked, outside>>

(* The future returns Pending.  In the model each does so at most once.    *)
PollSuspends(f) ==
  /\ Polls(f)
  /\ f \notin suspended
  /\ suspended' = suspended \cup {f}
  /\ Polled(f)
  /\ UNCHANGED <<book, progress, flow>>

Aborts(panicked) == panicked /\ AbortOnPanic

(* A dispatch is over: the processor kept the state or dropped it, failed, *)
(* or panicked.                                                            *)
PollCompletes(d, keep, panicked) ==
  /\ Polls(d)
  /\ d \in outstanding
  /\ panicked => ~keep
  /\ Complete(d, keep)
  /\ live' = Untracked(d.item)
  /\ abort' = (abort \/ Aborts(panicked))
  /\ suspended' = suspended \ {d}
  /\ progress' = TRUE
  /\ Polled(d)
  /\ UNCHANGED <<open, final, staged, flushes, tag>>

PollFlushed_LeaksSlot(f) ==
  /\ Polls(f)
  /\ f \in flushing
  /\ FinishEvict(f)
  /\ suspended' = suspended \ {f}
  /\ progress' = TRUE
  /\ Polled(f)
  /\ UNCHANGED flow

(* A flush is over, whether on_evict succeeded or panicked.                *)
PollFlushed(f) ==
  /\ Polls(f)
  /\ f \in flushing
  /\ FinishEvict(f)
  /\ flushes' = flushes - 1
  /\ suspended' = suspended \ {f}
  /\ progress' = TRUE
  /\ Polled(f)
  /\ UNCHANGED <<open, final, staged, live, tag, abort>>

HarvestEnds_DropsBits ==
  /\ pc = "poll"
  /\ batch = {} \/ used = CompleteBatch
  /\ batch' = {}
  /\ progress' = (progress \/ marked # {})
  /\ Stage(IF abort THEN "aborted" ELSE "timers")
  /\ UNCHANGED <<book, scan, flow, marked, suspended, outside>>

HarvestEnds_ForgetsMore ==
  /\ pc = "poll"
  /\ batch = {} \/ used = CompleteBatch
  /\ marked' = marked \cup batch
  /\ batch' = {}
  /\ Stage(IF abort THEN "aborted" ELSE "timers")
  /\ UNCHANGED <<book, scan, progress, flow, suspended, outside>>

(* A truncated harvest puts back what it did not reach and counts as       *)
(* progress, as does a future that became ready meanwhile.                 *)
HarvestEnds ==
  /\ pc = "poll"
  /\ batch = {} \/ used = CompleteBatch
  /\ marked' = marked \cup batch
  /\ batch' = {}
  /\ progress' = (progress \/ marked' # {})
  /\ Stage(IF abort THEN "aborted" ELSE "timers")
  /\ UNCHANGED <<book, scan, flow, suspended, outside>>

-----------------------------------------------------------------------------
(* service_timers, and the end of the turn.                                *)

Again == progress' = FALSE /\ passed' = {} /\ Stage("dispatch")

(* The tick is due.  A sweep starts only when the last one's candidates    *)
(* have all been handed over; either way the turn did something.           *)
TickFires ==
  /\ pc = "timers"
  /\ IF staged = <<>> THEN Stage("sweep") /\ UNCHANGED <<progress, passed>> ELSE Again
  /\ UNCHANGED <<book, class, flow, futures, outside>>

SweepEvicts ==
  /\ pc = "sweep"
  /\ Evict
  /\ staged' = Staged
  /\ IF call' = NoCall THEN Again ELSE UNCHANGED <<pc, used, progress, passed>>
  /\ UNCHANGED <<class, open, final, flushes, live, tag, abort, futures,
                 outside>>

SweepBreaks ==
  /\ pc = "sweep"
  /\ EvictBreaks
  /\ Again
  /\ UNCHANGED <<class, flow, futures, outside>>

(* evict returns at once.                                                  *)
SweepFindsNothing ==
  /\ pc = "sweep"
  /\ call = NoCall
  /\ idle_head # None => EvictIters = 0 \/ ~Due
  /\ Again
  /\ UNCHANGED <<book, class, flow, futures, outside>>

(* The tick is not due.  Take another turn, because this one did something *)
(* or the driver finds that the deadline has passed meanwhile; ...         *)
GoOn ==
  /\ pc = "timers"
  /\ Again
  /\ UNCHANGED <<book, class, flow, futures, outside>>

(* ... or, if there was nothing to do, wait.                               *)
Sleep ==
  /\ pc = "timers"
  /\ ~progress
  /\ Stage("asleep")
  /\ UNCHANGED <<book, scan, progress, flow, futures, outside>>

-----------------------------------------------------------------------------
(* Outside the loop.                                                       *)

(* The task is polled because it was woken, ...                            *)
Awake ==
  /\ pc = "asleep"
  /\ woken
  /\ woken' = FALSE
  /\ Stage("dispatch")
  /\ passed' = {}
  /\ UNCHANGED <<book, class, progress, flow, futures, inbox, handles, sends,
                 bell, parked>>

(* ... or because the deadline the driver armed has passed.                *)
TickWakes ==
  /\ pc = "asleep"
  /\ woken' = TRUE
  /\ ~woken
  /\ UNCHANGED <<book, turn, flow, futures, inbox, handles, sends, bell, parked>>

(* The clock is read on every wake, after a drain that took something, and *)
(* around a harvest; the last three readings are one here, kept also when  *)
(* the code, having finished nothing, would not use it.                    *)
ReadsClock ==
  /\ pc \in {"asleep", "harvest"}
  /\ ClockAdvances
  /\ UNCHANGED <<turn, flow, futures, outside>>

(* A suspended future is woken: it is marked and the task is scheduled.    *)
FutureWakes(f) ==
  /\ f \in suspended \ (marked \cup batch)
  /\ marked' = marked \cup {f}
  /\ woken' = TRUE
  /\ UNCHANGED <<book, turn, flow, batch, suspended, inbox, handles, sends,
                 bell, parked>>

(* A submitter pushes, and rings if the shard may be asleep.               *)
Send(e) ==
  /\ handles
  /\ sends < MaxSends
  /\ Len(inbox) < InboxCapacity
  /\ sends' = sends + 1
  /\ inbox' = Append(inbox, e)
  /\ woken' = (woken \/ (parked /\ bell))
  /\ bell' = (bell /\ ~parked)
  /\ UNCHANGED <<book, turn, flow, futures, handles, parked>>

(* The last handle is dropped.                                             *)
Shutdown ==
  /\ handles
  /\ handles' = FALSE
  /\ woken' = (woken \/ bell)
  /\ bell' = FALSE
  /\ UNCHANGED <<book, turn, flow, futures, inbox, sends, parked>>

-----------------------------------------------------------------------------

(* The shard's thread.                                                     *)
Turn ==
  \/ DispatchTakes \/ DispatchSkips \/ DispatchEnds
  \/ Shed \/ BeginFlushes
  \/ FinalFlush \/ FinalEvicts \/ FinalEnds
  \/ DrainAdmits \/ DrainCoalesces \/ DrainFindsNothing \/ DrainStops
  \/ HarvestBegins
  \/ \E f \in batch : PollSuspends(f)
  \/ \E d \in batch, keep, panicked \in BOOLEAN : PollCompletes(d, keep, panicked)
  \/ \E f \in batch : PollFlushed(f)
  \/ HarvestEnds
  \/ TickFires \/ SweepEvicts \/ SweepBreaks \/ SweepFindsNothing
  \/ GoOn \/ Sleep \/ Awake

ShardNext ==
  \/ Turn
  \/ TickWakes
  \/ ReadsClock
  \/ \E f \in suspended : FutureWakes(f)
  \/ \E e \in Submissions : Send(e)
  \/ Shutdown

(* The thread runs, its tick comes, and every suspended future is woken in *)
(* the end.  Nothing makes anyone submit or shut down.                     *)
ShardFairness ==
  /\ WF_shardvars(Turn)
  /\ WF_shardvars(TickWakes)
  /\ WF_shardvars(\E f \in suspended : FutureWakes(f))

ShardSpec == ShardInit /\ [][ShardNext]_shardvars /\ ShardFairness

-----------------------------------------------------------------------------

Stages == {"dispatch", "shed", "exit", "final", "drain", "harvest", "poll",
           "timers", "sweep", "asleep", "done", "aborted"}

(* Every variable of the loop keeps its type, and no stage exceeds its     *)
(* batch.                                                                  *)
ShardTypeOK ==
  /\ TypeOK
  /\ pc \in Stages
  /\ class \in Classes
  /\ passed \subseteq Keys
  /\ used \in Nat
  /\ pc = "drain" => used <= AdmitBatch
  /\ pc = "poll" => used <= CompleteBatch
  /\ progress \in BOOLEAN
  /\ open \in BOOLEAN
  /\ final_flush \in BOOLEAN
  /\ behind \subseteq Keys
  /\ staged \in Seq([key : Keys, state : Nat])
  /\ flushes \in Int
  /\ live \in SUBSET (Keys \X RequestIds)
  /\ tag \in Seq(RequestIds \cup {NoId})
  /\ abort \in BOOLEAN
  /\ marked \subseteq Outstanding
  /\ batch \subseteq Outstanding
  /\ suspended \subseteq Outstanding
  /\ inbox \in Seq(Envelopes) /\ Len(inbox) <= InboxCapacity
  /\ handles \in BOOLEAN
  /\ sends \in Nat
  /\ bell \in BOOLEAN
  /\ parked \in BOOLEAN
  /\ woken \in BOOLEAN

(* The outstanding set is sized for the dispatch budgets plus the flush    *)
(* slots, and its push panics beyond that.  Neither gate above the pushes  *)
(* lets more through than its share, a staged candidate is held by nobody  *)
(* else, and the flush count is right.                                     *)
FitsOutstanding ==
  /\ \A c \in Classes :
       Cardinality({d \in outstanding : d.item.class = c}) <= MaxInflight[c]
  /\ Cardinality(Flights) <= FlushSlots
  /\ ToSet(staged) \subseteq flushing
  /\ IsInjective(staged)
  /\ flushes = Cardinality(Flights)

(* The items the shard still owes an answer for.                           *)
Unanswered ==
  (UNION {ToSet(queue[k]) : k \in Keys}) \cup ToSet(expired)
  \cup {d.item : d \in outstanding}

(* A request id suppresses retries exactly while its item is unanswered:   *)
(* never after it was completed or reported expired, never not yet.        *)
CoalescingExact ==
  /\ live = {<<i.key, tag[i.id]>> : i \in {j \in Unanswered : tag[j.id] # NoId}}
  /\ \A i, j \in Unanswered :
       i.key = j.key /\ tag[i.id] = tag[j.id] /\ tag[i.id] # NoId => i = j

(* The shard never goes to sleep on something it could do: no future is    *)
(* ready, no item it has room for is in the inbox, no candidate waits      *)
(* while a flush slot is free, and no key it could dispatch is on a ring,  *)
(* except a key that this very turn put on the ring of a class it had      *)
(* already visited: dispatch_ready goes through the classes once, and      *)
(* shedding is not progress.  That key waits for the tick.                 *)
NoSleepOnWork ==
  pc = "asleep" /\ ~woken =>
    /\ marked = {}
    /\ inbox # <<>> => IsSaturated
    /\ staged # <<>> => flushes >= FlushSlots
    /\ \A c \in Classes : WithinBudget(c) => ToSet(ready[c]) \subseteq passed

(* The shard sleeps only when no key could be dispatched (shard.rs, at the *)
(* wait: "Nothing to do this turn").                                       *)
NothingToDo ==
  pc = "asleep" /\ ~woken =>
    \A c \in Classes : WithinBudget(c) => ready[c] = <<>>

(* When the shard returns, nothing is in flight, nothing is left in the    *)
(* inbox, every item that expired was reported, and the only state not     *)
(* flushed belongs to a key that still had work when the last eviction     *)
(* pass began.                                                             *)
ExitIsClean ==
  pc = "done" =>
    /\ Outstanding = {} /\ staged = <<>> /\ expired = <<>> /\ inbox = <<>>
    /\ live # {} => \E k \in Keys : queue[k] # <<>>
    /\ \A k \in Keys : resident[k] # NoState => k \in behind

(* When the shard returns, everything queued has been dispatched (shard.rs *)
(* exit test: "everything queued has already been dispatched and           *)
(* harvested").                                                            *)
NothingLeftBehind == pc = "done" => \A k \in Keys : queue[k] = <<>>

(* Once every handle is gone the shard drains and returns.                 *)
ShutdownEnds == ~handles ~> pc \in {"done", "aborted"}

(* Everything admitted is completed or reported expired, unless the shard  *)
(* is gone.                                                                *)
AdmittedIsAnswered ==
  Unanswered # {} ~> (Unanswered = {} \/ pc \in {"done", "aborted"})

=============================================================================
