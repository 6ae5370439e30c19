# A verification project for grommet

grommet is a key-affine, class-fair work scheduler for Rust: work for one key
runs in order, by one owner at a time, on the shard the key belongs to. This
directory holds TLA+ modules that model its core, TLC configurations that check
them on small instances, and TLAPS proofs of the properties that matter most.

    tlc -config MCBook.cfg MCBook        # any run below, by its configuration
    tlapm BookProofs.tla                 # any module of proofs

## The system

| Component | Source (`src/crates/`) | State | Operations |
|---|---|---|---|
| scheduler book | `grommet-core/src/lib.rs` | per key a presence, a FIFO, resident state and idle links; a ready ring per class; counters | `admit`, `next`, `pop_expired`, `complete`, `evict`, `evict_all`, `finish_evict` |
| queue slab | `grommet-core/src/queue.rs` | nodes with an item and a link, a free list; per key head, tail and length | `push_back`, `pop_front`, `front` |
| ring | `grommet-core/src/ring.rs` | tail, head, a stamp and a cell per slot | `try_push`, `pop` |
| waker slot, doorbell | `grommet-core/src/waker_slot.rs`, `grommet/src/doorbell.rs` | two state bits, one waker cell, `closed` | `register`, `take`/`wake`, `ring`, `close` |
| timer wheel | `grommet-core/src/timer.rs` | slots per level, occupancy bits, free list, generations, a cached wakeup | `try_insert_at`, `cancel`, `reschedule_at`, `advance_to_with`, and the same in durations |
| wait list | `grommet/src/waiters.rs` | slots with generations, a free stack, a queue of tickets with tombstones, a published count | `park`, `refresh`, `cancel`, `wake_one`, `close`, `park_until` |
| mailbox | `grommet/src/mailbox.rs` | ring, doorbell, wait list, `parked`, `producers`, `departed`, `freed` | `send`, `try_send`, `poll_recv`, `try_recv`, `release_capacity`, clone, drop |
| outstanding set | `grommet/src/outstanding.rs` | ready words and summary, slab of futures, cursor | `push`, `notify`, `harvest`, drop |
| shard reactor | `grommet/src/shard.rs` | book, inbox, outstanding set, staged evictions, coalescing index, in-flight ages, timers | one turn of `run` |
| router, response channel | `grommet/src/router.rs`, `respond.rs` | mailboxes, arrival stamps, a bitmap of announcements owed | `submit`, `try_submit`, `submit_batch`, `try_submit_batch`, `call`, `try_call` |
| builder and shutdown | `grommet/src/scheduler.rs` | threads, a report channel, who holds the mailboxes | `spawn`, `shutdown`, drop |
| semaphore, offload | `grommet/src/semaphore.rs`, `offload.rs`, `grommet-offload` | permits, wait list, `closed`; a pool per node | `acquire`, `try_acquire`, release, `close`; `run` |
| metrics | `grommet/src/metrics.rs` | a shard's own counters and histograms, the published ones | record, `publish`, read |
| topology | `grommet-topology` | none between calls | discover, plan, calibrate, bind |
| driver, macros, testkit | `grommet/src/driver/`, the other crates | the armed sleep | |

How they interact. A submitter's router picks a mailbox by key and pushes; the
push announces itself through the doorbell if the shard sleeps, and parks on
the wait list if the ring is full. A batch pushes first and announces once per
shard. The shard's turn dispatches what the book allows into the outstanding
set, hands back what expired, starts flushes of evicted state, drains the
mailbox into the book, harvests completions back into the book, runs the wheel,
and otherwise sleeps, woken by either doorbell or by its tick. A processor may
hand work to the offload pool and await it under a permit. Inside the shard
everything is one thread; what is concurrent is the ring, the doorbell, the
wait list, the ready bits, the permits, the handles and the published metrics.

What is hard here: lock-free hand-overs where each side stores one location and
loads another (push against park, free against park, mark against harvest);
wakes that must neither be lost nor spent on the wrong task; futures dropped at
any await; panics in the middle of a harvest; closing while everything else is
still running; threads that die before or after they report; and, in the book
and the wheel, intrusive lists, counters and cached values maintained by hand
over many methods, where a slip shows many calls later. `PROJECT.json` lists
each hazard at its line.

## The modules

| Module | Models | Notes |
|---|---|---|
| `Affinity` | the promise made for each key | abstract: a queue per key and at most one owner, work or flush |
| `Book` | the scheduler book | implements `Affinity` under the mapping `OwnerOf` |
| `BookProofs` | | theorems about `Book`: its lists and owners, its counters and items, its refinement of `Affinity` |
| `Slab` | the queue slab | the FIFOs `Book` takes for granted |
| `Fifo` | the promise of the ring | abstract: claim a place, write it, remove the front |
| `Ring` | the ring, one atomic access per step | implements `Fifo` under the mapping `Places` |
| `Doorbell` | waker slot and doorbell, one atomic access per step | |
| `DoorbellProofs` | | theorems about `Doorbell` |
| `Alarm` | the promise of the timer wheel | abstract: pending timers and a clock that never passes one |
| `Timer` | the wheel, one iteration of an advance per step | implements `Alarm` |
| `Waiters` | the wait list, each critical section an operator on a record | used by `Mailbox` and `Offload` |
| `WaitersProofs` | | what the operators of `Waiters` preserve |
| `Mailbox` | the mailbox over ring, wait list and doorbell | composes the three: the ring as `Fifo`'s claim and write, the doorbell as atomic register and ring |
| `MailboxProofs` | | theorems about `Mailbox` |
| `Outstanding` | the outstanding set, one atomic access per step | with its owner and the threads that wake futures |
| `OutstandingProofs` | | theorems about `Outstanding` |
| `Shard` | the reactor loop of one shard | EXTENDS `Book`: its stages are the book's actions; inbox and outstanding set atomic |
| `ShardProofs` | | a shard runs its book as `Book` says; theorems inherited from the book's, and the shard's own |
| `Router` | submissions, batches and calls | the mailbox as a bounded queue; push and announcement separate |
| `Scheduler` | building, running and stopping the shards' threads | EXTENDS `Router` |
| `SchedulerProofs` | | theorems about `Router` inside `Scheduler` |
| `Offload` | the semaphore and a run on the compute pool | EXTENDS `Waiters` |
| `Layout` | discovery, plans, quotas and calibration | |
| `Metrics` | in-flight ages, and publishing to an exporter | |
| `PartsProofs` | | theorems about `Ring`, `Timer`, `Offload`, `Metrics` and `Layout` |
| `MCBook`, `MCMailbox`, `MCOutstanding`, `MCShard`, `MCScheduler` | | the instances TLC checks |
| `MCThreads` | | the instances of `Scheduler` and `Doorbell` |
| `MCParts` | | the instance of `Offload`, `Timer`, `Layout`, `Ring`, `Metrics` and `Slab` |

A definition whose name has a suffix after an underscore (`RingBell_Drops`) is a
faulty variant of the one that follows it, kept to show that the property named
in `PROJECT.json` would notice.

### Book

The scheduler is driven by one thread, so a method is atomic. `next` and
`evict` loop over keys; the model takes one iteration per step, and `call`
keeps every other method out until the call has returned, so the states between
iterations are checked too. The caller is part of the model: `outstanding` is
what it was handed by `next` and has not completed, `flushing` what it was
handed by `evict`. It may complete or finish in any order, keep or drop the
state, and it admits only while the book is not saturated, as `drain_inbox`
does. An item is an id, given out in admission order; state is named by the id
of the item that produced it, which is what lets `StateIsLatest` tell old state
from new. A key's queue is a FIFO here.

### Slab

`Slab` shows that it is one: nodes, the free list and the list of each key are
the code's, an index one higher so that 0 can be `NIL`, and beside them runs
what each key should have queued. `SlabIsSound` is the safety invariant at the
head of `queue.rs`, on which its unchecked accesses rest, with what the
scheduler uses the lists for. Admission bounds the queued items.

### Mailbox and Waiters

Every step of a sender or of the shard is one access to shared memory or one
critical section of the wait list. The code uses relaxed and acquire/release
accesses with sequentially consistent fences between each store and the load of
the other side's location; with those fences the interleavings modelled are the
ones that can happen, and the memory model itself is left to the repository's
loom tests. A woken task is in `notified` and is polled later; a task may also
be polled spuriously, and a suspended send may be dropped at any time (a lost
`select!` branch). A sender's waker identifies its task. `Release` reads the
published count in the same step in which it takes `freed`, which is private to
the receiver. The receiver drains with `poll_recv` or `try_recv`, may stop a
drain early (`StopDraining`, what `drain_inbox` does on a spent budget or a
saturated book), and may be dropped whenever it is not inside a call.

### Doorbell

`CellIsOwned` has two parts, that one thread at a time is in the cell and that a
closed bell keeps no waker. The two bits of the state word are two variables, always read and written
together where the code uses one atomic operation. There is one registrar, as
the code asserts. `signal` is whatever the owner waits for.

### Ring

Positions are naturals: the ABA that would need a producer to sleep through a
wrap of the machine word is not modelled. `compare_exchange_weak` may fail
spuriously (`LoseClaim`).

### Shard

`pc` is the stage of the turn, in the order of the code: dispatch (one class
after the other), shed, begin flushes and the exit test, drain, harvest, timers.
A stage that calls the book takes the book's action of that name together with
its own bookkeeping, so everything `Book` says of a method is inherited
(`ShardProofs`). The
dispatches the book's caller holds and the flushes that are no longer `staged`
are the futures of the outstanding set. A ready bit is membership in `marked`;
a harvest moves the bits to `batch`, polls at most `CompleteBatch` of them in
any order, and puts the rest back. A future completes, or suspends and is woken
at any time later; in the model it suspends at most once. A dispatch ends by
keeping its state or dropping it, and may panic; under `AbortOnPanic` the
process then ends after the harvest.

Abstractions: `poll_recv` is atomic (its inside is `Mailbox`), so is a mark and
the taking of the bits; whether the tick is due is open at every turn, and
whether the driver finds its deadline already passed; `passed` records the keys
that a turn put on the ring of a class it had already visited; the readings of the clock
between a drain and the end of the harvest are one reading; waiting senders are
not part of the inbox; `coalesce_duplicates` is on; ages and statistics are left
out (`Metrics` has them). The bounds of zero that the code clamps to one are excluded by
`ShardConstants`.

### Timer

The number of levels and of bits per slot are parameters, and so is the width
of the tick word, which leaves a partial top level as 64 bits over 8 levels of
6 do. A slot's list is the set of entries filed under it; heads and occupancy
bits are read off the entries. `nextEvent` is the cached wakeup, kept as the
code keeps it and compared with what a scan would find (`NextEventExact`).
`advance_to_with` takes one iteration per step: empty a slot, emit what is due,
file the rest again lower. Durations are rounded up for deadlines and down for
readings, also the one a wheel is built at; one past the last tick is refused.
`ImplementsAlarm` is about ticks: it takes the rounding as the model has it and
does not say how far a duration is from its tick. An entry whose generation would
overflow is retired.

### Outstanding

A wake is three steps (mark the word, announce it in the summary, ring), a
harvest takes summary word, ready word and slot in the code's rotation, with
the low bits of the cursor's word visited last, and stops at its cap. The
restore guard is four variables; it puts back what was in hand when the cap is
reached or a poll panics. The owner is the reactor: register, then push and
harvest, and sleep only after a harvest that left nothing ready. A future may be
woken any number of times, also after its slot was freed or refilled.

### Router and Scheduler

A client's call keeps what of its batch is left, what it pushed and the shards
it still owes an announcement. Shards past `DeferredShards` are announced at
once, as the code does beyond its bitmap. A shard takes from its queue, sleeps
when it finds it empty and is woken only by an announcement: its tick would hide
a forgotten one for a period, so it is left out. A call is answered when its
item is served or dropped. The mailbox is a bounded queue, and a suspended sender
that is polled beside room gets in; but `Mailbox` shows that other senders of the
same mailbox can cost it its wake (`waiters.rs:223` and `387`), so while another
client is about to push there or has just pushed it may become `overlooked`
(`Overlook`), and nothing makes it be polled again. `Scheduler` adds the builder, one step per spawned
thread and per report; the threads, which may die before or after they report;
pin policies; what a plan allows to be bound, each attempt of which may fail; the
refusal of `max_pending` 0; and the holders of the mailboxes,
which close when the last one lets go.

### Offload

`acquire` and its release are separate accesses to the permits, the count of
waiters and the list. A run that is dropped returns its permit or passes its
wake on, wherever it was. The Rayon pool is external: tasks start in order on
`Workers` threads, end in any order, and may panic. `close` may come at any time.

### Layout

A machine is what hwloc reports. Cores are ranked, restricted to the CPUs the
process may use, and split into reactors and compute under the quota of the
cgroup, where a quota of 0 is no limit in v1 and a limit of no cores, clamped to
one, in v2; without hwloc the fallback plan counts CPUs. An observed run changes the
fraction of the next plan. Fractions are exact; the code uses floating point.

### Metrics

The shard writes its own copy and publishes it field by field with relaxed
stores, so an exporter may see them in any order and between two of them. Slots
of in-flight ages are indexed by sequence modulo the budget, as in the code, and
overwritten while the old occupant runs. Two counters, one gauge, one age and
one histogram stand for all of them.

## The runs

| Run | States | Shows |
|---|---|---|
| `book` | 607,367 | seven properties of the book over 3 keys (symmetric), 2 classes, 4 items, budgets of 1 per class, `max_pending` 3, `max_resident` 1 |
| `mailbox` | 807,550 | 2 senders, capacity 1, 3 submissions: no item stranded, wakes passed on, closing conclusive |
| `mailbox_room`, `mailbox_woken`, `mailbox_close` | violations | the first three findings below |
| `shard` | 663,583 | 2 keys, 2 classes, 3 submissions out of 3 kinds (one with a deadline and an id, one without either, one for the other key), one flush slot, drains of 2, harvests of 1; safety, and that a closed shard drains and everything admitted is answered |
| `shard_exit` | violation | the fourth finding; a book of 3 and drains of 3, so that one drain takes the last items and finds the mailbox closed |
| `shard_sleep` | violation | the fifth finding, under the same bounds |
| `outstanding` | 331,137 | 2 and 3 slots over words of 2 bits and 2 slots over words of 1, a harvest of 1, one waking thread, one panic: no mark stranded, no woken future forgotten or starved |
| `threads` | 239,451 | a behaviour drives one of two: `Scheduler`, with 2 shards, 2 clients with a batch, an empty batch or a call each, mailboxes of 1, one shard beyond the deferred bitmap, policy `Require`, `max_pending` 0 and 1, plans that can bind, that cannot and that have no placements, threads that die; `Doorbell`, with 3 notifiers, 2 wakers and unbounded ringing |
| `scheduler_spawn` | violation | the sixth finding |
| `parts` | 874,687 | six components that share nothing, one behaviour driving one of them: `Offload` (3 callers, 1 permit, 3 runs), `Timer` (3 levels of 2 slots, 4-digit ticks, 2 entries, 2 generations), `Layout` (3 machines, 5 quotas, 18 workloads), `Ring` (3 producers, 2 slots, 2 pushes each), `Metrics` (2 slots, 3 dispatches), `Slab` (3 keys, 2 payloads, 4 items) |

Why the bounds are enough. Three keys are the fewest for which a key can leave
the middle of the idle list; two classes and four items let a key with both
classes queued expire one and be re-placed, and let work arrive behind a
flush. `max_resident` 1 makes capacity eviction and age eviction both happen,
and `evict_iters` 2 makes a sweep end by count, by age and by an empty list.
One place and two senders are the smallest mailbox in which a sender parks and
another can take the place it was woken for; with the third submission a slot
of the wait list is reused, and `CompactFloor` 1 (8 in the code) makes
compaction run. Two slots and six pushes take the ring through three laps, with
a lap of four positions so that the index carries. The doorbell needs no bound.
In the shard, two keys with one flush slot make a candidate wait for it, two
futures with a harvest of one make a harvest stop short, and a book of two with
three submissions saturates it while the inbox holds more; the clock takes one
step, which is what a deadline or an eviction age of one needs. The exception
`ExitIsClean` makes (`behind`) needs a drain that takes two items and still finds
the mailbox closed, as in `shard_exit`; under those bounds it does occur, and
`ExitIsClean` and
`NoSleepOnWork` hold there too (678,358 states).

A set of two fits one word and takes the code's short path; a set of three needs
two words, the second partial, and a summary, so a harvest of one must come
back round to the low bits of the word its cursor is in; words of one bit make
the rotation cross two summary words. In the scheduler one
batch comes back to a mailbox it filled itself, through an entry whose class is
out of range, and the other goes to the shard the bitmap does not reach. The
wheel's clock has one digit more than the wheel, starts at 0 and near the end of
a revolution, and takes readings between two ticks and past the last. Three
callers for one permit leave one registered while another is woken and a third
overtakes it. The machines are one without core objects, an SMT machine with a
core half allowed and one not at all, and a hybrid one. Three dispatches over two
slots of ages reuse a slot whose occupant still runs. Three lists and four items
let a freed node go to another list while two keep theirs.

Deadlock checking is off in all of them: each system may come to rest (nothing
left to admit, send or push), and resting at the wrong moment is what the
liveness properties and the "stranded" invariants are about.

Fairness. `Mailbox`: a running sender or receiver goes on, and a notified task
is eventually polled; both are what an executor provides. Nothing makes a
sender begin, give up, be dropped or be polled without a notification, or the
inbox depart. The receiver's drain loop is a running task: it goes on until it
sleeps. `Doorbell`: a running thread goes on; nothing makes a notifier ring or
the owner close. `Shard`: the thread runs, its tick comes (the driver armed it),
and a suspended future is woken in the end (a processor whose future never
resolves can hold up shutdown for ever, in the code too); nothing makes anyone
submit or shut down. `Outstanding`: the owner runs while it is awake, and a
thread inside a wake finishes it; nothing makes a future be woken. `Scheduler`:
the builder and the shards' threads run, a client that is not suspended goes on
and lets its clone of the router go when it has no call under way; nothing makes
a client begin, a thread die or the scheduler shut down, and nothing makes an
overlooked sender be polled. The others are checked
for safety only.

### Findings

* `mailbox_room` (`waiters.rs:387`). A sender that parked and got in on its
  retry stays registered until `finish`. If the shard pops its item in that
  window, it hands the freed place to that very sender; `finish` finds the
  ticket dead and does nothing, and the next parked sender sleeps beside an
  empty ring. `RoomReachesTheNext` shows that this is the only way: unless a
  wake was so misspent, room never strands a registered sender. The semaphore
  shares the list and has the same window (`PermitReachesTheNext`, `wasted`).
* `mailbox_woken` (`waiters.rs:223`). A woken sender has no registration left.
  If a newcomer takes the place first, `refresh` ignores the dead ticket, the
  attempt finds the ring full and the future suspends unregistered.
* `mailbox_close` (`mailbox.rs:302`). `poll_recv` tests `producers` before it
  registers, against the doorbell's own rule. A shard's tick covers it; a task
  awaiting `Inbox::recv` alone hangs.
* `shard_exit` (`shard.rs:603`). `dispatch_ready` visits class 0, then class 1.
  Shedding an expired class 1 head there can put its key on ring 0, which is not
  visited again in this turn. With the mailbox closed and nothing in flight the
  exit test succeeds, and the shard returns over an item that was neither run
  nor reported, and over the resident state of its key. If other keys have state
  to flush, the loop goes round once more and does dispatch the item, after the
  one eviction pass there is (`shard.rs:608` says nothing can dispatch by then),
  and the state that dispatch leaves is never flushed. `behind` names the keys
  that had work queued when the last pass began; `ExitIsClean` shows that their
  state is the only state left unflushed, and the proof of it is what brought
  the second case to light.
* `shard_sleep` (`shard.rs:666`). The same re-placement while the mailbox is open.
  What was shed is not progress, so if the turn drained and harvested nothing the
  shard waits, at "Nothing to do this turn", beside a key it could dispatch. The
  tick gets it going: `AdmittedIsAnswered` holds because the tick comes, and the
  item is late by up to a period. `NoSleepOnWork` shows that this is the only
  work the shard ever sleeps on.
* `scheduler_spawn` (`scheduler.rs:297`). If one shard thread dies before it
  reports while another has started, `spawn` waits for ever: the survivor's
  closure owns a sender of the report channel and waits on a mailbox the builder
  holds. `SpawnSettles` shows that this is the only way.
* Read off the code, or named by a property that excepts it, without a run:
  * in-flight ages reuse a slot whose occupant may still run (`shard.rs:295`), so
    the oldest age can be too small, and by `NeverExaggerates` never too large;
  * `compact` tests its condition the wrong way round (`waiters.rs:144`), which
    costs time and not correctness;
  * a call whose item is in the ring of a shard that died is not answered while
    its caller holds the router (`respond.rs:168`, `Stranded`);
  * a run dropped after its task was spawned returns its permit while the task
    is still queued or running (`grommet-offload/src/lib.rs:221`);
  * a closed semaphore goes on issuing permits that are free (`semaphore.rs:71`);
  * `prefer_performance_cores` decides only about a note (`plan.rs:144`), a
    condition of the fallback plan is never true (`fallback.rs:48`), and the
    verdict and the advised fraction of a calibration can disagree
    (`calibrate.rs:133`);
  * an exporter can read an eviction backlog larger than the number of residents
    (`metrics.rs:320`).

## The proofs

`BookProofs` proves `Spec => []TypeOK`, `[]ExclusiveOwner`, `[]RingsAgree` and
`[]LinksAgree` for every finite set of keys and every configuration, from
`BookConstants` alone. None is inductive by itself, so they are proved together
from `BookInv`, which adds `OwnersAgree` (a key is `InFlight` exactly when a
dispatch of it is outstanding, `Evicting` exactly when its state is being
flushed) and `KeyedQueues` (an item waits behind its own key). `ExclusiveOwner`
needs `RingsAgree`, since what excludes a second dispatch is that a ring lists
only `Ready` keys; `RingsAgree` needs `OwnersAgree`, since a completion
places a key that must not be in a ring already; and both need `LinksAgree` for
the keys an eviction or an admission takes off the idle list. The lemmas about
`Unlink`, `IdleLink` and `Place` carry the list reasoning, and each action cites
them.

It proves `CountersAgree` and `Conserved` over `BookInv` as well.
`CountersAgree` is proved from `Accounts`, which ties each counter to the
cardinality of the set it stands for and keeps those sets finite; each method
moves one element from one set to another, and the lemmas say what that does to
a cardinality. `Conserved` is proved from `Shared`: an id is given out once, so
the places an item can be in are disjoint. A third theorem has no run:
`IdleIsReachable`, that the idle list has a head as long as any key is idle, so
that a sweep, which takes heads until there is none, leaves no idle key behind.
`LinksAgree` is local, each link patched on both sides, and a cycle apart from
the list would satisfy it; a rank that grows along the list (`Ranked`) excludes
that.

Last come `StateIsLatest` (no dispatch runs on state older than its
key's last completion) and, with it, that the book implements `Affinity`: every
step of the book is, for every key, a step of the promise or a stutter.

`DoorbellProofs` proves `CellIsOwned` and `NoLostWake` for any number of
notifiers and wakers, from `DoorbellInv`: `BitsAgree` says who holds each bit (`WAKING` without `REGISTERING` has exactly one holder, or was
left for the registrar), `CellAgrees` what the cell contains at each point of a
registration.

`OutstandingProofs` proves `NoMarkStranded`, `SignalIsKept` and `NoSleepOnReady`
for every word size, capacity, cap and number of waking threads, from
`OutstandingInv`. It adds `HandsAgree`, what the restore guard holds at each
stage of a harvest, without which a take could overwrite bits still in hand, and
`QuietIsTold`: once the owner registered, its waker is in the bell or was used,
and marks made since a harvest that found nothing have a ring to come or had
it. `NoSleepOnReady` follows from the second; it needs `NoMarkStranded` where a
harvest ends, since the owner then looks at the summary only.

`ShardProofs` proves that the reactor drives the book by its methods only:
`ShardSpec => Spec`, the specification of the book, from `ArgumentsInRange` (the
class a stage visits, and the envelopes it may receive). What is proved of the
book therefore holds in a running shard: `ExclusiveOwner`, `Conserved`,
`CountersAgree`, `StateIsLatest` and the refinement of `Affinity`. Then the
shard's own, each from an invariant of its own:

* `FitsOutstanding`: the flushes under way never exceed the slots (`FlushesGated`)
  and the futures in the set are the dispatches and flushes counted by the book
  (`FuturesTracked`); the bound is then the book's budgets plus the slots.
* `NoSleepOnWork`, from `Quiet`: what a turn has found exhausted by each stage,
  until something new comes, and whatever comes leaves a reason for another turn;
  and, for the rings, from `RingsQuiet`: past a class, its budget is spent or its
  ring holds only keys that this turn put there afterwards (`passed`).
* `CoalescingExact`, from `Indexed`: every admitted item has its tag, and the index
  is exact, through every way an item ends.
* `ExitIsClean`, from `Leaving` (what holds once the handles are gone and the last
  pass has begun) and `LeftBehind` (state found after it is of a key in `behind`).

`MailboxProofs` proves, for any number of senders and any capacity:

* `ClosedIsConclusive`, from `Conclusive`: the count of producers is the number of
  handles, a sender keeps its handle while it is inside a send, and a place not
  yet written belongs to a sender about to write it; so when the receiver has read
  a count of zero, and then sees no item, the ring is empty and stays so.
* `NoItemStranded`, from `Listening`: past its registration the receiver's waker is
  in the bell or was used, and from the store of `parked` to its sleep it shows.
* `NobodySleepsOnClosed`, an action property, from `Departing`: the list is closed
  only after `departed` was stored, and no operation of the list but `close`
  closes it.
* `WaitersAgree`, from `Registered`. The part about the list alone, `WellFormed`,
  is carried through every operation by `Sound` of `WaitersProofs`: a live
  registration has its entry, entries are in the order of arrival, the generation
  alone tells a tombstone from it, and the free stack holds exactly the slots that
  are over. The part about tickets is `Owned`: every registration is that of one
  task's ticket, so one sender's cancellation never ends another's registration,
  although slots are reused. The queue is filtered by ranks (`Retained`), not
  recursively, so that filtering can be reasoned about without induction.
* `RoomReachesTheNext`, from `Enough`, an argument by counting: while any sender
  relies on being woken, the wakes that were promised and those the receiver has
  still to hand out are at least as many as the free places. Taking an item adds
  a place and a wake that is due; handing out turns a due wake into a promised
  one; a sender that was woken takes a place and so uses its promise up, or is
  cancelled and passes it on, or is refused only when no place is left. The one
  leak is a wake spent on a sender that already had its place, which the property
  excepts (`misspent`) and the run `mailbox_room` shows. `Handing` says who has
  wakers in hand, and when. TLC checked the invariant on the instance of `mailbox`
  and with two places and four sends (1,810,019 states) before it was proved. It
  assumes `ReceiverIsNoSender`, that the receiver's task is none of the senders'.

`SchedulerProofs` proves, for any number of shards, clients and calls:

* `NoUntoldSleeper`, from `Telling`: what a call pushed and did not announce is in
  its `deferred` or `tells`, and a call that waits or is over has neither.
* `BatchReported`, from `Ledger`: of a call under way the mailboxes and the items
  taken out of them hold exactly the accepted items and the one about to be
  announced, each once; no envelope carries the number of a call to come; and a
  call under way holds the router, so no mailbox is emptied over it. It rests on
  `RouterConstants`, on `OwnerIsNoClient` (the scheduler's own hold is told apart
  from the clients') and on `SlotTotalPositive`, that the table's size, the least
  power of two above a number, is a positive number: the provers know nothing of
  powers, so TLC evaluates it. Stating it for every batch brought out that the
  model let an empty batch wait; the code accepts it and does nothing, and so
  does the model now, in the run too.

`PartsProofs` proves, for any producers, capacity and number of pushes, that a
refused push saw a full ring (`FullIsHonest`) and that the ring implements
`Fifo`. `Position` is recursive, so its closed form comes first: the n-th
position is n written in laps, shown by the least number at which it would fail,
which is induction the provers can do. `RingInv` then has the cursors and the
queue of claimed values (`Cursors`, `InOrder`), what each slot's stamp makes of
it and who holds it (`Slots`, `Writers`, `Consumer`), that a value is the one
claimed at its place (`Values`), and how stale the stamp and the cursor of a
producer may be at each point of its call (`Lookers`, `Calling`): `FullIsHonest`
is the last step of that. TLC checked `RingInv` on the instance of `parts`
(402,102 states) before it was proved. Beside `RingConstants` it assumes
`OneLapExists`, that a power of two above the capacity exists: the provers know
nothing of powers, so TLC evaluates it.

It proves `NextEventExact`, `AdvanceProgresses` and the refinement of
`Alarm` for any number of levels, slots, entries and generations and any width
of the tick. The argument is about blocks: each level cuts time into blocks of
its width. `TimerInv` says of every live entry that its block is ahead of the
cursor's and, below the top level, in the same block one level up; or it is due
and in the cursor's own slot (`Filing`). From that follow when each slot wakes,
so what the cached event must be; that an iteration at that event takes out all
that is due and nothing else; and that whatever is filed again wakes later.
Generations (`UsableAgain`) are what keeps a used handle from coming back.
`TimerInv` was checked by TLC first (103,447 states). It assumes
`TimerConstants` and `TimerTicks`: each width is the number of slots times the
one below, which is again a fact of powers.

It proves `PermitReachesTheNext` of `Offload` for any workers, queue depth and
number of runs, over `WaitersProofs` and by the same counting as for the mailbox.
`Served` has the runs agree with the wait list and finitely many of them under
way; `Enough` says that while any run relies on being woken, as many wakes are
under way as permits are free. TLC checked the two with three callers, two
permits and four runs (3,830,964 states) first.

It proves `NeverExaggerates` of `Metrics` for any budget and any range of the
histogram, from `Honest`: a slot of the ages that is alive holds the start of some
dispatch in flight, and no dispatch started after what its slot says (`Aged`);
completions and dispatches in flight add up to those there were, and the
histograms are ordered at every threshold (`Tallied`); and while a report is
being stored, what has been stored is what it is stored from (`Stored`). A
histogram's tail is the number of its samples, so recording adds one element to a
finite set.

It proves `PlanIsSound` of `Layout` for any machines, quotas and workloads, with
hwloc and without. `Planned` is inductive: the plan in force is the one made for
the machine, the quota and the workload as it is now, and the workload a
recalibration leaves is one that can be planned for. The rest is about one plan.
Sorting is stated by rank (`Ordered`): an element stands at the number of those
before it, so that the best cores are each there once and in order follows by
counting, with no induction. Cores lie apart and each on one node, so what is
given out lies apart too, and every budget is at least one core and at most what
the reserve and the quota leave. It assumes `LayoutConstants`: CPUs are finitely
many numbers, of which the process may use one at least, no two cores and no two
nodes share a CPU, and the CPUs of a core are on one node or on none. Proving it
showed what the run's machines had hidden: on a machine that reports no node for
some CPU the code counts it to node 0, which need not exist, so the clause on
remote pools is about shards whose node does.

Only model-checked: everything temporal under fairness (`ItemsAreReceived`,
`SignalsAreSeen`, `ShutdownEnds`, `AdmittedIsAnswered`, `SignalledIsPolled`,
`SubmissionEnds`, `SpawnSettles`, `ShutdownJoins`), which is beyond this prover,
and `SlabIsSound`, whose lists are followed by recursion. `SubmissionEnds` and
`ShutdownJoins` say what they depend on: a call stranded in the ring of a dead
shard, or a sender overlooked for good, is excepted by name (`Stranded`,
`Overlooked`), and neither would notice a change that strands more of them.
A type invariant (`TypeOK`, or the
module's name and `TypeOK`) is stated in every module as documentation of its
state; the runs spend their properties elsewhere.

## Not modelled

The driver's cache of the deadline it armed (`driver/tokio.rs:54`); busy time
and the counters and gauges that are published like the ones in `Metrics`;
reading a quantile and merging histograms, which the histogram library does;
reading the machine and the cgroup files, and the calls that bind threads and
memory, which are I/O (whether an attempt to bind succeeds is a choice in
`Scheduler`); binding offload workers. The processor, clock and error traits have no state: what a
processor may return and a clock may read are inputs of `Shard`. Macros run at
compile time, the testkit is test support, the cell shim exists for loom, and
weak memory is left to the repository's loom tests.

## Plan

Done: `Book`, `Doorbell`, `Ring`, `Waiters`, `Mailbox`, `Outstanding`, `Shard`,
`Timer`, `Router`, `Scheduler`, `Offload`, `Layout`, `Metrics`, `Slab`, their instances
and the modules of proofs.

Left: the driver's cache of the armed deadline, over the wheel and a clock
reading that may be stale.
