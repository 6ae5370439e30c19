-------------------------------- MODULE Book --------------------------------
(***************************************************************************)
(* The key-affine, class-fair scheduler of crates/grommet-core/src/lib.rs  *)
(* (`Scheduler`), the bookkeeping one shard keeps.  It is a plain data      *)
(* structure driven by one thread, so a public method is atomic; the two   *)
(* methods that loop over keys (`next` and `evict`) are modelled one       *)
(* iteration per step, and `call` locks every other method out until the   *)
(* call has returned.                                                      *)
(*                                                                         *)
(* The caller is part of the model: `outstanding` holds the dispatches it  *)
(* was given and has not completed, `flushing` the states it was handed by *)
(* an eviction and has not finished flushing.                              *)
(*                                                                         *)
(* Payloads are identified by `id`, given out in admission order; the      *)
(* state a processor keeps for a key is identified by the id of the item   *)
(* that produced it.  A key's queue is a FIFO; Slab shows that the slab    *)
(* behind the queues makes it one.                                         *)
(***************************************************************************)
EXTENDS Integers, Sequences, FiniteSets

CONSTANTS
  Keys,          \* the keys of this shard
  NClasses,      \* CLASSES, the number of scheduling classes
  MaxInflight,   \* Config::max_inflight, a budget per class
  MaxPending,    \* Config::max_pending
  MaxResident,   \* Config::max_resident; Uncapped stands for None
  EvictAfter,    \* Config::evict_after
  EvictIters,    \* Config::evict_iters
  Deadlines,     \* the expires_at values items are admitted with
  None,          \* Option::None of a key link
  MaxItems,      \* bound of the model: items ever admitted
  MaxTime        \* bound of the model: the clock

Classes == 0 .. NClasses - 1

Uncapped == -1   \* max_resident: None

ASSUME BookConstants ==
  /\ IsFiniteSet(Keys)
  /\ None \notin Keys
  /\ NClasses \in Nat \ {0}
  /\ MaxInflight \in [Classes -> Nat]
  /\ MaxPending \in Nat
  /\ MaxResident \in Nat \cup {Uncapped}
  /\ EvictAfter \in Nat
  /\ EvictIters \in Nat
  /\ Deadlines \subseteq Int
  /\ MaxItems \in Nat
  /\ MaxTime \in Nat

VARIABLES
  now,           \* the caller's monotonic clock
  presence,      \* Slot::presence, Absent when the key has no slot
  queue,         \* Slot::queue, the items waiting behind a key
  resident,      \* Slot::resident, NoState when None
  idle_since,    \* Slot::idle_since
  idle_prev,     \* Slot::idle_prev
  idle_next,     \* Slot::idle_next
  idle_head,     \* oldest key of the idle list
  idle_tail,     \* newest key of the idle list
  idle,          \* length of the idle list, as counted
  ready,         \* one ring of keys per class
  expired,       \* items shed at dispatch, not yet collected
  inflight,      \* dispatched items per class, as counted
  pending,       \* queued plus in-flight items, as counted
  evicting,      \* quiesced keys, as counted
  call,          \* the method in progress and its loop variable
  outstanding,   \* dispatches the caller holds
  flushing,      \* (key, state) pairs the caller is flushing
  admitted,      \* how many items were ever admitted
  done,          \* ids of items completed or reported expired (history)
  last_done      \* id of the last item of each key to complete (history)

links == <<idle_since, idle_prev, idle_next, idle_head, idle_tail, idle>>
caller == <<outstanding, flushing>>
history == <<admitted, done, last_done>>
vars == <<now, presence, queue, resident, links, ready, expired, inflight,
          pending, evicting, call, caller, history>>

-----------------------------------------------------------------------------
(* Presence.  Ready carries the class of the ring that lists the key.      *)

Ready(c) == c
Idle     == -1
InFlight == -2
Evicting == -3
Absent   == -4

Presences == Classes \cup {Idle, InFlight, Evicting, Absent}

NoState == 0
Never   == -1   \* expires_at: None

Items == [id : Nat \ {0}, key : Keys, class : Classes, deadline : Int]

NoCall == [op |-> "none", arg |-> 0]

Slots == {k \in Keys : presence[k] # Absent}       \* the entries of `keys`

-----------------------------------------------------------------------------
(* The idle list: doubly linked through the slots, oldest first.           *)

(* idle_link: append a key that has just gone idle, stamping the moment.   *)
IdleLink(k) ==
  /\ idle_since' = [idle_since EXCEPT ![k] = now]
  /\ idle_prev' = [idle_prev EXCEPT ![k] = idle_tail]
  /\ idle_next' = IF idle_tail = None THEN idle_next
                  ELSE [idle_next EXCEPT ![idle_tail] = k]
  /\ idle_head' = IF idle_tail = None THEN k ELSE idle_head
  /\ idle_tail' = k
  /\ idle' = idle + 1

Relinked_Forgets(link, k, at, to) ==
  [link EXCEPT ![k] = None]

(* A link field with k detached and its neighbour `at` patched to `to`.    *)
Relinked(link, k, at, to) ==
  [j \in Keys |-> IF j = k THEN None ELSE IF j = at THEN to ELSE link[j]]

(* detach followed by idle_patch: close the list over a key leaving it.    *)
Unlink(k) ==
  LET p == idle_prev[k]
      n == idle_next[k]
  IN /\ idle_next' = Relinked(idle_next, k, p, n)
     /\ idle_prev' = Relinked(idle_prev, k, n, p)
     /\ idle_head' = IF p = None THEN n ELSE idle_head
     /\ idle_tail' = IF n = None THEN p ELSE idle_tail
     /\ idle' = idle - 1
     /\ UNCHANGED idle_since

TargetRing_Stale(k, q) == 0

(* settle: the ring a key with queue q belongs to, by its head's class.    *)
TargetRing(k, q) == Head(q).class

(* settle followed by place: the key joins its target ring, or goes idle.  *)
(* rings are the rings as the caller left them.                            *)
Place(k, q, rings) ==
  IF q # <<>>
  THEN /\ presence' = [presence EXCEPT ![k] = Ready(TargetRing(k, q))]
       /\ ready' = [rings EXCEPT ![TargetRing(k, q)] = Append(@, k)]
       /\ UNCHANGED links
  ELSE /\ presence' = [presence EXCEPT ![k] = Idle]
       /\ ready' = rings
       /\ IdleLink(k)

-----------------------------------------------------------------------------

Init ==
  /\ now = 0
  /\ presence = [k \in Keys |-> Absent]
  /\ queue = [k \in Keys |-> <<>>]
  /\ resident = [k \in Keys |-> NoState]
  /\ idle_since = [k \in Keys |-> 0]
  /\ idle_prev = [k \in Keys |-> None]
  /\ idle_next = [k \in Keys |-> None]
  /\ idle_head = None
  /\ idle_tail = None
  /\ idle = 0
  /\ ready = [c \in Classes |-> <<>>]
  /\ expired = <<>>
  /\ inflight = [c \in Classes |-> 0]
  /\ pending = 0
  /\ evicting = 0
  /\ call = NoCall
  /\ outstanding = {}
  /\ flushing = {}
  /\ admitted = 0
  /\ done = {}
  /\ last_done = [k \in Keys |-> NoState]

IsSaturated == pending >= MaxPending

Joins_WhileFlushing(k) == presence[k] \in {Idle, Absent, Evicting}

(* Only an idle key, or one never seen, joins a ring: a key in flight,     *)
(* already ready or quiescing keeps its place.                             *)
Joins(k) == presence[k] \in {Idle, Absent}

(* Slab::push_back on the key's list.                                      *)
Enqueued(q, item) == Append(q, item)

(* admit: queue an item behind its key.  The caller refuses admission when *)
(* the book is saturated.                                                  *)
Admit(k, c, d) ==
  LET item == [id |-> admitted + 1, key |-> k, class |-> c, deadline |-> d]
  IN /\ call = NoCall
     /\ ~IsSaturated
     /\ admitted < MaxItems
     /\ admitted' = admitted + 1
     /\ pending' = pending + 1
     /\ queue' = [queue EXCEPT ![k] = Enqueued(@, item)]
     /\ IF Joins(k)
        THEN /\ presence' = [presence EXCEPT ![k] = Ready(c)]
             /\ ready' = [ready EXCEPT ![c] = Append(@, k)]
             /\ IF presence[k] = Idle THEN Unlink(k) ELSE UNCHANGED links
        ELSE UNCHANGED <<presence, ready, links>>
     /\ UNCHANGED <<now, resident, expired, inflight, evicting, call, caller,
                    done, last_done>>

-----------------------------------------------------------------------------

(* The head of a queue that next(c) drops: of class c and past its         *)
(* deadline.                                                               *)
Sheds(item, c) ==
  /\ item.class = c
  /\ item.deadline # Never
  /\ item.deadline <= now

(* next(c) drops the first n items of q and stops there.                   *)
ShedsExactly(q, c, n) ==
  /\ \A i \in 1 .. n : Sheds(q[i], c)
  /\ n < Len(q) => ~Sheds(q[n + 1], c)

WithinBudget_OffByOne(c) == inflight[c] <= MaxInflight[c]

WithinBudget(c) == inflight[c] < MaxInflight[c]

(* next(c) is entered when the budget allows, and goes on to the next key  *)
(* of the ring when the last one had nothing left of class c.              *)
InNext(c) ==
  \/ call = NoCall /\ WithinBudget(c)
  \/ call = [op |-> "next", arg |-> c]

(* One iteration of next(c)'s loop: pop the ring, shed the expired heads,  *)
(* then dispatch the item left at the head if it is of this class.         *)
NextTakes(c) ==
  /\ InNext(c)
  /\ ready[c] # <<>>
  /\ LET k == Head(ready[c])
         q == queue[k]
     IN \E n \in 0 .. Len(q) - 1 :
          /\ ShedsExactly(q, c, n)
          /\ q[n + 1].class = c
          /\ queue' = [queue EXCEPT ![k] = SubSeq(q, n + 2, Len(q))]
          /\ expired' = expired \o SubSeq(q, 1, n)
          /\ pending' = pending - n
          /\ outstanding' = outstanding \cup
               {[item |-> q[n + 1], state |-> resident[k]]}
          /\ presence' = [presence EXCEPT ![k] = InFlight]
          /\ resident' = [resident EXCEPT ![k] = NoState]
  /\ ready' = [ready EXCEPT ![c] = Tail(@)]
  /\ inflight' = [inflight EXCEPT ![c] = @ + 1]
  /\ call' = NoCall
  /\ UNCHANGED <<now, links, evicting, flushing, history>>

(* The other outcome: everything of this class expired, so the key settles *)
(* elsewhere and the loop goes on, or the ring is drained and next(c)      *)
(* returns None.                                                           *)
NextSkips(c) ==
  /\ InNext(c)
  /\ ready[c] # <<>>
  /\ LET k == Head(ready[c])
         q == queue[k]
     IN \E n \in 0 .. Len(q) :
          /\ ShedsExactly(q, c, n)
          /\ n < Len(q) => q[n + 1].class # c
          /\ queue' = [queue EXCEPT ![k] = SubSeq(q, n + 1, Len(q))]
          /\ expired' = expired \o SubSeq(q, 1, n)
          /\ pending' = pending - n
          /\ Place(k, SubSeq(q, n + 1, Len(q)), [ready EXCEPT ![c] = Tail(@)])
  /\ call' = IF Len(ready[c]) = 1 THEN NoCall ELSE [op |-> "next", arg |-> c]
  /\ UNCHANGED <<now, resident, inflight, evicting, caller, history>>

(* pop_expired: the caller collects an item it must report as expired.     *)
PopExpired ==
  /\ call = NoCall
  /\ expired # <<>>
  /\ expired' = Tail(expired)
  /\ done' = done \cup {Head(expired).id}
  /\ UNCHANGED <<now, presence, queue, resident, links, ready, inflight,
                 pending, evicting, call, caller, admitted, last_done>>

Returned_KeepsOld(d, keep) == IF keep THEN d.item.id ELSE d.state

(* Disposition::into_option: Keep stores the state the work produced, Drop *)
(* leaves the key with none.                                               *)
Returned(d, keep) == IF keep THEN d.item.id ELSE NoState

(* complete: take the key back and place it again.                         *)
Complete(d, keep) ==
  LET k == d.item.key
      c == d.item.class
  IN /\ call = NoCall
     /\ outstanding' = outstanding \ {d}
     /\ inflight' = [inflight EXCEPT ![c] = @ - 1]
     /\ pending' = pending - 1
     /\ resident' = [resident EXCEPT ![k] = Returned(d, keep)]
     /\ Place(k, queue[k], ready)
     /\ done' = done \cup {d.item.id}
     /\ last_done' = [last_done EXCEPT ![k] = d.item.id]
     /\ UNCHANGED <<now, queue, expired, evicting, call, flushing, admitted>>

-----------------------------------------------------------------------------

(* A quiescing key does not count against the cap.                         *)
OverCapacity ==
  MaxResident # Uncapped /\ Cardinality(Slots) - evicting > MaxResident

(* The head of the idle list is due: idle for long enough, or over the cap.*)
Due == now - idle_since[idle_head] >= EvictAfter \/ OverCapacity

Releases_NoQuiesce(k) ==
  IF resident[k] # NoState
  THEN /\ presence' = [presence EXCEPT ![k] = Absent]
       /\ evicting' = evicting + 1
       /\ flushing' = flushing \cup {[key |-> k, state |-> resident[k]]}
  ELSE /\ presence' = [presence EXCEPT ![k] = Absent]
       /\ UNCHANGED <<evicting, flushing>>

(* release: quiesce a key that has state to flush, drop one that has none. *)
Releases(k) ==
  IF resident[k] # NoState
  THEN /\ presence' = [presence EXCEPT ![k] = Evicting]
       /\ evicting' = evicting + 1
       /\ flushing' = flushing \cup {[key |-> k, state |-> resident[k]]}
  ELSE /\ presence' = [presence EXCEPT ![k] = Absent]
       /\ UNCHANGED <<evicting, flushing>>

ReleaseHead ==
  /\ Unlink(idle_head)
  /\ Releases(idle_head)
  /\ resident' = [resident EXCEPT ![idle_head] = NoState]
  /\ UNCHANGED <<now, queue, ready, expired, inflight, pending, outstanding,
                 history>>

(* One iteration of evict's loop, at most EvictIters of them.              *)
Evict ==
  LET left == IF call = NoCall THEN EvictIters ELSE call.arg
  IN /\ call = NoCall \/ call.op = "evict"
     /\ left > 0
     /\ idle_head # None
     /\ Due
     /\ ReleaseHead
     /\ call' = IF left = 1 THEN NoCall ELSE [op |-> "evict", arg |-> left - 1]

(* evict stops early: no idle key is left, or the oldest is too young.     *)
EvictBreaks ==
  /\ call.op = "evict"
  /\ idle_head # None => ~Due
  /\ call' = NoCall
  /\ UNCHANGED <<now, presence, queue, resident, links, ready, expired,
                 inflight, pending, evicting, caller, history>>

(* evict_all: every idle key, whatever its age; it ends with the list.     *)
EvictAll ==
  /\ call = NoCall \/ call.op = "evict_all"
  /\ idle_head # None
  /\ ReleaseHead
  /\ call' = IF idle_next[idle_head] = None THEN NoCall
             ELSE [op |-> "evict_all", arg |-> 0]

FinishEvict_DropsQueue(f) ==
  /\ call = NoCall
  /\ flushing' = flushing \ {f}
  /\ evicting' = evicting - 1
  /\ presence' = [presence EXCEPT ![f.key] = Absent]
  /\ queue' = [queue EXCEPT ![f.key] = <<>>]
  /\ UNCHANGED <<now, ready, links, resident, expired, inflight, pending, call,
                 outstanding, history>>

(* finish_evict: the flush is over; work may have queued behind it.        *)
FinishEvict(f) ==
  /\ call = NoCall
  /\ flushing' = flushing \ {f}
  /\ evicting' = evicting - 1
  /\ IF queue[f.key] = <<>>
     THEN /\ presence' = [presence EXCEPT ![f.key] = Absent]
          /\ UNCHANGED <<ready, links>>
     ELSE Place(f.key, queue[f.key], ready)
  /\ UNCHANGED <<now, queue, resident, expired, inflight, pending, call,
                 outstanding, history>>

(* The caller reads its monotonic clock again before the next call.        *)
ClockAdvances ==
  /\ call = NoCall
  /\ now < MaxTime
  /\ now' = now + 1
  /\ UNCHANGED <<presence, queue, resident, links, ready, expired, inflight,
                 pending, evicting, call, caller, history>>

Next ==
  \/ \E k \in Keys, c \in Classes, d \in Deadlines : Admit(k, c, d)
  \/ \E c \in Classes : NextTakes(c)
  \/ \E c \in Classes : NextSkips(c)
  \/ PopExpired
  \/ \E d \in outstanding, keep \in BOOLEAN : Complete(d, keep)
  \/ Evict
  \/ EvictBreaks
  \/ EvictAll
  \/ \E f \in flushing : FinishEvict(f)
  \/ ClockAdvances

Spec == Init /\ [][Next]_vars

-----------------------------------------------------------------------------
(* Properties.                                                             *)

(* Every variable keeps its type; CountersAgree says the counters do not   *)
(* go below zero.                                                          *)
TypeOK ==
  /\ now \in Nat
  /\ presence \in [Keys -> Presences]
  /\ queue \in [Keys -> Seq(Items)]
  /\ resident \in [Keys -> Nat]
  /\ idle_since \in [Keys -> Nat]
  /\ idle_prev \in [Keys -> Keys \cup {None}]
  /\ idle_next \in [Keys -> Keys \cup {None}]
  /\ idle_head \in Keys \cup {None}
  /\ idle_tail \in Keys \cup {None}
  /\ idle \in Int
  /\ ready \in [Classes -> Seq(Keys)]
  /\ expired \in Seq(Items)
  /\ inflight \in [Classes -> Int]
  /\ pending \in Int
  /\ evicting \in Int
  /\ call \in [op : {"none", "next", "evict", "evict_all"}, arg : Nat]
  /\ outstanding \in SUBSET [item : Items, state : Nat]
  /\ flushing \in SUBSET [key : Keys, state : Nat]
  /\ admitted \in Nat
  /\ done \in SUBSET Nat
  /\ last_done \in [Keys -> Nat]

(* A key has at most one owner: one dispatch, or one flush of its evicted  *)
(* state, never two of either and never both (Presence::InFlight and       *)
(* Presence::Evicting exclude dispatch).                                   *)
ExclusiveOwner ==
  /\ \A d, e \in outstanding : d.item.key = e.item.key => d = e
  /\ \A f, g \in flushing : f.key = g.key => f = g
  /\ \A d \in outstanding, f \in flushing : d.item.key # f.key

(* Where the item with this id is, one element per place that holds it.    *)
Places(id) ==
  {s \in [at : Keys, nth : 1 .. MaxItems] :
     s.nth <= Len(queue[s.at]) /\ queue[s.at][s.nth].id = id}
  \cup {d \in outstanding : d.item.id = id}
  \cup {[shed |-> i] : i \in {n \in DOMAIN expired : expired[n].id = id}}
  \cup {[finished |-> i] : i \in done \cap {id}}

(* Nothing is lost or duplicated: every admitted item is in exactly one    *)
(* place - behind its key, with the caller, shed, or finished - across     *)
(* admission, shedding, dispatch, completion and eviction.                 *)
Conserved == \A id \in 1 .. admitted : Cardinality(Places(id)) = 1

(* The counters check_invariants reconciles: in-flight per class, quiesced *)
(* keys and the idle list's length agree with who owns what, and the       *)
(* budgets of Config are respected.                                        *)
CountersAgree ==
  /\ \A c \in Classes :
       /\ inflight[c] = Cardinality({d \in outstanding : d.item.class = c})
       /\ inflight[c] <= MaxInflight[c]
  /\ evicting = Cardinality(flushing)
  /\ idle = Cardinality({k \in Keys : presence[k] = Idle})
  /\ pending <= MaxPending
  /\ pending = Cardinality(UNION {{<<k, i>> : i \in DOMAIN queue[k]} : k \in Keys})
               + Cardinality(outstanding)

(* Rings, presence and queue heads agree: a ring lists a key exactly when  *)
(* the key is Ready for it and the head of its queue is of that class, it  *)
(* lists it once, and a key with nothing to run is in no ring.             *)
RingsAgree ==
  /\ \A c \in Classes : \A i \in 1 .. Len(ready[c]) :
       LET k == ready[c][i]
       IN /\ presence[k] = Ready(c)
          /\ queue[k] # <<>>
          /\ Head(queue[k]).class = c
          /\ \A j \in 1 .. Len(ready[c]) : ready[c][j] = k => j = i
  /\ \A k \in Keys, c \in Classes :
       presence[k] = Ready(c) => \E i \in 1 .. Len(ready[c]) : ready[c][i] = k
  /\ \A k \in Keys : presence[k] \in {Idle, Absent} => queue[k] = <<>>

(* The links of the idle list agree with each other and with presence:     *)
(* exactly the idle keys are linked, neighbours point at each other, the   *)
(* ends are the head and the tail, and stamps never decrease along it.     *)
LinksAgree ==
  /\ (idle_head = None) <=> (idle_tail = None)
  /\ idle_head # None => presence[idle_head] = Idle /\ idle_prev[idle_head] = None
  /\ idle_tail # None => presence[idle_tail] = Idle /\ idle_next[idle_tail] = None
  /\ \A k \in Keys :
       IF presence[k] = Idle
       THEN /\ idle_since[k] <= now
            /\ IF idle_next[k] = None THEN idle_tail = k
               ELSE /\ presence[idle_next[k]] = Idle
                    /\ idle_prev[idle_next[k]] = k
                    /\ idle_since[k] <= idle_since[idle_next[k]]
            /\ IF idle_prev[k] = None THEN idle_head = k
               ELSE presence[idle_prev[k]] = Idle /\ idle_next[idle_prev[k]] = k
       ELSE idle_next[k] = None /\ idle_prev[k] = None

(* State is never stale: whatever a dispatch is given, a flush carries or  *)
(* a slot keeps is what the last completed item of that key produced, and  *)
(* a key that gave its state up no longer holds it.                        *)
StateIsLatest ==
  /\ \A k \in Keys : resident[k] # NoState =>
       resident[k] = last_done[k] /\ presence[k] \in Classes \cup {Idle}
  /\ \A d \in outstanding : d.state \in {NoState, last_done[d.item.key]}
  /\ \A f \in flushing : f.state = last_done[f.key]

-----------------------------------------------------------------------------
(* Who holds a key, as Affinity sees it.                                   *)
OwnerOf(k) ==
  IF \E d \in outstanding : d.item.key = k
  THEN [by |-> "work",
        id |-> (CHOOSE d \in outstanding : d.item.key = k).item.id]
  ELSE IF \E f \in flushing : f.key = k
  THEN [by |-> "flush", id |-> 0]
  ELSE [by |-> "nobody", id |-> 0]

Affine == INSTANCE Affinity WITH
  waiting <- queue,
  owner <- [k \in Keys |-> OwnerOf(k)],
  NoDeadline <- Never

(* The book implements the per-key promise: first come first run, one      *)
(* owner at a time, and a flush keeps work waiting.                        *)
ImplementsAffinity == Affine!Spec

=============================================================================
