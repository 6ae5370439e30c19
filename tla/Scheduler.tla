----------------------------- MODULE Scheduler -----------------------------
(***************************************************************************)
(* Starting and stopping: crates/grommet/src/scheduler.rs around the       *)
(* submissions of Router.  The builder spawns one thread per shard and     *)
(* waits for each to report what binding achieved; clients share the       *)
(* router; the mailboxes close when its last holder drops it.              *)
(*                                                                         *)
(* A thread may die before it reports (bind_shard panics) or after it (the *)
(* runtime cannot be built, or the factory panics): BuildError::           *)
(* ShardFailed is there for the first.  A thread keeps its end of the      *)
(* report channel until it ends, because its closure owns it.              *)
(***************************************************************************)
EXTENDS Router, TLC

CONSTANTS
  Plans,        \* the plans tried; no plan is one without placements
  Policies,     \* the pin policies tried
  MaxPendings   \* the values of max_pending tried

ASSUME SchedulerConstants ==
  /\ Plans \subseteq [placements : BOOLEAN, can_bind_cpu : BOOLEAN,
                       can_bind_memory : BOOLEAN]
  /\ Policies \subseteq {"Require", "BestEffort", "Disabled"}
  /\ MaxPendings \subseteq Nat

Owner == "owner"

ASSUME OwnerIsNoClient == Owner \notin Clients

VARIABLES
  config,    \* what the builder was given: [policy, max_pending, plan]
  builder,   \* where spawn, and then the scheduler, is
  thread,    \* what each shard's thread does
  reports,   \* the report channel
  bound,     \* the reports received: what binding each shard achieved
  holders    \* who holds the mailboxes: the builder or scheduler, and clients

threads == <<config, builder, thread, reports, bound>>
schedulerVars == <<queue, asleep, gone, served, caller,
                   config, builder, thread, reports, bound, holders>>

-----------------------------------------------------------------------------
(* Placement.  The operating system is asked for what the plan's probe     *)
(* says can be bound, and may refuse.  A shard has one CPU, so the set to  *)
(* bind to is never empty.                                                 *)

Unbound == [cpu |-> FALSE, memory |-> FALSE]

Attempted(can) == IF can THEN BOOLEAN ELSE {FALSE}

BindCurrent(plan) ==
  [cpu : Attempted(plan.can_bind_cpu), memory : Attempted(plan.can_bind_memory)]

Placed == config.policy # "Disabled" /\ config.plan.placements

BindShard == IF Placed THEN BindCurrent(config.plan) ELSE {Unbound}

(* Only the CPU binding decides anything; the counts of TopologyReport are *)
(* left out.                                                               *)
Pinned == {s \in DOMAIN bound : bound[s].cpu}

-----------------------------------------------------------------------------

SchedulerInit ==
  /\ RouterInit
  /\ config \in [policy : Policies, max_pending : MaxPendings, plan : Plans]
  /\ builder = "new"
  /\ thread = [s \in Shards |-> "none"]
  /\ reports = <<>>
  /\ bound = <<>>
  /\ holders = {}

(* Builder::spawn refuses a mailbox deeper than the scheduler admits.      *)
RefuseDepth ==
  /\ builder = "new"
  /\ Depth > config.max_pending
  /\ builder' = "too_deep"
  /\ UNCHANGED <<mailboxes, caller, config, thread, reports, bound, holders>>

Spawn ==
  /\ builder = "new"
  /\ Depth <= config.max_pending
  /\ builder' = "waiting"
  /\ thread' = [s \in Shards |-> "binding"]
  /\ holders' = {Owner}
  /\ UNCHANGED <<mailboxes, caller, config, reports, bound>>

(* The thread of a shard.                                                  *)
Report(s) ==
  /\ thread[s] = "binding"
  /\ \E b \in BindShard : reports' = Append(reports, [shard |-> s, bound |-> b])
  /\ thread' = [thread EXCEPT ![s] = "building"]
  /\ UNCHANGED <<mailboxes, caller, config, builder, bound, holders>>

BuildProcessor(s) ==
  /\ thread[s] = "building"
  /\ thread' = [thread EXCEPT ![s] = "running"]
  /\ UNCHANGED <<mailboxes, caller, config, builder, reports, bound, holders>>

(* The thread ends and drops its inbox.  The ring keeps what was in it     *)
(* until the last mailbox handle goes too.                                 *)
Ends(s, how) ==
  /\ thread' = [thread EXCEPT ![s] = how]
  /\ gone' = gone \cup {s}
  /\ queue' = IF holders = {} THEN [queue EXCEPT ![s] = <<>>] ELSE queue
  /\ UNCHANGED <<asleep, served, caller, config, builder, reports, bound, holders>>

DieBinding(s) == Placed /\ thread[s] = "binding" /\ Ends(s, "died")

DieBuilding(s) == thread[s] = "building" /\ Ends(s, "ended")

Ended(s) == thread[s] \in {"died", "ended"}

(* The builder takes one report.                                           *)
Recv ==
  /\ builder = "waiting"
  /\ reports # <<>>
  /\ bound' = Head(reports).shard :> Head(reports).bound @@ bound
  /\ reports' = Tail(reports)
  /\ UNCHANGED <<mailboxes, caller, config, builder, thread, holders>>

Drops_Quietly(who) ==
  /\ holders' = holders \ {who}
  /\ queue' = IF holders' = {} THEN [s \in Shards |-> IF s \in gone THEN <<>> ELSE queue[s]]
              ELSE queue
  /\ UNCHANGED asleep

(* The last holder closes the mailboxes and wakes the shards; a ring whose *)
(* inbox is gone as well drops what it held.                               *)
Drops(who) ==
  /\ holders' = holders \ {who}
  /\ IF holders' = {}
     THEN /\ asleep' = {}
          /\ queue' = [s \in Shards |-> IF s \in gone THEN <<>> ELSE queue[s]]
     ELSE UNCHANGED <<asleep, queue>>

AllSendersGone_NotOwn == FALSE

(* Every end of the report channel was dropped, the builder's own first.   *)
AllSendersGone == \A s \in Shards : Ended(s)

(* recv fails once every sender is gone: ShardFailed, and `?` drops the    *)
(* senders.                                                                *)
RecvFails ==
  /\ builder = "waiting"
  /\ reports = <<>> /\ AllSendersGone
  /\ DOMAIN bound # Shards
  /\ builder' = "failed"
  /\ Drops(Owner)
  /\ UNCHANGED <<gone, served, caller, config, thread, reports, bound>>

Refused == config.policy = "Require" /\ Pinned # Shards

RefuseUnpinned ==
  /\ builder = "waiting" /\ DOMAIN bound = Shards
  /\ Refused
  /\ builder' = "refusing"
  /\ Drops(Owner)
  /\ UNCHANGED <<gone, served, caller, config, thread, reports, bound>>

(* The count of reports goes with spawn's locals.                          *)
Started ==
  /\ builder = "waiting" /\ DOMAIN bound = Shards
  /\ ~Refused
  /\ builder' = "running"
  /\ bound' = <<>>
  /\ UNCHANGED <<mailboxes, caller, config, thread, reports, holders>>

(* Scheduler::shutdown, or its drop: drop the router, then join.           *)
Shutdown ==
  /\ builder = "running"
  /\ builder' = "closing"
  /\ Drops(Owner)
  /\ UNCHANGED <<gone, served, caller, config, thread, reports, bound>>

Join ==
  /\ builder \in {"closing", "refusing"}
  /\ \A s \in Shards : Ended(s)
  /\ builder' = IF builder = "closing" THEN "closed" ELSE "not_pinned"
  /\ UNCHANGED <<mailboxes, caller, config, thread, reports, bound, holders>>

(* A shard that is running drains and exits once its mailbox is closed.    *)
Exit(s) ==
  /\ thread[s] = "running"
  /\ s \notin asleep
  /\ queue[s] = <<>> /\ holders = {}
  /\ Ends(s, "ended")

Thread(s) ==
  \/ Report(s) \/ BuildProcessor(s) \/ Exit(s)
  \/ thread[s] = "running" /\ TakeItem(s) /\ UNCHANGED <<threads, holders>>
  \/ thread[s] = "running" /\ holders # {} /\ FallAsleep(s) /\ UNCHANGED <<threads, holders>>

-----------------------------------------------------------------------------
(* Clients share the router.                                               *)

CloneRouter(c) ==
  /\ builder = "running"
  /\ c \notin holders /\ Of(c).calls < MaxCalls
  /\ holders' = holders \cup {c}
  /\ UNCHANGED <<mailboxes, caller, threads>>

DropRouter(c) ==
  /\ c \in holders /\ Of(c).at = "idle"
  /\ Drops(c)
  /\ UNCHANGED <<gone, served, caller, threads>>

Client(c) ==
  /\ c \in holders
  /\ Submit(c)
  /\ UNCHANGED <<threads, holders>>

Choice ==
  \/ \E s \in Shards : DieBinding(s) \/ DieBuilding(s)
  \/ \E c \in Clients : CloneRouter(c)
  \/ \E c \in Clients, mode \in Modes, batch \in Batches :
       c \in holders /\ BeginCall(c, mode, batch) /\ UNCHANGED <<threads, holders>>
  \/ \E c \in Clients :
       (Overlook(c) \/ Rescued(c) \/ DropCall(c)) /\ UNCHANGED <<threads, holders>>
  \/ Shutdown

Build == RefuseDepth \/ Spawn \/ Recv \/ RecvFails \/ RefuseUnpinned \/ Started \/ Join

SchedulerNext ==
  \/ Build
  \/ \E s \in Shards : Thread(s)
  \/ \E c \in Clients : Client(c) \/ DropRouter(c)
  \/ Choice

(* Threads and the builder run; a client goes on with its call and, when   *)
(* it is done, drops its clone.  Nothing forces a choice.                  *)
SchedulerSpec ==
  /\ SchedulerInit /\ [][SchedulerNext]_schedulerVars
  /\ WF_schedulerVars(Build)
  /\ \A s \in Shards : WF_schedulerVars(Thread(s))
  /\ \A c \in Clients : WF_schedulerVars(Client(c)) /\ WF_schedulerVars(DropRouter(c))

-----------------------------------------------------------------------------
(* Properties.                                                             *)

SchedulerTypeOK ==
  /\ asleep \subseteq Shards /\ gone \subseteq Shards
  /\ \A s \in Shards : Len(queue[s]) <= Depth
  /\ thread \in [Shards -> {"none", "binding", "building", "running", "died", "ended"}]
  /\ DOMAIN bound \subseteq Shards
  /\ holders \subseteq Clients \cup {Owner}
  /\ \A c \in Clients : Of(c).next \in 0 .. Len(Of(c).batch)

(* No batch waits on itself: a shard never sleeps beside items it was not  *)
(* told of, unless a client that is not suspended is about to tell it      *)
(* (Deferred::announce before the wait of submit_batch).                   *)
WillTell(c, s) ==
  /\ Of(c).at \notin Suspended
  /\ s \in Of(c).deferred \cup Of(c).tells \/ (Of(c).at = "announce" /\ Target(c) = s)

NoUntoldSleeper ==
  \A s \in asleep \ gone : queue[s] # <<>> => \E c \in Clients : WillTell(c, s)

(* A batch is reported honestly: when submit_batch or try_submit_batch     *)
(* returns, every item is named either accepted or rejected, each accepted *)
(* one is or was in the mailbox of the shard that owns its key, and once,  *)
(* and no rejected one ever was.                                           *)
Places(item) ==
  {p \in Shards \X (1 .. Depth) : p[2] <= Len(queue[p[1]]) /\ queue[p[1]][p[2]] = item}

Copies(item) == Cardinality(Places(item)) + (IF item \in served THEN 1 ELSE 0)

BatchReported ==
  \A c \in Clients : Of(c).at = "done" =>
    /\ Of(c).accepted \cup Of(c).rejected = DOMAIN Of(c).batch
    /\ \A n \in DOMAIN Of(c).batch :
         Copies([by |-> c, call |-> Of(c).calls, n |-> n]) = IF n \in Of(c).accepted THEN 1 ELSE 0

(* Two things a submission can be stuck on.  An accepted call in the ring  *)
(* of a shard that died, which drops its items only when the router does,  *)
(* which the caller itself holds; and a send that backpressure suspended   *)
(* and whose wake another sender cost it.                                  *)
Stranded(c) == Of(c).at = "answer" /\ Target(c) \in gone /\ Unanswered(c, Target(c))

Overlooked(c) == Of(c).at = "overlooked"

(* Every submission comes back, unless it is stranded or overlooked for    *)
(* good: backpressure suspends a caller, and the shard, which must be      *)
(* awake for it, lets it go on; a shard that dies turns it away.           *)
SubmissionEnds ==
  \A c \in Clients :
    (Of(c).at # "idle") ~> (Of(c).at = "idle" \/ Stranded(c) \/ []Overlooked(c))

(* spawn comes back, with a scheduler or an error, unless some shard died  *)
(* before it reported while another started.                               *)
HalfStarted ==
  /\ \E s \in Shards : thread[s] = "died"
  /\ \E s \in Shards : thread[s] = "running"

SpawnSettles == builder = "waiting" ~> (builder # "waiting" \/ HalfStarted)

(* What ShardFailed and the report channel are for: spawn always returns.  *)
SpawnReturns == builder = "waiting" ~> builder # "waiting"

(* Shutdown comes to an end once the clients let go, unless one of them is *)
(* stranded or overlooked for good and never does, and by then every item  *)
(* that was accepted by a shard that lived was served.                     *)
Served(s) == s \in gone /\ queue[s] = <<>>

ShutdownJoins ==
  builder \in {"closing", "refusing"} ~>
    \/ builder \in {"closed", "not_pinned"} /\ \A s \in Shards : Served(s)
    \/ \E c \in Clients : Stranded(c) \/ []Overlooked(c)

=============================================================================
