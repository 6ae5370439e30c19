------------------------------ MODULE Offload ------------------------------
(***************************************************************************)
(* Compute offload: RayonOffload::run of crates/grommet-offload/src/lib.rs *)
(* over the counted permit of crates/grommet/src/semaphore.rs, which waits *)
(* on the list of Waiters.  A run takes a permit, hands its task to a pool *)
(* of workers, awaits the result and returns the permit; a suspended run   *)
(* may be dropped at any await, and close may come at any time.            *)
(*                                                                         *)
(* As in Mailbox an action is one access to shared memory or one critical  *)
(* section of the wait list.  Latency and wait statistics are left out.    *)
(***************************************************************************)
EXTENDS Waiters, SequencesExt

CONSTANTS
  Workers,     \* threads of the pool
  QueueDepth,  \* outstanding tasks per worker
  MaxRuns      \* bound: runs ever begun

ASSUME OffloadConstants == {Workers, QueueDepth} \subseteq Nat \ {0} /\ MaxRuns \in Nat

Callers == Tasks

VARIABLES
  permits,   \* Semaphore::permits
  shut,      \* Semaphore::closed
  line,      \* Semaphore::waiters
  run,       \* each caller's run future
  closer,    \* where close is, and the wakers it took
  spawned,   \* tasks that have not ended, oldest first
  answers,   \* results sent and not received, by task
  runs,      \* runs begun
  wasted     \* a wake went to a caller that had already got a permit (history)

semaphore == <<permits, shut, line>>
pool == <<spawned, answers>>
offloadVars == <<semaphore, run, closer, pool, runs, wasted>>

NoRun == [at |-> "idle", ticket |-> NoTicket, permit |-> FALSE, task |-> 0,
          notified |-> FALSE, waking |-> {}]

OffloadInit ==
  /\ permits = Workers * QueueDepth
  /\ shut = FALSE
  /\ line = Fresh
  /\ run = [c \in Callers |-> NoRun]
  /\ closer = [at |-> "idle", waking |-> {}]
  /\ spawned = <<>> /\ answers = {}
  /\ runs = 0
  /\ wasted = FALSE

Run(c, r) == run' = [run EXCEPT ![c] = r]
At(c, place) == Run(c, [run[c] EXCEPT !.at = place])

-----------------------------------------------------------------------------
(* acquire.                                                                *)

BeginRun(c) ==
  /\ run[c].at = "idle" /\ runs < MaxRuns
  /\ Run(c, [NoRun EXCEPT !.at = "take", !.task = runs + 1])
  /\ runs' = runs + 1
  /\ UNCHANGED <<semaphore, closer, pool, wasted>>

(* Semaphore::take.                                                        *)
TakePermit(c) ==
  /\ run[c].at = "take" /\ permits > 0
  /\ permits' = permits - 1
  /\ Run(c, [run[c] EXCEPT !.permit = TRUE,
                           !.at = IF run[c].ticket = NoTicket THEN "spawn" ELSE "finish"])
  /\ UNCHANGED <<shut, line, closer, pool, runs, wasted>>

NoPermit(c) ==
  /\ run[c].at = "take" /\ permits = 0
  /\ At(c, "refused")
  /\ UNCHANGED <<semaphore, closer, pool, runs, wasted>>

(* closed is looked at only when no permit is free.                        *)
FindClosed(c) ==
  /\ run[c].at = "refused" /\ shut
  /\ At(c, IF run[c].ticket = NoTicket THEN "idle" ELSE "finish")
  /\ UNCHANGED <<semaphore, closer, pool, runs, wasted>>

Retry(c) ==
  /\ run[c].at = "refused" /\ ~shut
  /\ At(c, IF run[c].ticket = NoTicket THEN "park" ELSE "asleep")
  /\ UNCHANGED <<semaphore, closer, pool, runs, wasted>>

(* park_until: register and attempt again, or refresh and attempt again.   *)
ParkCaller(c) ==
  /\ run[c].at = "park" /\ ~line.closed
  /\ line' = Park(line, c)
  /\ Run(c, [run[c] EXCEPT !.at = "take", !.ticket = ParkTicket(line)])
  /\ UNCHANGED <<permits, shut, closer, pool, runs, wasted>>

ParkRefused(c) ==
  /\ run[c].at = "park" /\ line.closed
  /\ At(c, "idle")
  /\ UNCHANGED <<semaphore, closer, pool, runs, wasted>>

PollCaller(c) ==
  /\ run[c].at = "asleep"
  /\ line' = Refresh(line, run[c].ticket, c)
  /\ Run(c, [run[c] EXCEPT !.at = "take", !.notified = FALSE])
  /\ UNCHANGED <<permits, shut, closer, pool, runs, wasted>>

(* Registration::finish.                                                   *)
FinishWait(c) ==
  /\ run[c].at = "finish"
  /\ line' = Cancel(line, run[c].ticket)
  /\ Run(c, [run[c] EXCEPT !.ticket = NoTicket,
                           !.at = IF run[c].permit THEN "spawn" ELSE "idle"])
  /\ UNCHANGED <<permits, shut, closer, pool, runs, wasted>>

(* Registration::drop: a wake that was already sent is passed on.          *)
AbandonWait(c) ==
  /\ run[c].at = "asleep"
  /\ line' = Cancel(line, run[c].ticket)
  /\ Run(c, [run[c] EXCEPT !.ticket = NoTicket, !.notified = FALSE,
                           !.at = IF Live(line, run[c].ticket) THEN "idle" ELSE "pass"])
  /\ UNCHANGED <<permits, shut, closer, pool, runs, wasted>>

-----------------------------------------------------------------------------
(* The task, and the return of the permit.                                 *)

SpawnTask(c) ==
  /\ run[c].at = "spawn"
  /\ spawned' = Append(spawned, run[c].task)
  /\ At(c, "answer")
  /\ UNCHANGED <<semaphore, closer, answers, runs, wasted>>

(* The result, or WorkerLost; or the future is dropped and nobody listens. *)
ReceiveAnswer(c) ==
  /\ run[c].at = "answer" /\ run[c].task \in answers
  /\ answers' = answers \ {run[c].task}
  /\ At(c, "release")
  /\ UNCHANGED <<semaphore, closer, spawned, runs, wasted>>

DropRun(c) ==
  /\ run[c].at = "answer"
  /\ At(c, "release")
  /\ UNCHANGED <<semaphore, closer, pool, runs, wasted>>

ReleasePermit_Quiet(c) ==
  /\ run[c].at = "release"
  /\ permits' = permits + 1
  /\ Run(c, [run[c] EXCEPT !.permit = FALSE, !.at = "idle"])
  /\ UNCHANGED <<shut, line, closer, pool, runs, wasted>>

(* Permit::drop: release, then look for somebody who waits.                *)
ReleasePermit(c) ==
  /\ run[c].at = "release"
  /\ permits' = permits + 1
  /\ Run(c, [run[c] EXCEPT !.permit = FALSE, !.at = "any"])
  /\ UNCHANGED <<shut, line, closer, pool, runs, wasted>>

LookForWaiters(c) ==
  /\ run[c].at = "any"
  /\ At(c, IF line.waiting = 0 THEN "idle" ELSE "pass")
  /\ UNCHANGED <<semaphore, closer, pool, runs, wasted>>

(* wake_one's critical section, and the wake itself outside the lock.      *)
HandOn(c) ==
  /\ run[c].at = "pass"
  /\ line' = WakeOne(line)
  /\ Run(c, [run[c] EXCEPT !.waking = {Woken(line)} \ {NoWaker},
                           !.at = IF Woken(line) = NoWaker THEN "idle" ELSE "wake"])
  /\ wasted' = (wasted \/ (Woken(line) # NoWaker /\ run[Woken(line)].permit))
  /\ UNCHANGED <<permits, shut, closer, pool, runs>>

Notified(woken) ==
  [c \in Callers |-> [run[c] EXCEPT !.notified = @ \/ c \in woken]]

WakeNext(c) ==
  /\ run[c].at = "wake"
  /\ run' = [Notified(run[c].waking) EXCEPT ![c].waking = {}, ![c].at = "idle"]
  /\ UNCHANGED <<semaphore, closer, pool, runs, wasted>>

-----------------------------------------------------------------------------
(* Semaphore::close.                                                       *)

CloseFlag ==
  /\ closer.at = "idle"
  /\ shut' = TRUE
  /\ closer' = [closer EXCEPT !.at = "list"]
  /\ UNCHANGED <<permits, line, run, pool, runs, wasted>>

CloseList ==
  /\ closer.at = "list"
  /\ line' = Close(line)
  /\ closer' = [at |-> "wake", waking |-> Parked(line)]
  /\ UNCHANGED <<permits, shut, run, pool, runs, wasted>>

CloseWakes ==
  /\ closer.at = "wake"
  /\ run' = Notified(closer.waking)
  /\ closer' = [at |-> "done", waking |-> {}]
  /\ UNCHANGED <<semaphore, pool, runs, wasted>>

-----------------------------------------------------------------------------
(* The pool: spawn_fifo starts tasks in order, so those that run are among *)
(* the oldest, one per worker.                                             *)

Running == {i \in DOMAIN spawned : i <= Workers}

(* The task returns, or panics and drops its end of the channel: either    *)
(* way whoever still listens is told.                                      *)
Listening(task) == \E c \in Callers : run[c].at = "answer" /\ run[c].task = task

EndTask(i) ==
  /\ spawned' = RemoveAt(spawned, i)
  /\ answers' = IF Listening(spawned[i]) THEN answers \cup {spawned[i]} ELSE answers
  /\ UNCHANGED <<semaphore, run, closer, runs, wasted>>

RunStep(c) ==
  \/ TakePermit(c) \/ NoPermit(c) \/ FindClosed(c) \/ Retry(c) \/ ParkCaller(c)
  \/ ParkRefused(c) \/ FinishWait(c) \/ SpawnTask(c) \/ ReceiveAnswer(c)
  \/ ReleasePermit(c) \/ LookForWaiters(c) \/ HandOn(c) \/ WakeNext(c)

OffloadNext ==
  \/ \E c \in Callers : RunStep(c)
  \/ \E c \in Callers : BeginRun(c) \/ PollCaller(c) \/ AbandonWait(c) \/ DropRun(c)
  \/ CloseFlag \/ CloseList \/ CloseWakes
  \/ \E i \in Running : EndTask(i)

OffloadSpec == OffloadInit /\ [][OffloadNext]_offloadVars

-----------------------------------------------------------------------------
(* Properties.                                                             *)

OffloadTypeOK ==
  /\ permits \in 0 .. Workers * QueueDepth
  /\ WaitersType(line)
  /\ \A c \in Callers : run[c].task \in 0 .. MaxRuns
  /\ answers \subseteq 1 .. MaxRuns

(* A wake is on its way to this caller, or it was woken and is about to    *)
(* try, or it passes its wake on.                                          *)
Granted(c) ==
  \/ c \in closer.waking \cup UNION {run[d].waking : d \in Callers}
  \/ /\ run[c].ticket # NoTicket /\ ~Live(line, run[c].ticket)
     /\ run[c].at = "take" \/ (run[c].at \in {"refused", "asleep"} /\ run[c].notified)
  \/ run[c].at \in {"any", "pass"}

(* A caller that is registered never comes to rest on a free permit,       *)
(* unless a wake was spent on one that already had its own: a permit that  *)
(* comes back reaches the next in line whatever is dropped on the way      *)
(* (semaphore.rs, release: "the caller would sleep on a permit that is     *)
(* already free").  A caller that was woken, found the permit gone and     *)
(* went back to sleep is no longer in line, and nothing is said of it.     *)
PermitReachesTheNext ==
  /\ permits > 0 /\ ~wasted
  /\ \E c \in Callers : run[c].at = "asleep" /\ Live(line, run[c].ticket)
  => closer.at = "list" \/ \E c \in Callers : Granted(c)

=============================================================================
