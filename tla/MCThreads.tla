----------------------------- MODULE MCThreads -----------------------------
(* Two components that share nothing, checked in one run: a behaviour      *)
(* drives the one chosen in its initial state, under that one's fairness,  *)
(* and the other stays put.                                                *)
(*                                                                         *)
(* Scheduler: as in MCScheduler.  Doorbell: three notifiers, so that one   *)
(* can find the cell held by another while a third has yet to look, and    *)
(* two wakers, so that a poll can replace the waker of the one before.     *)
EXTENDS MCScheduler, Doorbell

VARIABLE part

threadsVars == <<part, schedulerVars, vars>>

(* A component that stays put does so in one of its initial states.        *)
ThreadsInit ==
  /\ part \in {"scheduler", "doorbell"}
  /\ SchedulerInit
  /\ part = "scheduler" \/ config = CHOOSE c \in [policy : Policies, max_pending : MaxPendings,
                                                  plan : Plans] : TRUE
  /\ Init
  /\ part = "doorbell" \/ cur = CHOOSE w \in Wakers : TRUE

InScheduler(A) == part = "scheduler" /\ A /\ UNCHANGED <<part, vars>>

InDoorbell(A) == part = "doorbell" /\ A /\ UNCHANGED <<part, schedulerVars>>

ThreadsNext == InScheduler(SchedulerNext) \/ InDoorbell(Next)

(* SchedulerSpec's fairness and Doorbell's, each in its own behaviours.    *)
ThreadsFairness ==
  /\ WF_threadsVars(InScheduler(Build))
  /\ \A s \in Shards : WF_threadsVars(InScheduler(Thread(s)))
  /\ \A c \in Clients : /\ WF_threadsVars(InScheduler(Client(c)))
                        /\ WF_threadsVars(InScheduler(DropRouter(c)))
  /\ WF_threadsVars(InDoorbell(OwnerStep))
  /\ \A n \in Notifiers : WF_threadsVars(InDoorbell(NotifierStep(n)))

ThreadsSpec == ThreadsInit /\ [][ThreadsNext]_threadsVars /\ ThreadsFairness

=============================================================================
