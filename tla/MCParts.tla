------------------------------ MODULE MCParts ------------------------------
(* Six components  that share nothing, checked in one run: a behaviour     *)
(* drives the one chosen in its initial state, and the others stay put.    *)
(*                                                                         *)
(* Ring: three producers and two slots, so that the index carries before   *)
(* the lap does, a producer can be overtaken by both others, and there are *)
(* enough pushes for three laps.  Timer: every tick, and readings between  *)
(* two ticks at both ends of the word and past it.  Layout: a machine      *)
(* without core objects, of which one CPU may be used; an SMT machine of   *)
(* two nodes, one core half allowed and one not at all; a hybrid machine.  *)
(* Slab: three lists, so that a freed node goes to another list while two  *)
(* keep theirs, and enough items for a list of three beside another.       *)
EXTENDS Offload, Timer, Layout, Ring, Metrics, Slab, TLC

VARIABLE part

partsVars == <<part, offloadVars, timerVars, layoutVars, ringVars, metricsVars, slabVars>>

(* A component that stays put does so in one of its initial states.        *)
PartsInit ==
  /\ part \in {"offload", "timer", "layout", "ring", "metrics", "slab"}
  /\ OffloadInit
  /\ RingInit
  /\ MetricsInit
  /\ SlabInit
  /\ TimerInit /\ (part = "timer" \/ wheelCursor = 0)
  /\ LayoutInit
  /\ \/ part = "layout"
     \/ /\ machine.cores = {} /\ hwloc /\ quota = CHOOSE q \in Quotas : TRUE
        /\ workload = CHOOSE w \in Workloads : TRUE

PartsNext ==
  \/ /\ part = "offload" /\ OffloadNext
     /\ UNCHANGED <<part, timerVars, layoutVars, ringVars, metricsVars, slabVars>>
  \/ /\ part = "timer" /\ TimerNext
     /\ UNCHANGED <<part, offloadVars, layoutVars, ringVars, metricsVars, slabVars>>
  \/ /\ part = "layout" /\ LayoutNext
     /\ UNCHANGED <<part, offloadVars, timerVars, ringVars, metricsVars, slabVars>>
  \/ /\ part = "ring" /\ RingNext
     /\ UNCHANGED <<part, offloadVars, timerVars, layoutVars, metricsVars, slabVars>>
  \/ /\ part = "metrics" /\ MetricsNext
     /\ UNCHANGED <<part, offloadVars, timerVars, layoutVars, ringVars, slabVars>>
  \/ /\ part = "slab" /\ SlabNext
     /\ UNCHANGED <<part, offloadVars, timerVars, layoutVars, ringVars, metricsVars>>

PartsSpec == PartsInit /\ [][PartsNext]_partsVars

(* Tasks, producers and keys are the same three model values.              *)
MCSymmetry == Permutations(Tasks)

MCDurations == {Granule * t : t \in Ticks} \cup {1, 7, 2 * MaxTick - 1, 2 * MaxTick + 1}

MCMachines ==
  {[cores |-> {}, pus |-> 0 .. 1, allowed |-> {1}, nodes |-> <<>>, kinds |-> {}],
   [cores |-> {{0, 1}, {2, 3}, {4, 5}, {6, 7}}, pus |-> 0 .. 7, allowed |-> 1 .. 5,
    nodes |-> [n \in 0 .. 1 |-> IF n = 0 THEN {0, 1} ELSE 2 .. 7],
    kinds |-> {[cpus |-> 0 .. 7, efficiency |-> 0]}],
   [cores |-> {{0}, {1, 2}, {3}, {4, 5}}, pus |-> 0 .. 5, allowed |-> 0 .. 5,
    nodes |-> [n \in 0 .. 1 |-> IF n = 0 THEN 0 .. 2 ELSE 3 .. 5],
    kinds |-> {[cpus |-> {0, 3}, efficiency |-> 0], [cpus |-> {1, 2, 4, 5}, efficiency |-> 1]}]}

MCQuotas ==
  [source : {"v2"}, quota : {-1, 0, 1, 5}, period : {2}]
  \cup [source : {"v1"}, quota : {0}, period : {2}]

MCWorkloads ==
  [compute : {[num |-> n, den |-> 4] : n \in {0, 1, 4}}, reserve_cores : {0, 1, 4},
   isolate_smt : BOOLEAN]

=============================================================================
