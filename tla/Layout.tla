------------------------------ MODULE Layout -------------------------------
(***************************************************************************)
(* Laying the runtime out on a machine: plan.rs, fallback.rs, cgroup.rs    *)
(* and calibrate.rs of crates/grommet-topology/src.  A plan is computed    *)
(* from the machine, the workload and the CPU quota; a run of the service  *)
(* is observed, and the advice read off it becomes the workload of the     *)
(* next start.                                                             *)
(*                                                                         *)
(* A machine is what hwloc reports of it: core objects, processing units,  *)
(* NUMA nodes, CPU kinds and the CPUs the process may use.  Notes, the     *)
(* binding probes and the text of cgroup files are left out.  Fractions    *)
(* are exact here and floating point in the code.                          *)
(***************************************************************************)
EXTENDS Integers, FiniteSets, SequencesExt

CONSTANTS
  Machines,   \* [cores, pus, allowed, nodes, kinds], of sets of CPUs
  Quotas,     \* what cgroup files say; quota -1 is v2's `max` or v1's -1
  Workloads,  \* [compute, reserve_cores, isolate_smt], compute a fraction
  Wall,       \* the length of an observation
  Busy        \* what offload_busy, permit_wait and reactor_busy may be

Fractions == [num : Nat, den : Nat \ {0}]

(* CPUs are numbers; a CPU has one core and one node, and a core one node. *)
ASSUME LayoutConstants ==
  /\ \A m \in Machines :
       /\ m.pus \subseteq Nat /\ IsFiniteSet(m.pus)
       /\ m.allowed # {} /\ m.allowed \subseteq m.pus
       /\ \A a, b \in m.cores : a # b => a \cap b = {}
       /\ DOMAIN m.nodes \subseteq Nat
       /\ \A n, o \in DOMAIN m.nodes : n # o => m.nodes[n] \cap m.nodes[o] = {}
       /\ \A c \in m.cores, n \in DOMAIN m.nodes : c \cap m.nodes[n] \in {{}, c}
  /\ Quotas \subseteq [source : {"v1", "v2"}, quota : Nat \cup {-1}, period : Nat]
  /\ Workloads \subseteq [compute : Fractions, reserve_cores : Nat, isolate_smt : BOOLEAN]
  /\ Wall \in Nat /\ Busy \subseteq Nat

VARIABLES
  machine,   \* what hwloc reports
  hwloc,     \* whether the build has it
  quota,     \* what the cgroup says
  workload,  \* what the caller says, compute_fraction recalibrated
  plan       \* [shards, offload]

layoutVars == <<machine, hwloc, quota, workload, plan>>

LowestCpu(cpus) == CHOOSE c \in cpus : \A d \in cpus : c <= d

Least(a, b) == IF a <= b THEN a ELSE b
AtLeast(low, a) == IF a < low THEN low ELSE a

-----------------------------------------------------------------------------
(* Discovery.                                                              *)

Unranked == -1   \* a kind whose efficiency hwloc does not know

(* Every CPU, unless there are kinds to tell apart.                        *)
PerformanceCpus(m) ==
  LET ranked == {k \in m.kinds : k.efficiency # Unranked}
      best == {k \in ranked : \A l \in ranked : l.efficiency <= k.efficiency}
  IN IF Cardinality(m.kinds) < 2 \/ best = {} THEN m.pus
     ELSE UNION {k.cpus : k \in best}

NodeOf(m, cpu) ==
  IF \E n \in DOMAIN m.nodes : cpu \in m.nodes[n]
  THEN CHOOSE n \in DOMAIN m.nodes : cpu \in m.nodes[n] ELSE 0

(* What placement needs of a core.                                         *)
CoreFrom(m, pus) ==
  [pus |-> pus, node |-> NodeOf(m, LowestCpu(pus)),
   performance |-> LowestCpu(pus) \in PerformanceCpus(m)]

(* The objects the process may use, each known by its first usable CPU;    *)
(* where there are no core objects, each processing unit is one.           *)
PhysicalCores(m) ==
  LET Usable(objects) == {o \cap m.allowed : o \in objects} \ {{}}
      objects == IF Usable(m.cores) # {} THEN m.cores ELSE {{c} : c \in m.pus}
  IN {CoreFrom(m, pus) : pus \in Usable(objects)}

-----------------------------------------------------------------------------
(* The quota: an unlimited group, or one with a period of zero, has none;  *)
(* a quota of zero is no limit in v1 and a limit of no cores in v2.        *)

Unlimited(q) ==
  \/ q.quota = -1
  \/ q.quota = 0 /\ q.source = "v1"
  \/ q.period = 0

UsableCores(q) == AtLeast(1, q.quota \div q.period)

(* visible.saturating_sub(reserve_cores).max(1)                            *)
Unreserved(visible, w) == AtLeast(1, visible - w.reserve_cores)

Budget(visible, w, q) ==
  IF Unlimited(q) THEN Unreserved(visible, w)
  ELSE Least(UsableCores(q), Unreserved(visible, w))

(* f64::round of budget * compute_fraction                                 *)
Share(budget, f) == (2 * budget * f.num + f.den) \div (2 * f.den)

OffloadCores_Unclamped(budget, w) ==
  IF w.compute.num = 0 \/ budget <= 1 THEN 0 ELSE Share(budget, w.compute)

OffloadCores(budget, w) ==
  IF w.compute.num = 0 \/ budget <= 1 THEN 0
  ELSE Least(budget - 1, AtLeast(1, Share(budget, w.compute)))

-----------------------------------------------------------------------------
(* plan_shared.                                                            *)

Better(a, b) ==
  \/ a.performance /\ ~b.performance
  \/ a.performance = b.performance /\ a.node < b.node
  \/ /\ a.performance = b.performance /\ a.node = b.node
     /\ LowestCpu(a.pus) < LowestCpu(b.pus)

(* A finite set in the order of a relation that is total on it: the place  *)
(* of an element is the number of those before it.                         *)
Ordered(S, before) ==
  [i \in 1 .. Cardinality(S) |->
     CHOOSE x \in S : Cardinality({y \in S : <<y, x>> \in before}) = i - 1]

(* The CPUs a core gives to its pool.                                      *)
Given(core, w) == IF w.isolate_smt THEN {LowestCpu(core.pus)} ELSE core.pus

(* One pool per node, opened by the first core that is on the node.        *)
Pools(cores, w) ==
  LET opening == {i \in DOMAIN cores : \A j \in 1 .. i - 1 : cores[j].node # cores[i].node}
      order == Ordered(opening, {p \in opening \X opening : p[1] < p[2]})
      Pool(node) ==
        [node |-> node,
         cpus |-> UNION {Given(c, w) : c \in {d \in ToSet(cores) : d.node = node}}]
  IN [k \in DOMAIN order |-> Pool(cores[order[k]].node)]

Best(cores) == Ordered(cores, {p \in cores \X cores : Better(p[1], p[2])})

PlanShared(m, w, q) ==
  LET best == Best(PhysicalCores(m))
      budget == Budget(Len(best), w, q)
      split == budget - OffloadCores(budget, w)
  IN [shards |-> [i \in 1 .. split |-> [cpu |-> LowestCpu(best[i].pus), node |-> best[i].node]],
      offload |-> Pools(SubSeq(best, split + 1, budget), w)]

(* from_cpu_count, which knows only how many CPUs there are.               *)
FromCpuCount(visible, w) ==
  LET budget == Unreserved(visible, w)
      compute == Least(budget - 1, Share(budget, w.compute))
      reactors == budget - compute
  IN [shards |-> [i \in 1 .. reactors |-> [cpu |-> i - 1, node |-> 0]],
      offload |-> IF compute = 0 THEN <<>>
                  ELSE <<[node |-> 0, cpus |-> reactors .. budget - 1]>>]

Detect(m, h, w, q) ==
  IF h THEN PlanShared(m, w, q)
  ELSE FromCpuCount(Cardinality(m.allowed), w)

(* The pool for a shard on this node: the local one, or the first.         *)
ForNode(p, node) ==
  LET local == {o \in ToSet(p.offload) : o.node = node}
  IN IF local # {} THEN CHOOSE o \in local : TRUE ELSE p.offload[1]

LayoutInit ==
  /\ machine \in Machines
  /\ hwloc \in BOOLEAN
  /\ quota \in Quotas
  /\ workload \in Workloads
  /\ plan = Detect(machine, hwloc, workload, quota)

-----------------------------------------------------------------------------
(* calibrate.rs.  Durations are over Wall, so cores are Wall-ths.          *)

OffloadWorkers(p) == Cardinality(UNION {o.cpus : o \in ToSet(p.offload)})

Observe(p) ==
  {[shards |-> Len(p.shards), workers |-> OffloadWorkers(p),
    offload_busy |-> b, permit_wait |-> w, reactor_busy |-> r] : b, w, r \in Busy}

(* The share of compute that was served and that waited, below the ceiling *)
(* that keeps one reactor.                                                 *)
AdvisedFraction(o) ==
  LET budget == o.shards + o.workers
  IN [num |-> Least(o.offload_busy + o.permit_wait, (budget - 1) * Wall),
      den |-> budget * Wall]

Idles(o) == Wall = 0 \/ {o.offload_busy, o.permit_wait, o.reactor_busy} = {0}

Verdict(o) ==
  IF Idles(o) THEN "Idle"
  ELSE IF 100 * o.permit_wait > 5 * o.shards * Wall \/ (o.workers = 0 /\ o.permit_wait > 0)
  THEN "ComputeStarved"
  ELSE IF /\ o.workers > 0
          /\ 2 * o.offload_busy < o.workers * Wall
          /\ 100 * o.permit_wait < o.shards * Wall
  THEN "ComputeOversized" ELSE "Balanced"

(* Advice::apply, and a restart with what it says.  An idle window changes *)
(* nothing.                                                                *)
Recalibrate(o) ==
  /\ Verdict(o) # "Idle"
  /\ workload' = [workload EXCEPT !.compute = AdvisedFraction(o)]
  /\ plan' = Detect(machine, hwloc, workload', quota)
  /\ UNCHANGED <<machine, hwloc, quota>>

LayoutNext == \E o \in Observe(plan) : Recalibrate(o)

LayoutSpec == LayoutInit /\ [][LayoutNext]_layoutVars

-----------------------------------------------------------------------------
(* Properties.                                                             *)

ShardCpus == {plan.shards[i].cpu : i \in DOMAIN plan.shards}
PoolsUsed == ToSet(plan.offload)
PoolCpus == UNION {o.cpus : o \in PoolsUsed}
Cores == PhysicalCores(machine)
CoreOf(cpu) == CHOOSE c \in Cores : cpu \in c.pus
CoresUsed == {CoreOf(cpu) : cpu \in ShardCpus \cup PoolCpus}
Reactors == {CoreOf(cpu) : cpu \in ShardCpus}

(* Whatever is measured and applied, a plan is one the machine can run: at *)
(* least one reactor; no CPU given out twice; with hwloc no CPU outside    *)
(* the process's own, no more cores than the reserve and the quota leave,  *)
(* no worker on the core of a reactor or, isolated, of another worker,     *)
(* every placement on the memory node of its CPU, a shard sent to a remote *)
(* pool only if no worker is on its own node, and no reactor on an         *)
(* efficiency core while a performance core is idle or computes.           *)
PlanIsSound ==
  /\ plan.shards # <<>>
  /\ Cardinality(ShardCpus) = Len(plan.shards)
  /\ ShardCpus \cap PoolCpus = {}
  /\ \A o, p \in PoolsUsed : o # p => o.node # p.node /\ o.cpus \cap p.cpus = {}
  /\ hwloc =>
       /\ ShardCpus \cup PoolCpus \subseteq machine.allowed
       /\ Cardinality(CoresUsed) <= Unreserved(Cardinality(Cores), workload)
       /\ Unlimited(quota) \/ Cardinality(CoresUsed) <= UsableCores(quota)
       /\ \A cpu \in ShardCpus : \A other \in PoolCpus : CoreOf(cpu) # CoreOf(other)
       /\ workload.isolate_smt =>
            Cardinality(CoresUsed) = Cardinality(ShardCpus \cup PoolCpus)
       /\ \A i \in DOMAIN plan.shards :
            plan.shards[i].node = NodeOf(machine, plan.shards[i].cpu)
       /\ \A o \in PoolsUsed : \A cpu \in o.cpus : NodeOf(machine, cpu) = o.node
       /\ \A i \in DOMAIN plan.shards :
            \/ plan.offload = <<>> \/ plan.shards[i].node \notin DOMAIN machine.nodes
            \/ ForNode(plan, plan.shards[i].node).cpus \cap machine.nodes[plan.shards[i].node] # {}
            \/ PoolCpus \cap machine.nodes[plan.shards[i].node] = {}
       /\ \A c \in Reactors, d \in Cores : d.performance /\ ~c.performance => d \in Reactors
  /\ ~hwloc => ShardCpus \cup PoolCpus \subseteq 0 .. Cardinality(machine.allowed) - 1

=============================================================================
