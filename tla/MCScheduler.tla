---------------------------- MODULE MCScheduler ----------------------------
(* Two shards, two clients and mailboxes of one place; one shard is beyond *)
(* the deferred bitmap; a batch comes back to a mailbox it filled itself,  *)
(* and names a class out of range, or is empty.  A plan that can bind      *)
(* CPUs, one, as the fallback's, that can bind nothing, and one that       *)
(* places no shard.                                                        *)
EXTENDS Scheduler

MCHash == ("a" :> 0) @@ ("b" :> 1)

Entry(key, class) == [key |-> key, class |-> class]

MCBatches ==
  {<<>>, <<Entry("b", 0)>>, <<Entry("a", 0), Entry("b", 1), Entry("a", 0)>>}

MCPlans ==
  {[placements |-> TRUE, can_bind_cpu |-> can, can_bind_memory |-> can] : can \in BOOLEAN}
  \cup {[placements |-> FALSE, can_bind_cpu |-> TRUE, can_bind_memory |-> TRUE]}

=============================================================================
