------------------------------ MODULE MCShard ------------------------------
(* Two keys and two classes; one flush slot, so that candidates queue for  *)
(* it; a batch of two from the inbox and of one from the outstanding set,  *)
(* so that drains and harvests are cut short.                              *)
EXTENDS Shard

CONSTANTS KeyA, KeyB, Id

MCMaxInflight == [c \in Classes |-> 1]
MCDeadlines == {Never, 1}

Work(k, c, d, r) == [key |-> k, class |-> c, deadline |-> d, rid |-> r]

MCSubmissions ==
  {Work(KeyA, 1, 1, Id), Work(KeyA, 0, Never, NoId), Work(KeyB, 0, Never, Id)}

=============================================================================
