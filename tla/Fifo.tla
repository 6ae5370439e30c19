-------------------------------- MODULE Fifo --------------------------------
(***************************************************************************)
(* What the ring promises, and what Mailbox takes it to be: a bounded      *)
(* queue in which a push claims the next place and then writes it, and     *)
(* only the front place can be removed, once written.                      *)
(***************************************************************************)
EXTENDS Integers, Sequences

CONSTANTS Capacity, Items

VARIABLE fifo   \* claimed places, oldest first

Init == fifo = <<>>

Claim(x) ==
  /\ Len(fifo) < Capacity
  /\ fifo' = Append(fifo, [item |-> x, written |-> FALSE])

Write(i) ==
  /\ ~fifo[i].written
  /\ fifo' = [fifo EXCEPT ![i].written = TRUE]

Remove ==
  /\ fifo # <<>>
  /\ fifo[1].written
  /\ fifo' = Tail(fifo)

Next ==
  \/ \E x \in Items : Claim(x)
  \/ \E i \in DOMAIN fifo : Write(i)
  \/ Remove

Spec == Init /\ [][Next]_fifo

=============================================================================
