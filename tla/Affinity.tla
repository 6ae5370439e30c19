------------------------------ MODULE Affinity ------------------------------
(***************************************************************************)
(* What the scheduler promises for each key, whatever its rings, lists and *)
(* counters do: work waits in submission order, one owner at a time holds  *)
(* the key, and the owner is either one piece of work or one flush of the  *)
(* key's evicted state.  Only work that has a deadline may be dropped      *)
(* unrun, and only from the front.                                         *)
(***************************************************************************)
EXTENDS Integers, Sequences

CONSTANTS Keys, NoDeadline

VARIABLES
  waiting,   \* the items waiting behind each key, oldest first
  owner      \* who holds each key

vars == <<waiting, owner>>

Free     == [by |-> "nobody", id |-> 0]
Work(i)  == [by |-> "work", id |-> i.id]
Flush    == [by |-> "flush", id |-> 0]

Init ==
  /\ waiting = [k \in Keys |-> <<>>]
  /\ owner = [k \in Keys |-> Free]

(* Some new item joins the end of the key's queue.                         *)
Submit(k) ==
  /\ Len(waiting'[k]) = Len(waiting[k]) + 1
  /\ waiting' = [waiting EXCEPT ![k] = Append(@, waiting'[k][Len(@) + 1])]
  /\ UNCHANGED owner

(* The first n items of a key can only be dropped if each has a deadline.  *)
MayDrop(k, n) == \A i \in 1 .. n : waiting[k][i].deadline # NoDeadline

Run(k) ==
  /\ owner[k] = Free
  /\ \E n \in 0 .. Len(waiting[k]) - 1 :
       /\ MayDrop(k, n)
       /\ waiting' = [waiting EXCEPT ![k] = SubSeq(@, n + 2, Len(@))]
       /\ owner' = [owner EXCEPT ![k] = Work(waiting[k][n + 1])]

Drop(k) ==
  /\ owner[k] = Free
  /\ \E n \in 1 .. Len(waiting[k]) :
       /\ MayDrop(k, n)
       /\ waiting' = [waiting EXCEPT ![k] = SubSeq(@, n + 1, Len(@))]
  /\ UNCHANGED owner

Finish(k) ==
  /\ owner[k].by = "work"
  /\ owner' = [owner EXCEPT ![k] = Free]
  /\ UNCHANGED waiting

(* A flush starts only while nothing waits; what arrives later waits for   *)
(* its end.                                                                *)
StartFlush(k) ==
  /\ owner[k] = Free
  /\ waiting[k] = <<>>
  /\ owner' = [owner EXCEPT ![k] = Flush]
  /\ UNCHANGED waiting

EndFlush(k) ==
  /\ owner[k] = Flush
  /\ owner' = [owner EXCEPT ![k] = Free]
  /\ UNCHANGED waiting

Next == \E k \in Keys :
          \/ Submit(k) \/ Run(k) \/ Drop(k) \/ Finish(k)
          \/ StartFlush(k) \/ EndFlush(k)

Spec == Init /\ [][Next]_vars

=============================================================================
