-------------------------------- MODULE Slab --------------------------------
(***************************************************************************)
(* The queue slab of crates/grommet-core/src/queue.rs: the FIFOs of all    *)
(* keys of a shard as lists through one vector of nodes, which is read     *)
(* without bounds checks.  Freed nodes are recycled through a free list    *)
(* that uses the same links.  Book takes these FIFOs for granted.          *)
(*                                                                         *)
(* The code's index i is i + 1 here, so that 0 can be NIL, which in the    *)
(* code is u32::MAX.  The panic of alloc at 2^32 - 1 nodes is out of the   *)
(* model's reach: admission keeps the queued items below max_pending.      *)
(***************************************************************************)
EXTENDS Integers, Sequences, SequencesExt, FiniteSets, FiniteSetsExt

CONSTANTS
  Keys,        \* the keys whose lists share the slab
  Payloads,    \* what can be queued
  MaxQueued    \* Config::max_pending: admission lets in no more at a time

ASSUME SlabConstants == MaxQueued \in Nat

NIL == 0

None == "None"

VARIABLES
  nodes,    \* Slab::nodes
  free,     \* Slab::free, the first free node
  lists,    \* the List of each key
  fifo,     \* what each key has queued, in order (history)
  peak      \* the most items ever queued at once (history)

slabVars == <<nodes, free, lists, fifo, peak>>

(* List::default                                                           *)
EmptyList == [head |-> NIL, tail |-> NIL, len |-> 0]

SlabInit ==
  /\ nodes = <<>>
  /\ free = NIL
  /\ lists = [k \in Keys |-> EmptyList]
  /\ fifo = [k \in Keys |-> <<>>]
  /\ peak = 0

-----------------------------------------------------------------------------
(* A node of the free list if there is one, a new node otherwise.          *)
Alloc(item) ==
  LET node == [item |-> item, next |-> NIL]
  IN  IF free # NIL
      THEN [index |-> free, nodes |-> [nodes EXCEPT ![free] = node],
            free |-> nodes[free].next]
      ELSE [index |-> Len(nodes) + 1, nodes |-> Append(nodes, node), free |-> NIL]

Queued == MapThenSumSet(LAMBDA k : lists[k].len, Keys)

PushBack(k, item) ==
  LET list == lists[k]
      new  == Alloc(item)
  IN  /\ Queued < MaxQueued
      /\ nodes' = IF list.tail = NIL THEN new.nodes
                  ELSE [new.nodes EXCEPT ![list.tail].next = new.index]
      /\ free' = new.free
      /\ lists' = [lists EXCEPT ![k] =
                     [head |-> IF list.tail = NIL THEN new.index ELSE list.head,
                      tail |-> new.index, len |-> list.len + 1]]
      /\ fifo' = [fifo EXCEPT ![k] = Append(@, item)]
      /\ peak' = Max({peak, Queued + 1})

Unlinked_KeepsTail(list, next) ==
  [head |-> next, tail |-> list.tail, len |-> list.len - 1]

(* The list after its first node: when that was the only one, the tail is  *)
(* taken back as well.                                                     *)
Unlinked(list, next) ==
  [head |-> next, tail |-> IF next = NIL THEN NIL ELSE list.tail, len |-> list.len - 1]

PopFront(k) ==
  LET index == lists[k].head
  IN  /\ index # NIL
      /\ nodes' = [nodes EXCEPT ![index] = [item |-> None, next |-> free]]
      /\ free' = index
      /\ lists' = [lists EXCEPT ![k] = Unlinked(@, nodes[index].next)]
      /\ fifo' = [fifo EXCEPT ![k] = Tail(@)]
      /\ UNCHANGED peak

(* Slab::front and Slab::capacity, which change nothing.                   *)
FrontOf(k) == IF lists[k].head = NIL THEN None ELSE nodes[lists[k].head].item

SlabCapacity == Len(nodes)

SlabNext ==
  \E k \in Keys : PopFront(k) \/ \E item \in Payloads : PushBack(k, item)

SlabSpec == SlabInit /\ [][SlabNext]_slabVars

-----------------------------------------------------------------------------
(* The nodes from `start` on, following the links: as many as there are    *)
(* nodes, and one more should the links run in a circle.                   *)
Chain(start) ==
  LET at[n \in 0 .. Len(nodes)] ==
        IF n = 0 THEN start
        ELSE IF at[n - 1] \in DOMAIN nodes THEN nodes[at[n - 1]].next ELSE NIL
  IN  SelectSeq([n \in 1 .. Len(nodes) + 1 |-> at[n - 1]], LAMBDA i : i # NIL)

Stored(list) ==
  LET chain == Chain(list.head) IN [n \in DOMAIN chain |-> nodes[chain[n]].item]

(* The invariant queue.rs rests its unchecked accesses on, and what the    *)
(* scheduler takes for granted of its queues: every index that can be      *)
(* reached is below nodes.len(); the list of a key, followed from its      *)
(* head, is what the key has queued, in order, it ends at its tail and has *)
(* its length, and front shows the oldest item; each node is on one list   *)
(* or on the free list, never on two and never lost, and a free node holds *)
(* no item; and the slab is no larger than the most items ever queued at   *)
(* once.                                                                   *)
SlabIsSound ==
  LET Indexed == DOMAIN nodes \cup {NIL}
      OnLists(i) == {k \in Keys : Contains(Chain(lists[k].head), i)}
  IN  /\ free \in Indexed
      /\ \A i \in DOMAIN nodes : nodes[i].next \in Indexed
      /\ \A k \in Keys :
           /\ {lists[k].head, lists[k].tail} \subseteq Indexed
           /\ Stored(lists[k]) = fifo[k]
           /\ lists[k].len = Len(fifo[k])
           /\ FrontOf(k) = IF fifo[k] = <<>> THEN None ELSE Head(fifo[k])
           /\ lists[k].tail = IF fifo[k] = <<>> THEN NIL ELSE Last(Chain(lists[k].head))
      /\ \A i \in DOMAIN nodes :
           IF Contains(Chain(free), i) THEN OnLists(i) = {} /\ nodes[i].item = None
           ELSE Cardinality(OnLists(i)) = 1
      /\ SlabCapacity = peak

=============================================================================
