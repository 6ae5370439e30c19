----------------------------- MODULE MCMailbox -----------------------------
(* A small instance of Mailbox: two senders and a ring of one place, so    *)
(* that it fills, senders park, and another can take the place one was     *)
(* woken for; compaction is tried from two queue entries on.               *)
EXTENDS Mailbox

=============================================================================
