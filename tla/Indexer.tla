------------------------------- MODULE Indexer -------------------------------
(***************************************************************************)
(* What the block pipeline promises to its reader of the metadata row,     *)
(* stated without streams, jobs or workers: an event is accepted (from     *)
(* then on somebody is responsible for it), an accepted event is applied   *)
(* to the database, and a block is acknowledged as the last indexed one    *)
(* only when every event up to it has been accepted.  The acknowledged     *)
(* block is where the next stream starts, so an event that was not         *)
(* accepted by then would never be seen again.                             *)
(***************************************************************************)
EXTENDS Naturals

CONSTANTS
    Block,      \* the numbers of the blocks of the chain
    Events      \* [Block -> set of event indices]

VARIABLES
    accepted,   \* the events somebody is responsible for
    applied,    \* the events whose handler has done its writes
    ack         \* the last indexed block

AllAcceptedUpTo(n) ==
    \A b \in Block : b <= n => \A i \in Events[b] : <<b, i>> \in accepted

Init ==
    /\ accepted = {}
    /\ applied = {}
    /\ ack = 0

Accept(b) == \E i \in Events[b] :
    /\ accepted' = accepted \cup {<<b, i>>}
    /\ UNCHANGED <<applied, ack>>

Apply == \E e \in accepted :
    /\ applied' = applied \cup {e}
    /\ UNCHANGED <<accepted, ack>>

Acknowledge(b) ==
    /\ AllAcceptedUpTo(b)
    /\ ack' = b
    /\ UNCHANGED <<accepted, applied>>

Next == Apply \/ \E b \in Block : Accept(b) \/ Acknowledge(b)

Spec == Init /\ [][Next]_<<accepted, applied, ack>>
=============================================================================
