------------------------------ MODULE ByteFifo ------------------------------
(***************************************************************************)
(* What the software queues of uTasker/Driver.c promise their users: bytes *)
(* come out in the order in which their writes began, nothing that is      *)
(* still being written is ever read, and never more than Length bytes are  *)
(* held.  CircularQueue implements this specification.                     *)
(***************************************************************************)
EXTENDS Naturals, Sequences

CONSTANTS
    Values,       (* the bytes                                             *)
    Length        (* buf_length                                            *)

VARIABLES
    content,      (* the bytes a read can get                              *)
    unpublished,  (* bytes of writes that began and are not readable yet   *)
    out           (* the bytes the last read returned                      *)

fvars == <<content, unpublished, out>>

FifoInit ==
    /\ content = <<>>
    /\ unpublished = <<>>
    /\ out = <<>>

(* A write begins; what does not fit into the queue is cut off.            *)
BeginWrite ==
    \E v \in Values, n \in 0..Length :
        /\ Len(content) + Len(unpublished) + n <= Length
        /\ unpublished' = unpublished \o [i \in 1..n |-> v]
        /\ UNCHANGED <<content, out>>

(* The outermost of the writes that are under way has completed.           *)
Publish ==
    /\ content' = content \o unpublished
    /\ unpublished' = <<>>
    /\ UNCHANGED out

Read ==
    \E n \in 1..Len(content) :
        /\ out' = SubSeq(content, 1, n)
        /\ content' = SubSeq(content, n + 1, Len(content))
        /\ UNCHANGED unpublished

Flush ==
    /\ content' = <<>>
    /\ UNCHANGED <<unpublished, out>>

FifoNext == BeginWrite \/ Publish \/ Read \/ Flush

FifoSpec == FifoInit /\ [][FifoNext]_fvars

=============================================================================
