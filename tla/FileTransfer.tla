---------------------------- MODULE FileTransfer ----------------------------
(***************************************************************************)
(* What a file transfer promises to whoever ends up with the copy: the     *)
(* blocks of the source arrive once each and in order, success is reported *)
(* only for the whole file, and a transfer that cannot finish says so.     *)
(* TftpRrq (copy at the client) and TftpWrq (copy at the server) are shown *)
(* to implement it on the networks where they do.                          *)
(***************************************************************************)
EXTENDS Integers, Sequences

CONSTANT N    \* blocks of the source, at least one; block N is the short one

VARIABLES copy, outcome

vars == <<copy, outcome>>

Init == copy = <<>> /\ outcome = "running"

\* The next block of the source is added to the copy.
Deliver ==
    /\ outcome = "running"
    /\ Len(copy) < N
    /\ copy' = Append(copy, Len(copy) + 1)
    /\ outcome' \in {"running"} \cup {o \in {"complete"} : Len(copy') = N}

\* Success is reported; the copy is whole.
Report ==
    /\ outcome = "running"
    /\ Len(copy) = N
    /\ outcome' = "complete"
    /\ UNCHANGED copy

\* The transfer is given up.
Abort ==
    /\ outcome = "running"
    /\ outcome' = "aborted"
    /\ UNCHANGED copy

Next == Deliver \/ Report \/ Abort

Spec == Init /\ [][Next]_vars
=============================================================================
