----------------------------- MODULE MCSbcpChat -----------------------------
(***************************************************************************)
(* SbcpChat for TLC.                                                       *)
(***************************************************************************)
EXTENDS SbcpChat

\* Neither a client nor a name is treated differently from another one.
BothSymmetry == Permutations(Clients) \cup Permutations(Names)
=============================================================================
