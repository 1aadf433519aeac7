---------------------------- MODULE MCInternalCA ----------------------------
(***************************************************************************)
(* A small instance of InternalCA for TLC: two roots.                      *)
(***************************************************************************)
EXTENDS InternalCA, TLC

CONSTANTS r1, r2

\* A pair that matches and one that does not.
MCUploads == {[cert |-> r1, key |-> r1], [cert |-> r1, key |-> r2]}

\* Requests are interchangeable.
ProcSymmetry == Permutations(Procs)
=============================================================================
