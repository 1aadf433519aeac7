---------------------------- MODULE MCRegistry ------------------------------
(***************************************************************************)
(* A small instance of Registry, and of Access with it, for TLC.           *)
(***************************************************************************)
EXTENDS Registry, TLC

CONSTANT host

\* Two processes on one host: the timer's sync and an operator's check.
MCHostOf == [a \in Agents |-> host]

\* Browsers are interchangeable, and so are processes on one host.
MCSymmetry == Permutations(Browsers) \cup Permutations(Agents)
=============================================================================
