---------------------------- MODULE MCAgentCheck ----------------------------
(***************************************************************************)
(* The instances of AgentSync with "check" beside them.                    *)
(***************************************************************************)
EXTENDS AgentCheck, MCAgentSync

\* The second version of a certificate expires before the first.
MCNotAfter ==
    [t \in Targets |-> [v \in 0..MaxVersion[t] |-> IF v = 0 THEN 0 ELSE 3 - v]]
=============================================================================
