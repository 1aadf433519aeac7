----------------------------- MODULE MCSettings -----------------------------
(***************************************************************************)
(* A small instance of Settings for TLC.                                   *)
(***************************************************************************)
EXTENDS Settings, TLC

CONSTANTS default, changed

\* What is typed on the login page, besides the default password that the page
\* itself tries.
MCTyped == {Empty}

Of(on, host, typed, new) == [on |-> on, host |-> host, typed |-> typed, new |-> new]

\* Forms that switch the proxy on, forget the host, switch it off; that leave the
\* password alone, give its hash as the current one and no new one, change it.
MCForms ==
    {Of(TRUE, TRUE, Empty, Empty),
     Of(TRUE, FALSE, HashPassword(PlainText(default)), Empty),
     Of(FALSE, TRUE, PlainText(default), PlainText(changed))}

\* Requests are interchangeable.
ProcSymmetry == Permutations(Procs)
=============================================================================
