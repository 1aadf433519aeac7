----------------------------- MODULE CertVault -----------------------------
(***************************************************************************)
(* What the certificate server promises to the agents that read from it:   *)
(* under each certificate name there is nothing, or one whole bundle whose *)
(* certificate, private key, fingerprint and expiry belong together.  An   *)
(* administrator, the renewal scheduler or a late request may replace the  *)
(* bundle of one name or remove it; no step touches two names, and no step *)
(* leaves half of one bundle beside half of another.                       *)
(*                                                                         *)
(* CertStore implements this; see Vault and VaultSpec there.               *)
(***************************************************************************)
EXTENDS Certificates

CONSTANTS
    Names,      \* servercert_name values
    NoBundle    \* the answer "404 Certificate not found"

VARIABLE vault

Bundle == {b \in [cert : Cert, key : Keys, fp : Fingerprint,
                  notAfter : Nat] : Intact(b)}
-----------------------------------------------------------------------------
Init == vault \in [Names -> Bundle \cup {NoBundle}]

\* The content of one name changes as a whole; the other names keep theirs.
Change(n) ==
    /\ vault'[n] \in Bundle \cup {NoBundle}
    /\ vault' = [vault EXCEPT ![n] = vault'[n]]

Next == \E n \in Names : Change(n)

Spec == Init /\ [][Next]_vault
=============================================================================
