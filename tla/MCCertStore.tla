---------------------------- MODULE MCCertStore ----------------------------
(***************************************************************************)
(* Small instances of CertStore for TLC.  Names, goroutines, keys, domains *)
(* and accounts are model values given in the .cfg files; the data built   *)
(* from them is defined here.                                              *)
(***************************************************************************)
EXTENDS CertStore, TLC

CONSTANTS n1, n2, k1, k2, d1, d2, good, revoked

\* A certificate that expires on day e.
C(k, d, e) == [key |-> k, domains |-> d, notAfter |-> e]

\* Uploads: one that matches, one whose key belongs to another certificate,
\* and one that names no domain.
MCUploads ==
    {[cert |-> C(k1, d1, 3), key |-> k1], [cert |-> C(k1, d1, 3), key |-> k2]}

MCUploadsNoDomain == MCUploads \cup {[cert |-> C(k1, Blank, 3), key |-> k1]}

OneUpload == {[cert |-> C(k1, d1, 3), key |-> k1]}

NoForms == {}

\* Forms: with the account typed in, or left blank to be resolved.
TwoForms == [domains : {d1}, acct : {good, Blank}]

\* A manual row an earlier version of the server left, without its domains.
OldRow(i, n) ==
    [id |-> i, name |-> n, cert |-> C(k1, d2, 1), key |-> k1,
     fp |-> Sha256(C(k1, d2, 1)), notAfter |-> 1, domains |-> Blank,
     isACME |-> FALSE, autoRenew |-> TRUE, provider |-> "manual",
     acct |-> Blank]

\* An ACME row of an earlier installation whose domains are known.
OldAcmeRow(i, n, a) ==
    [OldRow(i, n) EXCEPT !.isACME = TRUE, !.acct = a, !.domains = d2]

LegacyTable1 == [i \in Ids |-> IF i = 1 THEN OldRow(1, n1) ELSE NoRow]

\* One ACME row.
OneAcmeTable == [i \in Ids |-> IF i = 1 THEN OldAcmeRow(1, n1, good) ELSE NoRow]

\* Two ACME rows; the credentials of the first have been revoked.
AcmeTable == [i \in Ids |-> CASE i = 1 -> OldAcmeRow(1, n1, revoked)
                              [] i = 2 -> OldAcmeRow(2, n2, good)
                              [] OTHER -> NoRow]

\* Requests are interchangeable.
ProcSymmetry == Permutations(Procs)
=============================================================================
