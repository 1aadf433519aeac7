----------------------------- MODULE InternalCA -----------------------------
(***************************************************************************)
(* The internal certificate authority of the server: a root certificate    *)
(* and its private key, kept in two rows of the settings table.            *)
(*                                                                         *)
(* The handlers that generate, upload or delete the root write the two     *)
(* rows one after the other, and the one that issues a certificate reads   *)
(* them one after the other, without a transaction.  Each handler runs in  *)
(* a goroutine of its own and the process may die between two statements.  *)
(*                                                                         *)
(* A root is named by its key pair: certificate r certifies key r, and a   *)
(* setting that is empty or not there is NoPEM.  A root is any certificate *)
(* the handlers accept: nobody asks whether an uploaded one is a CA's, so  *)
(* nothing is said here of whether a client accepts what it signs.         *)
(***************************************************************************)
EXTENDS Naturals

CONSTANTS
    Procs,          \* goroutines that serve requests
    Roots,          \* root certificates and their keys
    Uploads,        \* the [cert, key] pairs administrators upload
    NoPEM,          \* an empty or missing setting
    MaxFailures,    \* bound: writes of a setting that fail
    MaxCrashes      \* bound: restarts of the server

ASSUME RootsAssumption ==
    /\ NoPEM \notin Roots
    /\ \A u \in Uploads : u.cert \in Roots /\ u.key \in Roots

ASSUME BoundsAssumption == MaxFailures \in Nat /\ MaxCrashes \in Nat

VARIABLES
    cert,       \* setting internal_ca_cert
    key,        \* setting internal_ca_key
    req,        \* per goroutine: the next statement and the values it holds
    used,       \* roots that exist already
    failures,   \* failed writes so far
    crashes     \* restarts so far

vars == <<cert, key, req, used, failures, crashes>>

Setting == Roots \cup {NoPEM}

\* What a goroutine does next and the values it holds.  A change of the root is
\* apart if nobody else has changed it since it began and no write has failed; a
\* request that issues, if every change that stored a key since it began was.
\* whole: the roots both settings have belonged to since the request began.
Request == [pc : {"idle", "setcert", "setkey", "getkey", "sign"},
            cert : Setting, key : Setting, apart : BOOLEAN, whole : SUBSET Setting]

Idle == [pc |-> "idle", cert |-> NoPEM, key |-> NoPEM, apart |-> TRUE, whole |-> {}]

Changing(q) == req[q].pc \in {"setcert", "setkey"}

Issuing(q) == req[q].pc \in {"getkey", "sign"}

\* The root the two settings belong to, if they belong together.
WholeRoot(c, k) == {c} \cap {k}
-----------------------------------------------------------------------------
Init ==
    /\ cert = NoPEM /\ key = NoPEM
    /\ req = [p \in Procs |-> Idle]
    /\ used = {}
    /\ failures = 0 /\ crashes = 0

\* A handler that is going to write both settings.
BeginStore(p, c, k) ==
    /\ req[p] = Idle
    /\ req' = [q \in Procs |->
                 CASE q = p -> [Idle EXCEPT !.pc = "setcert", !.cert = c, !.key = k,
                                            !.apart = \A o \in Procs : ~Changing(o)]
                   [] q # p /\ Changing(q) -> [req[q] EXCEPT !.apart = FALSE]
                   [] OTHER -> req[q]]
    /\ UNCHANGED <<cert, key, failures, crashes>>

\* The wizard's root is always a new one.
HandleGenerateRootCA(p) ==
    \E r \in Roots \ used :
       /\ used' = used \cup {r}
       /\ BeginStore(p, r, r)

\* An upload is refused when certificate and key do not match, and only then.
HandleUploadRootCA(p) ==
    \E u \in Uploads :
       /\ u.cert = u.key
       /\ used' = used \cup {u.cert}
       /\ BeginStore(p, u.cert, u.key)

\* Mutant: the key stays in the database.
DeleteKeepingKey(p) ==
    /\ key # NoPEM
    /\ BeginStore(p, NoPEM, key)
    /\ UNCHANGED used

HandleDeleteRootCA(p) ==
    /\ BeginStore(p, NoPEM, NoPEM)
    /\ UNCHANGED used

\* SetSetting: the value is stored, or an error is returned that the handlers
\* drop.  With both settings still missing it is Create() that may fail.
SetSetting(old, new, value) ==
    \/ new = value /\ UNCHANGED failures
    \/ new = old /\ failures < MaxFailures /\ failures' = failures + 1

\* What requests that issue have seen of the settings, after a write.
Watch(q, c, k, apart) ==
    IF Issuing(q)
    THEN [req[q] EXCEPT !.whole = @ \cup WholeRoot(c, k), !.apart = @ /\ apart]
    ELSE req[q]

StoreCert(p) ==
    /\ req[p].pc = "setcert"
    /\ cert' \in Setting /\ SetSetting(cert, cert', req[p].cert)
    /\ req' = [q \in Procs |->
                 IF q = p THEN [req[p] EXCEPT !.pc = "setkey",
                                              !.apart = @ /\ failures' = failures]
                 ELSE Watch(q, cert', key, TRUE)]
    /\ UNCHANGED <<key, used, crashes>>

\* The second one; then success is reported.
StoreKey(p) ==
    /\ req[p].pc = "setkey"
    /\ key' \in Setting /\ SetSetting(key, key', req[p].key)
    /\ req' = [q \in Procs |-> IF q = p THEN Idle
                               ELSE Watch(q, cert, key', req[p].apart)]
    /\ UNCHANGED <<cert, used, crashes>>

\* Mutant: the key is read before the certificate.
KeyFirst == <<"key", "cert">>

\* The order in which HandleIssueInternalCert reads the two settings.
ReadOrder == <<"cert", "key">>

Stored(setting) == IF setting = "cert" THEN cert ELSE key

\* HandleIssueInternalCert: GetSetting("internal_ca_cert") ...
HandleIssueInternalCert(p) ==
    /\ req[p] = Idle
    /\ req' = [req EXCEPT ![p] = [Idle EXCEPT !.pc = "getkey", !.whole = WholeRoot(cert, key),
                                              ![ReadOrder[1]] = Stored(ReadOrder[1])]]
    /\ UNCHANGED <<cert, key, used, failures, crashes>>

\* Mutant: the settings are used unchecked.
ReadKeyUnchecked(p) ==
    /\ req[p].pc = "getkey"
    /\ req' = [req EXCEPT ![p].pc = "sign", ![p].key = key]
    /\ UNCHANGED <<cert, key, used, failures, crashes>>

\* ... GetSetting("internal_ca_key"); refused when the root is not configured.
ReadKey(p) ==
    LET read == [req[p] EXCEPT !.pc = "sign", ![ReadOrder[2]] = Stored(ReadOrder[2])]
    IN  /\ req[p].pc = "getkey"
        /\ req' = [req EXCEPT ![p] = IF NoPEM \in {read.cert, read.key} THEN Idle ELSE read]
        /\ UNCHANGED <<cert, key, used, failures, crashes>>

\* x509.CreateCertificate refuses a key that is not the parent certificate's.
CreateCertificate(c, k) == c = k

\* IssueInternalCert with what was read: the leaf is signed by the key, the
\* root certificate appended.
IssueInternalCert(p) ==
    /\ req[p].pc = "sign" /\ CreateCertificate(req[p].cert, req[p].key)
    /\ req' = [req EXCEPT ![p] = Idle]
    /\ UNCHANGED <<cert, key, used, failures, crashes>>

IssueFails(p) ==
    /\ req[p].pc = "sign" /\ ~CreateCertificate(req[p].cert, req[p].key)
    /\ req' = [req EXCEPT ![p] = Idle]
    /\ UNCHANGED <<cert, key, used, failures, crashes>>

Crash ==
    /\ crashes < MaxCrashes /\ crashes' = crashes + 1
    /\ req' = [p \in Procs |-> Idle]
    /\ UNCHANGED <<cert, key, used, failures>>

Next ==
    \/ \E p \in Procs :
          \/ HandleGenerateRootCA(p) \/ HandleUploadRootCA(p) \/ HandleDeleteRootCA(p)
          \/ StoreCert(p) \/ StoreKey(p)
          \/ HandleIssueInternalCert(p) \/ ReadKey(p)
          \/ IssueInternalCert(p) \/ IssueFails(p)
    \/ Crash

Spec == Init /\ [][Next]_vars
-----------------------------------------------------------------------------
(* Properties. *)

\* Types; only roots that exist are stored, and nothing is signed without both
\* settings.
TypeOK ==
    /\ cert \in used \cup {NoPEM} /\ key \in used \cup {NoPEM}
    /\ req \in [Procs -> Request]
    /\ \A p \in Procs : req[p].pc = "sign" => NoPEM \notin {req[p].cert, req[p].key}
    /\ used \subseteq Roots
    /\ failures \in 0..MaxFailures /\ crashes \in 0..MaxCrashes

\* A certificate is issued by a root that was the configured one at some moment
\* of the request, although the request reads the two settings one by one while
\* they are replaced one by one: a mixture is refused, and a certificate read
\* from one change does not meet the same root's key from another.  Changes of
\* the root that overlap, or lose a write, break it.
IssuedByConfiguredRoot ==
    [][\A p \in Procs : IssueInternalCert(p) /\ req[p].apart
          => req[p].cert \in req[p].whole]_vars

\* A handler that has stored a root, or deleted it, leaves two settings that
\* belong together, whatever an earlier one left half done when it died, unless
\* another one changed the root at the same time or a write failed.
CompletedStoreMatches ==
    [][\A p \in Procs : StoreKey(p) /\ req[p].apart /\ failures' = failures
          => cert' = key']_vars
=============================================================================
