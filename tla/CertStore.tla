----------------------------- MODULE CertStore -----------------------------
(***************************************************************************)
(* The certificates table of the certificate server and everything that    *)
(* writes it: the admin handlers (upload, delete, ACME issue, internal CA  *)
(* issue), the read handlers, which fill in a missing "domains" column,    *)
(* and the background scheduler that renews ACME certificates.             *)
(*                                                                         *)
(* Each HTTP request runs in a goroutine of its own and works on a copy of *)
(* the row it read with First(); what it writes later is that copy, not    *)
(* the row as it is then.  So a handler is two steps here, the read and    *)
(* the write, with the copies it holds in req[p].  One SQL statement is    *)
(* one atomic step.  Handlers ignore the error of a failed write.          *)
(*                                                                         *)
(* The scheduler is one goroutine: a pass reads the ACME rows once, then   *)
(* renews the due ones one after the other; each issuance takes minutes    *)
(* (a DNS-01 challenge), during which anybody may write the table.         *)
(*                                                                         *)
(* Time is counted in days, a certificate's content is the key it          *)
(* certifies, its domains and its expiry; the five credential columns      *)
(* (ACME and DNS provider, DNS token, e-mail, EAB) are one account.        *)
(***************************************************************************)
EXTENDS Certificates

CONSTANTS
    Procs,              \* goroutines that serve HTTP requests
    Names,              \* servercert_name values
    Accounts,           \* ACME and DNS credentials
    GoodAccounts,       \* the ones the ACME server and the DNS provider accept
    SettingAccounts,    \* what System Settings may hold as defaults
    FreshKeys,          \* keys the ACME client and the internal CA generate
    Uploads,            \* the [cert, key] pairs administrators submit
    AcmeForms,          \* the [domains, acct] they submit for ACME issue
    InternalDomains,    \* the domains they ask the internal CA for
    NoRow,              \* the content of an id that is not in the table
    LegacyTable,        \* the rows an earlier version of the server left
    LegacyNextId,       \* and its AUTOINCREMENT counter
    RenewDays,          \* 15 in the code
    AcmeDays,           \* validity of an ACME certificate, 90 days in practice
    InternalDays,       \* validity of an internal certificate
    MaxId,              \* bound: rows ever created
    MaxDay,             \* bound: days that pass
    MaxCrashes          \* bound: restarts of the server

VARIABLES
    table,      \* the certificates table, by primary key
    nextId,     \* its AUTOINCREMENT counter
    req,        \* per goroutine: the handler it is in and the rows it holds
    pass,       \* scheduler: rows of the running pass not yet looked at
    renewing,   \* scheduler: the row whose renewal is being issued, if any
    now,        \* today
    crashes     \* restarts so far

vars == <<table, nextId, req, pass, renewing, now, crashes>>
-----------------------------------------------------------------------------
Ids == 1..MaxId

(***************************************************************************)
(* A row of the table.  The copy a handler is about to Create() has id 0.  *)
(***************************************************************************)
Row == [id : 0..MaxId, name : Names, cert : Cert, key : Keys,
        fp : Fingerprint, notAfter : Nat,
        domains : Domains \cup {Blank}, isACME : BOOLEAN, autoRenew : BOOLEAN,
        provider : {"manual", "internal_ca"}, acct : Accounts \cup {Blank}]

AcmeForm == [domains : Domains, acct : Accounts \cup {Blank}]

Idle == [op |-> "idle", rows |-> {}]

Request ==
    [op : {"idle", "save", "backfill"}, rows : SUBSET Row]
    \cup [op : {"issue"}, rows : SUBSET Row, name : Names, form : AcmeForm]

ASSUME BoundsAssumption ==
    /\ MaxId \in Nat /\ MaxDay \in Nat /\ MaxCrashes \in Nat
    /\ RenewDays \in Nat /\ AcmeDays \in Nat /\ InternalDays \in Nat

ASSUME DataAssumption ==
    /\ Blank \notin Domains \cup Accounts
    /\ NoRow \notin Row
    /\ FreshKeys \subseteq Keys
    /\ GoodAccounts \subseteq Accounts
    /\ SettingAccounts \subseteq Accounts \cup {Blank}
    /\ \A u \in Uploads : u.cert \in Cert /\ u.key \in Keys
    /\ AcmeForms \subseteq AcmeForm
    /\ InternalDomains \subseteq Domains

\* What an earlier version left is a table this program could read: ids below
\* the counter, unique names, validated certificates, domains maybe not filled in.
ASSUME LegacyAssumption ==
    /\ LegacyTable \in [Ids -> Row \cup {NoRow}]
    /\ LegacyNextId \in 1..MaxId + 1
    /\ \A i \in Ids : LegacyTable[i] # NoRow =>
          /\ LegacyTable[i].id = i /\ i < LegacyNextId
          /\ Intact(LegacyTable[i])
          /\ LegacyTable[i].domains \in {Blank, LegacyTable[i].cert.domains}
          /\ LegacyTable[i].isACME =>
                LegacyTable[i].autoRenew /\ LegacyTable[i].acct # Blank
          /\ \A j \in Ids : LegacyTable[j] # NoRow =>
                (LegacyTable[i].name = LegacyTable[j].name => i = j)
-----------------------------------------------------------------------------
\* The rows in the table now, and the ones First(servercert_name = n) may find.
Rows == {table[i] : i \in Ids} \ {NoRow}
Named(n) == {r \in Rows : r.name = n}

\* Mutants: an update that forgets the key column, or the fingerprint.
InstallWithoutKey(r, c, k) ==
    [r EXCEPT !.cert = c, !.fp = Sha256(c), !.notAfter = c.notAfter]

InstallStaleFingerprint(r, c, k) ==
    [r EXCEPT !.cert = c, !.key = k, !.notAfter = c.notAfter]

\* The columns every writer sets from a validated certificate and key.
Install(r, c, k) ==
    [r EXCEPT !.cert = c, !.key = k, !.fp = Sha256(c), !.notAfter = c.notAfter]

\* Mutant: no default tag on the provider column.
NewRowWithoutDefault(n, c, k) ==
    [id |-> 0, name |-> n, cert |-> c, key |-> k, fp |-> Sha256(c),
     notAfter |-> c.notAfter, domains |-> c.domains, isACME |-> FALSE,
     autoRenew |-> TRUE, provider |-> Blank, acct |-> Blank]

\* models.Certificate{...} of a new name, with gorm's column defaults.
NewRow(n, c, k) ==
    [id |-> 0, name |-> n, cert |-> c, key |-> k, fp |-> Sha256(c),
     notAfter |-> c.notAfter, domains |-> c.domains, isACME |-> FALSE,
     autoRenew |-> TRUE, provider |-> "manual", acct |-> Blank]

\* The copy a handler writes: the row it found, else a new one, with the new
\* certificate installed.
Replace(found, n, c, k) ==
    IF found = {} THEN {NewRow(n, c, k)} ELSE {Install(r, c, k) : r \in found}

\* Mutants: the domains column is not refreshed; the row becomes a manual one.
UploadedKeepingDomains(r) == [r EXCEPT !.autoRenew = r.isACME \/ @]

UploadedAsManual(r) == [r EXCEPT !.domains = r.cert.domains, !.isACME = FALSE]

\* An upload keeps what the row is, and an ACME row goes on being renewed.
Uploaded(r) ==
    [r EXCEPT !.domains = r.cert.domains, !.autoRenew = r.isACME \/ @]

\* The internal CA takes the row over: it is no longer renewed by ACME.
Internal(r) ==
    [r EXCEPT !.domains = r.cert.domains, !.provider = "internal_ca",
              !.isACME = FALSE]

\* Mutant: the credentials used are not saved with the row.
EnrolledWithoutCredentials(r, form) ==
    [r EXCEPT !.isACME = TRUE, !.autoRenew = TRUE, !.domains = form.domains]

\* An ACME issue enrols the row for renewal, with the domains asked for and
\* the credentials used.  Its provider column stays what it was.
Enrolled(r, form) ==
    [r EXCEPT !.isACME = TRUE, !.autoRenew = TRUE, !.domains = form.domains,
              !.acct = form.acct]

\* Credentials: the form's, else the saved row's, else the settings' (d).
Resolve(acct, found, d) ==
    CASE acct # Blank -> acct
      [] acct = Blank /\ \E r \in found : r.acct # Blank ->
            (CHOOSE r \in found : r.acct # Blank).acct
      [] OTHER -> d

\* "Please fill in all required fields"
RequiredFields(form) == form.domains # Blank /\ form.acct # Blank

\* A certificate the ACME server or the internal CA may issue today.
Issued(domains, days) ==
    [key : FreshKeys, domains : {domains}, notAfter : {now + days}]
-----------------------------------------------------------------------------
\* Mutant: no unique index.
NoUniqueIndex(n) == TRUE

\* The unique index on servercert_name, for a row about to be inserted.
NameFree(n) == Named(n) = {}

\* Mutant: a primary key without AUTOINCREMENT takes the largest id plus one.
CreateReusingIds(r) ==
    LET id == CHOOSE i \in Ids :
                 /\ \A j \in Ids : j >= i => table[j] = NoRow
                 /\ i = 1 \/ table[i - 1] # NoRow
    IN  /\ table[MaxId] = NoRow
        /\ NameFree(r.name)
        /\ table' = [table EXCEPT ![id] = [r EXCEPT !.id = id]]
        /\ nextId' = IF id < nextId THEN nextId ELSE id + 1

\* db.DB.Create(&newCert): the next id, or a UNIQUE error.
Create(r) ==
    /\ nextId \in Ids
    /\ NameFree(r.name)
    /\ table' = [table EXCEPT ![nextId] = [r EXCEPT !.id = nextId]]
    /\ nextId' = nextId + 1

\* db.DB.Save(&existing): every column of the row with that id; when the row
\* is no longer there gorm inserts the copy again, under its old id.
Save(r) ==
    /\ table[r.id] # NoRow \/ NameFree(r.name)
    /\ table' = [table EXCEPT ![r.id] = r]
    /\ UNCHANGED nextId

Write(r) == IF r.id = 0 THEN Create(r) ELSE Save(r)

\* UPDATE certificates SET domains WHERE id, with the domains of the copy's
\* certificate: no effect on a row that is gone.
SetDomains(r) ==
    IF table[r.id] = NoRow THEN table
    ELSE [table EXCEPT ![r.id].domains = r.cert.domains]
-----------------------------------------------------------------------------
Init ==
    /\ table = LegacyTable
    /\ nextId = LegacyNextId
    /\ req = [p \in Procs |-> Idle]
    /\ pass = {}
    /\ renewing = {}
    /\ now = 0
    /\ crashes = 0

Begin(p, r) ==
    /\ req[p] = Idle
    /\ req' = [req EXCEPT ![p] = r]
    /\ UNCHANGED <<table, nextId, pass, renewing, now, crashes>>

Return(p) == req' = [req EXCEPT ![p] = Idle]

\* SaveCertificate up to First(): a pair that does not match is refused.
SaveCertificate(p, n, u) ==
    /\ Valid(u.cert, u.key)
    /\ \E r \in Replace(Named(n), n, u.cert, u.key) :
          Begin(p, [op |-> "save", rows |-> {Uploaded(r)}])

\* HandleIssueInternalCert up to First(): issue, validate, look the row up.
HandleIssueInternalCert(p, n, d) ==
    \E c \in Issued(d, InternalDays) :
       \E r \in Replace(Named(n), n, c, c.key) :
          Begin(p, [op |-> "save", rows |-> {Internal(r)}])

\* The write that ends SaveCertificate and HandleIssueInternalCert.
FinishSave(p) ==
    /\ req[p].op = "save"
    /\ \E r \in req[p].rows : Write(r)
    /\ Return(p)
    /\ UNCHANGED <<pass, renewing, now, crashes>>

\* IssueACMECertificate up to the call of IssueCertificate: read the row,
\* resolve the credentials, refuse an incomplete request.  The saved row's token is
\* not used when the form names another DNS provider than the row does.
IssueACMECertificate(p, n, f) ==
    \E d \in SettingAccounts, saved \in {Named(n), {}} :
       LET form == [f EXCEPT !.acct = Resolve(f.acct, saved, d)]
       IN  /\ RequiredFields(form)
           /\ Begin(p, [op |-> "issue", rows |-> Named(n), name |-> n,
                        form |-> form])

\* The rest of it once the ACME server has issued: write the row as it was
\* read minutes ago, with the new certificate.
FinishIssue(p) ==
    /\ req[p].op = "issue"
    /\ req[p].form.acct \in GoodAccounts
    /\ \E c \in Issued(req[p].form.domains, AcmeDays) :
          \E r \in Replace(req[p].rows, req[p].name, c, c.key) :
             Write(Enrolled(r, req[p].form))
    /\ Return(p)
    /\ UNCHANGED <<pass, renewing, now, crashes>>

\* Issuance failed, or the write did (unique index, locked database), an
\* error the handlers ignore.
FinishWithoutWriting(p) ==
    /\ req[p].op \in {"save", "issue"}
    /\ Return(p)
    /\ UNCHANGED <<table, nextId, pass, renewing, now, crashes>>

\* One DELETE statement.
DeleteCertificate(n) ==
    /\ Named(n) # {}
    /\ table' = [i \in Ids |-> IF table[i] \in Named(n) THEN NoRow ELSE table[i]]
    /\ UNCHANGED <<nextId, req, pass, renewing, now, crashes>>

\* A row whose domains column was never filled, though its certificate has some.
NeedsBackfill(r) == r.domains = Blank /\ r.cert.domains # Blank

\* GetCertFull and GetCertMeta (one name), ShowDashboard (all): SELECT.  With
\* nothing to fill in they are pure reads.
ReadRows(p, found) ==
    LET todo == {r \in found : NeedsBackfill(r)}
    IN  /\ todo # {}
        /\ Begin(p, [op |-> "backfill", rows |-> todo])

GetCert(p, n) == ReadRows(p, Named(n))

ShowDashboard(p) == ReadRows(p, Rows)

\* On to the next row of the loop, or out of the handler.
Forget(q, r) == IF q.rows = {r} THEN Idle ELSE [q EXCEPT !.rows = @ \ {r}]

\* One UPDATE of the loop, with the domains of the certificate read before; it
\* may fail, and its error is ignored.
Backfill(p) ==
    /\ req[p].op = "backfill"
    /\ \E r \in req[p].rows :
          /\ table' \in {table, SetDomains(r)}
          /\ req' = [req EXCEPT ![p] = Forget(req[p], r)]
    /\ UNCHANGED <<nextId, pass, renewing, now, crashes>>
-----------------------------------------------------------------------------
(* The auto-renew scheduler. *)

\* daysLeft <= 15
Due(r) == r.notAfter <= now + RenewDays

\* SELECT ... WHERE is_acme AND auto_renew: the rows of this pass, as they are.
StartPass ==
    /\ pass = {} /\ renewing = {}
    /\ pass' = {r \in Rows : r.isACME /\ r.autoRenew}
    /\ pass' # {}
    /\ UNCHANGED <<table, nextId, req, renewing, now, crashes>>

\* Not due, or no domains to ask for: the next row.
SkipRow ==
    /\ renewing = {}
    /\ \E r \in pass :
          /\ ~Due(r) \/ r.domains = Blank
          /\ pass' = pass \ {r}
    /\ UNCHANGED <<table, nextId, req, renewing, now, crashes>>

\* Due: IssueCertificate is called for the row as the pass read it.
RenewRow ==
    /\ renewing = {}
    /\ \E r \in pass :
          /\ Due(r) /\ r.domains # Blank
          /\ pass' = pass \ {r}
          /\ renewing' = {r}
    /\ UNCHANGED <<table, nextId, req, now, crashes>>

\* Issued: Save() the row as the pass read it, with the new certificate.
FinishRenew(r) ==
    /\ r \in renewing
    /\ \E d \in SettingAccounts : Resolve(r.acct, {}, d) \in GoodAccounts
    /\ \E c \in Issued(r.domains, AcmeDays) : Save(Install(r, c, c.key))
    /\ renewing' = {}
    /\ UNCHANGED <<req, pass, now, crashes>>

\* Mutant: return instead of continue.
RenewFailureEndsPass ==
    /\ renewing # {}
    /\ renewing' = {}
    /\ pass' = {}
    /\ UNCHANGED <<table, nextId, req, now, crashes>>

\* The issuance or the Save failed: log, and continue with the next row.
RenewFails ==
    /\ renewing # {}
    /\ renewing' = {}
    /\ UNCHANGED <<table, nextId, req, pass, now, crashes>>
-----------------------------------------------------------------------------
\* The process dies and is started again (Restart=always): the table is all
\* that is left.
Crash ==
    /\ crashes < MaxCrashes
    /\ crashes' = crashes + 1
    /\ req' = [p \in Procs |-> Idle]
    /\ pass' = {}
    /\ renewing' = {}
    /\ UNCHANGED <<table, nextId, now>>

Tick ==
    /\ now < MaxDay
    /\ now' = now + 1
    /\ UNCHANGED <<table, nextId, req, pass, renewing, crashes>>

Handler(p) ==
    \/ \E n \in Names, u \in Uploads : SaveCertificate(p, n, u)
    \/ \E n \in Names, d \in InternalDomains : HandleIssueInternalCert(p, n, d)
    \/ FinishSave(p)
    \/ \E n \in Names, f \in AcmeForms : IssueACMECertificate(p, n, f)
    \/ FinishIssue(p)
    \/ FinishWithoutWriting(p)
    \/ \E n \in Names : GetCert(p, n)
    \/ ShowDashboard(p)
    \/ Backfill(p)

Scheduler == StartPass \/ SkipRow \/ RenewRow \/ (\E r \in renewing : FinishRenew(r))
             \/ RenewFails

Next ==
    \/ \E p \in Procs : Handler(p)
    \/ \E n \in Names : DeleteCertificate(n)
    \/ Scheduler
    \/ Crash
    \/ Tick

Spec == Init /\ [][Next]_vars

(***************************************************************************)
(* Fairness: the scheduler goroutine keeps running, every issuance ends    *)
(* one way or the other (lego and its HTTP client time out), and a row     *)
(* that is tried in every pass with credentials the ACME server accepts is *)
(* not refused for ever.  Nothing is assumed of requests, of restarts or   *)
(* of the order in which a pass takes its rows.                            *)
(***************************************************************************)
RenewOf(i) == \E r \in renewing : r.id = i /\ FinishRenew(r)

Fairness ==
    /\ WF_vars(StartPass)
    /\ WF_vars(SkipRow \/ RenewRow)
    /\ WF_vars(RenewFails \/ \E r \in renewing : FinishRenew(r))
    /\ \A i \in Ids : SF_vars(RenewOf(i))

FairSpec == Spec /\ Fairness
-----------------------------------------------------------------------------
(* Properties. *)

\* The copies of rows that some request or the scheduler will still write.
Copies == pass \cup renewing \cup UNION {req[p].rows : p \in Procs}

\* Types, and the primary key: a row is stored under its own id, and the copy
\* of a row that does not exist yet has id 0.
TypeOK ==
    /\ table \in [Ids -> Row \cup {NoRow}]
    /\ nextId \in 1..MaxId + 1
    /\ req \in [Procs -> Request]
    /\ pass \subseteq Row
    /\ renewing \subseteq Row
    /\ now \in 0..MaxDay
    /\ crashes \in 0..MaxCrashes

\* Whatever requests and renewals interleave, a row's key, fingerprint and
\* expiry are those of its certificate: agents install what they compare.
RowsIntact == \A r \in Rows : Intact(r)

\* First(servercert_name) has one answer: no two writers, not even a late one
\* that inserts a deleted row again, leave two rows with the same name.
UniqueNames == \A r, s \in Rows : r.name = s.name => r = s

\* A write that comes late hits the row it was meant for or none: the id it
\* names is never one that another certificate name has taken meanwhile.
LateWritesHitTheirName ==
    \A r \in Copies : r.id # 0 =>
       /\ r.id < nextId
       /\ table[r.id] # NoRow => table[r.id].name = r.name

\* A row enrolled for ACME renewal is in the scheduler's query and has saved
\* credentials to renew with, also after uploads over it and late writes.
AcmeRowsRenewable == \A r \in Rows : r.isACME => r.autoRenew /\ r.acct # Blank

\* The domains column is empty or lists the domains of the row's certificate: it is
\* what the dashboard shows, agents are told and the scheduler renews for.
DomainsDescribeCert == \A r \in Rows : r.domains \in {Blank, r.cert.domains}

\* A read fills in the domains of a certificate that has been replaced since by one
\* for other domains.
LateRead(p, i) ==
    /\ Backfill(p) /\ table[i] # NoRow
    /\ \E r \in req[p].rows : r.id = i /\ r.cert.domains # table[i].cert.domains

\* Nobody else puts into a row domains its certificate is not for: whoever writes a
\* row, an upload, an issue or a renewal that ends late, over a row that has another
\* certificate by then or is gone, a read that fills in domains in time, leaves the
\* two columns in agreement.
OnlyLateReadsMislead ==
    [][\A i \in Ids : table'[i] # table[i] /\ table'[i] # NoRow =>
          \/ table'[i].domains = table'[i].cert.domains
          \/ \E p \in Procs : LateRead(p, i)]_vars

\* While a read is filling in an empty column, the row's certificate is not replaced
\* by one for other domains.  Nothing in the code sees to it; with it, or when there
\* is nothing to fill in, DomainsDescribeCert holds.
ReadsApart ==
    \A p \in Procs : req[p].op = "backfill" =>
       \A r \in req[p].rows :
          table[r.id] # NoRow => table[r.id].cert.domains = r.cert.domains

\* No request holds a copy of a row that another one is having a certificate
\* issued for by ACME.  (Of the two the later Save() would win, with the enrolment
\* columns it read.)
IssuesApart ==
    \A p, q \in Procs : p # q /\ req[p].op = "issue" =>
       \A r \in req[q].rows : r.id # 0 => r.name # req[p].name

\* Then only the internal CA takes a row away from the scheduler: an upload, a
\* renewal that was under way meanwhile or a restart leaves an ACME row enrolled.
EnrolmentKept ==
    [][\A i \in Ids :
          table[i] # NoRow /\ table[i].isACME /\ table'[i] # NoRow =>
             table'[i].isACME \/ table'[i].provider = "internal_ca"]_vars

\* A renewal writes over a row that is still an ACME row within the threshold.
RenewalReplacesDueRow ==
    [][\A r \in renewing : FinishRenew(r) =>
          /\ table[r.id] # NoRow
          /\ table[r.id].isACME /\ Due(table[r.id])]_vars

\* An ACME row that is due, names domains and has working credentials is
\* renewed in the end (or stops being one), whatever becomes of other rows.
RenewalDue(i) ==
    /\ table[i] # NoRow
    /\ table[i].isACME /\ Due(table[i]) /\ table[i].domains # Blank
    /\ table[i].acct \in GoodAccounts

DueRowsAreRenewed == \A i \in Ids : RenewalDue(i) ~> ~RenewalDue(i)
-----------------------------------------------------------------------------
(* What agents see of the table is a CertVault. *)

BundleOf(r) ==
    [cert |-> r.cert, key |-> r.key, fp |-> r.fp, notAfter |-> r.notAfter]

vault == [n \in Names |-> IF Named(n) = {} THEN NoRow
                          ELSE BundleOf(CHOOSE r \in Named(n) : TRUE)]

Vault == INSTANCE CertVault WITH NoBundle <- NoRow

\* The table implements the abstract vault: every step changes the bundle of at
\* most one name, and to a whole one.
VaultSpec == Vault!Spec
=============================================================================
