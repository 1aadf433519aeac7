-------------------------- MODULE CertStoreProofs --------------------------
(***************************************************************************)
(* Proofs about CertStore, for any number of names, requests, rows, days   *)
(* and restarts.                                                           *)
(*                                                                         *)
(* The inductive invariant speaks of all rows anybody holds: those in the  *)
(* table and the copies that requests and the scheduler have read.  Every  *)
(* one is intact and renewable if enrolled, and two that have the same id  *)
(* have the same name.  The last part is what makes a late Save() safe: a  *)
(* row that was deleted meanwhile may be inserted again under its old id,  *)
(* so it is not enough to compare a copy with the table, copies have to    *)
(* agree among themselves.                                                 *)
(***************************************************************************)
EXTENDS CertStore, TLAPS

Holders == Rows \cup Copies

GoodRow(r) ==
    /\ r \in Row
    /\ Intact(r)
    /\ r.isACME => r.autoRenew /\ r.acct # Blank

\* Ids are given out once, and to one name.
IdsAgree ==
    /\ \A r \in Holders : r.id < nextId
    /\ \A r, s \in Holders : r.id = s.id /\ r.id # 0 => r.name = s.name

TableInv ==
    /\ table \in [Ids -> Row \cup {NoRow}]
    /\ nextId \in 1..MaxId + 1
    /\ \A i \in Ids : table[i] # NoRow => table[i].id = i
    /\ UniqueNames

\* Only a row for which Create() is still to come has no id, and an ACME
\* request holds rows of its own name.
MemoryInv ==
    /\ req \in [Procs -> Request]
    /\ \A p \in Procs : req[p].op # "save" => \A r \in req[p].rows : r.id # 0
    /\ \A p \in Procs : req[p].op = "issue" =>
          \A r \in req[p].rows : r.name = req[p].name
    /\ \A r \in pass \cup renewing : r.id # 0

BoundsInv == now \in 0..MaxDay /\ crashes \in 0..MaxCrashes

IInv ==
    /\ TableInv
    /\ \A r \in Holders : GoodRow(r)
    /\ IdsAgree
    /\ MemoryInv
    /\ BoundsInv

\* A row some step may add to the holders: new, or for the id and name of one
\* that is held already.
Claim(r) ==
    /\ GoodRow(r)
    /\ r.id # 0 => \E h \in Holders : h.id = r.id /\ h.name = r.name

\* A step touches the rows of one certificate name at most.
OneName ==
    \/ Rows' = Rows
    \/ \E n \in Names : \A m \in Names \ {n} : Named(m)' = Named(m)
-----------------------------------------------------------------------------
(* Lemmas about the operators CertStore is built from. *)

\* A row of the table is stored under its id, which is not 0.
LEMMA RowInTable ==
    ASSUME TableInv, NEW r \in Rows
    PROVE  r.id \in Ids /\ table[r.id] = r /\ r # NoRow
BY DEF TableInv, Rows

\* Conversely.
LEMMA TableInRows ==
    ASSUME TableInv, NEW i \in Ids, table[i] # NoRow
    PROVE  table[i] \in Rows
BY DEF Rows

\* Whatever is held is well formed and may be held again.
LEMMA HeldIsClaim ==
    ASSUME IInv, NEW r \in Holders
    PROVE  Claim(r)
BY DEF IInv, Claim

\* Installing a validated certificate keeps a row's id, name and enrolment.
LEMMA InstallLemma ==
    ASSUME NEW r, GoodRow(r), NEW c \in Cert, NEW k \in Keys, Valid(c, k)
    PROVE  /\ GoodRow(Install(r, c, k))
           /\ Install(r, c, k).id = r.id /\ Install(r, c, k).name = r.name
           /\ Install(r, c, k).cert = c
           /\ Install(r, c, k).isACME = r.isACME
BY DEF GoodRow, Install, Row, Intact, Valid, Fingerprint, Sha256, Cert

\* A row made for a new name is well formed and has no id.
LEMMA NewRowLemma ==
    ASSUME NEW n \in Names, NEW c \in Cert, NEW k \in Keys, Valid(c, k)
    PROVE  GoodRow(NewRow(n, c, k)) /\ NewRow(n, c, k).id = 0
BY BoundsAssumption
   DEF GoodRow, NewRow, Row, Intact, Valid, Fingerprint, Sha256, Cert

\* The copy a handler is going to write may be held.
LEMMA ReplaceLemma ==
    ASSUME IInv, NEW n \in Names, NEW found, found \subseteq Holders,
           \A h \in found : h.id # 0,
           NEW c \in Cert, NEW k \in Keys, Valid(c, k),
           NEW r \in Replace(found, n, c, k)
    PROVE  Claim(r) /\ r.cert = c
<1>1. CASE found = {}
  <2>1. r = NewRow(n, c, k)
    BY <1>1 DEF Replace
  <2> QED
    BY <2>1, NewRowLemma DEF Claim, NewRow
<1>2. CASE found # {}
  <2>1. PICK h \in found : r = Install(h, c, k)
    BY <1>2 DEF Replace
  <2>2. GoodRow(h) /\ h \in Holders
    BY DEF IInv
  <2> QED
    BY <2>1, <2>2, InstallLemma DEF Claim
<1> QED
  BY <1>1, <1>2

\* What the handlers change besides the certificate keeps a claim a claim.
LEMMA ColumnsLemma ==
    ASSUME NEW r, Claim(r)
    PROVE  /\ Claim(Uploaded(r))
           /\ Claim(Internal(r))
           /\ \A f \in AcmeForm : f.acct # Blank => Claim(Enrolled(r, f))
<1>1. GoodRow(r)
  BY DEF Claim
<1>2. Uploaded(r).id = r.id /\ Uploaded(r).name = r.name /\ GoodRow(Uploaded(r))
  BY <1>1 DEF GoodRow, Uploaded, Row, Intact, Cert
<1>3. Internal(r).id = r.id /\ Internal(r).name = r.name /\ GoodRow(Internal(r))
  BY <1>1 DEF GoodRow, Internal, Row, Intact, Cert
<1>4. ASSUME NEW f \in AcmeForm, f.acct # Blank
      PROVE  /\ Enrolled(r, f).id = r.id /\ Enrolled(r, f).name = r.name
             /\ GoodRow(Enrolled(r, f))
  BY <1>1, <1>4 DEF GoodRow, Enrolled, Row, Intact, AcmeForm
<1> QED
  BY <1>2, <1>3, <1>4 DEF Claim

\* An issued certificate is one, for the key it came with.
LEMMA IssuedLemma ==
    ASSUME BoundsInv, NEW d \in Domains \cup {Blank}, NEW days \in Nat,
           NEW c \in Issued(d, days)
    PROVE  c \in Cert /\ c.key \in Keys /\ Valid(c, c.key)
BY DataAssumption DEF BoundsInv, Issued, Cert, Valid
-----------------------------------------------------------------------------
(* The two kinds of steps: those that only read, and those that write. *)

\* A step that leaves the table alone and whose copies are all claims.
LEMMA ReadStep ==
    ASSUME IInv, UNCHANGED <<table, nextId>>,
           \A r \in Copies' : Claim(r),
           MemoryInv', BoundsInv'
    PROVE  IInv' /\ OneName
<1>1. Rows' = Rows /\ TableInv'
  BY DEF IInv, TableInv, Rows, UniqueNames
<1>2. \A r \in Holders' : Claim(r)
  BY <1>1, HeldIsClaim DEF Holders
<1>3. \A r \in Holders' : r.id < nextId
  <2>1. nextId > 0
    BY BoundsAssumption DEF IInv, TableInv
  <2> QED
    BY <1>2, <2>1 DEF Claim, IInv, IdsAgree
<1>4. \A r, s \in Holders' : r.id = s.id /\ r.id # 0 => r.name = s.name
  BY <1>2 DEF Claim, IInv, IdsAgree
<1> QED
  BY <1>1, <1>2, <1>3, <1>4 DEF IInv, IdsAgree, Claim, OneName

\* A step that writes one claim, by Create() or Save(), and reads nothing.
LEMMA WriteStep ==
    ASSUME IInv, NEW r, Claim(r), Write(r),
           Copies' \subseteq Copies, MemoryInv', BoundsInv'
    PROVE  IInv' /\ OneName
<1> USE BoundsAssumption, DataAssumption
<1>0. r \in Row /\ r # NoRow /\ nextId \in Nat /\ nextId > 0
  BY DEF Claim, GoodRow, IInv, TableInv
<1>1. CASE r.id = 0
  <2> DEFINE new == [r EXCEPT !.id = nextId]
  <2>1. /\ nextId \in Ids /\ NameFree(r.name)
        /\ table' = [table EXCEPT ![nextId] = new]
        /\ nextId' = nextId + 1
    BY <1>1 DEF Write, Create
  <2>2. GoodRow(new) /\ new.id = nextId /\ new.name = r.name /\ new # NoRow
    BY <1>0, <2>1 DEF Claim, GoodRow, Row, Intact, Ids
  <2> HIDE DEF new
  <2>3. Rows' \subseteq Rows \cup {new}
    BY <2>1 DEF Rows, IInv, TableInv
  <2>4. \A h \in Holders' : h \in Holders \/ h = new
    BY <2>3 DEF Holders
  <2>5. TableInv'
    <3>1. /\ table' \in [Ids -> Row \cup {NoRow}]
          /\ nextId' \in 1..MaxId + 1
      BY <2>1, <2>2 DEF IInv, TableInv, GoodRow, Ids
    <3>2. \A i \in Ids : table'[i] # NoRow => table'[i].id = i
      BY <2>1, <2>2 DEF IInv, TableInv
    <3>3. \A s \in Rows : s.name # new.name
      BY <2>1, <2>2 DEF NameFree, Named
    <3>4. UniqueNames'
      BY <2>3, <3>3 DEF UniqueNames, IInv, TableInv
    <3> QED
      BY <3>1, <3>2, <3>4 DEF TableInv
  <2>6. \A h \in Holders' : GoodRow(h)
    BY <2>2, <2>4 DEF IInv
  <2>7. IdsAgree'
    <3>1. \A h \in Holders : h.id \in Nat /\ h.id < nextId
      BY DEF IInv, IdsAgree, GoodRow, Row
    <3>2. ASSUME NEW h \in Holders' PROVE h.id < nextId'
      <4>1. CASE h \in Holders
        BY <1>0, <2>1, <3>1, <4>1
      <4>2. CASE h = new
        BY <1>0, <2>1, <2>2, <4>2
      <4> QED
        BY <2>4, <4>1, <4>2
    <3>3. \A h \in Holders : h.id # nextId
      BY <1>0, <3>1
    <3>4. \A h, s \in Holders' : h.id = s.id /\ h.id # 0 => h.name = s.name
      BY <2>2, <2>4, <3>3 DEF IInv, IdsAgree
    <3> QED
      BY <3>2, <3>4 DEF IdsAgree
  <2>8. ASSUME NEW m \in Names \ {r.name} PROVE Named(m)' = Named(m)
    <3>1. Rows \subseteq Rows'
      <4>1. table[nextId] = NoRow
        BY <1>0, <2>1 DEF IInv, TableInv, IdsAgree, Holders, Rows
      <4> QED
        BY <2>1, <4>1 DEF Rows, IInv, TableInv
    <3> QED
      BY <2>2, <2>3, <3>1 DEF Named
  <2>9. r.name \in Names
    BY <1>0 DEF Row
  <2> QED
    BY <2>5, <2>6, <2>7, <2>8, <2>9 DEF IInv, OneName
<1>2. CASE r.id # 0
  <2>1. /\ table[r.id] # NoRow \/ NameFree(r.name)
        /\ table' = [table EXCEPT ![r.id] = r]
        /\ nextId' = nextId
    BY <1>2 DEF Write, Save
  <2>2. PICK g \in Holders : g.id = r.id /\ g.name = r.name
    BY <1>2 DEF Claim
  <2>3. r.id \in Ids
    BY <1>0, <1>2 DEF Row, Ids
  <2>4. Rows' \subseteq (Rows \ {table[r.id]}) \cup {r}
    <3>1. \A i \in Ids \ {r.id} : table[i] # NoRow => table[i] # table[r.id]
      BY <2>3 DEF IInv, TableInv
    <3> QED
      BY <2>1, <2>3, <3>1 DEF Rows, IInv, TableInv
  <2>5. \A h \in Holders' : h \in Holders \/ h = r
    BY <2>4 DEF Holders
  <2>6. TableInv'
    <3>1. /\ table' \in [Ids -> Row \cup {NoRow}]
          /\ nextId' \in 1..MaxId + 1
      BY <1>0, <2>1 DEF IInv, TableInv
    <3>2. \A i \in Ids : table'[i] # NoRow => table'[i].id = i
      BY <2>1 DEF IInv, TableInv
    <3>3. \A s \in Rows \ {table[r.id]} : s.name # r.name
      <4>1. CASE table[r.id] # NoRow
        <5>1. table[r.id] \in Rows /\ table[r.id].id = r.id
          BY <4>1, <2>3, TableInRows DEF IInv, TableInv
        <5>2. table[r.id].name = r.name
          BY <1>2, <2>2, <5>1 DEF IInv, IdsAgree, Holders
        <5> QED
          BY <5>1, <5>2 DEF IInv, TableInv, UniqueNames
      <4>2. CASE NameFree(r.name)
        BY <4>2 DEF NameFree, Named
      <4> QED
        BY <2>1, <4>1, <4>2
    <3>4. UniqueNames'
      BY <2>4, <3>3 DEF UniqueNames, IInv, TableInv
    <3> QED
      BY <3>1, <3>2, <3>4 DEF TableInv
  <2>7. \A h \in Holders' : GoodRow(h)
    BY <2>5 DEF IInv, Claim
  <2>8. IdsAgree'
    BY <2>1, <2>2, <2>5 DEF IInv, IdsAgree
  <2>9. ASSUME NEW m \in Names \ {r.name} PROVE Named(m)' = Named(m)
    <3>1. Rows \ {table[r.id]} \subseteq Rows'
      BY <2>1, <2>3 DEF Rows, IInv, TableInv
    <3>2. table[r.id] # NoRow => table[r.id].name = r.name
      BY <1>2, <2>2, <2>3, TableInRows DEF IInv, IdsAgree, Holders, TableInv
    <3> QED
      BY <2>4, <3>1, <3>2 DEF Named, Rows
  <2>10. r.name \in Names
    BY <1>0 DEF Row
  <2> QED
    BY <2>6, <2>7, <2>8, <2>9, <2>10 DEF IInv, OneName
<1> QED
  BY <1>1, <1>2

\* A handler that has read holds what it begins with, and only claims.
LEMMA BeginStep ==
    ASSUME IInv, NEW p \in Procs, NEW q \in Request, Begin(p, q),
           \A r \in q.rows : Claim(r),
           q.op # "save" => \A r \in q.rows : r.id # 0,
           q.op = "issue" => \A r \in q.rows : r.name = q.name
    PROVE  IInv' /\ OneName
<1>1. /\ req \in [Procs -> Request] /\ req' = [req EXCEPT ![p] = q]
      /\ UNCHANGED <<table, nextId, pass, renewing, now, crashes>>
  BY DEF Begin, IInv, MemoryInv
<1>2. \A r \in Copies' : r \in Copies \/ r \in q.rows
  BY <1>1 DEF Copies
<1>3. MemoryInv'
  BY <1>1 DEF IInv, MemoryInv
<1>4. BoundsInv'
  BY <1>1 DEF IInv, BoundsInv
<1> QED
  BY <1>1, <1>2, <1>3, <1>4, HeldIsClaim, ReadStep DEF Holders

\* A handler that returns forgets what it held.
LEMMA ReturnLemma ==
    ASSUME IInv, NEW p \in Procs, Return(p), UNCHANGED <<pass, renewing>>
    PROVE  MemoryInv' /\ Copies' \subseteq Copies
<1>1. req \in [Procs -> Request] /\ req' = [req EXCEPT ![p] = Idle]
  BY DEF Return, IInv, MemoryInv
<1>2. Idle \in Request /\ Idle.rows = {} /\ Idle.op = "idle"
  BY DEF Idle, Request
<1> QED
  BY <1>1, <1>2 DEF IInv, MemoryInv, Copies

\* The rows with a name are held under it and have an id.
LEMMA NamedLemma ==
    ASSUME IInv, NEW n
    PROVE  /\ Named(n) \subseteq Holders /\ Named(n) \subseteq Row
           /\ \A r \in Named(n) : r.id # 0 /\ r.name = n
BY RowInTable, BoundsAssumption DEF IInv, Named, Holders, GoodRow, Ids

\* Credentials that resolve to something are credentials.
LEMMA ResolveLemma ==
    ASSUME NEW a \in Accounts \cup {Blank}, NEW found \in SUBSET Row,
           NEW d \in SettingAccounts
    PROVE  Resolve(a, found, d) \in Accounts \cup {Blank}
BY DataAssumption DEF Resolve, Row
-----------------------------------------------------------------------------
(* Every action preserves the invariant and touches one name at most. *)

\* An upload begins with a row it may write: the one found, or a new one.
LEMMA SaveCertificateStep ==
    ASSUME IInv, NEW p \in Procs, NEW n \in Names, NEW u \in Uploads,
           SaveCertificate(p, n, u)
    PROVE  IInv' /\ OneName
<1>1. u.cert \in Cert /\ u.key \in Keys /\ Valid(u.cert, u.key)
  BY DataAssumption DEF SaveCertificate
<1>2. PICK r \in Replace(Named(n), n, u.cert, u.key) :
         Begin(p, [op |-> "save", rows |-> {Uploaded(r)}])
  BY DEF SaveCertificate
<1>3. Claim(Uploaded(r))
  BY <1>1, NamedLemma, ReplaceLemma, ColumnsLemma
<1>4. [op |-> "save", rows |-> {Uploaded(r)}] \in Request
  BY <1>3 DEF Request, Claim, GoodRow
<1> QED
  BY <1>2, <1>3, <1>4, BeginStep

\* So does an issue by the internal CA.
LEMMA IssueInternalStep ==
    ASSUME IInv, NEW p \in Procs, NEW n \in Names, NEW d \in InternalDomains,
           HandleIssueInternalCert(p, n, d)
    PROVE  IInv' /\ OneName
<1>1. PICK c \in Issued(d, InternalDays) :
         \E r \in Replace(Named(n), n, c, c.key) :
            Begin(p, [op |-> "save", rows |-> {Internal(r)}])
  BY DEF HandleIssueInternalCert
<1>2. PICK r \in Replace(Named(n), n, c, c.key) :
         Begin(p, [op |-> "save", rows |-> {Internal(r)}])
  BY <1>1
<1>3. c \in Cert /\ c.key \in Keys /\ Valid(c, c.key)
  BY IssuedLemma, DataAssumption, BoundsAssumption DEF IInv
<1>4. Claim(Internal(r))
  BY <1>3, NamedLemma, ReplaceLemma, ColumnsLemma
<1>5. [op |-> "save", rows |-> {Internal(r)}] \in Request
  BY <1>4 DEF Request, Claim, GoodRow
<1> QED
  BY <1>2, <1>4, <1>5, BeginStep

\* The late write of either: it hits its own row, or inserts it.
LEMMA FinishSaveStep ==
    ASSUME IInv, NEW p \in Procs, FinishSave(p)
    PROVE  IInv' /\ OneName
<1>1. PICK r \in req[p].rows : Write(r)
  BY DEF FinishSave
<1>2. Return(p) /\ UNCHANGED <<pass, renewing, now, crashes>>
  BY DEF FinishSave
<1>3. Claim(r)
  BY <1>1, HeldIsClaim DEF Holders, Copies
<1>4. BoundsInv'
  BY <1>2 DEF IInv, BoundsInv
<1> QED
  BY <1>1, <1>2, <1>3, <1>4, ReturnLemma, WriteStep

\* An ACME issue begins with the rows of its own name and credentials.
LEMMA IssueACMEStep ==
    ASSUME IInv, NEW p \in Procs, NEW n \in Names, NEW f \in AcmeForms,
           IssueACMECertificate(p, n, f)
    PROVE  IInv' /\ OneName
<1>1. PICK d \in SettingAccounts, saved \in {Named(n), {}} :
         LET form == [f EXCEPT !.acct = Resolve(f.acct, saved, d)]
         IN  /\ RequiredFields(form)
             /\ Begin(p, [op |-> "issue", rows |-> Named(n), name |-> n,
                          form |-> form])
  BY DEF IssueACMECertificate
<1> DEFINE form == [f EXCEPT !.acct = Resolve(f.acct, saved, d)]
           q == [op |-> "issue", rows |-> Named(n), name |-> n, form |-> form]
<1>2. f \in AcmeForm
  BY DataAssumption
<1>3. Resolve(f.acct, saved, d) \in Accounts \cup {Blank}
  BY <1>2, NamedLemma, ResolveLemma DEF AcmeForm
<1>4. form \in AcmeForm
  BY <1>2, <1>3 DEF AcmeForm
<1>5. Begin(p, q)
  BY <1>1
<1> HIDE DEF form
<1>6. /\ q \in Request /\ q.op = "issue" /\ q.rows = Named(n) /\ q.name = n
  BY <1>4, NamedLemma DEF Request
<1> QED
  BY <1>5, <1>6, NamedLemma, HeldIsClaim, BeginStep

\* What it writes, minutes after the read: a claim with the new certificate.
LEMMA IssueWritesClaim ==
    ASSUME IInv, NEW p \in Procs, FinishIssue(p)
    PROVE  /\ req[p].form \in AcmeForm /\ req[p].rows \subseteq Holders
           /\ \E c \in Issued(req[p].form.domains, AcmeDays) \cap Cert :
                 \E r \in Replace(req[p].rows, req[p].name, c, c.key) :
                    Claim(Enrolled(r, req[p].form)) /\ Write(Enrolled(r, req[p].form))
<1>1. req[p].op = "issue" /\ req[p].form.acct \in GoodAccounts
  BY DEF FinishIssue
<1>2. PICK c \in Issued(req[p].form.domains, AcmeDays) :
         \E r \in Replace(req[p].rows, req[p].name, c, c.key) :
            Write(Enrolled(r, req[p].form))
  BY DEF FinishIssue
<1>3. PICK r \in Replace(req[p].rows, req[p].name, c, c.key) :
         Write(Enrolled(r, req[p].form))
  BY <1>2
<1>4. req[p] \in [op : {"issue"}, rows : SUBSET Row, name : Names, form : AcmeForm]
  BY <1>1 DEF IInv, MemoryInv, Request
<1>5. /\ req[p].name \in Names /\ req[p].form \in AcmeForm
      /\ req[p].form.acct # Blank /\ req[p].form.domains \in Domains
  BY <1>1, <1>4, DataAssumption DEF AcmeForm
<1>6. c \in Cert /\ c.key \in Keys /\ Valid(c, c.key)
  BY <1>5, IssuedLemma, BoundsAssumption DEF IInv
<1>7. req[p].rows \subseteq Holders /\ \A h \in req[p].rows : h.id # 0
  BY <1>1 DEF Holders, Copies, IInv, MemoryInv
<1>8. Claim(Enrolled(r, req[p].form))
  BY <1>3, <1>5, <1>6, <1>7, ReplaceLemma, ColumnsLemma
<1> QED
  BY <1>2, <1>3, <1>5, <1>6, <1>7, <1>8

\* Its late write.
LEMMA FinishIssueStep ==
    ASSUME IInv, NEW p \in Procs, FinishIssue(p)
    PROVE  IInv' /\ OneName
<1>1. Return(p) /\ UNCHANGED <<pass, renewing, now, crashes>>
  BY DEF FinishIssue
<1>2. PICK r : Claim(r) /\ Write(r)
  BY IssueWritesClaim
<1>3. BoundsInv'
  BY <1>1 DEF IInv, BoundsInv
<1> QED
  BY <1>1, <1>2, <1>3, ReturnLemma, WriteStep

\* A handler that fails writes nothing.
LEMMA FinishWithoutWritingStep ==
    ASSUME IInv, NEW p \in Procs, FinishWithoutWriting(p)
    PROVE  IInv' /\ OneName
<1>1. Return(p) /\ UNCHANGED <<table, nextId, pass, renewing, now, crashes>>
  BY DEF FinishWithoutWriting
<1>2. BoundsInv'
  BY <1>1 DEF IInv, BoundsInv
<1> QED
  BY <1>1, <1>2, ReturnLemma, HeldIsClaim, ReadStep DEF Holders

\* A step that removes rows, or changes some in a way that keeps their claim.
LEMMA UpdateStep ==
    ASSUME IInv, UNCHANGED nextId, TableInv', \A r \in Rows' : Claim(r),
           Copies' \subseteq Copies, MemoryInv', BoundsInv'
    PROVE  IInv'
<1>1. \A r \in Holders' : Claim(r)
  BY HeldIsClaim DEF Holders
<1>2. \A r \in Holders' : r.id < nextId
  BY <1>1, BoundsAssumption DEF Claim, IInv, IdsAgree, TableInv
<1>3. \A r, s \in Holders' : r.id = s.id /\ r.id # 0 => r.name = s.name
  BY <1>1 DEF Claim, IInv, IdsAgree
<1> QED
  BY <1>1, <1>2, <1>3 DEF IInv, IdsAgree, Claim

\* A delete touches the rows of one name.
LEMMA DeleteStep ==
    ASSUME IInv, NEW n \in Names, DeleteCertificate(n)
    PROVE  IInv' /\ OneName
<1>1. /\ table' = [i \in Ids |-> IF table[i] \in Named(n) THEN NoRow ELSE table[i]]
      /\ UNCHANGED <<nextId, req, pass, renewing, now, crashes>>
  BY DEF DeleteCertificate
<1>2. Rows' \subseteq Rows
  BY <1>1 DEF Rows
<1>3. TableInv'
  <2>1. table' \in [Ids -> Row \cup {NoRow}]
    BY <1>1 DEF IInv, TableInv
  <2>2. \A i \in Ids : table'[i] # NoRow => table'[i].id = i
    BY <1>1 DEF IInv, TableInv
  <2> QED
    BY <1>1, <1>2, <2>1, <2>2 DEF IInv, TableInv, UniqueNames
<1>4. MemoryInv' /\ BoundsInv' /\ Copies' = Copies
  BY <1>1 DEF IInv, MemoryInv, BoundsInv, Copies
<1>5. \A m \in Names \ {n} : Named(m)' = Named(m)
  BY <1>1 DEF Rows, Named
<1> QED
  BY <1>1, <1>2, <1>3, <1>4, <1>5, HeldIsClaim, UpdateStep DEF Holders, OneName

\* The read handlers hold only rows they found.
LEMMA ReadRowsStep ==
    ASSUME IInv, NEW p \in Procs, NEW found \in SUBSET Rows, ReadRows(p, found)
    PROVE  IInv' /\ OneName
<1> DEFINE todo == {r \in found : NeedsBackfill(r)}
           q == [op |-> "backfill", rows |-> todo]
<1>1. Begin(p, q)
  BY DEF ReadRows
<1>2. \A r \in todo : Claim(r) /\ r.id # 0
  BY HeldIsClaim, RowInTable, BoundsAssumption DEF IInv, Holders, Ids
<1>3. q \in Request /\ q.op = "backfill" /\ q.rows = todo
  BY <1>2 DEF Request, Claim, GoodRow
<1> QED
  BY <1>1, <1>2, <1>3, BeginStep

\* The UPDATE of one column of one row, or of none.
LEMMA BackfillStep ==
    ASSUME IInv, NEW p \in Procs, Backfill(p)
    PROVE  IInv' /\ OneName
<1>1. PICK r \in req[p].rows :
         /\ table' \in {table, SetDomains(r)}
         /\ req' = [req EXCEPT ![p] = Forget(req[p], r)]
  BY DEF Backfill
<1>2. req[p].op = "backfill" /\ UNCHANGED <<nextId, pass, renewing, now, crashes>>
  BY DEF Backfill
<1> DEFINE q == Forget(req[p], r)
<1>3. req \in [Procs -> Request] /\ req' = [req EXCEPT ![p] = q]
  BY <1>1 DEF IInv, MemoryInv
<1>4. q \in Request /\ q.op \in {"idle", "backfill"} /\ q.rows \subseteq req[p].rows
  BY <1>2, <1>3 DEF Request, Idle, Forget
<1> HIDE DEF q
<1>5. MemoryInv' /\ BoundsInv' /\ Copies' \subseteq Copies
  <2>1. \A x \in Procs : x # p => req'[x] = req[x]
    BY <1>3
  <2>2. req'[p] = q
    BY <1>3
  <2>3. Copies' \subseteq Copies
    BY <1>2, <1>4, <2>1, <2>2 DEF Copies
  <2>4. \A x \in Procs : req'[x].op # "save" => \A s \in req'[x].rows : s.id # 0
    BY <1>2, <1>4, <2>1, <2>2 DEF IInv, MemoryInv
  <2>5. \A x \in Procs : req'[x].op = "issue" =>
           \A s \in req'[x].rows : s.name = req'[x].name
    BY <1>4, <2>1, <2>2 DEF IInv, MemoryInv
  <2>6. req' \in [Procs -> Request]
    BY <1>3, <1>4
  <2> QED
    BY <1>2, <2>3, <2>4, <2>5, <2>6 DEF IInv, MemoryInv, BoundsInv
<1>6. CASE table' = table
  BY <1>2, <1>5, <1>6, HeldIsClaim, ReadStep DEF Holders
<1>7. CASE table[r.id] # NoRow /\ table' = [table EXCEPT ![r.id].domains = r.cert.domains]
  <2>1. GoodRow(r) /\ r.id \in Ids
    BY <1>2, <1>1, BoundsAssumption
       DEF IInv, Holders, Copies, MemoryInv, GoodRow, Row, Ids
  <2> DEFINE old == table[r.id]
             new == [old EXCEPT !.domains = r.cert.domains]
  <2>2. old \in Rows /\ old.id = r.id /\ GoodRow(old)
    BY <1>7, <2>1, TableInRows DEF IInv, TableInv, Holders
  <2>3. /\ GoodRow(new) /\ new.id = r.id /\ new.name = old.name /\ new # NoRow
    BY <2>1, <2>2, DataAssumption DEF GoodRow, Row, Intact, Cert
  <2>4. table' = [table EXCEPT ![r.id] = new]
    BY <1>7
  <2> HIDE DEF new
  <2>5. Rows' \subseteq (Rows \ {old}) \cup {new}
    <3>1. \A i \in Ids \ {r.id} : table[i] # NoRow => table[i] # old
      BY <2>2 DEF IInv, TableInv
    <3> QED
      BY <2>1, <2>4, <3>1 DEF Rows, IInv, TableInv
  <2>6. TableInv'
    <3>1. table' \in [Ids -> Row \cup {NoRow}]
      BY <2>3, <2>4 DEF IInv, TableInv, GoodRow
    <3>2. \A i \in Ids : table'[i] # NoRow => table'[i].id = i
      BY <2>3, <2>4 DEF IInv, TableInv
    <3>3. UniqueNames'
      BY <2>2, <2>3, <2>5 DEF UniqueNames, IInv, TableInv
    <3> QED
      BY <1>2, <3>1, <3>2, <3>3 DEF TableInv, IInv
  <2>7. \A s \in Rows' : Claim(s)
    BY <2>2, <2>3, <2>5, HeldIsClaim DEF Holders, Claim
  <2>8. \A m \in Names \ {old.name} : Named(m)' = Named(m)
    <3>1. Rows \ {old} \subseteq Rows' /\ new \in Rows'
      BY <2>1, <2>3, <2>4 DEF Rows, IInv, TableInv
    <3> QED
      BY <2>2, <2>3, <2>5, <3>1 DEF Named
  <2>9. old.name \in Names
    BY <2>2 DEF GoodRow, Row
  <2> QED
    BY <1>2, <1>5, <2>6, <2>7, <2>8, <2>9, UpdateStep DEF OneName
<1> QED
  BY <1>1, <1>6, <1>7 DEF SetDomains

\* A pass of the scheduler begins with rows of the table.
LEMMA StartPassStep ==
    ASSUME IInv, StartPass
    PROVE  IInv' /\ OneName
<1>1. /\ pass' \subseteq Rows
      /\ UNCHANGED <<table, nextId, req, renewing, now, crashes>>
  BY DEF StartPass
<1>2. MemoryInv' /\ BoundsInv'
  BY <1>1, RowInTable, BoundsAssumption DEF IInv, MemoryInv, BoundsInv, Ids
<1>3. Copies' \subseteq Holders
  BY <1>1 DEF Copies, Holders
<1> QED
  BY <1>1, <1>2, <1>3, HeldIsClaim, ReadStep

\* The other steps of the scheduler that do not write only move copies about.
LEMMA SchedulerReadStep ==
    ASSUME IInv, SkipRow \/ RenewRow \/ RenewFails
    PROVE  IInv' /\ OneName
<1>1. /\ pass' \cup renewing' \subseteq pass \cup renewing
      /\ UNCHANGED <<table, nextId, req, now, crashes>>
  BY DEF SkipRow, RenewRow, RenewFails
<1>2. MemoryInv' /\ BoundsInv'
  BY <1>1 DEF IInv, MemoryInv, BoundsInv
<1>3. Copies' \subseteq Holders
  BY <1>1 DEF Copies, Holders
<1> QED
  BY <1>1, <1>2, <1>3, HeldIsClaim, ReadStep

\* The scheduler's late write.
LEMMA FinishRenewStep ==
    ASSUME IInv, NEW r \in renewing, FinishRenew(r)
    PROVE  IInv' /\ OneName
<1>1. PICK c \in Issued(r.domains, AcmeDays) : Save(Install(r, c, c.key))
  BY DEF FinishRenew
<1>2. renewing' = {} /\ UNCHANGED <<req, pass, now, crashes>>
  BY DEF FinishRenew
<1>3. r \in Holders /\ GoodRow(r) /\ r.id # 0
  BY DEF IInv, Holders, Copies, MemoryInv
<1>4. c \in Cert /\ c.key \in Keys /\ Valid(c, c.key)
  BY <1>3, IssuedLemma, BoundsAssumption DEF IInv, GoodRow, Row
<1>5. Claim(Install(r, c, c.key)) /\ Install(r, c, c.key).id # 0
  BY <1>3, <1>4, InstallLemma DEF Claim
<1>6. Write(Install(r, c, c.key))
  BY <1>1, <1>5 DEF Write
<1>7. MemoryInv' /\ BoundsInv' /\ Copies' \subseteq Copies
  BY <1>2 DEF IInv, MemoryInv, BoundsInv, Copies
<1> QED
  BY <1>5, <1>6, <1>7, WriteStep

\* A restart forgets all copies.
LEMMA CrashStep ==
    ASSUME IInv, Crash
    PROVE  IInv' /\ OneName
<1>1. /\ crashes < MaxCrashes /\ crashes' = crashes + 1
      /\ req' = [p \in Procs |-> Idle] /\ pass' = {} /\ renewing' = {}
      /\ UNCHANGED <<table, nextId, now>>
  BY DEF Crash
<1>2. Idle \in Request /\ Idle.rows = {} /\ Idle.op = "idle"
  BY DEF Idle, Request
<1>3. MemoryInv' /\ Copies' = {}
  BY <1>1, <1>2 DEF MemoryInv, Copies
<1>4. BoundsInv'
  BY <1>1, BoundsAssumption DEF IInv, BoundsInv
<1> QED
  BY <1>1, <1>3, <1>4, ReadStep

\* The clock changes nothing else.
LEMMA TickStep ==
    ASSUME IInv, Tick
    PROVE  IInv' /\ OneName
<1>1. /\ now < MaxDay /\ now' = now + 1
      /\ UNCHANGED <<table, nextId, req, pass, renewing, crashes>>
  BY DEF Tick
<1>2. MemoryInv' /\ Copies' = Copies
  BY <1>1 DEF IInv, MemoryInv, Copies
<1>3. BoundsInv'
  BY <1>1, BoundsAssumption DEF IInv, BoundsInv
<1> QED
  BY <1>1, <1>2, <1>3, HeldIsClaim, ReadStep DEF Holders
-----------------------------------------------------------------------------
\* The initial table is what an earlier version left, and nobody holds copies.
LEMMA InitIInv == Init => IInv
<1> SUFFICES ASSUME Init PROVE IInv
  OBVIOUS
<1>1. Idle \in Request /\ Idle.rows = {} /\ Idle.op = "idle"
  BY DEF Idle, Request
<1>2. MemoryInv /\ Copies = {}
  BY <1>1 DEF Init, MemoryInv, Copies
<1>3. TableInv
  BY LegacyAssumption DEF Init, TableInv, UniqueNames, Rows
<1>4. \A r \in Rows : GoodRow(r)
  BY LegacyAssumption DEF Init, Rows, GoodRow
<1>5. IdsAgree
  BY <1>2, LegacyAssumption DEF Init, IdsAgree, Holders, Rows
<1> QED
  BY <1>2, <1>3, <1>4, <1>5, BoundsAssumption DEF IInv, Holders, Init, BoundsInv

\* Every step, or none, preserves the invariant and touches one name at most.
LEMMA NextIInv == IInv /\ [Next]_vars => IInv' /\ OneName
<1> SUFFICES ASSUME IInv, [Next]_vars PROVE IInv' /\ OneName
  OBVIOUS
<1>1. ASSUME NEW p \in Procs, Handler(p) PROVE IInv' /\ OneName
  <2>1. CASE \E n \in Names, u \in Uploads : SaveCertificate(p, n, u)
    BY <2>1, SaveCertificateStep
  <2>2. CASE \E n \in Names, d \in InternalDomains : HandleIssueInternalCert(p, n, d)
    BY <2>2, IssueInternalStep
  <2>3. CASE FinishSave(p)
    BY <2>3, FinishSaveStep
  <2>4. CASE \E n \in Names, f \in AcmeForms : IssueACMECertificate(p, n, f)
    BY <2>4, IssueACMEStep
  <2>5. CASE FinishIssue(p)
    BY <2>5, FinishIssueStep
  <2>6. CASE FinishWithoutWriting(p)
    BY <2>6, FinishWithoutWritingStep
  <2>7. CASE (\E n \in Names : GetCert(p, n)) \/ ShowDashboard(p)
    BY <2>7, ReadRowsStep DEF GetCert, ShowDashboard, Named
  <2>8. CASE Backfill(p)
    BY <2>8, BackfillStep
  <2> QED
    BY <1>1, <2>1, <2>2, <2>3, <2>4, <2>5, <2>6, <2>7, <2>8 DEF Handler
<1>2. CASE \E n \in Names : DeleteCertificate(n)
  BY <1>2, DeleteStep
<1>3. CASE Scheduler
  BY <1>3, StartPassStep, SchedulerReadStep, FinishRenewStep DEF Scheduler
<1>4. CASE Crash
  BY <1>4, CrashStep
<1>5. CASE Tick
  BY <1>5, TickStep
<1>6. CASE UNCHANGED vars
  <2>1. MemoryInv' /\ BoundsInv' /\ Copies' = Copies
    BY <1>6 DEF vars, IInv, MemoryInv, BoundsInv, Copies
  <2> QED
    BY <1>6, <2>1, HeldIsClaim, ReadStep DEF vars, Holders
<1> QED
  BY <1>1, <1>2, <1>3, <1>4, <1>5, <1>6 DEF Next

\* The invariant holds of every reachable state.
THEOREM Invariance == Spec => []IInv
BY InitIInv, NextIInv, PTL DEF Spec
-----------------------------------------------------------------------------
(* What the invariant says to a reader of the code. *)

\* The variables have their types in every reachable state (TypeOK).
THEOREM TypeCorrect == Spec => []TypeOK
<1>1. IInv => TypeOK
  BY BoundsAssumption
     DEF IInv, TableInv, MemoryInv, BoundsInv, TypeOK, Holders, Copies, GoodRow
<1> QED
  BY <1>1, Invariance, PTL

\* Whatever requests, renewals and restarts interleave, each row's key,
\* fingerprint and expiry are those of its certificate.
THEOREM RowsStayIntact == Spec => []RowsIntact
<1>1. IInv => RowsIntact
  BY DEF IInv, RowsIntact, Holders, GoodRow
<1> QED
  BY <1>1, Invariance, PTL

\* No interleaving leaves two rows with one certificate name.
THEOREM NamesStayUnique == Spec => []UniqueNames
<1>1. IInv => UniqueNames
  BY DEF IInv, TableInv
<1> QED
  BY <1>1, Invariance, PTL

\* A Save() that comes after others have deleted and created rows never hits
\* the row of another certificate.
THEOREM LateWritesAreSafe == Spec => []LateWritesHitTheirName
<1>1. IInv => LateWritesHitTheirName
  <2> SUFFICES ASSUME IInv, NEW r \in Copies, r.id # 0
               PROVE  /\ r.id < nextId
                      /\ table[r.id] # NoRow => table[r.id].name = r.name
    BY DEF LateWritesHitTheirName
  <2>1. r \in Holders /\ r.id \in Ids
    BY BoundsAssumption DEF IInv, Holders, GoodRow, Row, Ids
  <2>2. r.id < nextId
    BY <2>1 DEF IInv, IdsAgree
  <2>3. ASSUME table[r.id] # NoRow PROVE table[r.id].name = r.name
    <3>1. table[r.id] \in Holders /\ table[r.id].id = r.id
      BY <2>1, <2>3, TableInRows DEF IInv, TableInv, Holders
    <3> QED
      BY <2>1, <3>1 DEF IInv, IdsAgree
  <2> QED
    BY <2>2, <2>3
<1> QED
  BY <1>1, Invariance, PTL

\* A row enrolled for ACME renewal stays in the scheduler's query and keeps
\* credentials to renew with.
THEOREM EnrolledRowsStayRenewable == Spec => []AcmeRowsRenewable
<1>1. IInv => AcmeRowsRenewable
  BY DEF IInv, AcmeRowsRenewable, Holders, GoodRow
<1> QED
  BY <1>1, Invariance, PTL
-----------------------------------------------------------------------------
(* The table implements the abstract vault. *)

\* What agents get under a name is nothing or a whole bundle.
LEMMA VaultContent == IInv => vault \in [Names -> Vault!Bundle \cup {NoRow}]
<1> SUFFICES ASSUME IInv, NEW n \in Names
             PROVE  vault[n] \in Vault!Bundle \cup {NoRow}
  BY DEF vault
<1>1. CASE Named(n) = {}
  BY <1>1 DEF vault
<1>2. CASE Named(n) # {}
  <2> DEFINE r == CHOOSE r \in Named(n) : TRUE
  <2>1. r \in Named(n)
    BY <1>2
  <2>2. GoodRow(r)
    BY <2>1 DEF Named, IInv, Holders
  <2>3. BundleOf(r) \in Vault!Bundle
    BY <2>2 DEF Vault!Bundle, BundleOf, GoodRow, Row, Intact, Vault!Intact,
                Cert, Vault!Cert, Fingerprint, Vault!Fingerprint, Sha256, Vault!Sha256
  <2>4. vault[n] = BundleOf(r)
    BY <1>2 DEF vault
  <2> QED
    BY <2>3, <2>4
<1> QED
  BY <1>1, <1>2

\* The same after a step.
LEMMA VaultContentNext ==
    IInv' => vault' \in [Names -> Vault!Bundle \cup {NoRow}]
<1>1. IInv' => (vault \in [Names -> Vault!Bundle \cup {NoRow}])'
  BY VaultContent, PTL
<1> QED
  BY <1>1

\* The initial table is an initial vault.
LEMMA VaultInit == Init => Vault!Init
BY InitIInv, VaultContent DEF Vault!Init

\* A step of the table changes one name of the vault, or nothing.
LEMMA VaultStep == IInv /\ IInv' /\ OneName => [Vault!Next]_vault
<1> SUFFICES ASSUME IInv, IInv', OneName PROVE [Vault!Next]_vault
  OBVIOUS
<1>1. CASE Rows' = Rows
  <2>1. \A n \in Names : Named(n)' = Named(n)
    BY <1>1 DEF Named
  <2>2. vault' = vault
    BY <2>1 DEF vault, BundleOf
  <2> QED
    BY <2>2
<1>2. ASSUME NEW n \in Names, \A m \in Names \ {n} : Named(m)' = Named(m)
      PROVE  Vault!Change(n)
  <2>1. /\ vault \in [Names -> Vault!Bundle \cup {NoRow}]
        /\ vault' \in [Names -> Vault!Bundle \cup {NoRow}]
    BY VaultContent, VaultContentNext
  <2>2. \A m \in Names \ {n} : vault'[m] = vault[m]
    BY <1>2 DEF vault, BundleOf
  <2>3. vault' = [vault EXCEPT ![n] = vault'[n]]
    BY <2>1, <2>2
  <2> QED
    BY <2>1, <2>3 DEF Vault!Change
<1> QED
  BY <1>1, <1>2 DEF OneName, Vault!Next

\* Every behaviour of the server is one of the abstract vault.
THEOREM StoreImplementsVault == Spec => VaultSpec
BY InitIInv, NextIInv, VaultInit, VaultStep, PTL DEF Spec, VaultSpec, Vault!Spec
=============================================================================
