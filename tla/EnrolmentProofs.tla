-------------------------- MODULE EnrolmentProofs --------------------------
(***************************************************************************)
(* More proofs about CertStore: what the columns beside the bundle, the    *)
(* domains and the enrolment for renewal, keep to.                         *)
(*                                                                         *)
(* A written row is judged by what the writer sets in it and by the copy   *)
(* it started from.  So the invariants are of the copies that are held,    *)
(* and most steps are settled by saying which rows they write or hold that *)
(* were not written or held before.  Properties the code keeps only among  *)
(* requests that stay out of each other's way are proved from a hypothesis *)
(* on the behaviour that says so.                                          *)
(***************************************************************************)
EXTENDS CertStoreProofs

\* The domains column lists the domains of the row's certificate.
Told(r) == r.domains = r.cert.domains

\* What an upload or an internal issue is about to write does.
DescInv == IInv /\ \A p \in Procs : req[p].op = "save" => \A r \in req[p].rows : Told(r)

\* An installation in which no domains column is left to fill in, and stays so.
NothingToFillIn == \A i \in Ids : LegacyTable[i] # NoRow => Told(LegacyTable[i])

FilledInv ==
    /\ DescInv
    /\ \A r \in Rows : Told(r)
    /\ \A p \in Procs : req[p].op # "backfill"

\* An ACME row, or one the internal CA has taken over.
Kept(r) == r.isACME \/ r.provider = "internal_ca"

\* Whoever holds a row that is enrolled somewhere holds it enrolled, or taken
\* over; the scheduler holds enrolled rows only.
KeptInv ==
    /\ IInv
    /\ \A r \in pass \cup renewing : r.isACME
    /\ \A g, h \in Holders : g.id = h.id /\ g.id # 0 /\ g.isACME => Kept(h)
-----------------------------------------------------------------------------
(* What is held after a step. *)

\* A write adds to what is held the row it writes, under its id or the next.
LEMMA WriteHolds ==
    ASSUME IInv, NEW r, Claim(r), Write(r), Copies' \subseteq Copies
    PROVE  \A h \in Holders' :
              \/ h \in Holders
              \/ r.id # 0 /\ h = r
              \/ r.id = 0 /\ h = [r EXCEPT !.id = nextId]
<1>1. \A h \in Rows' : h \in Rows \/ (r.id # 0 /\ h = r)
                       \/ (r.id = 0 /\ h = [r EXCEPT !.id = nextId])
  <2>1. CASE r.id = 0
    BY <2>1 DEF Write, Create, Rows, IInv, TableInv
  <2>2. CASE r.id # 0
    BY <2>2 DEF Write, Save, Rows, IInv, TableInv
  <2> QED BY <2>1, <2>2
<1> QED BY <1>1 DEF Holders

\* A handler that begins adds what it holds.
LEMMA BeginHolds ==
    ASSUME IInv, NEW p \in Procs, NEW q, Begin(p, q)
    PROVE  \A h \in Holders' : h \in Holders \/ h \in q.rows
<1>1. /\ req \in [Procs -> Request] /\ req' = [req EXCEPT ![p] = q]
      /\ UNCHANGED <<table, nextId, pass, renewing, now, crashes>>
  BY DEF Begin, IInv, MemoryInv
<1>2. Rows' = Rows
  BY <1>1 DEF Rows
<1> QED BY <1>1, <1>2 DEF Holders, Copies

\* Steps after which nothing is held that was not held before.
LEMMA MovesHold ==
    ASSUME IInv,
           \/ \E p \in Procs : FinishWithoutWriting(p)
           \/ \E n \in Names : DeleteCertificate(n)
           \/ StartPass \/ SkipRow \/ RenewRow \/ RenewFails \/ Crash \/ Tick
           \/ UNCHANGED vars
    PROVE  Holders' \subseteq Holders
<1>1. ASSUME NEW p \in Procs, FinishWithoutWriting(p) PROVE Holders' \subseteq Holders
  <2>1. Return(p) /\ UNCHANGED <<table, nextId, pass, renewing, now, crashes>>
    BY <1>1 DEF FinishWithoutWriting
  <2>2. Rows' = Rows
    BY <2>1 DEF Rows
  <2> QED BY <2>1, <2>2, ReturnLemma DEF Holders
<1>2. ASSUME NEW n \in Names, DeleteCertificate(n) PROVE Holders' \subseteq Holders
  <2>1. Rows' \subseteq Rows /\ Copies' = Copies
    BY <1>2 DEF DeleteCertificate, Rows, Copies
  <2> QED BY <2>1 DEF Holders
<1>3. CASE StartPass \/ SkipRow \/ RenewRow \/ RenewFails
  <2>1. Rows' = Rows /\ pass' \cup renewing' \subseteq Rows \cup pass \cup renewing /\ req' = req
    BY <1>3 DEF StartPass, SkipRow, RenewRow, RenewFails, Rows
  <2> QED BY <2>1 DEF Holders, Copies
<1>4. CASE Crash
  <2>1. Rows' = Rows /\ Copies' = {}
    BY <1>4 DEF Crash, Rows, Copies, Idle
  <2> QED BY <2>1 DEF Holders
<1>5. CASE Tick \/ UNCHANGED vars
  BY <1>5 DEF Tick, vars, Holders, Rows, Copies
<1> QED BY <1>1, <1>2, <1>3, <1>4, <1>5

\* A handler that fills in domains forgets a row, or writes one column of it.
LEMMA BackfillHolds ==
    ASSUME IInv, NEW p \in Procs, Backfill(p)
    PROVE  /\ Copies' \subseteq Copies
           /\ \E r \in req[p].rows :
                 /\ r.id \in Ids
                 /\ \/ table' = table
                    \/ /\ table[r.id] # NoRow
                       /\ table' = [table EXCEPT ![r.id].domains = r.cert.domains]
<1>1. PICK r \in req[p].rows :
         /\ table' \in {table, SetDomains(r)}
         /\ req' = [req EXCEPT ![p] = Forget(req[p], r)]
  BY DEF Backfill
<1>2. req[p].op = "backfill" /\ UNCHANGED <<nextId, pass, renewing, now, crashes>>
  BY DEF Backfill
<1>3. r.id \in Ids
  BY <1>1, <1>2, BoundsAssumption DEF IInv, MemoryInv, Holders, Copies, GoodRow, Row, Ids
<1>4. Copies' \subseteq Copies
  <2> DEFINE q == Forget(req[p], r)
  <2>1. q.rows \subseteq req[p].rows
    BY <1>2 DEF Forget, Idle, IInv, MemoryInv, Request
  <2>2. req \in [Procs -> Request] /\ req' = [req EXCEPT ![p] = q]
    BY <1>1 DEF IInv, MemoryInv
  <2> HIDE DEF q
  <2>3. \A x \in Procs : req'[x].rows \subseteq req[x].rows
    BY <2>1, <2>2
  <2> QED BY <1>2, <2>3 DEF Copies
<1> QED BY <1>1, <1>3, <1>4 DEF SetDomains
-----------------------------------------------------------------------------
(* The domains column. *)

\* Every row a step writes lists the domains of its certificate.
WritesTold ==
    \A i \in Ids : table'[i] # table[i] /\ table'[i] # NoRow => Told(table'[i])

\* A handler's copy of a row with a new certificate, before it sets columns.
LEMMA ReplacedDomains ==
    ASSUME NEW n, NEW found, NEW c \in Cert, NEW k, NEW r \in Replace(found, n, c, k),
           \A h \in found : h \in Row
    PROVE  /\ Told(Uploaded(r)) /\ Told(Internal(r))
           /\ \A f : f.domains = c.domains => Told(Enrolled(r, f))
<1>1. CASE found = {}
  <2>1. r = NewRow(n, c, k)
    BY <1>1 DEF Replace
  <2> QED BY <2>1 DEF NewRow, Uploaded, Internal, Enrolled, Told
<1>2. CASE found # {}
  <2>1. PICK h \in found : r = Install(h, c, k)
    BY <1>2 DEF Replace
  <2>2. h \in Row
    OBVIOUS
  <2> QED BY <2>1, <2>2 DEF Install, Row, Uploaded, Internal, Enrolled, Told
<1> QED BY <1>1, <1>2

\* A copy that tells the truth is written as it is, or under the next id.
LEMMA WriteTells ==
    ASSUME IInv, NEW r \in Row, Told(r), Write(r) PROVE WritesTold
<1>1. table \in [Ids -> Row \cup {NoRow}]
  BY DEF IInv, TableInv
<1>2. Told([r EXCEPT !.id = nextId])
  BY DEF Told, Row
<1>3. CASE r.id = 0
  BY <1>1, <1>2, <1>3 DEF Write, Create, WritesTold
<1>4. CASE r.id # 0
  BY <1>1, <1>4 DEF Write, Save, WritesTold
<1> QED BY <1>3, <1>4

\* Handlers that begin a write and handlers that are over.
LEMMA BeginTells ==
    ASSUME DescInv, NEW p \in Procs, NEW q, Begin(p, q),
           q.op = "save" => \A r \in q.rows : Told(r)
    PROVE  WritesTold /\ \A x \in Procs : req'[x].op = "save" => \A r \in req'[x].rows : Told(r)
BY DEF DescInv, IInv, MemoryInv, Begin, WritesTold

LEMMA ReturnTells ==
    ASSUME DescInv, NEW p \in Procs, Return(p)
    PROVE  \A x \in Procs : req'[x].op = "save" => \A r \in req'[x].rows : Told(r)
BY DEF DescInv, IInv, MemoryInv, Return, Idle

LEMMA DescInit == Init => DescInv
BY InitIInv DEF DescInv, Init, Idle

\* The domains a read writes are those of the row's certificate, if that has not
\* been replaced meanwhile.
LEMMA BackfillTells ==
    ASSUME DescInv, NEW p \in Procs, Backfill(p)
    PROVE  /\ \A x \in Procs : req'[x].op = "save" => \A r \in req'[x].rows : Told(r)
           /\ \A i \in Ids : table'[i] # table[i] /\ table'[i] # NoRow =>
                 Told(table'[i]) \/ LateRead(p, i)
<1>1. /\ table \in [Ids -> Row \cup {NoRow}] /\ req \in [Procs -> Request]
      /\ req[p].op = "backfill" /\ IInv
  BY DEF DescInv, IInv, TableInv, MemoryInv, Backfill
<1>2. \A x \in Procs : req'[x].op = "save" => req'[x] = req[x]
  <2>1. PICK r \in req[p].rows : req' = [req EXCEPT ![p] = Forget(req[p], r)]
    BY DEF Backfill
  <2>2. Forget(req[p], r).op # "save"
    BY <1>1 DEF Forget, Idle, Request
  <2> QED BY <1>1, <2>1, <2>2
<1>3. ASSUME NEW i \in Ids, table'[i] # table[i], table'[i] # NoRow, ~LateRead(p, i)
      PROVE  Told(table'[i])
  <2>1. PICK r \in req[p].rows : /\ r.id \in Ids
           /\ \/ table' = table
              \/ /\ table[r.id] # NoRow
                 /\ table' = [table EXCEPT ![r.id].domains = r.cert.domains]
    BY <1>1, BackfillHolds
  <2>2. i = r.id /\ table[i] \in Row
        /\ table'[i] = [table[i] EXCEPT !.domains = r.cert.domains]
    BY <1>1, <1>3, <2>1
  <2>3. table[i].cert.domains = r.cert.domains
    BY <1>3, <2>1, <2>2, DataAssumption DEF LateRead
  <2> QED BY <2>2, <2>3 DEF Told, Row
<1> QED BY <1>2, <1>3 DEF DescInv

LEMMA DescStep ==
    DescInv /\ [Next]_vars =>
       /\ DescInv'
       /\ \A i \in Ids : table'[i] # table[i] /\ table'[i] # NoRow =>
             Told(table'[i]) \/ \E p \in Procs : LateRead(p, i)
<1> DEFINE SavesTold == \A p \in Procs : req[p].op = "save" => \A r \in req[p].rows : Told(r)
<1> SUFFICES ASSUME DescInv, [Next]_vars
             PROVE  SavesTold' /\ (WritesTold \/ \E p \in Procs : Backfill(p) /\
                      \A i \in Ids : table'[i] # table[i] /\ table'[i] # NoRow =>
                         Told(table'[i]) \/ LateRead(p, i))
  BY NextIInv DEF DescInv, WritesTold
<1>0. IInv /\ req \in [Procs -> Request] /\ SavesTold
  BY DEF DescInv, IInv, MemoryInv
<1>1. ASSUME NEW p \in Procs, Handler(p), ~Backfill(p) PROVE SavesTold' /\ WritesTold
  <2>1. ASSUME NEW n \in Names, NEW u \in Uploads, SaveCertificate(p, n, u)
        PROVE  SavesTold' /\ WritesTold
    <3>1. PICK r \in Replace(Named(n), n, u.cert, u.key) :
             Begin(p, [op |-> "save", rows |-> {Uploaded(r)}])
      BY <2>1 DEF SaveCertificate
    <3>2. Told(Uploaded(r))
      BY <1>0, DataAssumption, NamedLemma, ReplacedDomains
    <3> QED BY <3>1, <3>2, BeginTells
  <2>2. ASSUME NEW n \in Names, NEW d \in InternalDomains, HandleIssueInternalCert(p, n, d)
        PROVE  SavesTold' /\ WritesTold
    <3>1. PICK c \in Issued(d, InternalDays) : \E r \in Replace(Named(n), n, c, c.key) :
             Begin(p, [op |-> "save", rows |-> {Internal(r)}])
      BY <2>2 DEF HandleIssueInternalCert
    <3>2. PICK r \in Replace(Named(n), n, c, c.key) :
             Begin(p, [op |-> "save", rows |-> {Internal(r)}])
      BY <3>1
    <3>3. c \in Cert
      BY <1>0, IssuedLemma, DataAssumption, BoundsAssumption DEF IInv
    <3>4. Told(Internal(r))
      BY <1>0, <3>3, NamedLemma, ReplacedDomains
    <3> QED BY <3>2, <3>4, BeginTells
  <2>3. CASE FinishSave(p)
    <3>1. PICK r \in req[p].rows : Write(r)
      BY <2>3 DEF FinishSave
    <3>2. Return(p) /\ Told(r) /\ r \in Row
      BY <1>0, <2>3 DEF FinishSave, DescInv, IInv, GoodRow, Holders, Copies
    <3> QED BY <1>0, <3>1, <3>2, ReturnTells, WriteTells
  <2>4. ASSUME NEW n \in Names, NEW f \in AcmeForms, IssueACMECertificate(p, n, f)
        PROVE  SavesTold' /\ WritesTold
    <3>1. PICK form : Begin(p, [op |-> "issue", rows |-> Named(n), name |-> n, form |-> form])
      BY <2>4 DEF IssueACMECertificate
    <3> QED BY <3>1, BeginTells
  <2>5. CASE FinishIssue(p)
    <3>1. PICK c \in Issued(req[p].form.domains, AcmeDays) \cap Cert :
             \E r \in Replace(req[p].rows, req[p].name, c, c.key) :
                Claim(Enrolled(r, req[p].form)) /\ Write(Enrolled(r, req[p].form))
      BY <1>0, <2>5, IssueWritesClaim
    <3>2. PICK r \in Replace(req[p].rows, req[p].name, c, c.key) :
             Claim(Enrolled(r, req[p].form)) /\ Write(Enrolled(r, req[p].form))
      BY <3>1
    <3>3. c.domains = req[p].form.domains /\ c \in Cert /\ \A h \in req[p].rows : h \in Row
      BY <1>0, <2>5, IssueWritesClaim DEF Issued, IInv, GoodRow
    <3>4. \A f : f.domains = c.domains => Told(Enrolled(r, f))
      BY <3>3, ReplacedDomains
    <3>5. Told(Enrolled(r, req[p].form)) /\ Enrolled(r, req[p].form) \in Row
      BY <3>2, <3>3, <3>4 DEF Claim, GoodRow
    <3>6. Return(p)
      BY <2>5 DEF FinishIssue
    <3> QED BY <1>0, <3>2, <3>5, <3>6, ReturnTells, WriteTells
  <2>6. CASE FinishWithoutWriting(p)
    BY <2>6, ReturnTells DEF FinishWithoutWriting, WritesTold
  <2>7. CASE (\E n \in Names : GetCert(p, n)) \/ ShowDashboard(p)
    <3>1. PICK todo : Begin(p, [op |-> "backfill", rows |-> todo])
      BY <2>7 DEF GetCert, ShowDashboard, ReadRows
    <3> QED BY <3>1, BeginTells
  <2> QED BY <1>1, <2>1, <2>2, <2>3, <2>4, <2>5, <2>6, <2>7 DEF Handler
<1>2. ASSUME NEW r \in renewing, FinishRenew(r) PROVE SavesTold' /\ WritesTold
  <2>1. PICK c \in Issued(r.domains, AcmeDays) : Save(Install(r, c, c.key))
    BY <1>2 DEF FinishRenew
  <2>2. r \in Row /\ r.id # 0
    BY <1>0 DEF IInv, Holders, Copies, MemoryInv, GoodRow
  <2>3. c \in Cert /\ c.domains = r.domains /\ c.key \in Keys
    BY <1>0, <2>2, IssuedLemma, BoundsAssumption DEF IInv, Row, Issued
  <2>4. Told(Install(r, c, c.key)) /\ Install(r, c, c.key).id # 0
    BY <2>2, <2>3 DEF Row, Install, Told
  <2>5. WritesTold
    BY <1>0, <2>1, <2>4 DEF Save, WritesTold, IInv, TableInv
  <2>6. req' = req
    BY <1>2 DEF FinishRenew
  <2> QED BY <1>0, <2>5, <2>6
<1>3. CASE (\E n \in Names : DeleteCertificate(n)) \/ Tick \/ UNCHANGED vars
           \/ StartPass \/ SkipRow \/ RenewRow \/ RenewFails
  <2>1. req' = req
    BY <1>3 DEF DeleteCertificate, Tick, vars, StartPass, SkipRow, RenewRow, RenewFails
  <2>2. \A i \in Ids : table'[i] \in {table[i], NoRow}
    BY <1>3 DEF DeleteCertificate, Tick, vars, StartPass, SkipRow, RenewRow, RenewFails
  <2> QED BY <1>0, <2>1, <2>2 DEF WritesTold
<1>4. CASE Crash
  BY <1>4 DEF Crash, Idle, WritesTold
<1>5. ASSUME NEW p \in Procs, Backfill(p)
      PROVE  SavesTold' /\ \A i \in Ids : table'[i] # table[i] /\ table'[i] # NoRow =>
                              Told(table'[i]) \/ LateRead(p, i)
  BY <1>5, BackfillTells
<1> HIDE DEF SavesTold
<1> QED BY <1>1, <1>2, <1>3, <1>4, <1>5 DEF Next, Scheduler

\* Whoever writes a row of the table, however late and whatever the row has become
\* meanwhile, leaves it with the domains of its certificate, but for a read that
\* fills them in when the certificate has been replaced by one for other domains.
THEOREM LateReadsAlone == Spec => OnlyLateReadsMislead
<1>1. DescInv /\ [Next]_vars =>
         [\A i \in Ids : table'[i] # table[i] /\ table'[i] # NoRow =>
             \/ table'[i].domains = table'[i].cert.domains
             \/ \E p \in Procs : LateRead(p, i)]_vars
  BY DescStep DEF Told
<1> QED BY <1>1, DescInit, DescStep, PTL DEF Spec, OnlyLateReadsMislead

\* The domains column of a row is empty or lists the domains of its certificate,
\* unless the certificate was replaced between the two statements of a read.
THEOREM DomainsStayTrue == Spec /\ []ReadsApart => []DomainsDescribeCert
<1>1. Init => DomainsDescribeCert
  BY LegacyAssumption DEF Init, DomainsDescribeCert, Rows
<1>2. ReadsApart /\ DescInv /\ DomainsDescribeCert /\ [Next]_vars => DomainsDescribeCert'
  <2> SUFFICES ASSUME ReadsApart, DescInv, DomainsDescribeCert, [Next]_vars,
                      NEW i \in Ids, table'[i] # NoRow
               PROVE  table'[i].domains \in {Blank, table'[i].cert.domains}
    BY DEF DomainsDescribeCert, Rows
  <2>1. CASE table'[i] = table[i]
    BY <2>1 DEF DomainsDescribeCert, Rows
  <2>2. CASE table'[i] # table[i]
    <3>1. \A p \in Procs : ~LateRead(p, i)
      BY DEF LateRead, ReadsApart, Backfill
    <3> QED BY <2>2, <3>1, DescStep DEF Told
  <2> QED BY <2>1, <2>2
<1> QED BY <1>1, <1>2, DescInit, DescStep, PTL DEF Spec

\* With nothing to fill in no read begins to.
LEMMA FilledStep == FilledInv /\ [Next]_vars => FilledInv'
<1> SUFFICES ASSUME FilledInv, [Next]_vars PROVE FilledInv'
  OBVIOUS
<1>0. DescInv /\ DescInv' /\ req \in [Procs -> Request] /\ Idle.op = "idle"
  BY DescStep DEF FilledInv, DescInv, IInv, MemoryInv, Idle
<1>1. \A p \in Procs : ~Backfill(p)
  BY DEF FilledInv, Backfill
<1>2. ASSUME NEW h \in Rows' PROVE Told(h)
  <2>1. PICK i \in Ids : h = table'[i] /\ h # NoRow
    BY DEF Rows
  <2>2. CASE table'[i] = table[i]
    BY <2>1, <2>2 DEF FilledInv, Rows
  <2>3. CASE table'[i] # table[i]
    BY <1>0, <1>1, <2>1, <2>3, DescStep DEF LateRead
  <2> QED BY <2>2, <2>3
<1>3. ASSUME NEW p \in Procs, NEW found \in SUBSET Rows PROVE ~ReadRows(p, found)
  BY DEF ReadRows, NeedsBackfill, FilledInv, Told
<1>4. ASSUME NEW p \in Procs, Handler(p), NEW x \in Procs PROVE req'[x].op # "backfill"
  <2>1. ASSUME NEW q, Begin(p, q), q.op # "backfill" PROVE req'[x].op # "backfill"
    BY <1>0, <2>1 DEF Begin, FilledInv
  <2>2. CASE Return(p)
    BY <1>0, <2>2 DEF Return, FilledInv
  <2>3. CASE \E n \in Names, u \in Uploads : SaveCertificate(p, n, u)
    <3>1. PICK r : Begin(p, [op |-> "save", rows |-> {r}])
      BY <2>3 DEF SaveCertificate
    <3> QED BY <2>1, <3>1
  <2>4. CASE \E n \in Names, d \in InternalDomains : HandleIssueInternalCert(p, n, d)
    <3>1. PICK r : Begin(p, [op |-> "save", rows |-> {r}])
      BY <2>4 DEF HandleIssueInternalCert
    <3> QED BY <2>1, <3>1
  <2>5. CASE \E n \in Names, f \in AcmeForms : IssueACMECertificate(p, n, f)
    <3>1. PICK n, form : Begin(p, [op |-> "issue", rows |-> Named(n), name |-> n,
                                   form |-> form])
      BY <2>5 DEF IssueACMECertificate
    <3> QED BY <2>1, <3>1
  <2>6. CASE FinishSave(p) \/ FinishIssue(p) \/ FinishWithoutWriting(p)
    BY <2>2, <2>6 DEF FinishSave, FinishIssue, FinishWithoutWriting
  <2>7. ~((\E n \in Names : GetCert(p, n)) \/ ShowDashboard(p))
    BY <1>3 DEF GetCert, ShowDashboard, Named
  <2> QED BY <1>1, <1>4, <2>3, <2>4, <2>5, <2>6, <2>7 DEF Handler
<1>5. CASE (\E n \in Names : DeleteCertificate(n)) \/ Scheduler \/ Tick \/ UNCHANGED vars
  <2>1. req' = req
    BY <1>5 DEF DeleteCertificate, Scheduler, StartPass, SkipRow, RenewRow, FinishRenew,
                RenewFails, Tick, vars
  <2> QED BY <1>0, <1>2, <2>1 DEF FilledInv
<1>6. CASE Crash
  BY <1>0, <1>2, <1>6 DEF Crash, FilledInv
<1> QED BY <1>0, <1>2, <1>4, <1>5, <1>6 DEF Next, FilledInv

\* In an installation with nothing to fill in no read writes, and so it always does.
THEOREM FilledDomainsStayTrue ==
    ASSUME NothingToFillIn PROVE Spec => []DomainsDescribeCert
<1>1. FilledInv => DomainsDescribeCert
  BY DEF FilledInv, Told, DomainsDescribeCert
<1>2. Init => FilledInv
  BY DescInit DEF FilledInv, NothingToFillIn, Rows, Init, Idle
<1> QED BY <1>1, <1>2, FilledStep, PTL DEF Spec
-----------------------------------------------------------------------------
(* The enrolment, while nobody else works on a row that ACME issues for. *)

\* A row with the id and the enrolment of one that is held.
Old(r) == \E g \in Holders : g.id = r.id /\ g.isACME = r.isACME /\ g.provider = r.provider

\* A row the internal CA has just taken over.
TakenOver(r) == r.provider = "internal_ca" /\ ~r.isACME

\* What may be held after a step: a copy still to be created, the row just
\* created, one that is taken over, or one enrolled as before.
Fits(h, new) == h.id = 0 \/ h = new \/ TakenOver(h) \/ Old(h)

\* The rows of the table are as the property wants them after a step.
RowsKept == \A g \in Rows, h \in Rows' : g.id = h.id /\ g.isACME => Kept(h)

LEMMA KeptAfter ==
    ASSUME KeptInv, IInv', NEW new, new.id = nextId, \A h \in Holders' : Fits(h, new),
           \A r \in pass' \cup renewing' : r.isACME
    PROVE  KeptInv' /\ RowsKept
<1>1. \A g \in Holders : g.id # nextId
  BY BoundsAssumption DEF KeptInv, IInv, IdsAgree, TableInv, GoodRow, Row
<1>2. ASSUME NEW h \in Holders', NEW g \in Holders, g.id = h.id, g.id # 0, g.isACME
      PROVE  Kept(h)
  BY <1>1, <1>2 DEF KeptInv, Fits, Old, Kept, TakenOver
<1>3. ASSUME NEW g \in Holders', NEW h \in Holders', g.id = h.id, g.id # 0, g.isACME
      PROVE  Kept(h)
  <2>1. CASE Old(g)
    BY <1>2, <1>3, <2>1 DEF Old
  <2>2. CASE ~Old(g)
    <3>1. g = new
      BY <1>3, <2>2 DEF Fits, TakenOver
    <3>2. ~Old(h)
      BY <1>1, <1>3, <3>1 DEF Old
    <3> QED BY <1>3, <3>1, <3>2 DEF Fits, TakenOver, Kept
  <2> QED BY <2>1, <2>2
<1>4. RowsKept
  <2>1. \A g \in Rows : g.id # 0
    BY RowInTable, BoundsAssumption DEF KeptInv, IInv, Ids
  <2> QED BY <1>2, <2>1 DEF RowsKept, Holders
<1> QED BY <1>3, <1>4 DEF KeptInv, Kept

\* A row of the table is written, as it is or as the row it follows.
LEMMA WriteKeeps ==
    ASSUME KeptInv, IInv', NEW r, Claim(r), Write(r), Copies' \subseteq Copies,
           r.id = 0 \/ TakenOver(r) \/ Old(r), \A h \in pass' \cup renewing' : h.isACME
    PROVE  KeptInv' /\ RowsKept
<1> DEFINE new == [r EXCEPT !.id = nextId]
<1>1. r \in Row /\ new.id = nextId
  BY DEF Claim, GoodRow, Row
<1> HIDE DEF new
<1>2. \A h \in Holders : Old(h)
  BY DEF Old
<1>3. ASSUME NEW h \in Holders' PROVE Fits(h, new)
  <2>1. h \in Holders \/ (r.id # 0 /\ h = r) \/ h = new
    BY WriteHolds DEF KeptInv, new
  <2> QED BY <1>2, <2>1 DEF Fits
<1> QED BY <1>1, <1>3, KeptAfter

\* A handler begins with copies of rows as they are enrolled.
LEMMA BeginKeeps ==
    ASSUME KeptInv, IInv', NEW p \in Procs, NEW q, Begin(p, q),
           \A r \in q.rows : r.id = 0 \/ TakenOver(r) \/ Old(r)
    PROVE  KeptInv' /\ RowsKept
<1>1. \A h \in Holders : Old(h)
  BY DEF Old
<1>2. \A h \in Holders' : Fits(h, [id |-> nextId])
  BY <1>1, BeginHolds DEF KeptInv, Fits
<1>3. UNCHANGED <<pass, renewing>>
  BY DEF Begin
<1> QED BY <1>2, <1>3, KeptAfter DEF KeptInv

\* The copy a handler will write is new, or enrolled as the row it was read from.
LEMMA ReplacedEnrolment ==
    ASSUME NEW n, NEW found \in SUBSET Holders, \A h \in found : h \in Row,
           NEW c \in Cert, NEW k \in Keys, NEW r \in Replace(found, n, c, k)
    PROVE  /\ Uploaded(r).id = 0 \/ Old(Uploaded(r))
           /\ TakenOver(Internal(r))
<1>1. CASE found = {}
  <2>1. r = NewRow(n, c, k)
    BY <1>1 DEF Replace
  <2> QED BY <2>1 DEF NewRow, Uploaded, Internal, TakenOver
<1>2. CASE found # {}
  <2>1. PICK h \in found : r = Install(h, c, k)
    BY <1>2 DEF Replace
  <2>2. h \in Row /\ h \in Holders
    OBVIOUS
  <2>3. r \in [id : 0..MaxId, name : Names, cert : Cert, key : Keys, fp : {Sha256(c)},
                notAfter : {c.notAfter}, domains : Domains \cup {Blank}, isACME : BOOLEAN,
                autoRenew : BOOLEAN, provider : {"manual", "internal_ca"},
                acct : Accounts \cup {Blank}]
        /\ r.id = h.id /\ r.isACME = h.isACME /\ r.provider = h.provider
    BY <2>1, <2>2 DEF Row, Install
  <2>4. TakenOver(Internal(r))
    BY <2>3 DEF Internal, TakenOver
  <2>5. Uploaded(r).id = h.id /\ Uploaded(r).isACME = h.isACME
        /\ Uploaded(r).provider = h.provider
    BY <2>3 DEF Uploaded
  <2> QED BY <2>2, <2>4, <2>5 DEF Old
<1> QED BY <1>1, <1>2

\* The row that an ACME issue writes is enrolled, and whatever copy of it is still
\* held is the scheduler's, which is enrolled too.
LEMMA IssueKeeps ==
    ASSUME IssuesApart, KeptInv, IInv', NEW p \in Procs, FinishIssue(p)
    PROVE  KeptInv' /\ RowsKept
<1>1. Return(p) /\ UNCHANGED <<pass, renewing>> /\ req[p].op = "issue"
  BY DEF FinishIssue
<1>2. /\ Copies' \subseteq Copies
      /\ \A h \in Copies' : h \in pass \cup renewing \/ \E q \in Procs : q # p /\ h \in req[q].rows
  <2>1. req' = [req EXCEPT ![p] = Idle] /\ req \in [Procs -> Request] /\ Idle.rows = {}
    BY <1>1 DEF Return, KeptInv, IInv, MemoryInv, Idle
  <2>2. \A q \in Procs : req'[q].rows = IF q = p THEN {} ELSE req[q].rows
    BY <2>1
  <2> QED BY <1>1, <2>2 DEF Copies
<1>3. PICK w : Claim(w) /\ Write(w) /\ w.isACME /\ (w.id # 0 => w.name = req[p].name)
  <2>1. PICK c \in Issued(req[p].form.domains, AcmeDays) \cap Cert :
           \E r \in Replace(req[p].rows, req[p].name, c, c.key) :
              Claim(Enrolled(r, req[p].form)) /\ Write(Enrolled(r, req[p].form))
    BY IssueWritesClaim DEF KeptInv
  <2>2. PICK r \in Replace(req[p].rows, req[p].name, c, c.key) :
           Claim(Enrolled(r, req[p].form)) /\ Write(Enrolled(r, req[p].form))
    BY <2>1
  <2> DEFINE e == Enrolled(r, req[p].form)
  <2>3. e.isACME /\ (e.id # 0 => e.name = req[p].name)
    <3>1. CASE req[p].rows = {}
      <4>1. r = NewRow(req[p].name, c, c.key)
        BY <3>1 DEF Replace
      <4> QED BY <4>1 DEF NewRow, Enrolled
    <3>2. CASE req[p].rows # {}
      <4>1. PICK h \in req[p].rows : r = Install(h, c, c.key)
        BY <3>2 DEF Replace
      <4>2. h \in Row /\ h.name = req[p].name
        BY <1>1, IssueWritesClaim DEF KeptInv, IInv, GoodRow, MemoryInv
      <4> QED BY <4>1, <4>2 DEF Row, Install, Enrolled
    <3> QED BY <3>1, <3>2
  <2> QED BY <2>2, <2>3
<1>4. \A h \in Holders' : \/ h \in Holders
                          \/ h.isACME /\ (h = w \/ h.id = nextId)
  <2>1. w \in Row
    BY <1>3 DEF Claim, GoodRow
  <2>2. [w EXCEPT !.id = nextId].isACME /\ [w EXCEPT !.id = nextId].id = nextId
    BY <1>3, <2>1 DEF Row
  <2> QED BY <1>2, <1>3, <2>2, WriteHolds DEF KeptInv
<1>5. ASSUME NEW g \in Holders', NEW h \in Holders', g.id = h.id, g.id # 0, g.isACME
      PROVE  Kept(h)
  <2>1. CASE h.isACME \/ (g \in Holders /\ h \in Holders)
    BY <1>5, <2>1 DEF KeptInv, Kept
  <2>2. CASE ~h.isACME /\ h \in Holders /\ g \notin Holders
    <3>1. h.id < nextId /\ nextId \in Nat /\ h.id \in Nat
      BY <2>2, BoundsAssumption DEF KeptInv, IInv, IdsAgree, TableInv, GoodRow, Row
    <3>2. g = w
      BY <1>4, <1>5, <2>2, <3>1
    <3>3. CASE h \in Copies'
      <4>1. PICK q \in Procs : q # p /\ h \in req[q].rows
        BY <1>2, <2>2, <3>3 DEF KeptInv
      <4>2. h.name # req[p].name
        BY <1>1, <1>5, <4>1 DEF IssuesApart
      <4>3. h.name = w.name /\ w.name = req[p].name
        BY <1>3, <1>5, <2>2, <3>2 DEF Claim, KeptInv, IInv, IdsAgree
      <4> QED BY <4>2, <4>3
    <3>4. CASE h \notin Copies'
      <4>1. g \in Rows' /\ h \in Rows'
        BY <1>2, <1>5, <2>2, <3>4 DEF Holders
      <4>2. TableInv'
        BY DEF IInv
      <4> QED BY <1>5, <2>2, <4>1, <4>2 DEF TableInv, Rows
    <3> QED BY <3>3, <3>4
  <2> QED BY <1>4, <1>5, <2>1, <2>2
<1>6. RowsKept
  <2>1. \A g \in Rows : g.id # 0
    BY RowInTable, BoundsAssumption DEF KeptInv, IInv, Ids
  <2> QED BY <1>4, <2>1 DEF RowsKept, KeptInv, Holders, Kept
<1> QED BY <1>1, <1>5, <1>6 DEF KeptInv

LEMMA KeptInit == Init => KeptInv
<1> SUFFICES ASSUME Init PROVE KeptInv
  OBVIOUS
<1>1. Copies = {} /\ pass \cup renewing = {}
  BY DEF Init, Copies, Idle
<1>2. IInv
  BY InitIInv
<1>3. \A g, h \in Rows : g.id = h.id => g = h
  BY <1>2, RowInTable DEF IInv
<1> QED BY <1>1, <1>2, <1>3 DEF KeptInv, Holders, Kept

LEMMA KeptStep == IssuesApart /\ KeptInv /\ [Next]_vars => KeptInv' /\ RowsKept
<1> SUFFICES ASSUME IssuesApart, KeptInv, [Next]_vars PROVE KeptInv' /\ RowsKept
  OBVIOUS
<1>0. IInv /\ IInv' /\ \A h \in Holders : Old(h) /\ h \in Row
  BY NextIInv DEF KeptInv, Old, IInv, GoodRow
<1>1. ASSUME NEW p \in Procs, Handler(p) PROVE KeptInv' /\ RowsKept
  <2>1. ASSUME NEW n \in Names, NEW u \in Uploads, SaveCertificate(p, n, u)
        PROVE  KeptInv' /\ RowsKept
    <3>1. PICK r \in Replace(Named(n), n, u.cert, u.key) :
             Begin(p, [op |-> "save", rows |-> {Uploaded(r)}])
      BY <2>1 DEF SaveCertificate
    <3>2. Uploaded(r).id = 0 \/ Old(Uploaded(r))
      BY <1>0, DataAssumption, NamedLemma, ReplacedEnrolment
    <3> QED BY <1>0, <3>1, <3>2, BeginKeeps
  <2>2. ASSUME NEW n \in Names, NEW d \in InternalDomains, HandleIssueInternalCert(p, n, d)
        PROVE  KeptInv' /\ RowsKept
    <3>1. PICK c \in Issued(d, InternalDays) : \E r \in Replace(Named(n), n, c, c.key) :
             Begin(p, [op |-> "save", rows |-> {Internal(r)}])
      BY <2>2 DEF HandleIssueInternalCert
    <3>2. PICK r \in Replace(Named(n), n, c, c.key) :
             Begin(p, [op |-> "save", rows |-> {Internal(r)}])
      BY <3>1
    <3>3. c \in Cert /\ c.key \in Keys
      BY <1>0, IssuedLemma, DataAssumption, BoundsAssumption DEF IInv
    <3>4. TakenOver(Internal(r))
      BY <1>0, <3>3, NamedLemma, ReplacedEnrolment
    <3> QED BY <1>0, <3>2, <3>4, BeginKeeps
  <2>3. CASE FinishSave(p)
    <3>1. PICK r \in req[p].rows : Write(r)
      BY <2>3 DEF FinishSave
    <3>2. Return(p) /\ UNCHANGED <<pass, renewing>>
      BY <2>3 DEF FinishSave
    <3>3. r \in Holders
      BY DEF Holders, Copies
    <3> QED BY <1>0, <3>1, <3>2, <3>3, HeldIsClaim, ReturnLemma, WriteKeeps DEF KeptInv
  <2>4. ASSUME NEW n \in Names, NEW f \in AcmeForms, IssueACMECertificate(p, n, f)
        PROVE  KeptInv' /\ RowsKept
    <3>1. PICK form : Begin(p, [op |-> "issue", rows |-> Named(n), name |-> n, form |-> form])
      BY <2>4 DEF IssueACMECertificate
    <3> QED BY <1>0, <3>1, BeginKeeps, NamedLemma
  <2>5. CASE FinishIssue(p)
    BY <1>0, <2>5, IssueKeeps
  <2>6. CASE FinishWithoutWriting(p)
    <3>1. Holders' \subseteq Holders /\ UNCHANGED <<pass, renewing>>
      BY <1>0, <2>6, MovesHold DEF FinishWithoutWriting
    <3>2. \A h \in Holders' : Fits(h, [id |-> nextId])
      BY <1>0, <3>1 DEF Fits
    <3> QED BY <1>0, <3>1, <3>2, KeptAfter DEF KeptInv
  <2>7. CASE (\E n \in Names : GetCert(p, n)) \/ ShowDashboard(p)
    <3>1. PICK found \in SUBSET Rows : ReadRows(p, found)
      BY <2>7 DEF GetCert, ShowDashboard, Named
    <3>2. PICK q : Begin(p, q) /\ q.rows \subseteq Rows
      BY <3>1 DEF ReadRows
    <3> QED BY <1>0, <3>2, BeginKeeps DEF Holders
  <2>8. CASE Backfill(p)
    <3>1. Copies' \subseteq Copies /\ UNCHANGED <<pass, renewing>>
      BY <1>0, <2>8, BackfillHolds DEF Backfill
    <3>2. PICK r \in req[p].rows : /\ r.id \in Ids
             /\ \/ table' = table
                \/ /\ table[r.id] # NoRow
                   /\ table' = [table EXCEPT ![r.id].domains = r.cert.domains]
      BY <1>0, <2>8, BackfillHolds
    <3>3. ASSUME NEW h \in Rows' PROVE Old(h)
      <4>1. CASE table' = table
        BY <1>0, <4>1 DEF Rows, Holders
      <4>2. CASE /\ table[r.id] # NoRow
                 /\ table' = [table EXCEPT ![r.id].domains = r.cert.domains]
        <5>1. PICK i \in Ids : h = table'[i]
          BY DEF Rows
        <5>2. table[r.id] \in Rows /\ table \in [Ids -> Row \cup {NoRow}]
          BY <1>0, <3>2, <4>2, TableInRows DEF IInv, TableInv
        <5>3. CASE i # r.id
          <6>1. h = table[i] /\ h # NoRow
            BY <4>2, <5>1, <5>2, <5>3 DEF Rows
          <6> QED BY <1>0, <6>1, TableInRows DEF Holders, IInv
        <5>4. CASE i = r.id
          <6>1. h = [table[r.id] EXCEPT !.domains = r.cert.domains] /\ table[r.id] \in Row
            BY <1>0, <3>2, <4>2, <5>1, <5>2, <5>4 DEF Holders
          <6>2. /\ h.id = table[r.id].id /\ h.isACME = table[r.id].isACME
                /\ h.provider = table[r.id].provider
            BY <6>1 DEF Row
          <6> QED BY <5>2, <6>2 DEF Old, Holders
        <5> QED BY <5>3, <5>4
      <4> QED BY <3>2, <4>1, <4>2
    <3>4. \A h \in Holders' : Fits(h, [id |-> nextId])
      BY <1>0, <3>1, <3>3 DEF Fits, Holders
    <3> QED BY <1>0, <3>1, <3>4, KeptAfter DEF KeptInv
  <2> QED BY <1>1, <2>1, <2>2, <2>3, <2>4, <2>5, <2>6, <2>7, <2>8 DEF Handler
<1>2. ASSUME NEW r \in renewing, FinishRenew(r) PROVE KeptInv' /\ RowsKept
  <2>1. PICK c \in Issued(r.domains, AcmeDays) : Save(Install(r, c, c.key))
    BY <1>2 DEF FinishRenew
  <2>2. renewing' = {} /\ UNCHANGED <<req, pass, now, crashes>>
    BY <1>2 DEF FinishRenew
  <2>3. r \in Holders /\ GoodRow(r) /\ r.id # 0
    BY <1>0 DEF IInv, Holders, Copies, MemoryInv
  <2>4. c \in Cert /\ c.key \in Keys /\ Valid(c, c.key)
    BY <1>0, <2>3, IssuedLemma, BoundsAssumption DEF IInv, GoodRow, Row
  <2>5. Claim(Install(r, c, c.key)) /\ Install(r, c, c.key).id # 0
    BY <2>3, <2>4, InstallLemma DEF Claim
  <2>6. Write(Install(r, c, c.key))
    BY <2>1, <2>5 DEF Write
  <2>7. Old(Install(r, c, c.key))
    <3>1. /\ Install(r, c, c.key).id = r.id /\ Install(r, c, c.key).isACME = r.isACME
          /\ Install(r, c, c.key).provider = r.provider
      BY <2>3 DEF GoodRow, Row, Install
    <3> QED BY <2>3, <3>1 DEF Old
  <2>8. Copies' \subseteq Copies /\ \A h \in pass' \cup renewing' : h.isACME
    BY <2>2 DEF Copies, KeptInv
  <2> QED BY <1>0, <2>5, <2>6, <2>7, <2>8, WriteKeeps
<1>3. CASE \/ \E n \in Names : DeleteCertificate(n)
           \/ StartPass \/ SkipRow \/ RenewRow \/ RenewFails \/ Crash \/ Tick
           \/ UNCHANGED vars
  <2>1. Holders' \subseteq Holders
    BY <1>0, <1>3, MovesHold
  <2>2. \A r \in pass' \cup renewing' : r.isACME
    BY <1>3 DEF KeptInv, DeleteCertificate, StartPass, SkipRow, RenewRow, RenewFails, Crash,
                Tick, vars
  <2>3. \A h \in Holders' : Fits(h, [id |-> nextId])
    BY <1>0, <2>1 DEF Fits
  <2> QED BY <1>0, <2>2, <2>3, KeptAfter
<1> QED BY <1>1, <1>2, <1>3 DEF Next, Scheduler

\* Unless another request holds a copy of a row that ACME issues for, no upload,
\* late renewal or restart takes a row away from the scheduler; the internal CA
\* alone does.
THEOREM EnrolmentStays == Spec /\ []IssuesApart => EnrolmentKept
<1> DEFINE Stays == \A i \in Ids :
              table[i] # NoRow /\ table[i].isACME /\ table'[i] # NoRow =>
                 table'[i].isACME \/ table'[i].provider = "internal_ca"
<1>1. KeptInv /\ KeptInv' /\ RowsKept => Stays
  <2> SUFFICES ASSUME KeptInv, KeptInv', RowsKept, NEW i \in Ids,
                      table[i] # NoRow, table[i].isACME, table'[i] # NoRow
               PROVE  Kept(table'[i])
    BY DEF Kept
  <2>1. table[i] \in Rows /\ table'[i] \in Rows' /\ table[i].id = i /\ table'[i].id = i
    BY DEF KeptInv, IInv, TableInv, Rows
  <2> QED BY <2>1 DEF RowsKept
<1> HIDE DEF Stays
<1>2. IssuesApart /\ KeptInv /\ [Next]_vars => KeptInv' /\ [Stays]_vars
  BY <1>1, KeptStep
<1>3. Spec /\ []IssuesApart => [][Stays]_vars
  BY <1>2, KeptInit, PTL DEF Spec
<1> QED BY <1>3 DEF EnrolmentKept, Stays
=============================================================================
