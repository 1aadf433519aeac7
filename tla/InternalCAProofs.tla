-------------------------- MODULE InternalCAProofs --------------------------
(***************************************************************************)
(* Proofs about InternalCA, for any number of requests, roots, failed      *)
(* writes and restarts.                                                    *)
(*                                                                         *)
(* That a completed change leaves a matching pair is not inductive: it     *)
(* needs what the handler knows between its two statements.  A change that *)
(* is apart is the only one under way, and once it has stored the          *)
(* certificate, that is the certificate in the settings until it stores    *)
(* the key.  That what is issued was the configured root needs what a      *)
(* request knows between its two reads: a root whose certificate it has    *)
(* read and that has not been whole since cannot have its key in the       *)
(* settings, and a change that is apart cannot put it there without making *)
(* the root whole.                                                         *)
(***************************************************************************)
EXTENDS InternalCA, TLAPS

\* What requests hold has been a root.
HeldInv ==
    \A p \in Procs : req[p].cert \in used \cup {NoPEM} /\ req[p].key \in used \cup {NoPEM}

\* The root whose certificate has been read has been whole, or its key is not
\* there; when the key has been read too, it is another one or the root has been
\* whole.
ReadInv ==
    \A p \in Procs : req[p].apart =>
       /\ req[p].pc = "getkey" /\ req[p].cert = key => req[p].cert \in req[p].whole
       /\ req[p].pc = "sign" /\ req[p].cert = req[p].key
             => req[p].cert \in req[p].whole

\* What a change is going to store matches.
MatchInv == \A p \in Procs : Changing(p) => req[p].cert = req[p].key

\* A change that is apart is the only one, and has stored its certificate when
\* it comes to the key.
AloneInv ==
    \A p \in Procs : Changing(p) /\ req[p].apart =>
       /\ \A q \in Procs \ {p} : ~Changing(q)
       /\ req[p].pc = "setkey" => cert = req[p].cert

IInv == TypeOK /\ HeldInv /\ MatchInv /\ AloneInv /\ ReadInv
-----------------------------------------------------------------------------
\* The three handlers that change the root begin by holding a matching pair;
\* the change is apart if no other is under way, and no other is apart any more.
LEMMA BeginStoreKeepsInv ==
    ASSUME IInv, NEW p \in Procs, NEW c \in used' \cup {NoPEM},
           used \subseteq used', used' \subseteq Roots, BeginStore(p, c, c)
    PROVE  IInv'
<1> DEFINE New == [pc |-> "setcert", cert |-> c, key |-> c,
                   apart |-> \A o \in Procs : ~Changing(o), whole |-> {}]
<1>1. New \in Request
  BY DEF Request, Setting, IInv, TypeOK
<1>2. req'[p] = New
  BY DEF BeginStore, Idle
<1>3. \A q \in Procs \ {p} :
         req'[q] = IF Changing(q) THEN [req[q] EXCEPT !.apart = FALSE] ELSE req[q]
  BY DEF BeginStore
<1>4. \A q \in Procs : req[q] \in Request
  BY DEF IInv, TypeOK
<1>5. \A q \in Procs \ {p} :
         /\ req'[q] \in Request
         /\ req'[q].pc = req[q].pc /\ req'[q].cert = req[q].cert
         /\ req'[q].key = req[q].key /\ req'[q].whole = req[q].whole
         /\ ~Changing(q) => req'[q] = req[q]
         /\ Changing(q) => req'[q].apart = FALSE
  BY <1>3, <1>4 DEF Request
<1>6. UNCHANGED <<cert, key, failures, crashes>>
  BY DEF BeginStore
<1>7. TypeOK'
  <2>1. req' \in [Procs -> Request]
    BY <1>1, <1>2, <1>5 DEF BeginStore
  <2>2. \A q \in Procs : req'[q].pc = "sign" => NoPEM \notin {req'[q].cert, req'[q].key}
    BY <1>2, <1>5 DEF IInv, TypeOK
  <2> QED
    BY <2>1, <2>2, <1>6 DEF IInv, TypeOK
<1>8. HeldInv'
  BY <1>2, <1>5 DEF IInv, HeldInv
<1>9. MatchInv'
  BY <1>2, <1>5 DEF IInv, MatchInv, Changing
<1>10. AloneInv'
  BY <1>2, <1>5 DEF IInv, AloneInv, Changing
<1>11. ReadInv'
  BY <1>2, <1>5, <1>6 DEF IInv, ReadInv, Changing
<1> QED
  BY <1>7, <1>8, <1>9, <1>10, <1>11 DEF IInv

\* A request that issues takes notes of a write and goes on as before.
LEMMA WatchKeeps ==
    ASSUME NEW q, req[q] \in Request, NEW c \in Setting, NEW k \in Setting,
           NEW apart \in BOOLEAN
    PROVE  LET w == Watch(q, c, k, apart)
           IN  /\ w \in Request
               /\ w.pc = req[q].pc /\ w.cert = req[q].cert /\ w.key = req[q].key
               /\ ~Issuing(q) => w = req[q]
               /\ Issuing(q) => /\ w.whole = req[q].whole \cup ({c} \cap {k})
                                /\ w.apart = (req[q].apart /\ apart)
BY DEF Watch, WholeRoot, Request

\* Every step of a request, and every restart, keeps the invariant.
THEOREM InvIsInductive == IInv /\ [Next]_vars => IInv'
<1> SUFFICES ASSUME IInv, [Next]_vars PROVE IInv'
  OBVIOUS
<1> USE DEF IInv
<1>t. \A p \in Procs : req[p] \in Request
  BY DEF TypeOK
<1>i. Idle \in Request
  BY DEF Idle, Request, Setting
<1>1. ASSUME NEW p \in Procs, HandleGenerateRootCA(p) PROVE IInv'
  <2>1. PICK r \in Roots \ used : used' = used \cup {r} /\ BeginStore(p, r, r)
    BY <1>1 DEF HandleGenerateRootCA
  <2> QED
    BY <2>1, BeginStoreKeepsInv DEF TypeOK
<1>2. ASSUME NEW p \in Procs, HandleUploadRootCA(p) PROVE IInv'
  <2>1. PICK u \in Uploads : /\ u.cert = u.key /\ used' = used \cup {u.cert}
                             /\ BeginStore(p, u.cert, u.key)
    BY <1>2 DEF HandleUploadRootCA
  <2>2. u.cert \in Roots
    BY RootsAssumption
  <2>3. BeginStore(p, u.cert, u.cert)
    BY <2>1
  <2> QED
    BY <2>1, <2>2, <2>3, BeginStoreKeepsInv DEF TypeOK
<1>3. ASSUME NEW p \in Procs, HandleDeleteRootCA(p) PROVE IInv'
  BY <1>3, BeginStoreKeepsInv DEF HandleDeleteRootCA, TypeOK
<1>4. ASSUME NEW p \in Procs, StoreCert(p) PROVE IInv'
  <2>1. /\ cert' \in used \cup {NoPEM} /\ failures' \in 0..MaxFailures
        /\ failures' = failures => cert' = req[p].cert
    BY <1>4, BoundsAssumption DEF StoreCert, SetSetting, TypeOK, HeldInv
  <2>2. /\ req' = [q \in Procs |->
                     IF q = p THEN [req[p] EXCEPT !.pc = "setkey",
                                                  !.apart = @ /\ failures' = failures]
                     ELSE Watch(q, cert', key, TRUE)]
    BY <1>4 DEF StoreCert
  <2>9. req[p].pc = "setcert" /\ UNCHANGED <<key, used, crashes>>
    BY <1>4 DEF StoreCert
  <2>3. /\ req'[p] \in Request /\ req'[p].pc = "setkey"
        /\ req'[p].cert = req[p].cert /\ req'[p].key = req[p].key
        /\ req'[p].apart => req[p].apart /\ failures' = failures
    BY <1>t, <2>2 DEF Request, TypeOK
  <2>4. \A q \in Procs \ {p} :
           /\ req'[q] \in Request
           /\ req'[q].pc = req[q].pc /\ req'[q].cert = req[q].cert
           /\ req'[q].key = req[q].key
           /\ ~Issuing(q) => req'[q] = req[q]
           /\ Issuing(q) => /\ req[q].whole \subseteq req'[q].whole
                            /\ req'[q].apart = req[q].apart
    <3> SUFFICES ASSUME NEW q \in Procs \ {p}
                 PROVE  /\ req'[q] \in Request
                        /\ req'[q].pc = req[q].pc /\ req'[q].cert = req[q].cert
                        /\ req'[q].key = req[q].key
                        /\ ~Issuing(q) => req'[q] = req[q]
                        /\ Issuing(q) => /\ req[q].whole \subseteq req'[q].whole
                                         /\ req'[q].apart = req[q].apart
      OBVIOUS
    <3>1. cert' \in Setting /\ key \in Setting /\ req[q] \in Request
      BY <1>t, <2>1 DEF TypeOK, Setting
    <3>2. req'[q] = Watch(q, cert', key, TRUE)
      BY <2>2
    <3>3. CASE Issuing(q)
      <4>1. req'[q] = [req[q] EXCEPT !.whole = @ \cup ({cert'} \cap {key}),
                                     !.apart = @ /\ TRUE]
        BY <3>2, <3>3 DEF Watch, WholeRoot
      <4>2. (req[q].apart /\ TRUE) = req[q].apart
        BY <3>1 DEF Request
      <4>3. req'[q] = [req[q] EXCEPT !.whole = @ \cup ({cert'} \cap {key})]
        BY <3>1, <4>1, <4>2 DEF Request
      <4> QED
        BY <3>1, <3>3, <4>3 DEF Request
    <3>4. CASE ~Issuing(q)
      BY <3>1, <3>2, <3>4 DEF Watch
    <3> QED
      BY <3>3, <3>4
  <2>5. TypeOK'
    <3>1. req' \in [Procs -> Request]
      BY <1>t, <2>2, <2>3, <2>4
    <3>2. \A q \in Procs : req'[q].pc = "sign" => NoPEM \notin {req'[q].cert, req'[q].key}
      BY <2>3, <2>4 DEF TypeOK
    <3> QED
      BY <2>1, <2>9, <3>1, <3>2 DEF TypeOK
  <2>6. HeldInv' /\ MatchInv'
    BY <2>3, <2>4, <2>9 DEF HeldInv, MatchInv, Changing
  <2>7. AloneInv'
    BY <2>1, <2>3, <2>4, <2>9 DEF AloneInv, Changing, Issuing
  <2>8. ReadInv'
    BY <2>3, <2>4, <2>9 DEF ReadInv, Issuing
  <2> QED
    BY <2>5, <2>6, <2>7, <2>8
<1>5. ASSUME NEW p \in Procs, StoreKey(p) PROVE IInv'
  <2>1. key' \in used \cup {NoPEM} /\ failures' \in 0..MaxFailures
    BY <1>5, BoundsAssumption DEF StoreKey, SetSetting, TypeOK, HeldInv
  <2>2. /\ req' = [q \in Procs |-> IF q = p THEN Idle
                                 ELSE Watch(q, cert, key', req[p].apart)]
        /\ UNCHANGED <<cert, used, crashes>>
    BY <1>5 DEF StoreKey
  <2>3. \A q \in Procs \ {p} :
           /\ req'[q] \in Request
           /\ req'[q].pc = req[q].pc /\ req'[q].cert = req[q].cert
           /\ req'[q].key = req[q].key
           /\ ~Issuing(q) => req'[q] = req[q]
           /\ Issuing(q) => /\ req'[q].whole = req[q].whole \cup ({cert} \cap {key'})
                            /\ req'[q].apart = (req[q].apart /\ req[p].apart)
    <3>1. cert \in Setting /\ key' \in Setting /\ req[p].apart \in BOOLEAN
      BY <1>t, <2>1 DEF TypeOK, Setting, Request
    <3> QED
      BY <1>t, <2>2, <3>1, WatchKeeps
  <2>4. req'[p] = Idle
    BY <2>2
  <2>5. TypeOK'
    <3>1. req' \in [Procs -> Request]
      BY <1>i, <2>2, <2>3, <2>4
    <3>2. \A q \in Procs : req'[q].pc = "sign" => NoPEM \notin {req'[q].cert, req'[q].key}
      BY <2>3, <2>4 DEF TypeOK, Idle
    <3> QED
      BY <2>1, <2>2, <3>1, <3>2 DEF TypeOK
  <2>6. HeldInv' /\ MatchInv' /\ AloneInv'
    BY <2>2, <2>3, <2>4 DEF HeldInv, MatchInv, AloneInv, Changing, Issuing, Idle
  \* The key becomes that of the certificate read: the change was apart, and has
  \* just made its root whole.
  <2>7. ReadInv'
    <3>1. req[p].apart => \/ key' = key
                          \/ cert = req[p].cert /\ key' = req[p].key /\ cert = key'
      BY <1>5 DEF StoreKey, SetSetting, AloneInv, MatchInv, Changing
    <3> SUFFICES ASSUME NEW q \in Procs \ {p}, req'[q].apart, Issuing(q)
                 PROVE  /\ req[q].pc = "getkey" /\ req[q].cert = key'
                              => req[q].cert \in req'[q].whole
                        /\ req[q].pc = "sign" /\ req[q].cert = req[q].key
                              => req[q].cert \in req'[q].whole
      BY <2>3, <2>4 DEF ReadInv, Issuing, Idle
    <3>2. req[q].apart /\ req[p].apart
      BY <2>3
    <3>3. CASE key' = key
      BY <2>3, <3>2, <3>3 DEF ReadInv
    <3>4. CASE cert = key'
      BY <2>3, <3>2, <3>4 DEF ReadInv
    <3> QED
      BY <3>1, <3>2, <3>3, <3>4
  <2> QED
    BY <2>5, <2>6, <2>7
<1>6. ASSUME NEW p \in Procs, HandleIssueInternalCert(p) PROVE IInv'
  <2> DEFINE New == [Idle EXCEPT !.pc = "getkey", !.whole = WholeRoot(cert, key),
                                 !.cert = cert]
  <2>1. /\ req' = [req EXCEPT ![p] = New]
        /\ UNCHANGED <<cert, key, used, failures, crashes>>
    BY <1>6 DEF HandleIssueInternalCert, ReadOrder, Stored, Idle
  <2>2. /\ New \in Request /\ New.pc = "getkey"
        /\ New.cert = cert /\ New.key = NoPEM /\ New.whole = {cert} \cap {key}
    BY DEF Idle, Request, Setting, TypeOK, WholeRoot
  <2> HIDE DEF New
  <2> QED
    BY <2>1, <2>2
    DEF TypeOK, HeldInv, MatchInv, AloneInv, ReadInv, Changing
<1>7. ASSUME NEW p \in Procs, ReadKey(p) PROVE IInv'
  <2> DEFINE Read == [req[p] EXCEPT !.pc = "sign", !.key = key]
             New == IF NoPEM \in {Read.cert, Read.key} THEN Idle ELSE Read
  <2>1. /\ req' = [req EXCEPT ![p] = New]
        /\ req[p].pc = "getkey" /\ UNCHANGED <<cert, key, used, failures, crashes>>
    BY <1>7, <1>t DEF ReadKey, ReadOrder, Stored, Request
  <2>2. /\ New \in Request
        /\ New.cert \in used \cup {NoPEM} /\ New.key \in used \cup {NoPEM}
        /\ New.pc = "sign" => NoPEM \notin {New.cert, New.key}
        /\ \/ New.pc = "idle"
           \/ /\ New.pc = "sign" /\ New.cert = req[p].cert /\ New.key = key
              /\ New.whole = req[p].whole /\ New.apart = req[p].apart
    BY <1>t DEF Idle, Request, Setting, TypeOK, HeldInv
  <2> HIDE DEF New
  <2>3. /\ req'[p] = New
        /\ \A q \in Procs \ {p} : req'[q] = req[q]
    BY <2>1 DEF TypeOK
  <2>4. TypeOK'
    BY <2>1, <2>2 DEF TypeOK
  <2>5. HeldInv' /\ MatchInv'
    BY <2>1, <2>2, <2>3 DEF HeldInv, MatchInv, Changing
  <2>6. AloneInv'
    BY <2>1, <2>2, <2>3 DEF AloneInv, Changing
  <2>7. ReadInv'
    BY <2>1, <2>2, <2>3 DEF ReadInv
  <2> QED
    BY <2>4, <2>5, <2>6, <2>7
<1>8. ASSUME NEW p \in Procs, IssueInternalCert(p) \/ IssueFails(p) PROVE IInv'
  <2>1. /\ req' = [req EXCEPT ![p] = Idle]
        /\ UNCHANGED <<cert, key, used, failures, crashes>>
    BY <1>8 DEF IssueInternalCert, IssueFails
  <2>2. TypeOK'
    BY <1>i, <2>1 DEF TypeOK, Idle
  <2> QED
    BY <2>1, <2>2 DEF TypeOK, HeldInv, MatchInv, AloneInv, ReadInv, Changing, Idle
<1>9. CASE Crash
  <2>1. /\ \A q \in Procs : req'[q] = Idle
        /\ UNCHANGED <<cert, key, used, failures>>
    BY <1>9 DEF Crash
  <2>2. TypeOK'
    BY <1>9, <1>i, <2>1, BoundsAssumption DEF Crash, TypeOK, Idle
  <2> QED
    BY <2>1, <2>2 DEF HeldInv, MatchInv, AloneInv, ReadInv, Changing, Idle
<1>10. CASE UNCHANGED vars
  BY <1>10 DEF vars, TypeOK, HeldInv, MatchInv, AloneInv, ReadInv, Changing
<1> QED
  BY <1>1, <1>2, <1>3, <1>4, <1>5, <1>6, <1>7, <1>8, <1>9, <1>10 DEF Next

\* The invariant holds of every reachable state.
THEOREM Invariance == Spec => []IInv
<1>1. Init => IInv
  BY BoundsAssumption DEF Init, IInv, TypeOK, HeldInv, MatchInv, AloneInv,
     ReadInv, Changing, Idle, Request, Setting
<1> QED
  BY <1>1, InvIsInductive, PTL DEF Spec

\* Types; only roots that exist are stored, and nothing is signed without both
\* settings.
THEOREM TypeCorrect == Spec => []TypeOK
<1>1. IInv => TypeOK
  BY DEF IInv
<1> QED
  BY <1>1, Invariance, PTL

\* What is issued is issued by a root that was the configured one at some moment
\* of the request, although certificate and key are read and written apart.
THEOREM ConfiguredRootIssues == Spec => IssuedByConfiguredRoot
<1> DEFINE Configured == \A p \in Procs : IssueInternalCert(p) /\ req[p].apart
                                             => req[p].cert \in req[p].whole
<1>1. IInv => Configured
  BY DEF IInv, ReadInv, IssueInternalCert, CreateCertificate
<1> QED
  BY <1>1, Invariance, PTL DEF IssuedByConfiguredRoot

\* A change of the root that is disturbed by no other and by no failed write
\* leaves a matching pair, whatever was there before.
THEOREM CompletedStoresMatch == Spec => CompletedStoreMatches
<1> DEFINE Matches == \A p \in Procs :
                         StoreKey(p) /\ req[p].apart /\ failures' = failures
                            => cert' = key'
<1>1. IInv => Matches
  <2> SUFFICES ASSUME IInv, NEW p \in Procs, StoreKey(p), req[p].apart,
                      failures' = failures
               PROVE  cert' = key'
    OBVIOUS
  <2>1. key' = req[p].key
    BY BoundsAssumption DEF StoreKey, SetSetting, IInv, TypeOK
  <2>2. cert' = req[p].cert
    BY DEF StoreKey, IInv, AloneInv, Changing
  <2>3. req[p].cert = req[p].key
    BY DEF StoreKey, IInv, MatchInv, Changing
  <2> QED
    BY <2>1, <2>2, <2>3
<1> QED
  BY <1>1, Invariance, PTL DEF CompletedStoreMatches
=============================================================================
