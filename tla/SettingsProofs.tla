--------------------------- MODULE SettingsProofs ---------------------------
(***************************************************************************)
(* Proofs about Settings, for any number of requests, saves, passwords,    *)
(* failed writes and restarts.                                             *)
(***************************************************************************)
EXTENDS Settings, SequenceTheorems, TLAPS

-----------------------------------------------------------------------------
(* The inductive invariant.  A save that runs belongs to one request; the  *)
(* saves before a save have ended.  A save has passed a row when it has    *)
(* written it or failed to; a row a save has passed without failing is its *)
(* own or that of a save that had not ended when it was submitted.  The    *)
(* save whose switch was read has passed the host and the user.            *)

Saving(p) == req[p].op = "save"

ReqInv ==
    \A p \in Procs :
       /\ req[p].at \in {"rows", "store"} => Saving(p)
       /\ req[p].at = "compare" => req[p].copy \in Text
       /\ Saving(p) => /\ req[p].id # 0 /\ req[p].id \notin Ended
                       /\ req[p].at = "rows" \/ req[p].row = 5
                       /\ \A q \in Procs : Saving(q) /\ req[q].id = req[p].id => q = p

BeforeInv == \A i \in 1..Len(saves) : saves[i].before \subseteq {0} \cup Ended

\* Save i has passed the first k of the rows in WriteOrder.
Passed(i, k) ==
    i \in Ended \/ \E p \in Procs : Saving(p) /\ req[p].id = i /\ req[p].row > k

RowInv ==
    \A i \in 1..Len(saves), k \in 1..4 : Passed(i, k) /\ ~saves[i].failed =>
       proxy[WriteOrder[k]] \notin saves[i].before

WriterInv == proxy["enable"] # 0 => Passed(proxy["enable"], 3)

ReaderInv ==
    LET e == reader.got["enable"]
    IN  reader.ended \subseteq Ended /\ (e # 0 => Passed(e, 3))

SaveInv == ReqInv /\ BeforeInv /\ RowInv /\ WriterInv /\ ReaderInv /\ NewProxyIsWhole

Inv == TypeOK /\ SaveInv
-----------------------------------------------------------------------------
LEMMA Orders ==
    /\ WriteOrder[1] = "host" /\ WriteOrder[2] = "user"
    /\ WriteOrder[3] = "enable" /\ WriteOrder[4] = "auth"
    /\ ReadOrder[1] = "enable" /\ ReadOrder[2] = "host"
    /\ ReadOrder[3] = "auth" /\ ReadOrder[4] = "user"
    /\ \A k \in 1..4 : WriteOrder[k] \in ProxyRows /\ ReadOrder[k] \in ProxyRows
    /\ \A r \in ProxyRows : \E k \in 1..4 : r = WriteOrder[k]
BY DEF WriteOrder, ReadOrder, ProxyRows

LEMMA IdleRequest ==
    /\ Idle \in Request /\ Idle.at = "idle" /\ Idle.op = "none" /\ Idle.id = 0
    /\ Idle.row = 1 /\ Idle.copy = NoCopy
<1>1. Empty \in Text /\ 0 \in Ids
  BY SettingsAssumption DEF Empty, PlainText, Text, Ids
<1> QED BY <1>1 DEF Idle, Request

\* What bcrypt makes of a text is not plain text.
LEMMA HashIsText ==
    ASSUME NEW text \in Text
    PROVE  /\ HashPassword(text).depth > 0
           /\ text.depth < MaxDepth => HashPassword(text) \in Text
<1>1. MaxDepth \in Nat /\ text.depth \in 0..MaxDepth
  BY SettingsAssumption DEF Text
<1>2. HashPassword(text) = [depth |-> text.depth + 1, pw |-> text.pw]
  BY DEF HashPassword, Text
<1>3. text.depth < MaxDepth => text.depth + 1 \in 0..MaxDepth
  BY <1>1
<1>4. text.pw \in Passwords \cup {NoPassword}
  BY DEF Text
<1> HIDE DEF HashPassword
<1> QED BY <1>1, <1>2, <1>3, <1>4 DEF Text

LEMMA Initially == Init => Inv
<1> SUFFICES ASSUME Init PROVE Inv
  OBVIOUS
<1> USE SettingsAssumption DEF Init
<1>1. saves \in Seq(Save) /\ Len(saves) = 0 /\ 1..Len(saves) = {}
  OBVIOUS
<1>2. Idle \in Request /\ Idle.at = "idle" /\ Idle.op = "none" /\ Idle.id = 0
  BY IdleRequest
<1>3. NotReading \in Reader /\ NotReading.n = 0 /\ NotReading.ended = {}
      /\ NotReading.got = [r \in ProxyRows |-> 0]
  BY DEF NotReading, Reader, Ids
<1>4. password \in Text
  BY DEF Text
<1>5. TypeOK
  <2>1. /\ proxy \in [ProxyRows -> 0..Len(saves)] /\ Len(saves) <= MaxSaves
        /\ faults \in 0..MaxFaults
    BY <1>1
  <2>2. /\ req \in [Procs -> Request]
        /\ \A p \in Procs : req[p].id \in 0..Len(saves) /\ req[p].at # "store"
    BY <1>1, <1>2
  <2>3. reader \in Reader /\ reader.got \in [ProxyRows -> 0..Len(saves)]
    BY <1>1, <1>3
  <2> HIDE DEF Init
  <2> QED BY <1>1, <1>4, <2>1, <2>2, <2>3 DEF TypeOK
<1>6. ReqInv /\ BeforeInv /\ RowInv
  BY <1>1, <1>2 DEF ReqInv, BeforeInv, RowInv, Saving
<1>7. WriterInv /\ ReaderInv /\ NewProxyIsWhole
  BY <1>1, <1>3 DEF WriterInv, ReaderInv, NewProxyIsWhole, ProxyRows
<1> QED BY <1>5, <1>6, <1>7 DEF Inv, SaveInv

\* What a step does to the saves: it adds one, or lets one fail or end.
Grows ==
    /\ saves' \in Seq(Save) /\ Len(saves') >= Len(saves)
    /\ \A i \in 1..Len(saves) :
          /\ saves'[i].on = saves[i].on
          /\ saves'[i].before = saves[i].before
          /\ saves[i].failed => saves'[i].failed
          /\ saves[i].state # "running" => saves'[i].state # "running"

PassedStays == \A i \in 1..Len(saves), k \in 1..4 : Passed(i, k) => Passed(i, k)'

\* Nothing a connection has read is made wrong by what is done to the saves.
LEMMA ReaderKept ==
    ASSUME Inv, Grows, PassedStays, UNCHANGED reader
    PROVE  ReaderInv' /\ NewProxyIsWhole'
<1> DEFINE e == reader.got["enable"]
<1> USE DEF Inv, SaveInv
<1>1. e \in 0..Len(saves) /\ reader' = reader /\ Len(saves) \in Nat
  BY DEF TypeOK, ProxyRows
<1>2. ReaderInv'
  <2>1. Ended \subseteq Ended'
    BY <1>1 DEF Ended, Grows
  <2> QED BY <1>1, <2>1 DEF ReaderInv, PassedStays
<1>3. NewProxyIsWhole'
  <2> SUFFICES ASSUME NEW i \in 1..Len(saves'), ~saves'[i].failed, ~reader.failed
               PROVE  /\ e = i /\ IsOn(i)' => NotOlder("host", i)' /\ NotOlder("user", i)'
                      /\ i \in reader.ended => \A r \in ProxyRows : NotOlder(r, i)'
    BY <1>1 DEF NewProxyIsWhole
  <2>1. CASE i \in 1..Len(saves)
    <3>1. saves'[i].before = saves[i].before /\ saves'[i].on = saves[i].on /\ ~saves[i].failed
      BY <2>1 DEF Grows
    <3>2. \A r : NotOlder(r, i) => NotOlder(r, i)'
      BY <1>1, <3>1 DEF NotOlder, RowsRead
    <3> QED BY <1>1, <2>1, <3>1, <3>2 DEF NewProxyIsWhole, IsOn, ProxyRows
  <2>2. CASE i \notin 1..Len(saves)
    <3>1. e # i /\ i \notin reader.ended
      BY <1>1, <2>2 DEF ReaderInv, Ended
    <3> QED BY <3>1
  <2> QED BY <2>1, <2>2
<1> QED BY <1>2, <1>3

\* The request that a save, and no other, belongs to.
LEMMA SavingIsRunning ==
    ASSUME Inv, NEW p \in Procs, Saving(p)
    PROVE  /\ req[p].id \in 1..Len(saves) /\ saves[req[p].id] \in Save
           /\ saves[req[p].id].state = "running"
           /\ \A i \in 1..Len(saves) : req[p].id \notin saves[i].before
<1> USE DEF Inv, SaveInv
<1>1. req[p].id \in 1..Len(saves) /\ req[p].id \notin Ended
  BY DEF ReqInv, TypeOK
<1>2. saves[req[p].id] \in Save /\ saves[req[p].id].state = "running"
  BY <1>1 DEF TypeOK, Ended
<1>3. \A i \in 1..Len(saves) : req[p].id \notin saves[i].before
  BY <1>1 DEF BeforeInv
<1> QED BY <1>1, <1>2, <1>3

LEMMA SubmitStep ==
    ASSUME Inv, NEW p \in Procs, NEW form \in Forms, SaveSettings(p, form)
    PROVE  Inv'
<1> USE SettingsAssumption DEF Inv, SaveInv
<1> DEFINE v == [on |-> form.on, host |-> form.host, failed |-> FALSE, state |-> "running",
                 before |-> {0} \cup Ended]
           r == [Idle EXCEPT !.at = "rows", !.op = "save", !.id = Len(saves) + 1,
                             !.typed = form.typed, !.new = form.new]
<1>1. /\ saves \in Seq(Save) /\ Len(saves) \in Nat /\ Len(saves) + 1 \in 1..MaxSaves
      /\ req \in [Procs -> Request]
  BY DEF TypeOK, SaveSettings
<1>2. /\ saves' = Append(saves, v) /\ req' = [req EXCEPT ![p] = r] /\ req[p] = Idle
      /\ UNCHANGED <<password, proxy, reader, faults>>
  BY DEF SaveSettings
<1>3. /\ v \in Save /\ v.before = {0} \cup Ended /\ ~v.failed /\ v.state = "running"
  BY <1>1 DEF Save, Ids, Ended, Form
<1>4. /\ r \in Request /\ r.at = "rows" /\ r.op = "save" /\ r.id = Len(saves) + 1
      /\ r.row = 1 /\ Idle.op = "none"
  <2>1. form.typed \in Text /\ form.new \in Text
    BY DEF Form
  <2>2. Len(saves) + 1 \in Ids /\ "rows" \in {"idle", "rows", "read", "compare", "store"}
        /\ "save" \in {"none", "save", "login"}
    BY <1>1 DEF Ids
  <2>3. Idle \in Request /\ Idle.op = "none" /\ Idle.row = 1
    BY IdleRequest
  <2>4. r \in Request
    BY <2>1, <2>2, <2>3 DEF Request
  <2>5. r.row = Idle.row
    OBVIOUS
  <2> QED BY <2>3, <2>4, <2>5 DEF Request
<1> HIDE DEF v, r
<1>5. /\ saves' \in Seq(Save) /\ Len(saves') = Len(saves) + 1
      /\ saves'[Len(saves) + 1] = v
      /\ \A i \in 1..Len(saves) : saves'[i] = saves[i]
  BY <1>1, <1>2, <1>3
<1>6. /\ req' \in [Procs -> Request] /\ req'[p] = r
      /\ \A q \in Procs : q # p => req'[q] = req[q]
  BY <1>1, <1>2, <1>4
<1>7. \A q \in Procs : Saving(q) => q # p /\ req[q].id \in 1..Len(saves)
  BY <1>2, <1>4, SavingIsRunning DEF Saving
<1>8. TypeOK'
  <2>1. \A q \in Procs : /\ req'[q].id \in 0..Len(saves')
                         /\ req'[q].at = "store" => req'[q].new # Empty
    BY <1>1, <1>4, <1>5, <1>6 DEF TypeOK
  <2>2. proxy \in [ProxyRows -> 0..Len(saves')]
    BY <1>1, <1>5 DEF TypeOK
  <2>3. reader.got \in [ProxyRows -> 0..Len(saves')]
    BY <1>1, <1>5 DEF TypeOK
  <2> QED BY <1>1, <1>2, <1>5, <1>6, <2>1, <2>2, <2>3 DEF TypeOK
<1>9. Ended' = Ended
  BY <1>1, <1>3, <1>5 DEF Ended
<1>10. \A q \in Procs : Saving(q)' <=> (Saving(q) \/ q = p)
  BY <1>4, <1>6 DEF Saving
<1>11. ReqInv'
  <2>1. \A q \in Procs : q # p => req'[q] = req[q]
    BY <1>6
  <2>2. Len(saves) + 1 \notin Ended
    BY <1>1 DEF Ended
  <2> QED BY <1>1, <1>4, <1>6, <1>7, <1>9, <1>10, <2>2 DEF ReqInv
<1>12. BeforeInv'
  BY <1>1, <1>3, <1>5, <1>9 DEF BeforeInv
<1>13. \A i \in 1..Len(saves), k \in 1..4 : Passed(i, k)' <=> Passed(i, k)
  BY <1>1, <1>4, <1>6, <1>7, <1>9, <1>10 DEF Passed
<1>14. \A i : \A k \in 1..4 : i = Len(saves) + 1 => ~Passed(i, k)'
  <2>1. Len(saves) + 1 \notin Ended
    BY <1>1 DEF Ended
  <2>2. \A q \in Procs : Saving(q)' /\ req'[q].id = Len(saves) + 1 => q = p
    BY <1>1, <1>6, <1>7, <1>10
  <2>3. req'[p].row = 1
    BY <1>4, <1>6
  <2>4. Len(saves') = Len(saves) + 1
    BY <1>5
  <2> SUFFICES ASSUME NEW k \in 1..4, NEW q \in Procs,
                      Saving(q)', req'[q].id = Len(saves) + 1, req'[q].row > k
               PROVE  FALSE
    BY <1>9, <2>1 DEF Passed
  <2> QED BY <2>2, <2>3
<1>15. RowInv'
  <2> SUFFICES ASSUME NEW i \in 1..Len(saves'), NEW k \in 1..4,
                      Passed(i, k)', ~saves'[i].failed
               PROVE  proxy[WriteOrder[k]] \notin saves'[i].before
    BY <1>2 DEF RowInv
  <2>1. i \in 1..Len(saves)
    BY <1>1, <1>5, <1>14
  <2> QED BY <1>5, <1>13, <2>1 DEF RowInv
<1>16. WriterInv'
  <2>1. proxy["enable"] \in 0..Len(saves)
    BY DEF TypeOK, ProxyRows
  <2> QED BY <1>1, <1>2, <1>13, <2>1 DEF WriterInv
<1>17. ReaderInv' /\ NewProxyIsWhole'
  <2>1. Grows /\ PassedStays
    BY <1>1, <1>5, <1>13 DEF Grows, PassedStays
  <2> QED BY <1>2, <2>1, ReaderKept
<1> QED BY <1>8, <1>11, <1>12, <1>15, <1>16, <1>17

LEMMA RowStep ==
    ASSUME Inv, NEW p \in Procs, WriteSetting(p) \/ WriteSettingFails(p)
    PROVE  Inv'
<1> USE SettingsAssumption DEF Inv, SaveInv
<1> DEFINE n == req[p].id
           m == req[p].row
           v == [saves[n] EXCEPT !.failed = TRUE]
<1>0. /\ req[p].at = "rows" /\ m \in 1..4 /\ Saving(p)
      /\ req' = [req EXCEPT ![p].row = m + 1] /\ UNCHANGED <<password, reader>>
      /\ req \in [Procs -> Request] /\ saves \in Seq(Save) /\ Len(saves) \in Nat
  BY DEF WriteSetting, WriteSettingFails, NextRow, TypeOK, Request, ReqInv
<1>1. /\ n \in 1..Len(saves) /\ saves[n] \in Save /\ saves[n].state = "running"
      /\ \A i \in 1..Len(saves) : n \notin saves[i].before
  BY <1>0, SavingIsRunning
<1>2. /\ v \in Save /\ v.failed /\ v.on = saves[n].on /\ v.before = saves[n].before
      /\ v.state = saves[n].state
  BY <1>1 DEF Save
<1>3. /\ req' \in [Procs -> Request] /\ req'[p].row = m + 1
      /\ req'[p] = [req[p] EXCEPT !.row = m + 1]
      /\ \A q \in Procs : q # p => req'[q] = req[q]
  BY <1>0 DEF Request
<1>4. \A q \in Procs : /\ req'[q].at = req[q].at /\ req'[q].op = req[q].op
                       /\ req'[q].id = req[q].id /\ req'[q].copy = req[q].copy
                       /\ req'[q].new = req[q].new
                       /\ q # p => req'[q].row = req[q].row
  BY <1>0, <1>3 DEF Request
<1> HIDE DEF v
<1>5. /\ Grows /\ Len(saves') = Len(saves)
      /\ \A i \in 1..Len(saves) : saves'[i].state = saves[i].state
  <2>1. CASE WriteSetting(p)
    BY <1>0, <2>1 DEF WriteSetting, Grows
  <2>2. CASE WriteSettingFails(p)
    <3>1. saves' = [saves EXCEPT ![n] = v]
      BY <2>2 DEF WriteSettingFails, v
    <3>2. /\ saves' \in Seq(Save) /\ Len(saves') = Len(saves)
          /\ \A i \in 1..Len(saves) : saves'[i] = IF i = n THEN v ELSE saves[i]
      BY <1>0, <1>1, <1>2, <3>1, ExceptSeq
    <3>3. \A i \in 1..Len(saves) : saves'[i] = saves[i] \/ (i = n /\ saves'[i] = v)
      BY <3>2
    <3>4. \A i \in 1..Len(saves) : saves[i].failed => saves'[i].failed
      BY <1>2, <3>3
    <3>5. \A i \in 1..Len(saves) : saves'[i].on = saves[i].on
                                  /\ saves'[i].before = saves[i].before
                                  /\ saves'[i].state = saves[i].state
      BY <1>2, <3>3
    <3> HIDE DEF n
    <3> QED BY <1>0, <3>2, <3>4, <3>5 DEF Grows
  <2> QED BY <2>1, <2>2
<1>6. Ended' = Ended
  BY <1>5 DEF Ended
<1>7. \A q \in Procs : Saving(q)' <=> Saving(q)
  BY <1>4 DEF Saving
<1>8. PassedStays
  BY <1>0, <1>3, <1>4, <1>6, <1>7 DEF PassedStays, Passed, Request
<1>9. \A i \in 1..Len(saves), k \in 1..4 :
         Passed(i, k)' => Passed(i, k) \/ (i = n /\ k = m)
  <2> SUFFICES ASSUME NEW i \in 1..Len(saves), NEW k \in 1..4, i \notin Ended,
                      NEW q \in Procs, Saving(q), req[q].id = i, req'[q].row > k
               PROVE  req[q].row > k \/ (i = n /\ k = m)
    BY <1>4, <1>6, <1>7 DEF Passed
  <2>1. CASE q = p
    BY <1>0, <1>3, <2>1
  <2>2. CASE q # p
    BY <1>4, <2>2
  <2> QED BY <2>1, <2>2
<1>10. proxy' = proxy \/ proxy' = [proxy EXCEPT ![WriteOrder[m]] = n]
  BY DEF WriteSetting, WriteSettingFails
<1>11. TypeOK'
  <2>1. proxy' \in [ProxyRows -> 0..Len(saves)]
    BY <1>1, <1>10 DEF TypeOK
  <2>2. faults' \in 0..MaxFaults
    BY DEF TypeOK, WriteSetting, WriteSettingFails
  <2> QED BY <1>0, <1>3, <1>4, <1>5, <2>1, <2>2 DEF TypeOK, Grows
<1>12. ReqInv'
  BY <1>4, <1>6, <1>7, <1>0 DEF ReqInv
<1>13. BeforeInv'
  BY <1>5, <1>6 DEF BeforeInv, Grows
<1>14. RowInv'
  <2> SUFFICES ASSUME NEW i \in 1..Len(saves), NEW k \in 1..4, Passed(i, k)', ~saves'[i].failed
               PROVE  proxy'[WriteOrder[k]] \notin saves[i].before
    BY <1>5 DEF RowInv, Grows
  <2>1. proxy \in [ProxyRows -> 0..Len(saves)] /\ WriteOrder[k] \in ProxyRows
    BY Orders DEF TypeOK
  <2>2. CASE Passed(i, k)
    BY <1>1, <1>5, <1>10, <2>1, <2>2 DEF RowInv, Grows
  <2>3. CASE i = n /\ k = m
    <3>1. CASE WriteSetting(p)
      BY <1>1, <2>1, <2>3, <3>1 DEF WriteSetting
    <3>2. CASE WriteSettingFails(p)
      <4>1. saves' = [saves EXCEPT ![n] = v]
        BY <3>2 DEF WriteSettingFails, v
      <4>2. saves'[n].failed
        BY <1>0, <1>1, <1>2, <4>1
      <4> QED BY <2>3, <4>2
    <3> QED BY <3>1, <3>2
  <2> QED BY <1>9, <2>2, <2>3
<1>15. WriterInv'
  <2>1. proxy["enable"] \in 0..Len(saves)
    BY DEF TypeOK, ProxyRows
  <2>2. CASE proxy'["enable"] = proxy["enable"]
    BY <1>8, <2>1, <2>2 DEF WriterInv, PassedStays
  <2>3. CASE proxy'["enable"] # proxy["enable"]
    <3>1. proxy'["enable"] = n /\ WriteOrder[m] = "enable"
      BY <1>10, <2>3, Orders DEF TypeOK, ProxyRows
    <3>2. m = 3
      BY <1>0, <3>1 DEF WriteOrder
    <3>3. Passed(proxy["enable"], 3)'
      BY <1>0, <1>3, <1>4, <1>7, <3>1, <3>2 DEF Passed
    <3> QED BY <3>1, <3>3 DEF WriterInv
  <2> QED BY <2>2, <2>3
<1>16. ReaderInv' /\ NewProxyIsWhole'
  BY <1>0, <1>5, <1>8, ReaderKept
<1> QED BY <1>11, <1>12, <1>13, <1>14, <1>15, <1>16

\* A request that goes on without writing a setting: a save stays the save it
\* is, anything else becomes no save.
LEMMA GoneOn ==
    ASSUME Inv, NEW p \in Procs, NEW r \in Request,
           req' = [req EXCEPT ![p] = r], UNCHANGED <<proxy, saves, reader>>,
           faults' \in 0..MaxFaults,
           password' \in Text,
           r.op = "save" <=> Saving(p), r.id \in 0..Len(saves),
           Saving(p) => r.id = req[p].id /\ r.row = 5 /\ req[p].row = 5,
           r.at # "rows", r.at = "compare" => r.copy \in Text,
           r.at = "store" => Saving(p) /\ r.new # Empty
    PROVE  Inv'
<1> USE DEF Inv, SaveInv
<1>1. /\ req' \in [Procs -> Request] /\ req'[p] = r
      /\ \A q \in Procs : q # p => req'[q] = req[q]
  BY DEF TypeOK
<1>2. \A q \in Procs :
         /\ Saving(q)' <=> Saving(q)
         /\ Saving(q) => req'[q].id = req[q].id /\ req'[q].row = req[q].row
  BY <1>1 DEF Saving
<1>3. TypeOK'
  BY <1>1, <1>2 DEF TypeOK
<1>4. ReqInv'
  BY <1>1, <1>2 DEF ReqInv, Ended, Saving
<1>5. \A i, k : Passed(i, k)' <=> Passed(i, k)
  BY <1>2 DEF Passed, Ended
<1>6. BeforeInv' /\ RowInv' /\ WriterInv' /\ ReaderInv' /\ NewProxyIsWhole'
  BY <1>5 DEF BeforeInv, RowInv, WriterInv, ReaderInv, NewProxyIsWhole, NotOlder, RowsRead,
              Ended, IsOn
<1> QED BY <1>3, <1>4, <1>6

\* A save that is refused or audited, when it has passed all its rows.
LEMMA Ends ==
    ASSUME Inv, NEW p \in Procs, NEW state \in {"refused", "audited"},
           Saving(p), req[p].row = 5,
           saves' = [saves EXCEPT ![req[p].id].state = state],
           req' = [req EXCEPT ![p] = Idle],
           UNCHANGED <<proxy, reader, faults>>, password' \in Text
    PROVE  Inv'
<1> USE DEF Inv, SaveInv
<1> DEFINE n == req[p].id
           v == [saves[n] EXCEPT !.state = state]
<1>1. /\ n \in 1..Len(saves) /\ saves[n] \in Save
      /\ saves \in Seq(Save) /\ Len(saves) \in Nat
  BY SavingIsRunning DEF TypeOK
<1>2. /\ v \in Save /\ v.failed = saves[n].failed /\ v.on = saves[n].on
      /\ v.before = saves[n].before /\ v.state # "running"
  BY <1>1 DEF Save
<1>3. saves' = [saves EXCEPT ![n] = v]
  OBVIOUS
<1> HIDE DEF v
<1>4. /\ req' \in [Procs -> Request] /\ req'[p] = Idle
      /\ \A q \in Procs : q # p => req'[q] = req[q]
  BY IdleRequest DEF TypeOK
<1>5. /\ saves' \in Seq(Save) /\ Len(saves') = Len(saves) /\ saves'[n] = v
      /\ \A i \in 1..Len(saves) : i # n => saves'[i] = saves[i]
  <2>1. \A i \in 1..Len(saves) : saves'[i] = IF i = n THEN v ELSE saves[i]
    BY <1>1, <1>2, <1>3, ExceptSeq
  <2> QED BY <1>1, <1>2, <1>3, <2>1, ExceptSeq
<1>6. Ended' = Ended \cup {n}
  BY <1>1, <1>2, <1>5 DEF Ended
<1>7. \A q \in Procs : Saving(q)' => q # p /\ Saving(q) /\ req[q].id # n
  BY <1>4, IdleRequest DEF Saving, ReqInv
<1>8. TypeOK'
  <2>1. \A q \in Procs : /\ req'[q].id \in 0..Len(saves)
                         /\ req'[q].at = "store" => req'[q].new # Empty
    BY <1>1, <1>4, IdleRequest DEF TypeOK
  <2> QED BY <1>4, <1>5, <2>1 DEF TypeOK
<1>9. ReqInv'
  <2>1. \A q \in Procs : q = p => req'[q].at = "idle" /\ ~Saving(q)'
    BY <1>4, <1>7, IdleRequest
  <2> QED BY <1>4, <1>6, <1>7, <2>1 DEF ReqInv, Saving
<1>10. BeforeInv'
  BY <1>1, <1>2, <1>5, <1>6 DEF BeforeInv
<1>11. PassedStays
  BY <1>4, <1>6, <1>7 DEF PassedStays, Passed, Saving
<1>12. \A i \in 1..Len(saves), k \in 1..4 : Passed(i, k)' => Passed(i, k)
  <2>1. \A k \in 1..4 : Passed(n, k)
    BY DEF Passed
  <2> QED BY <1>4, <1>6, <1>7, <2>1 DEF Passed
<1>13. RowInv'
  BY <1>1, <1>2, <1>5, <1>12 DEF RowInv
<1>14. WriterInv'
  <2>1. proxy["enable"] \in 0..Len(saves)
    BY DEF TypeOK, ProxyRows
  <2> QED BY <1>11, <2>1 DEF WriterInv, PassedStays
<1>15. Grows
  BY <1>1, <1>2, <1>5 DEF Grows
<1>16. ReaderInv' /\ NewProxyIsWhole'
  BY <1>11, <1>15, ReaderKept
<1> QED BY <1>8, <1>9, <1>10, <1>13, <1>14, <1>16

LEMMA FinishRowsStep ==
    ASSUME Inv, NEW p \in Procs, FinishRows(p)
    PROVE  Inv'
<1> USE DEF Inv, SaveInv
<1>1. /\ Saving(p) /\ req[p].row = 5 /\ password' \in Text /\ req[p] \in Request
      /\ UNCHANGED <<proxy, reader, faults>>
  BY DEF FinishRows, ReqInv, TypeOK
<1>2. CASE Audit(p)
  BY <1>1, <1>2, Ends DEF Audit, Return
<1>3. CASE Goto(p, "read") /\ UNCHANGED saves
  <2> DEFINE r == [req[p] EXCEPT !.at = "read"]
  <2>1. /\ r \in Request /\ r.op = req[p].op /\ r.id = req[p].id /\ r.row = req[p].row
        /\ r.at = "read" /\ r.id \in 0..Len(saves)
    BY <1>1 DEF Request, TypeOK
  <2>2. req' = [req EXCEPT ![p] = r]
    BY <1>3 DEF Goto
  <2>3. faults' \in 0..MaxFaults
    BY <1>1 DEF TypeOK
  <2> HIDE DEF r
  <2> QED BY <1>1, <1>3, <2>1, <2>2, <2>3, GoneOn DEF Saving
<1> QED BY <1>2, <1>3 DEF FinishRows

LEMMA LoginStep ==
    ASSUME Inv, NEW p \in Procs,
           ShowLogin(p) \/ \E typed \in Typed : ProcessLogin(p, typed)
    PROVE  Inv'
<1> USE SettingsAssumption DEF Inv, SaveInv
<1>0. Default \in Text
  BY DEF Default, PlainText, Text
<1>1. PICK typed \in Text :
         req' = [req EXCEPT ![p] = [Idle EXCEPT !.at = "read", !.op = "login", !.typed = typed]]
  BY <1>0 DEF ShowLogin, ProcessLogin
<1> DEFINE r == [Idle EXCEPT !.at = "read", !.op = "login", !.typed = typed]
<1>2. req[p] = Idle /\ UNCHANGED <<password, proxy, saves, reader, faults>>
  BY DEF ShowLogin, ProcessLogin
<1>4. r \in Request /\ r.op = "login" /\ r.at = "read" /\ r.id = 0
  BY IdleRequest DEF Request
<1>5. ~Saving(p) /\ 0 \in 0..Len(saves) /\ password' \in Text /\ faults' \in 0..MaxFaults
  BY <1>2, IdleRequest DEF Saving, TypeOK
<1> HIDE DEF r
<1>6. req' = [req EXCEPT ![p] = r]
  BY <1>1 DEF r
<1> QED BY <1>2, <1>4, <1>5, <1>6, GoneOn

LEMMA OneMore == \A n \in Nat : \A m \in 0..n : m < n => m + 1 \in 0..n
OBVIOUS

LEMMA ReadPasswordStep ==
    ASSUME Inv, NEW p \in Procs, ReadPassword(p) \/ ReadPasswordFails(p)
    PROVE  Inv'
<1> USE DEF Inv, SaveInv
<1>0. Empty \in Text
  BY SettingsAssumption DEF Empty, PlainText, Text
<1>1. /\ req[p] \in Request /\ password' \in Text /\ req[p].at = "read"
      /\ UNCHANGED <<password, proxy, saves, reader>>
      /\ req \in [Procs -> Request]
  BY DEF ReadPassword, ReadPasswordFails, TypeOK
<1>2. PICK copy \in Text : req' = [req EXCEPT ![p].at = "compare", ![p].copy = copy]
  BY <1>0, <1>1 DEF ReadPassword, ReadPasswordFails
<1>3. faults' \in 0..MaxFaults
  BY SettingsAssumption, OneMore DEF ReadPassword, ReadPasswordFails, TypeOK
<1> DEFINE r == [req[p] EXCEPT !.at = "compare", !.copy = copy]
<1>4. /\ r \in Request /\ r.op = req[p].op /\ r.id = req[p].id /\ r.row = req[p].row
      /\ r.at = "compare" /\ r.copy \in Text /\ r.id \in 0..Len(saves)
  BY <1>1 DEF Request, TypeOK
<1>5. req' = [req EXCEPT ![p] = r]
  BY <1>1, <1>2
<1> HIDE DEF r
<1>6. Saving(p) => req[p].row = 5
  BY <1>1 DEF ReqInv
<1> QED BY <1>1, <1>3, <1>4, <1>5, <1>6, GoneOn DEF Saving

LEMMA CompareStep ==
    ASSUME Inv, NEW p \in Procs, Compare(p)
    PROVE  Inv'
<1> USE DEF Inv, SaveInv
<1>1. /\ req[p] \in Request /\ req[p].at = "compare" /\ req[p].copy \in Text
      /\ req[p].id \in 0..Len(saves) /\ 0 \in 0..Len(saves)
      /\ UNCHANGED <<reader, faults>> /\ faults' \in 0..MaxFaults
      /\ Saving(p) => req[p].row = 5
  BY DEF Compare, TypeOK, ReqInv
<1>2. password' \in Text
  <2>1. password \in Text
    BY DEF TypeOK
  <2> QED BY <1>1, <2>1, HashIsText DEF Compare, Upgrades
<1>3. CASE req[p].op # "save" /\ Return(p) /\ UNCHANGED <<saves, proxy>>
  <2>1. req' = [req EXCEPT ![p] = Idle]
    BY <1>3 DEF Return
  <2>2. ~Saving(p)
    BY <1>3 DEF Saving
  <2>3. UNCHANGED <<proxy, saves, reader, faults>> /\ 0 \in 0..Len(saves)
    BY <1>1, <1>3
  <2> HIDE DEF Inv, SaveInv
  <2> QED BY <1>1, <1>2, <2>1, <2>2, <2>3, GoneOn, IdleRequest
<1>4. CASE /\ req[p].op = "save" /\ NewPasswordGiven(p) /\ Goto(p, "store")
           /\ UNCHANGED <<saves, proxy>>
  <2> DEFINE r == [req[p] EXCEPT !.at = "store"]
  <2>1. /\ r \in Request /\ r.op = req[p].op /\ r.id = req[p].id /\ r.row = req[p].row
        /\ r.at = "store" /\ r.new # Empty
    BY <1>1, <1>4 DEF Request, NewPasswordGiven
  <2>2. req' = [req EXCEPT ![p] = r]
    BY <1>4 DEF Goto
  <2>3. UNCHANGED <<proxy, saves, reader, faults>> /\ r.id \in 0..Len(saves) /\ Saving(p)
        /\ r.row = 5 /\ req[p].row = 5
    BY <1>1, <1>4, <2>1 DEF Saving
  <2> HIDE DEF Inv, SaveInv, r
  <2> QED BY <1>1, <1>2, <2>1, <2>2, <2>3, GoneOn DEF Saving
<1>5. CASE req[p].op = "save" /\ RefusePassword(p)
  <2>1. Saving(p) /\ req[p].row = 5 /\ UNCHANGED <<proxy, reader, faults>>
    BY <1>1, <1>5 DEF Saving, RefusePassword
  <2>2. /\ saves' = [saves EXCEPT ![req[p].id].state = "refused"]
        /\ req' = [req EXCEPT ![p] = Idle]
    BY <1>5 DEF RefusePassword, Return
  <2> HIDE DEF Inv, SaveInv
  <2> QED BY <1>2, <2>1, <2>2, Ends
<1> QED BY <1>3, <1>4, <1>5 DEF Compare

LEMMA StoreStep ==
    ASSUME Inv, NEW p \in Procs, StorePassword(p) \/ StorePasswordFails(p)
    PROVE  Inv'
<1> USE DEF Inv, SaveInv
<1>1. /\ req[p] \in Request /\ req[p].at = "store" /\ Saving(p) /\ req[p].row = 5
      /\ req' = [req EXCEPT ![p] = Idle] /\ UNCHANGED <<proxy, reader, faults>>
      /\ \E state \in {"refused", "audited"} :
            saves' = [saves EXCEPT ![req[p].id].state = state]
  BY DEF StorePassword, StorePasswordFails, RefusePassword, Audit, Return, TypeOK, ReqInv
<1>2. password' \in Text
  <2>1. req[p].new \in Text /\ password \in Text
    BY <1>1 DEF Request, TypeOK
  <2> QED BY <2>1, HashIsText DEF StorePassword, StorePasswordFails
<1> QED BY <1>1, <1>2, Ends

LEMMA CrashStep == Inv /\ Crash => Inv'
<1> SUFFICES ASSUME Inv, Crash PROVE Inv'
  OBVIOUS
<1> USE DEF Inv, SaveInv
<1> DEFINE Died(s) == IF s.state = "running"
                      THEN [s EXCEPT !.state = "refused", !.failed = TRUE] ELSE s
<1>1. /\ saves \in Seq(Save) /\ Len(saves) \in Nat
      /\ saves' = [i \in 1..Len(saves) |-> Died(saves[i])]
      /\ req' = [p \in Procs |-> Idle] /\ reader' = NotReading
      /\ UNCHANGED <<password, proxy>> /\ faults' \in 0..MaxFaults
  <2>1. faults' \in 0..MaxFaults
    <3>1. faults \in 0..MaxFaults /\ MaxFaults \in Nat
      BY SettingsAssumption DEF TypeOK
    <3>2. faults < MaxFaults /\ faults' = faults + 1
      BY DEF Crash
    <3> QED BY <3>1, <3>2
  <2>2. saves' = [i \in 1..Len(saves) |-> Died(saves[i])]
    BY DEF Crash
  <2>3. req' = [p \in Procs |-> Idle] /\ reader' = NotReading /\ UNCHANGED <<password, proxy>>
    BY DEF Crash
  <2> HIDE DEF Died
  <2>4. saves \in Seq(Save) /\ Len(saves) \in Nat
    BY DEF TypeOK
  <2> QED BY <2>1, <2>2, <2>3, <2>4
<1>2. ASSUME NEW s \in Save
      PROVE  /\ Died(s) \in Save /\ Died(s).on = s.on /\ Died(s).before = s.before
             /\ Died(s).state # "running"
             /\ ~Died(s).failed => Died(s) = s /\ s.state # "running"
  BY DEF Save
<1> HIDE DEF Died
<1>3. /\ saves' \in Seq(Save) /\ Len(saves') = Len(saves)
      /\ \A i \in 1..Len(saves) : saves'[i] = Died(saves[i]) /\ saves[i] \in Save
  <2>1. \A i \in 1..Len(saves) : saves[i] \in Save
    BY <1>1
  <2>2. saves' \in [1..Len(saves) -> Save]
    BY <1>1, <1>2, <2>1
  <2>3. saves' \in Seq(Save)
    BY <1>1, <2>2, SeqDef
  <2>4. Len(saves') = Len(saves)
    BY <1>1, <2>2, <2>3, LenProperties
  <2>5. \A i \in 1..Len(saves) : saves'[i] = Died(saves[i])
    BY <1>1
  <2> QED BY <2>1, <2>3, <2>4, <2>5
<1>4. Ended' = 1..Len(saves)
  BY <1>2, <1>3 DEF Ended
<1>5. \A p \in Procs : req'[p] = Idle /\ ~Saving(p)'
  BY <1>1, IdleRequest DEF Saving
<1>6. TypeOK'
  <2>1. /\ req' \in [Procs -> Request]
        /\ \A p \in Procs : req'[p].id \in 0..Len(saves) /\ req'[p].at # "store"
    BY <1>1, IdleRequest
  <2>2. NotReading \in Reader /\ NotReading.got \in [ProxyRows -> 0..Len(saves)]
    BY <1>1, SettingsAssumption DEF NotReading, Reader, Ids
  <2> QED BY <1>1, <1>3, <2>1, <2>2 DEF TypeOK
<1>7. ReqInv'
  BY <1>5, IdleRequest DEF ReqInv
<1>8. BeforeInv'
  <2>1. Ended \subseteq 1..Len(saves)
    BY DEF Ended
  <2> QED BY <1>2, <1>3, <1>4, <2>1 DEF BeforeInv
<1>9. RowInv'
  <2> SUFFICES ASSUME NEW i \in 1..Len(saves), NEW k \in 1..4, ~saves'[i].failed
               PROVE  proxy[WriteOrder[k]] \notin saves'[i].before
    BY <1>1, <1>3 DEF RowInv
  <2>1. saves'[i] = saves[i] /\ saves[i].state # "running"
    BY <1>2, <1>3
  <2>2. Passed(i, k)
    BY <2>1 DEF Passed, Ended
  <2> QED BY <2>1, <2>2 DEF RowInv
<1>10. WriterInv'
  <2>1. proxy["enable"] \in 0..Len(saves)
    BY DEF TypeOK, ProxyRows
  <2> QED BY <1>1, <1>4, <2>1 DEF WriterInv, Passed
<1>11. ReaderInv' /\ NewProxyIsWhole'
  BY <1>1 DEF ReaderInv, NewProxyIsWhole, NotReading, ProxyRows
<1> QED BY <1>6, <1>7, <1>8, <1>9, <1>10, <1>11

LEMMA ReaderStep == Inv /\ (ReadProxyRow \/ ReadProxyRowFails \/ Connect) => Inv'
<1> SUFFICES ASSUME Inv, ReadProxyRow \/ ReadProxyRowFails \/ Connect PROVE Inv'
  OBVIOUS
<1> USE DEF Inv, SaveInv
<1>1. /\ UNCHANGED <<password, proxy, saves, req>>
      /\ reader \in Reader /\ reader.got \in [ProxyRows -> 0..Len(saves)]
      /\ proxy \in [ProxyRows -> 0..Len(saves)] /\ Len(saves) \in Nat
      /\ 0..Len(saves) \subseteq Ids /\ Ended \subseteq Ids
  <2>1. UNCHANGED <<password, proxy, saves, req>>
    BY DEF ReadProxyRow, ReadProxyRowFails, Connect
  <2>2. /\ reader \in Reader /\ reader.got \in [ProxyRows -> 0..Len(saves)]
        /\ proxy \in [ProxyRows -> 0..Len(saves)] /\ Len(saves) \in Nat
        /\ Len(saves) <= MaxSaves /\ MaxSaves \in Nat
    BY SettingsAssumption DEF TypeOK
  <2>3. 0..Len(saves) \subseteq Ids /\ Ended \subseteq Ids
    BY <2>2 DEF Ids, Ended
  <2> QED BY <2>1, <2>2, <2>3
<1>0. faults' \in 0..MaxFaults
  BY SettingsAssumption, OneMore DEF ReadProxyRow, ReadProxyRowFails, Connect, TypeOK
<1>2. ReqInv' /\ BeforeInv' /\ RowInv' /\ WriterInv'
  BY <1>1 DEF ReqInv, BeforeInv, RowInv, WriterInv, Passed, Saving, Ended
<1>3. CASE Connect
  <2>1. reader' = NotReading
    BY <1>3 DEF Connect
  <2>2. /\ NotReading \in Reader /\ NotReading.got \in [ProxyRows -> 0..Len(saves)]
        /\ NotReading.got["enable"] = 0 /\ NotReading.ended = {} /\ 0 \notin 1..Len(saves)
    BY <1>1 DEF NotReading, Reader, ProxyRows
  <2>3. TypeOK'
    BY <1>0, <1>1, <2>1, <2>2 DEF TypeOK
  <2>4. ReaderInv' /\ NewProxyIsWhole'
    BY <1>1, <2>1, <2>2 DEF ReaderInv, NewProxyIsWhole
  <2> QED BY <1>2, <2>3, <2>4
<1>4. CASE ReadProxyRow \/ ReadProxyRowFails
  <2> DEFINE n == reader.n
             row == ReadOrder[n + 1]
             ended == IF n = 0 THEN Ended ELSE reader.ended
  <2>1. PICK i \in 0..Len(saves), failed \in BOOLEAN :
           /\ reader' = [n |-> n + 1, got |-> [reader.got EXCEPT ![row] = i],
                         ended |-> ended, failed |-> failed]
           /\ n \in 0..3 /\ row \in ProxyRows
           /\ i = 0 \/ i = proxy[row]
           /\ ~failed => ~reader.failed /\ i = proxy[row]
    <3>1. n \in 0..3 /\ row \in ProxyRows
      <4>1. n \in 0..4 /\ n < 4
        BY <1>1, <1>4 DEF ReadProxyRow, ReadProxyRowFails, Reader
      <4>2. n \in 0..3 /\ n + 1 \in 1..4
        BY <4>1
      <4> QED BY <4>2, Orders
    <3>2. CASE ReadProxyRow
      <4>1. reader.failed \in BOOLEAN /\ proxy[row] \in 0..Len(saves)
        BY <1>1, <3>1 DEF Reader
      <4>2. reader' = [n |-> n + 1, got |-> [reader.got EXCEPT ![row] = proxy[row]],
                       ended |-> ended, failed |-> reader.failed]
        BY <3>2 DEF ReadProxyRow, Got
      <4> USE <4>1
      <4> WITNESS proxy[row] \in 0..Len(saves), reader.failed \in BOOLEAN
      <4> HIDE DEF row, ended, n
      <4> QED BY <3>1, <4>2
    <3>3. CASE ReadProxyRowFails
      <4>1. reader' = [n |-> n + 1, got |-> [reader.got EXCEPT ![row] = 0],
                       ended |-> ended, failed |-> TRUE]
        BY <3>3 DEF ReadProxyRowFails, Got
      <4>2. 0 \in 0..Len(saves)
        BY <1>1
      <4> USE <4>2
      <4> WITNESS 0 \in 0..Len(saves), TRUE \in BOOLEAN
      <4> HIDE DEF row, ended, n
      <4> QED BY <3>1, <4>1
    <3> QED BY <1>4, <3>2, <3>3
  <2> DEFINE got == [reader.got EXCEPT ![row] = i]
  <2>2. /\ got \in [ProxyRows -> 0..Len(saves)] /\ got[row] = i
        /\ \A r \in ProxyRows : r # row => got[r] = reader.got[r]
    BY <1>1, <2>1
  <2>3. reader'.n = n + 1 /\ reader'.got = got /\ reader'.ended = ended
        /\ reader'.failed = failed
    BY <2>1
  <2>4. ended \subseteq Ended /\ ended \subseteq Ids
    BY <1>1 DEF ReaderInv
  <2>5. n = 0 => row = "enable"
    BY Orders
  <2>6. n > 0 => row # "enable"
    BY <2>1 DEF ReadOrder
  <2>7. \A r \in RowsRead' : r = row \/ (r \in RowsRead /\ n > 0)
    <3> SUFFICES ASSUME NEW k \in 1..n + 1 PROVE ReadOrder[k] = row \/ (k \in 1..n /\ n > 0)
      BY <2>3 DEF RowsRead
    <3> QED BY <2>1
  <2> HIDE DEF got, row, ended
  <2>8. TypeOK'
    <3>1. got \in [ProxyRows -> Ids] /\ n + 1 \in 0..4
      BY <1>1, <2>1, <2>2
    <3>2. reader' \in Reader
      BY <2>1, <2>4, <3>1 DEF Reader, got
    <3> QED BY <1>0, <1>1, <2>2, <2>3, <3>2 DEF TypeOK
  <2>9. \A j, k : Passed(j, k)' <=> Passed(j, k)
    BY <1>1 DEF Passed, Saving, Ended
  <2>10. ReaderInv'
    <3>1. "enable" \in ProxyRows /\ Ended' = Ended
      BY <1>1 DEF ProxyRows, Ended
    <3>2. got["enable"] # 0 => Passed(got["enable"], 3)
      BY <2>1, <2>2, <3>1 DEF ReaderInv, WriterInv
    <3> QED BY <2>3, <2>4, <2>9, <3>1, <3>2 DEF ReaderInv
  <2>11. NewProxyIsWhole'
    <3> SUFFICES ASSUME NEW j \in 1..Len(saves), ~saves[j].failed, ~failed
                 PROVE  /\ got["enable"] = j /\ IsOn(j) =>
                              NotOlder("host", j)' /\ NotOlder("user", j)'
                        /\ j \in ended => \A r \in ProxyRows : NotOlder(r, j)'
      BY <1>1, <2>3 DEF NewProxyIsWhole, IsOn
    <3>1. i = proxy[row] /\ ~reader.failed
      BY <2>1
    <3>2. ASSUME NEW r \in ProxyRows, proxy[r] \notin saves[j].before,
                 n > 0 => NotOlder(r, j)
          PROVE  NotOlder(r, j)'
      BY <1>1, <2>2, <2>3, <2>7, <3>1, <3>2 DEF NotOlder
    <3>3. ASSUME got["enable"] = j, IsOn(j)
          PROVE  NotOlder("host", j)' /\ NotOlder("user", j)'
      <4>1. CASE n = 0
        <5>1. "host" \notin RowsRead' /\ "user" \notin RowsRead'
          BY <2>5, <2>7, <4>1
        <5> QED BY <5>1 DEF NotOlder
      <4>2. CASE n > 0
        <5>1. reader.got["enable"] = j
          BY <2>2, <2>6, <3>3, <4>2 DEF ProxyRows
        <5>2. Passed(j, 1) /\ Passed(j, 2)
          <6>1. \A p \in Procs : req[p].row \in 1..5
            BY DEF TypeOK, Request
          <6>2. Passed(j, 3)
            BY <5>1 DEF ReaderInv
          <6> QED BY <6>1, <6>2 DEF Passed
        <5>3. proxy["host"] \notin saves[j].before /\ proxy["user"] \notin saves[j].before
          BY <5>2, Orders DEF RowInv
        <5>4. NotOlder("host", j) /\ NotOlder("user", j)
          BY <3>1, <3>3, <5>1 DEF NewProxyIsWhole
        <5> QED BY <3>2, <5>3, <5>4 DEF ProxyRows
      <4> QED BY <2>1, <4>1, <4>2
    <3>4. ASSUME j \in ended, NEW r \in ProxyRows
          PROVE  NotOlder(r, j)'
      <4>1. PICK k \in 1..4 : r = WriteOrder[k]
        BY Orders
      <4>2. Passed(j, k)
        BY <2>4, <3>4 DEF Passed
      <4>3. proxy[r] \notin saves[j].before
        BY <4>1, <4>2 DEF RowInv
      <4>4. n > 0 => NotOlder(r, j)
        BY <2>1, <3>1, <3>4 DEF NewProxyIsWhole, ended
      <4> QED BY <3>2, <4>3, <4>4
    <3> QED BY <3>3, <3>4
  <2> QED BY <1>2, <2>8, <2>10, <2>11
<1> QED BY <1>3, <1>4
-----------------------------------------------------------------------------
LEMMA Invariance == Inv /\ [Next]_vars => Inv'
<1> SUFFICES ASSUME Inv, [Next]_vars PROVE Inv'
  OBVIOUS
<1>1. ASSUME NEW p \in Procs, Handler(p) PROVE Inv'
  <2>1. CASE \E form \in Forms : SaveSettings(p, form)
    BY <2>1, SubmitStep
  <2>2. CASE WriteSetting(p) \/ WriteSettingFails(p)
    BY <2>2, RowStep
  <2>3. CASE FinishRows(p)
    BY <2>3, FinishRowsStep
  <2>4. CASE ShowLogin(p) \/ \E typed \in Typed : ProcessLogin(p, typed)
    BY <2>4, LoginStep
  <2>5. CASE ReadPassword(p) \/ ReadPasswordFails(p)
    BY <2>5, ReadPasswordStep
  <2>6. CASE Compare(p)
    BY <2>6, CompareStep
  <2>7. CASE StorePassword(p) \/ StorePasswordFails(p)
    BY <2>7, StoreStep
  <2> QED BY <1>1, <2>1, <2>2, <2>3, <2>4, <2>5, <2>6, <2>7 DEF Handler
<1>2. CASE ReadProxyRow \/ ReadProxyRowFails \/ Connect
  BY <1>2, ReaderStep
<1>3. CASE Crash
  BY <1>3, CrashStep
<1>4. CASE UNCHANGED vars
  <2>1. TypeOK' /\ ReqInv' /\ BeforeInv' /\ RowInv'
    BY <1>4 DEF vars, Inv, SaveInv, TypeOK, ReqInv, BeforeInv, RowInv, Passed, Saving, Ended
  <2>2. WriterInv' /\ ReaderInv' /\ NewProxyIsWhole'
    BY <1>4 DEF vars, Inv, SaveInv, WriterInv, ReaderInv, NewProxyIsWhole, NotOlder,
       RowsRead, IsOn, Passed, Saving, Ended
  <2> QED BY <2>1, <2>2 DEF Inv, SaveInv
<1> QED BY <1>1, <1>2, <1>3, <1>4 DEF Next

LEMMA Invariant == Spec => []Inv
BY Initially, Invariance, PTL DEF Spec

\* Every variable keeps its type; a row names a save that was submitted.
THEOREM TypeCorrect == Spec => []TypeOK
<1>1. Inv => TypeOK
  BY DEF Inv
<1> QED BY <1>1, Invariant, PTL

\* Rows written before the switch and read after it: who sees that a save has
\* enabled the proxy reads no host and no user older than that save's, and who
\* began after a save had ended reads nothing older, however many saves, failures,
\* restarts and reads overlap.
THEOREM NewProxy == Spec => []NewProxyIsWhole
<1>1. Inv => NewProxyIsWhole
  BY DEF Inv, SaveInv
<1> QED BY <1>1, Invariant, PTL

\* A save that has ended leaves in no row of the proxy what a save wrote that
\* had ended before it.
THEOREM EndedSave == Spec => []EndedSaveIsWhole
<1>1. Inv => EndedSaveIsWhole
  <2> SUFFICES ASSUME Inv, NEW i \in 1..Len(saves), saves[i].state # "running",
                      ~saves[i].failed, NEW r \in ProxyRows
               PROVE  proxy[r] \notin saves[i].before
    BY DEF EndedSaveIsWhole
  <2>1. PICK k \in 1..4 : r = WriteOrder[k]
    BY Orders
  <2>2. Passed(i, k)
    BY DEF Passed, Ended
  <2> QED BY <2>1, <2>2 DEF Inv, SaveInv, RowInv
<1> QED BY <1>1, Invariant, PTL

\* What a step does to a password and copies of it that are hashes.
PasswordChange ==
    \E p \in Procs : StorePassword(p) \/ (Compare(p) /\ req[p].copy = req[p].typed)

LEMMA PasswordStep ==
    ASSUME Inv, [Next]_vars, Migrated
    PROVE  /\ Migrated' \/ \E p \in Procs : ReadPasswordFails(p)
           /\ password' # password => PasswordChange
<1> USE DEF Migrated
<1>0. req \in [Procs -> Request] /\ NoCopy \notin Text /\ password \in Text
  BY SettingsAssumption DEF Inv, TypeOK
<1>1. ASSUME NEW p \in Procs, Handler(p)
      PROVE  /\ Migrated' \/ ReadPasswordFails(p)
             /\ password' # password => PasswordChange
  <2>1. ASSUME req'[p].copy \in {NoCopy, req[p].copy, password},
               \A q \in Procs : q # p => req'[q] = req[q],
               password'.depth > 0
        PROVE  Migrated'
    BY <2>1
  <2>2. CASE \/ \E form \in Forms : SaveSettings(p, form)
             \/ ShowLogin(p) \/ (\E typed \in Typed : ProcessLogin(p, typed))
    <3>1. Idle \in Request /\ Idle.copy = NoCopy
      BY IdleRequest
    <3>2. CASE \E form \in Forms : SaveSettings(p, form)
      <4>1. PICK form \in Forms :
               req' = [req EXCEPT ![p] =
                          [Idle EXCEPT !.at = "rows", !.op = "save", !.id = Len(saves) + 1,
                                       !.typed = form.typed, !.new = form.new]]
        BY <3>2 DEF SaveSettings
      <4>2. password' = password
        BY <3>2 DEF SaveSettings
      <4>3. req'[p].copy = NoCopy /\ \A q \in Procs : q # p => req'[q] = req[q]
        BY <1>0, <3>1, <4>1 DEF Request
      <4> QED BY <2>1, <4>2, <4>3
    <3>3. CASE ShowLogin(p) \/ (\E typed \in Typed : ProcessLogin(p, typed))
      <4>1. PICK typed :
               req' = [req EXCEPT ![p] = [Idle EXCEPT !.at = "read", !.op = "login",
                                                      !.typed = typed]]
        BY <3>3 DEF ShowLogin, ProcessLogin
      <4>2. password' = password
        BY <3>3 DEF ShowLogin, ProcessLogin
      <4>3. req'[p].copy = NoCopy /\ \A q \in Procs : q # p => req'[q] = req[q]
        BY <1>0, <3>1, <4>1 DEF Request
      <4> QED BY <2>1, <4>2, <4>3
    <3> QED BY <2>2, <3>2, <3>3
  <2>3. CASE WriteSetting(p) \/ WriteSettingFails(p)
    <3>1. /\ password' = password /\ req'[p].copy = req[p].copy
          /\ \A q \in Procs : q # p => req'[q] = req[q]
      BY <1>0, <2>3 DEF WriteSetting, WriteSettingFails, NextRow, Request
    <3> QED BY <2>1, <3>1
  <2>4. CASE FinishRows(p)
    <3>1. /\ password' = password /\ req'[p].copy \in {NoCopy, req[p].copy}
          /\ \A q \in Procs : q # p => req'[q] = req[q]
      BY <1>0, <2>4, IdleRequest DEF FinishRows, Audit, Return, Goto, Request
    <3> QED BY <2>1, <3>1
  <2>5. CASE ReadPassword(p)
    <3>1. /\ password' = password /\ req'[p].copy = password
          /\ \A q \in Procs : q # p => req'[q] = req[q]
      BY <1>0, <2>5 DEF ReadPassword, Request
    <3> QED BY <2>1, <3>1
  <2>6. CASE ReadPasswordFails(p)
    BY <2>6 DEF ReadPasswordFails
  <2>7. CASE Compare(p)
    <3>1. req[p].copy \in Text /\ req[p].copy.depth > 0 /\ req[p].copy.depth \in Nat
      BY <1>0, <2>7, SettingsAssumption DEF Compare, Inv, SaveInv, ReqInv, Text
    <3>2. \/ password' = password
          \/ req[p].copy = req[p].typed /\ password' = HashPassword(req[p].copy)
      <4>1. req[p].copy # Default
        BY <3>1 DEF Default, PlainText
      <4> QED BY <2>7, <4>1 DEF Compare, Upgrades
    <3>3. HashPassword(req[p].copy).depth > 0
      BY <3>1, HashIsText
    <3>4. /\ req'[p].copy \in {NoCopy, req[p].copy}
          /\ \A q \in Procs : q # p => req'[q] = req[q]
      BY <1>0, <2>7, IdleRequest DEF Compare, Return, Goto, RefusePassword, Request
    <3>5. Migrated'
      BY <2>1, <3>2, <3>3, <3>4
    <3> QED BY <2>7, <3>2, <3>5 DEF PasswordChange
  <2>8. CASE StorePassword(p) \/ StorePasswordFails(p)
    <3>1. /\ req'[p].copy = NoCopy /\ \A q \in Procs : q # p => req'[q] = req[q]
      BY <1>0, <2>8, IdleRequest
         DEF StorePassword, StorePasswordFails, Audit, RefusePassword, Return
    <3>2. HashPassword(req[p].new).depth > 0
      <4>1. req[p].new \in Text
        BY <1>0 DEF Request
      <4> QED BY <4>1, HashIsText
    <3>3. password'.depth > 0 /\ (password' # password => StorePassword(p))
      BY <2>8, <3>2 DEF StorePassword, StorePasswordFails
    <3> QED BY <2>1, <3>1, <3>3 DEF PasswordChange
  <2> QED BY <1>1, <2>2, <2>3, <2>4, <2>5, <2>6, <2>7, <2>8 DEF Handler
<1>2. CASE ReadProxyRow \/ ReadProxyRowFails \/ Connect \/ Crash \/ UNCHANGED vars
  <2>1. password' = password /\ (req' = req \/ req' = [p \in Procs |-> Idle])
    BY <1>2 DEF ReadProxyRow, ReadProxyRowFails, Connect, Crash, vars
  <2> QED BY <2>1, IdleRequest
<1> QED BY <1>1, <1>2 DEF Next

\* A password that is hashed in the row and in every copy of it a request still
\* holds is changed by a change of password alone, or by who types the very hash;
\* the copies stay hashes until a read of the row fails.
THEOREM PasswordLasts == Spec => MigratedPasswordLasts
<1>1. Inv /\ [Next]_vars =>
         [Migrated => /\ Migrated' \/ \E p \in Procs : ReadPasswordFails(p)
                      /\ password' # password =>
                            \E p \in Procs : \/ StorePassword(p)
                                             \/ Compare(p) /\ req[p].copy = req[p].typed]_vars
  BY PasswordStep DEF PasswordChange
<1> QED BY <1>1, Invariant, PTL DEF Spec, MigratedPasswordLasts
=============================================================================
