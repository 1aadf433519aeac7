--------------------------- MODULE RegistryProofs ---------------------------
(***************************************************************************)
(* Proofs about Access and Registry, for any number of browsers, agents,   *)
(* hosts, logins, tokens, heartbeats and failures.                         *)
(***************************************************************************)
EXTENDS Registry, FiniteSetTheorems, TLAPS

-----------------------------------------------------------------------------
(* The session: logins that wait for their answer have not been answered,  *)
(* no two browsers wait for, or hold, the token of one login, and nothing  *)
(* that was answered before a login or logout is in the row once that has  *)
(* written it.                                                             *)

Signs(b) == req[b].at \in {"sign", "written"}

SigningInv ==
    /\ \A b \in Browsers : Signs(b) =>
          /\ req[b].id # 0 /\ ~signings[req[b].id].answered
          /\ \A c \in Browsers : Signs(c) /\ req[c].id = req[b].id => c = b
    /\ \A b \in Browsers : cookie[b] # 0 =>
          /\ signings[cookie[b]].answered
          /\ \A c \in Browsers : cookie[c] = cookie[b] => c = b
    /\ \A i \in 1..Len(signings) : signings[i].before \subseteq {0} \cup Answered

Written(i) == \E b \in Browsers : req[b].at = "written" /\ req[b].id = i

SessionInv ==
    \A i \in 1..Len(signings) :
       (signings[i].answered \/ Written(i)) /\ ~signings[i].failed =>
          session \notin signings[i].before

(* The tokens: unless two requests have counted at once, whoever has       *)
(* counted is alone and there is no token.                                 *)

TokenInv ==
    raced \/ /\ \A i, j \in DOMAIN tokens : i = j
             /\ \A b \in Browsers : req[b].at = "counted" =>
                   /\ DOMAIN tokens = {}
                   /\ \A c \in Browsers : req[c].at = "counted" => c = b

AccessInv == AccessTypeOK /\ SigningInv /\ SessionInv /\ TokenInv /\ PageNamesItsTokens
-----------------------------------------------------------------------------
\* A sequence one of whose elements is replaced.
LEMMA Replaced ==
    ASSUME NEW S, NEW q \in Seq(S), NEW i \in 1..Len(q), NEW v \in S
    PROVE  LET r == [q EXCEPT ![i] = v]
           IN  /\ r \in Seq(S) /\ Len(r) = Len(q) /\ r[i] = v
               /\ \A j \in 1..Len(q) : j # i => r[j] = q[j]
OBVIOUS

LEMMA AccessInitially == AccessInit => AccessInv
<1> SUFFICES ASSUME AccessInit PROVE AccessInv
  OBVIOUS
<1> USE AccessAssumption DEF AccessInit
<1>1. DOMAIN tokens = {} /\ DOMAIN page = {}
  OBVIOUS
<1>2. tokens \in [DOMAIN tokens -> 1..made]
  BY <1>1
<1>3. signings \in Seq(Signing) /\ Len(signings) = 0
  OBVIOUS
<1>4. AccessTypeOK
  <2>1. Idle \in Request /\ Idle.id = 0
    BY DEF Idle, Request, SigningIds
  <2>2. req \in [Browsers -> Request] /\ \A b \in Browsers : req[b].id <= Len(signings)
    BY <1>3, <2>1
  <2>3. session \in 0..Len(signings) /\ cookie \in [Browsers -> 0..Len(signings)]
    BY <1>3
  <2>4. made \in 0..MaxTokens /\ failures \in 0..MaxFailures /\ Len(signings) <= MaxSignings
    BY <1>3
  <2>5. raced \in BOOLEAN
    OBVIOUS
  <2>6. DOMAIN tokens \subseteq 1..made /\ DOMAIN page \subseteq 1..made
    BY <1>1
  <2> HIDE DEF AccessInit
  <2> QED BY <1>2, <1>3, <2>2, <2>3, <2>4, <2>5, <2>6 DEF AccessTypeOK
<1>5. SigningInv /\ SessionInv
  <2>1. \A b \in Browsers : ~Signs(b) /\ cookie[b] = 0
    BY DEF Signs, Idle
  <2>2. 1..Len(signings) = {}
    BY <1>3
  <2> QED BY <2>1, <2>2 DEF SigningInv, SessionInv
<1>6. TokenInv /\ PageNamesItsTokens
  BY <1>1 DEF TokenInv, PageNamesItsTokens, Idle
<1> QED BY <1>4, <1>5, <1>6 DEF AccessInv

LEMMA IdleRequest ==
    AccessTypeOK => /\ Idle \in Request /\ Idle.at = "idle" /\ Idle.id = 0
                    /\ Idle.id <= Len(signings) /\ Len(signings) \in Nat
BY AccessAssumption DEF AccessTypeOK, Request, Idle, SigningIds

\* What a new login or logout is.
LEMMA SignStep ==
    ASSUME AccessInv, NEW b \in Browsers, NEW kind \in {"login", "logout"}, Sign(b, kind)
    PROVE  AccessInv'
<1> DEFINE s == [kind |-> kind, before |-> {0} \cup Answered,
                 failed |-> FALSE, answered |-> FALSE]
<1> USE AccessAssumption DEF AccessInv, Sign, SigningIds
<1>1. Answered \subseteq SigningIds /\ s \in Signing
  BY DEF AccessTypeOK, Answered, Signing
<1>2. /\ signings' = Append(signings, s)
      /\ signings' \in Seq(Signing) /\ Len(signings') = Len(signings) + 1
      /\ \A i \in 1..Len(signings) : signings'[i] = signings[i]
      /\ signings'[Len(signings) + 1] = s
  BY <1>1 DEF AccessTypeOK
<1>3. Answered' = Answered
  BY <1>2 DEF Answered, AccessTypeOK
<1>4. AccessTypeOK'
  BY <1>2 DEF AccessTypeOK, Request
<1>5. SigningInv'
  <2>1. req = [c \in Browsers |-> req[c]] /\ \A c \in Browsers : c # b => req'[c] = req[c]
    BY DEF AccessTypeOK
  <2>2. req'[b] = [at |-> "sign", id |-> Len(signings) + 1] /\ ~Signs(b)
    BY DEF AccessTypeOK, Signs, Idle
  <2>3. \A c \in Browsers : Signs(c) => req[c].id \in 1..Len(signings)
    BY DEF SigningInv, AccessTypeOK, Request
  <2>4. \A c \in Browsers : cookie[c] # 0 => cookie[c] \in 1..Len(signings)
    BY DEF AccessTypeOK
  <2>5. \A c \in Browsers : Signs(c)' <=> (Signs(c) \/ c = b)
    BY <2>1, <2>2 DEF Signs
  <2>6. \A c \in Browsers : Signs(c)' =>
          /\ req'[c].id # 0 /\ ~signings'[req'[c].id].answered
          /\ \A d \in Browsers : Signs(d)' /\ req'[d].id = req'[c].id => d = c
    BY <1>2, <2>1, <2>2, <2>3, <2>5 DEF SigningInv, AccessTypeOK
  <2>7. \A c \in Browsers : cookie'[c] # 0 =>
          /\ signings'[cookie'[c]].answered
          /\ \A d \in Browsers : cookie'[d] = cookie'[c] => d = c
    BY <1>2, <2>4 DEF SigningInv
  <2>8. \A i \in 1..Len(signings') : signings'[i].before \subseteq {0} \cup Answered'
    BY <1>2, <1>3 DEF SigningInv, AccessTypeOK
  <2> QED BY <2>6, <2>7, <2>8 DEF SigningInv
<1>6. SessionInv'
  <2>1. \A i \in 1..Len(signings') : Written(i)' => Written(i)
    BY DEF Written, AccessTypeOK
  <2>2. \A i \in 1..Len(signings') :
           (signings'[i].answered \/ Written(i)') => i \in 1..Len(signings)
    <3>1. \A i \in Nat : Written(i) => i <= Len(signings)
      BY DEF Written, AccessTypeOK
    <3> QED BY <1>2, <2>1, <3>1 DEF AccessTypeOK
  <2> QED BY <1>2, <2>1, <2>2 DEF SessionInv
<1>7. TokenInv' /\ PageNamesItsTokens'
  BY DEF TokenInv, PageNamesItsTokens, AccessTypeOK
<1> QED BY <1>4, <1>5, <1>6, <1>7

\* The id of a request that signs is that of a login or logout.
LEMMA SigningIsKnown ==
    ASSUME AccessTypeOK, SigningInv, NEW b \in Browsers, Signs(b)
    PROVE  /\ req[b].id \in 1..Len(signings) /\ ~signings[req[b].id].answered
           /\ signings[req[b].id] \in Signing
BY DEF AccessTypeOK, SigningInv, Request, SigningIds

\* A request that has gone on without writing anything: it signs no more than
\* it did, and it has counted no tokens.
LEMMA GoneOn ==
    ASSUME AccessInv, NEW b \in Browsers, ~Signs(b), NEW r \in Request,
           r.at \notin {"sign", "written", "counted"}, r.id <= Len(signings),
           req' = [req EXCEPT ![b] = r],
           UNCHANGED <<session, signings, tokens, made, page, raced, failures>>,
           \/ UNCHANGED cookie
           \/ cookie' = [cookie EXCEPT ![b] = 0]
    PROVE  AccessInv'
<1> USE DEF AccessInv
<1>1. /\ req'[b] = r
      /\ \A c \in Browsers : c # b => req'[c] = req[c]
      /\ \A c \in Browsers : cookie'[c] = cookie[c] \/ cookie'[c] = 0
  BY DEF AccessTypeOK
<1>2. AccessTypeOK'
  <2>0. 0 \in 0..Len(signings)
    BY DEF AccessTypeOK
  <2>1. req' \in [Browsers -> Request] /\ cookie' \in [Browsers -> 0..Len(signings)]
    <3>1. req' \in [Browsers -> Request]
      BY DEF AccessTypeOK
    <3> QED BY <2>0, <3>1 DEF AccessTypeOK
  <2>2. \A c \in Browsers : req'[c].id <= Len(signings)
    BY <1>1 DEF AccessTypeOK
  <2> QED BY <2>1, <2>2 DEF AccessTypeOK
<1>3. \A c \in Browsers : Signs(c)' <=> Signs(c)
  BY <1>1 DEF Signs
<1>4. SigningInv'
  BY <1>1, <1>3 DEF SigningInv, Answered, Signs
<1>5. SessionInv'
  BY <1>1 DEF SessionInv, Written, Signs
<1>6. TokenInv' /\ PageNamesItsTokens'
  BY <1>1 DEF TokenInv, PageNamesItsTokens
<1> QED BY <1>2, <1>4, <1>5, <1>6

LEMMA WriteSessionStep ==
    ASSUME AccessInv, NEW b \in Browsers, WriteSession(b) \/ WriteSessionFails(b)
    PROVE  AccessInv'
<1> USE DEF AccessInv, Goto
<1> DEFINE n == req[b].id
<1>1. n \in 1..Len(signings) /\ ~signings[n].answered /\ signings[n] \in Signing
  BY SigningIsKnown DEF WriteSession, WriteSessionFails, Signs
<1>2. /\ req' = [req EXCEPT ![b].at = "written"]
      /\ req[b].at = "sign"
      /\ UNCHANGED <<cookie, tokens, made, page, raced>>
  BY DEF WriteSession, WriteSessionFails
<1>3. /\ req'[b].at = "written" /\ req'[b].id = n /\ req'[b] \in Request
      /\ \A c \in Browsers : c # b => req'[c] = req[c]
      /\ \A c \in Browsers : req'[c].id = req[c].id
      /\ req' \in [Browsers -> Request]
  BY <1>2 DEF AccessTypeOK, Request
<1>4. /\ signings' \in Seq(Signing) /\ Len(signings') = Len(signings)
      /\ \A i \in 1..Len(signings) :
            /\ signings'[i].before = signings[i].before
            /\ signings'[i].answered = signings[i].answered
            /\ signings[i].failed => signings'[i].failed
            /\ signings[i].before \subseteq {0} \cup Answered
  <2>1. CASE WriteSession(b)
    BY <2>1 DEF WriteSession, AccessTypeOK, SigningInv
  <2>2. CASE WriteSessionFails(b)
    <3> DEFINE v == [signings[n] EXCEPT !.failed = TRUE]
    <3>1. signings' = [signings EXCEPT ![n] = v]
      BY <2>2 DEF WriteSessionFails
    <3>2. v \in Signing
      BY <1>1 DEF Signing
    <3> HIDE DEF v
    <3>3. signings \in Seq(Signing)
      BY DEF AccessTypeOK
    <3>5. /\ signings' \in Seq(Signing) /\ Len(signings') = Len(signings)
          /\ signings'[n] = v
          /\ \A i \in 1..Len(signings) : i # n => signings'[i] = signings[i]
      BY <1>1, <3>1, <3>2, <3>3, Replaced
    <3>6. \A i \in 1..Len(signings) : signings[i].before \subseteq {0} \cup Answered
      BY DEF SigningInv
    <3>7. /\ signings'[n].before = signings[n].before
          /\ signings'[n].answered = signings[n].answered
          /\ signings'[n].failed
      BY <1>1, <3>5 DEF v, Signing
    <3> QED BY <3>5, <3>6, <3>7
  <2> QED BY <2>1, <2>2
<1>5. AccessTypeOK'
  <2>1. session' \in 0..Len(signings)
    BY <1>1 DEF AccessTypeOK, WriteSession, SetSession, WriteSessionFails
  <2>2. failures' \in 0..MaxFailures
    BY AccessAssumption DEF AccessTypeOK, WriteSession, WriteSessionFails
  <2>3. \A c \in Browsers : req'[c].id <= Len(signings')
    BY <1>3, <1>4 DEF AccessTypeOK
  <2> QED BY <1>2, <1>3, <1>4, <2>1, <2>2, <2>3 DEF AccessTypeOK
<1>6. Answered' = Answered
  BY <1>4 DEF Answered
<1>7. \A c \in Browsers : Signs(c)' <=> Signs(c)
  BY <1>2, <1>3 DEF Signs
<1>8. SigningInv'
  <2>1. \A c \in Browsers : Signs(c) => req[c].id \in 1..Len(signings)
    BY SigningIsKnown
  <2>2. \A c \in Browsers : cookie[c] # 0 => cookie[c] \in 1..Len(signings)
    BY DEF AccessTypeOK
  <2> QED BY <1>2, <1>3, <1>4, <1>6, <1>7, <2>1, <2>2 DEF SigningInv
<1>9. SessionInv'
  <2> SUFFICES ASSUME NEW i \in 1..Len(signings),
                      signings'[i].answered \/ Written(i)', ~signings'[i].failed
               PROVE  session' \notin signings'[i].before
    BY <1>4 DEF SessionInv
  <2>1. CASE WriteSession(b)
    <3>1. session' = n /\ signings'[i].before \subseteq {0} \cup Answered
      BY <1>4, <2>1 DEF WriteSession, SetSession
    <3>2. n \notin {0} \cup Answered
      BY <1>1 DEF Answered
    <3> QED BY <3>1, <3>2
  <2>2. CASE WriteSessionFails(b)
    <3>1. signings'[n].failed
      BY <1>1, <2>2 DEF WriteSessionFails, AccessTypeOK, Signing
    <3>2. i # n
      BY <3>1
    <3>3. signings'[i] = signings[i] /\ session' = session
      BY <1>1, <2>2, <3>2 DEF WriteSessionFails, AccessTypeOK
    <3>4. Written(i)' => Written(i)
      BY <1>3, <3>2 DEF Written
    <3> QED BY <3>3, <3>4 DEF SessionInv
  <2> QED BY <2>1, <2>2
<1>10. TokenInv' /\ PageNamesItsTokens'
  BY <1>2, <1>3 DEF TokenInv, PageNamesItsTokens
<1> QED BY <1>5, <1>8, <1>9, <1>10

LEMMA AnswerSignStep ==
    ASSUME AccessInv, NEW b \in Browsers, AnswerSign(b)
    PROVE  AccessInv'
<1> USE DEF AccessInv, Return
<1> DEFINE n == req[b].id
           v == [signings[n] EXCEPT !.answered = TRUE]
<1>1. n \in 1..Len(signings) /\ ~signings[n].answered /\ signings[n] \in Signing
  BY SigningIsKnown DEF AnswerSign, Signs
<1>2. /\ req' = [req EXCEPT ![b] = Idle] /\ req[b].at = "written"
      /\ signings' = [signings EXCEPT ![n] = v]
      /\ cookie' = [cookie EXCEPT ![b] = NewCookie(b)] /\ NewCookie(b) \in {0, n}
      /\ UNCHANGED <<session, tokens, made, page, raced, failures>>
  BY DEF AnswerSign, NewCookie
<1>3. /\ req' \in [Browsers -> Request] /\ req'[b] = Idle
      /\ \A c \in Browsers : c # b => req'[c] = req[c]
      /\ cookie'[b] \in {0, n}
      /\ \A c \in Browsers : c # b => cookie'[c] = cookie[c]
  BY <1>2, IdleRequest DEF AccessTypeOK
<1>4. /\ v \in Signing /\ v.answered /\ v.before = signings[n].before
      /\ v.failed = signings[n].failed
  BY <1>1 DEF Signing
<1> HIDE DEF v
<1>5. /\ signings' \in Seq(Signing) /\ Len(signings') = Len(signings)
      /\ signings'[n] = v
      /\ \A i \in 1..Len(signings) : i # n => signings'[i] = signings[i]
  <2>1. signings \in Seq(Signing)
    BY DEF AccessTypeOK
  <2> QED BY <1>1, <1>2, <1>4, <2>1, Replaced
<1>6. AccessTypeOK'
  <2>1. cookie' \in [Browsers -> 0..Len(signings)]
    BY <1>1, <1>2 DEF AccessTypeOK
  <2>2. \A c \in Browsers : req'[c].id <= Len(signings')
    BY <1>1, <1>3, <1>5 DEF AccessTypeOK, Idle
  <2> QED BY <1>2, <1>3, <1>5, <2>1, <2>2 DEF AccessTypeOK
<1>7. Answered' = Answered \cup {n}
  BY <1>1, <1>4, <1>5 DEF Answered
<1>8. \A c \in Browsers : Signs(c)' => c # b /\ Signs(c) /\ req[c].id # n
  BY <1>2, <1>3 DEF Signs, Idle, SigningInv
<1>9. SigningInv'
  <2>1. \A c \in Browsers : Signs(c) => req[c].id \in 1..Len(signings)
    BY SigningIsKnown
  <2>2. \A c \in Browsers : cookie[c] # 0 =>
           cookie[c] \in 1..Len(signings) /\ signings[cookie[c]].answered
    BY DEF AccessTypeOK, SigningInv
  <2>3. \A c \in Browsers : cookie'[c] # 0 =>
          /\ signings'[cookie'[c]].answered
          /\ \A d \in Browsers : cookie'[d] = cookie'[c] => d = c
    BY <1>1, <1>3, <1>4, <1>5, <2>2 DEF SigningInv
  <2>4. \A i \in 1..Len(signings') : signings'[i].before \subseteq {0} \cup Answered'
    BY <1>1, <1>4, <1>5, <1>7 DEF SigningInv
  <2>5. \A c \in Browsers : Signs(c)' =>
          /\ req'[c].id # 0 /\ ~signings'[req'[c].id].answered
          /\ \A d \in Browsers : Signs(d)' /\ req'[d].id = req'[c].id => d = c
    BY <1>3, <1>5, <1>8, <2>1 DEF SigningInv
  <2> QED BY <2>3, <2>4, <2>5 DEF SigningInv
<1>10. SessionInv'
  <2>1. \A i \in 1..Len(signings) : Written(i)' => Written(i)
    BY <1>2, <1>3 DEF Written, Idle
  <2>2. Written(n)
    BY <1>2 DEF Written
  <2> QED BY <1>1, <1>2, <1>4, <1>5, <2>1, <2>2 DEF SessionInv
<1>11. TokenInv' /\ PageNamesItsTokens'
  BY <1>2, <1>3 DEF TokenInv, PageNamesItsTokens, Idle
<1> QED BY <1>6, <1>9, <1>10, <1>11

\* The middleware and the pages that write nothing.
LEMMA PageStep ==
    ASSUME AccessInv, NEW b \in Browsers, Ask(b) \/ Refuse(b) \/ ShowTokens(b)
    PROVE  AccessInv'
<1> USE DEF AccessInv, Return, Goto
<1>1. /\ Idle \in Request /\ Idle.at = "idle" /\ Idle.id = 0 /\ Idle.id <= Len(signings)
      /\ req[b] \in Request /\ req[b].id <= Len(signings)
  BY IdleRequest DEF AccessTypeOK
<1>2. CASE Ask(b)
  <2> DEFINE r == [req[b] EXCEPT !.at = IF Authorised(b) THEN "admitted" ELSE "refused"]
  <2>1. /\ r \in Request /\ r.at \notin {"sign", "written", "counted"}
        /\ r.id <= Len(signings)
    BY <1>1 DEF Request
  <2>2. req' = [req EXCEPT ![b] = r] /\ ~Signs(b)
        /\ UNCHANGED <<session, signings, tokens, made, page, raced, failures, cookie>>
    BY <1>1, <1>2 DEF Ask, Signs
  <2> HIDE DEF r
  <2> QED BY <2>1, <2>2, GoneOn
<1>3. CASE Refuse(b)
  <2>1. req' = [req EXCEPT ![b] = Idle] /\ ~Signs(b)
    BY <1>3 DEF Refuse, Signs
  <2> QED BY <1>1, <1>3, <2>1, GoneOn DEF Refuse
<1>4. CASE ShowTokens(b)
  <2>1. /\ req' = [req EXCEPT ![b] = Idle] /\ ~Signs(b) /\ page' = tokens
        /\ UNCHANGED <<session, cookie, signings, tokens, made, raced, failures>>
    BY <1>4 DEF ShowTokens, Signs
  <2>2. /\ req'[b] = Idle /\ req' \in [Browsers -> Request]
        /\ \A c \in Browsers : c # b => req'[c] = req[c]
    BY <1>1, <2>1 DEF AccessTypeOK
  <2>3. AccessTypeOK'
    BY <1>1, <2>1, <2>2 DEF AccessTypeOK
  <2>4. \A c \in Browsers : Signs(c)' <=> Signs(c)
    BY <1>1, <2>1, <2>2 DEF Signs
  <2>5. SigningInv'
    BY <2>1, <2>2, <2>4 DEF SigningInv, Answered, Signs
  <2>6. SessionInv'
    BY <1>1, <2>1, <2>2 DEF SessionInv, Written
  <2>7. TokenInv' /\ PageNamesItsTokens'
    BY <1>1, <2>1, <2>2 DEF TokenInv, PageNamesItsTokens
  <2> QED BY <2>3, <2>5, <2>6, <2>7
<1> QED BY <1>2, <1>3, <1>4

\* The three requests about tokens leave the session alone.
LEMMA SessionAlone ==
    ASSUME AccessInv, NEW b \in Browsers, ~Signs(b), ~Signs(b)',
           \A c \in Browsers : c # b => req'[c] = req[c],
           UNCHANGED <<session, cookie, signings>>
    PROVE  SigningInv' /\ SessionInv'
<1>1. \A c \in Browsers : Signs(c)' => Signs(c) /\ req'[c] = req[c]
  BY DEF Signs
<1>2. SigningInv'
  BY <1>1 DEF AccessInv, SigningInv, Answered
<1>3. SessionInv'
  BY <1>1 DEF AccessInv, SessionInv, Written, Signs
<1> QED BY <1>2, <1>3

LEMMA CountTokensStep ==
    ASSUME AccessInv, NEW b \in Browsers, CountTokens(b)
    PROVE  AccessInv'
<1> USE DEF AccessInv, Return, Goto
<1>1. /\ Idle \in Request /\ Idle.at = "idle" /\ Idle.id = 0 /\ Idle.id <= Len(signings)
      /\ req[b] \in Request /\ req[b].id <= Len(signings)
  BY IdleRequest DEF AccessTypeOK
<1>2. /\ req' \in [Browsers -> Request]
      /\ req'[b].at = (IF NoToken THEN "counted" ELSE "idle")
      /\ req'[b].id <= Len(signings)
      /\ \A c \in Browsers : c # b => req'[c] = req[c]
      /\ ~Signs(b) /\ ~Signs(b)'
  <2>1. [req[b] EXCEPT !.at = "counted"] \in Request
    BY <1>1 DEF Request
  <2>2. CASE NoToken
    <3>1. req' = [req EXCEPT ![b] = [req[b] EXCEPT !.at = "counted"]]
      BY <2>2 DEF CountTokens
    <3> QED BY <1>1, <2>1, <2>2, <3>1 DEF CountTokens, AccessTypeOK, Request, Signs
  <2>3. CASE ~NoToken
    <3>1. req' = [req EXCEPT ![b] = Idle]
      BY <2>3 DEF CountTokens
    <3> QED BY <1>1, <2>3, <3>1 DEF CountTokens, AccessTypeOK, Signs
  <2> QED BY <2>2, <2>3
<1>3. AccessTypeOK'
  <2>1. \A c \in Browsers : req'[c].id <= Len(signings)
    BY <1>2 DEF AccessTypeOK
  <2> QED BY <1>2, <2>1 DEF CountTokens, AccessTypeOK
<1>4. SigningInv' /\ SessionInv'
  BY <1>2, SessionAlone DEF CountTokens
<1>5. TokenInv'
  BY <1>2 DEF TokenInv, CountTokens, NoToken
<1>6. PageNamesItsTokens'
  BY DEF PageNamesItsTokens, CountTokens
<1> QED BY <1>3, <1>4, <1>5, <1>6

LEMMA CreateTokenStep ==
    ASSUME AccessInv, NEW b \in Browsers, CreateToken(b)
    PROVE  AccessInv'
<1> USE DEF AccessInv, Return
<1>1. /\ Idle \in Request /\ Idle.at = "idle" /\ Idle.id = 0
      /\ Len(signings) \in Nat /\ made \in Nat
  BY AccessAssumption DEF AccessTypeOK, Request, Idle, SigningIds
<1>2. /\ req' \in [Browsers -> Request] /\ req'[b] = Idle
      /\ \A c \in Browsers : c # b => req'[c] = req[c]
      /\ ~Signs(b) /\ ~Signs(b)'
  BY <1>1 DEF CreateToken, AccessTypeOK, Signs
<1>3. /\ made' \in made..MaxTokens
      /\ DOMAIN tokens \subseteq DOMAIN tokens'
      /\ \A i \in DOMAIN tokens : tokens'[i] = tokens[i]
      /\ \A i \in DOMAIN tokens' \ DOMAIN tokens : i = made + 1 /\ made' = made + 1
      /\ DOMAIN tokens' \subseteq 1..made' /\ tokens' \in [DOMAIN tokens' -> 1..made']
  <2>1. CASE UNCHANGED <<made, tokens>>
    BY <1>1, <2>1 DEF AccessTypeOK
  <2>2. CASE /\ made < MaxTokens /\ made' = made + 1
             /\ tokens' = [i \in DOMAIN tokens \cup {NextId} |->
                              IF i = NextId THEN made + 1 ELSE tokens[i]]
    <3>1. \A i \in DOMAIN tokens : i \in 1..made /\ tokens[i] \in 1..made
      BY DEF AccessTypeOK
    <3>2. DOMAIN tokens' = DOMAIN tokens \cup {made + 1}
      BY <2>2 DEF NextId
    <3>3. \A i \in DOMAIN tokens' : i \in 1..made' /\ tokens'[i] \in 1..made'
      BY <1>1, <2>2, <3>1, <3>2 DEF NextId
    <3>4. tokens' \in [DOMAIN tokens' -> 1..made']
      BY <2>2, <3>2, <3>3
    <3>5. \A i \in DOMAIN tokens : tokens'[i] = tokens[i]
      BY <1>1, <2>2, <3>1 DEF NextId
    <3>6. made' \in made..MaxTokens
      BY <1>1, <2>2, AccessAssumption
    <3> QED BY <2>2, <3>2, <3>3, <3>4, <3>5, <3>6
  <2> QED BY <2>1, <2>2 DEF CreateToken
<1>4. AccessTypeOK'
  <2>1. \A c \in Browsers : req'[c].id <= Len(signings)
    BY <1>1, <1>2 DEF AccessTypeOK
  <2>2. made' \in 0..MaxTokens
    BY <1>1, <1>3, AccessAssumption
  <2>3. DOMAIN page \subseteq 1..made'
    BY <1>1, <1>3, AccessAssumption DEF AccessTypeOK
  <2> QED BY <1>2, <1>3, <2>1, <2>2, <2>3 DEF CreateToken, AccessTypeOK
<1>5. SigningInv' /\ SessionInv'
  BY <1>2, SessionAlone DEF CreateToken
<1>6. TokenInv'
  BY <1>1, <1>2, <1>3 DEF TokenInv, CreateToken
<1>7. PageNamesItsTokens'
  <2>1. \A i \in DOMAIN page : i <= made /\ i \in Nat
    BY DEF AccessTypeOK
  <2> QED BY <1>1, <1>3, <2>1 DEF PageNamesItsTokens, CreateToken
<1> QED BY <1>4, <1>5, <1>6, <1>7

LEMMA RevokeStep ==
    ASSUME AccessInv, NEW b \in Browsers, NEW id \in DOMAIN page, RevokeAPIToken(b, id)
    PROVE  AccessInv'
<1> USE DEF AccessInv, Return
<1>1. Idle \in Request /\ Idle.at = "idle" /\ Idle.id <= Len(signings)
  BY IdleRequest
<1>2. /\ req' \in [Browsers -> Request] /\ req'[b] = Idle
      /\ \A c \in Browsers : c # b => req'[c] = req[c]
      /\ ~Signs(b) /\ ~Signs(b)'
      /\ \A c \in Browsers : req'[c].id <= Len(signings)
  BY <1>1 DEF RevokeAPIToken, AccessTypeOK, Signs
<1>3. /\ DOMAIN tokens' \subseteq DOMAIN tokens
      /\ \A i \in DOMAIN tokens' : tokens'[i] = tokens[i]
      /\ tokens' \in [DOMAIN tokens' -> 1..made]
  BY DEF RevokeAPIToken, Restrict, AccessTypeOK
<1>4. AccessTypeOK'
  BY <1>2, <1>3 DEF RevokeAPIToken, AccessTypeOK
<1>5. SigningInv' /\ SessionInv'
  BY <1>2, SessionAlone DEF RevokeAPIToken
<1>6. TokenInv' /\ PageNamesItsTokens'
  BY <1>1, <1>2, <1>3 DEF TokenInv, PageNamesItsTokens, RevokeAPIToken
<1> QED BY <1>4, <1>5, <1>6

LEMMA AccessUnchanged ==
    ASSUME AccessInv, UNCHANGED accessVars, failures' \in 0..MaxFailures
    PROVE  AccessInv'
<1> USE DEF AccessInv, accessVars
<1>1. AccessTypeOK'
  BY DEF AccessTypeOK
<1>2. SigningInv' /\ SessionInv'
  BY DEF SigningInv, SessionInv, Signs, Written, Answered
<1>3. TokenInv' /\ PageNamesItsTokens'
  BY DEF TokenInv, PageNamesItsTokens
<1> QED BY <1>1, <1>2, <1>3

LEMMA AccessStep == AccessInv /\ AccessNext => AccessInv'
<1> SUFFICES ASSUME AccessInv, NEW b \in Browsers, Browser(b) PROVE AccessInv'
  BY DEF AccessNext
<1>1. CASE \E kind \in {"login", "logout"} : Sign(b, kind)
  BY <1>1, SignStep
<1>2. CASE WriteSession(b) \/ WriteSessionFails(b)
  BY <1>2, WriteSessionStep
<1>3. CASE AnswerSign(b)
  BY <1>3, AnswerSignStep
<1>4. CASE Ask(b) \/ Refuse(b) \/ ShowTokens(b)
  BY <1>4, PageStep
<1>5. CASE CountTokens(b)
  BY <1>5, CountTokensStep
<1>6. CASE CreateToken(b)
  BY <1>6, CreateTokenStep
<1>7. CASE \E id \in DOMAIN page : RevokeAPIToken(b, id)
  BY <1>7, RevokeStep
<1> QED BY <1>1, <1>2, <1>3, <1>4, <1>5, <1>6, <1>7 DEF Browser

\* What the invariant is for.
LEMMA AccessInvariants == AccessInv => OneBrowserIn /\ AnsweredSigningHolds /\ OneToken
<1> SUFFICES ASSUME AccessInv
             PROVE  OneBrowserIn /\ AnsweredSigningHolds /\ OneToken
  OBVIOUS
<1> USE DEF AccessInv
<1>1. OneBrowserIn
  <2> DEFINE in == {b \in Browsers : Authorised(b)}
  <2>1. \A b, c \in in : b = c
    BY DEF Authorised, SigningInv
  <2>2. CASE in = {}
    BY <2>2, FS_EmptySet DEF OneBrowserIn
  <2>3. CASE in # {}
    <3>1. PICK b \in in : TRUE
      BY <2>3
    <3>2. in = {b}
      BY <2>1, <3>1
    <3>3. Cardinality(in) = 1
      BY <3>2, FS_Singleton
    <3> QED BY <3>3 DEF OneBrowserIn
  <2> QED BY <2>2, <2>3
<1>2. AnsweredSigningHolds
  BY DEF AnsweredSigningHolds, Answered, SessionInv
<1>3. OneToken
  <2> SUFFICES ASSUME ~raced PROVE Cardinality(DOMAIN tokens) <= 1
    BY DEF OneToken
  <2>1. CASE DOMAIN tokens = {}
    BY <2>1, FS_EmptySet
  <2>2. CASE DOMAIN tokens # {}
    <3>1. PICK i \in DOMAIN tokens : TRUE
      BY <2>2
    <3>2. DOMAIN tokens = {i}
      BY <3>1 DEF TokenInv
    <3>3. Cardinality(DOMAIN tokens) = 1
      BY <3>2, FS_Singleton
    <3> QED BY <3>3
  <2> QED BY <2>1, <2>2
<1> QED BY <1>1, <1>2, <1>3
-----------------------------------------------------------------------------
(* The registry.  A pending heartbeat is its process's own and has not     *)
(* been answered, so none of those answered before some other one was      *)
(* received is still to be written: what is written can only replace a row *)
(* by one that hides nothing.                                              *)

IsPending(a) == beat[a].at # "idle"

BeatInv ==
    \A a \in Agents : IsPending(a) =>
       /\ beat[a].id # 0
       /\ beats[beat[a].id].host = HostOf[a] /\ ~beats[beat[a].id].answered
       /\ \A c \in Agents : IsPending(c) /\ beat[c].id = beat[a].id => c = a

BeforeInv == \A i \in 1..Len(beats) : beats[i].before \subseteq AnsweredOf(beats[i].host)

\* Host h has a row that is not of a heartbeat in B.
ShowsNewer(h, B) == \E n \in RowsOf(h) : nodes[n].from \notin B

FoundInv ==
    \A a \in Agents : beat[a].at = "found" =>
       /\ beat[a].row # 0 => beat[a].row \in RowsOf(HostOf[a])
       /\ beat[a].row = 0 =>
             \A n \in RowsOf(HostOf[a]) : nodes[n].from \notin beats[beat[a].id].before

BeatWritten(i) == \E a \in Agents : beat[a].at = "written" /\ beat[a].id = i

SeenInv ==
    \A i \in 1..Len(beats) :
       (beats[i].answered \/ BeatWritten(i)) /\ ~beats[i].failed =>
          ShowsNewer(beats[i].host, beats[i].before)

RegistryInv == BeatInv /\ BeforeInv /\ OneNodePerHost /\ FoundInv /\ SeenInv

Inv == TypeOK /\ AccessInv /\ RegistryInv
-----------------------------------------------------------------------------
LEMMA Initially == Init => Inv
<1> SUFFICES ASSUME Init PROVE Inv
  OBVIOUS
<1> USE DEF Init
<1>1. AccessInv
  BY AccessInitially
<1>2. /\ nodes \in Seq(Node) /\ Len(nodes) = 0
      /\ beats \in Seq(Beat) /\ Len(beats) = 0
      /\ 1..Len(nodes) = {} /\ 1..Len(beats) = {}
  OBVIOUS
<1>3. NotPending \in Pending /\ NotPending.id = 0 /\ NotPending.at = "idle"
  BY RegistryAssumption DEF NotPending, Pending, BeatIds
<1>4. TypeOK
  BY <1>1, <1>2, <1>3, RegistryAssumption DEF TypeOK, AccessInv
<1>5. RegistryInv
  BY <1>2, <1>3 DEF RegistryInv, BeatInv, BeforeInv, OneNodePerHost, FoundInv, SeenInv,
     IsPending
<1> QED BY <1>1, <1>4, <1>5 DEF Inv

\* The heartbeat of a pending process.
LEMMA PendingBeat ==
    ASSUME Inv, NEW a \in Agents, IsPending(a)
    PROVE  /\ beat[a].id \in 1..Len(beats) /\ beats[beat[a].id] \in Beat
           /\ beats[beat[a].id].host = HostOf[a] /\ HostOf[a] \in Hosts
           /\ \A i \in 1..Len(beats) : beat[a].id \notin beats[i].before
<1> USE RegistryAssumption DEF Inv, RegistryInv
<1>1. beat[a].id \in 1..Len(beats) /\ beats[beat[a].id] \in Beat
  BY DEF BeatInv, TypeOK, Pending, BeatIds
<1>2. beats[beat[a].id].host = HostOf[a] /\ HostOf[a] \in Hosts
  BY DEF BeatInv
<1>3. \A i \in 1..Len(beats) : beat[a].id \notin beats[i].before
  BY DEF BeatInv, BeforeInv, AnsweredOf
<1> QED BY <1>1, <1>2, <1>3

LEMMA ReceiveStep ==
    ASSUME Inv, NEW a \in Agents, Receive(a)
    PROVE  RegistryInv' /\ nodes' \in Seq(Node) /\ beats' \in Seq(Beat)
           /\ Len(beats') <= MaxBeats
           /\ beat' \in [Agents -> Pending] /\ \A c \in Agents : beat'[c].id <= Len(beats')
<1> USE RegistryAssumption DEF Inv, RegistryInv
<1> DEFINE v == [host |-> HostOf[a], before |-> AnsweredOf(HostOf[a]),
                 failed |-> FALSE, answered |-> FALSE]
           r == [at |-> "received", id |-> Len(beats) + 1, row |-> 0]
<1>0. /\ beats \in Seq(Beat) /\ Len(beats) \in Nat /\ Len(beats) + 1 \in 1..MaxBeats
      /\ beat \in [Agents -> Pending]
  BY DEF TypeOK, Receive
<1>1. v \in Beat /\ r \in Pending
  BY <1>0 DEF Beat, Pending, BeatIds, AnsweredOf
<1>2. /\ beats' = Append(beats, v) /\ beat' = [beat EXCEPT ![a] = r]
      /\ beat[a] = NotPending /\ UNCHANGED nodes
  BY DEF Receive
<1>3. /\ v.host = HostOf[a] /\ v.before = AnsweredOf(HostOf[a]) /\ ~v.failed /\ ~v.answered
      /\ r.at = "received" /\ r.id = Len(beats) + 1 /\ NotPending.at = "idle"
  BY DEF NotPending
<1> HIDE DEF v, r
<1>4. /\ beats' \in Seq(Beat) /\ Len(beats') = Len(beats) + 1
      /\ beats'[Len(beats) + 1] = v
      /\ \A i \in 1..Len(beats) : beats'[i] = beats[i]
  BY <1>0, <1>1, <1>2
<1>5. /\ beat' \in [Agents -> Pending] /\ beat'[a] = r
      /\ \A c \in Agents : c # a => beat'[c] = beat[c]
  BY <1>0, <1>1, <1>2
<1>6. \A c \in Agents : IsPending(c) => c # a /\ beat[c].id \in 1..Len(beats)
  BY <1>2, <1>3, PendingBeat DEF IsPending
<1>7. \A h \in Hosts : AnsweredOf(h)' = AnsweredOf(h)
  BY <1>0, <1>3, <1>4 DEF AnsweredOf
<1>8. \A c \in Agents : IsPending(c)' <=> (IsPending(c) \/ c = a)
  BY <1>3, <1>5 DEF IsPending
<1>9. BeatInv'
  <2>1. beat'[a].id # 0 /\ beats'[beat'[a].id] = v
    BY <1>0, <1>3, <1>4, <1>5
  <2>2. \A c \in Agents : IsPending(c) =>
           /\ beat'[c] = beat[c] /\ beats'[beat'[c].id] = beats[beat[c].id]
           /\ beat'[c].id # beat'[a].id
    BY <1>0, <1>3, <1>4, <1>5, <1>6
  <2> QED BY <1>3, <1>8, <2>1, <2>2 DEF BeatInv
<1>10. BeforeInv'
  <2>0. \A i \in 1..Len(beats) : beats[i] \in Beat
    BY <1>0
  <2>1. \A i \in 1..Len(beats) : beats[i].host \in Hosts
    BY <2>0 DEF Beat
  <2> QED BY <1>0, <1>3, <1>4, <1>7, <2>1 DEF BeforeInv
<1>11. OneNodePerHost'
  BY <1>2 DEF OneNodePerHost
<1>12. FoundInv'
  <2> SUFFICES ASSUME NEW c \in Agents, beat'[c].at = "found"
               PROVE  /\ c # a /\ beat'[c] = beat[c]
                      /\ beats'[beat[c].id] = beats[beat[c].id]
    BY <1>2 DEF FoundInv, RowsOf
  <2> QED BY <1>3, <1>4, <1>5, <1>6 DEF IsPending
<1>13. SeenInv'
  <2>1. \A i \in Nat : BeatWritten(i)' => BeatWritten(i) /\ i \in 1..Len(beats)
    BY <1>3, <1>5, <1>6 DEF BeatWritten, IsPending
  <2>2. \A i \in 1..Len(beats') : (beats'[i].answered \/ BeatWritten(i)') => i \in 1..Len(beats)
    BY <1>0, <1>3, <1>4, <2>1
  <2> QED BY <1>2, <1>4, <2>1, <2>2 DEF SeenInv, ShowsNewer, RowsOf
<1>14. \A c \in Agents : beat'[c].id <= Len(beats')
  BY <1>0, <1>3, <1>4, <1>5 DEF TypeOK, Pending, BeatIds
<1> QED BY <1>0, <1>2, <1>4, <1>5, <1>9, <1>10, <1>11, <1>12, <1>13, <1>14 DEF TypeOK

LEMMA FindNodeStep ==
    ASSUME Inv, NEW a \in Agents, FindNode(a)
    PROVE  RegistryInv' /\ nodes' \in Seq(Node) /\ beats' \in Seq(Beat)
           /\ Len(beats') <= MaxBeats
           /\ beat' \in [Agents -> Pending] /\ \A c \in Agents : beat'[c].id <= Len(beats')
<1> USE RegistryAssumption DEF Inv, RegistryInv
<1> DEFINE row == IF RowsOf(HostOf[a]) = {} THEN 0
                  ELSE CHOOSE n \in RowsOf(HostOf[a]) :
                          \A m \in RowsOf(HostOf[a]) : n <= m
           r == [beat[a] EXCEPT !.at = "found", !.row = row]
<1>1. RowsOf(HostOf[a]) = {} => row = 0
  OBVIOUS
<1>2. RowsOf(HostOf[a]) # {} => row \in RowsOf(HostOf[a])
  <2> SUFFICES ASSUME RowsOf(HostOf[a]) # {} PROVE row \in RowsOf(HostOf[a])
    OBVIOUS
  <2>1. PICK n \in RowsOf(HostOf[a]) : TRUE
    OBVIOUS
  <2>2. \A m \in RowsOf(HostOf[a]) : n <= m
    BY DEF RowsOf, OneNodePerHost
  <2> QED BY <2>1, <2>2
<1>3. row \in Nat
  BY <1>1, <1>2 DEF RowsOf
<1>4. beat' = [beat EXCEPT ![a] = r] /\ beat[a].at = "received" /\ UNCHANGED <<nodes, beats>>
  <2>1. beat' = [beat EXCEPT ![a].at = "found", ![a].row = row]
    BY DEF FindNode, Find
  <2>2. beat \in [Agents -> Pending]
    BY DEF TypeOK
  <2> HIDE DEF row
  <2>3. beat' = [beat EXCEPT ![a] = r]
    BY <2>1, <2>2
  <2> QED BY <2>3 DEF FindNode
<1> HIDE DEF row
<1>5. /\ r \in Pending /\ r.at = "found" /\ r.id = beat[a].id /\ r.row = row
  BY <1>3 DEF TypeOK, Pending
<1> HIDE DEF r
<1>6. /\ beat' \in [Agents -> Pending] /\ beat'[a] = r
      /\ \A c \in Agents : c # a => beat'[c] = beat[c]
      /\ \A c \in Agents : beat'[c].id = beat[c].id
  BY <1>4, <1>5 DEF TypeOK
<1>7. \A c \in Agents : IsPending(c)' <=> IsPending(c)
  BY <1>4, <1>5, <1>6 DEF IsPending
<1>8. BeatInv' /\ BeforeInv' /\ OneNodePerHost'
  BY <1>4, <1>6, <1>7 DEF BeatInv, BeforeInv, OneNodePerHost, AnsweredOf
<1>9. FoundInv'
  BY <1>1, <1>2, <1>4, <1>5, <1>6 DEF FoundInv, RowsOf
<1>10. SeenInv'
  <2>1. \A i \in 1..Len(beats) : BeatWritten(i)' => BeatWritten(i)
    BY <1>5, <1>6 DEF BeatWritten
  <2> QED BY <1>4, <2>1 DEF SeenInv, ShowsNewer, RowsOf
<1> QED BY <1>4, <1>6, <1>8, <1>9, <1>10 DEF TypeOK

\* A write of the heartbeat b for host h: of a row of h, of a new row if h had
\* none, or of nothing.
Writes(b, h) ==
    /\ nodes' \in Seq(Node) /\ Len(nodes') >= Len(nodes)
    /\ \A n \in 1..Len(nodes) :
          nodes'[n].host = nodes[n].host /\ nodes'[n].from \in {nodes[n].from, b}
    /\ \A n \in (Len(nodes) + 1)..Len(nodes') :
          /\ n = Len(nodes) + 1 /\ RowsOf(h) = {}
          /\ nodes'[n].host = h /\ nodes'[n].from = b

LEMMA CreateNodeWrites ==
    ASSUME Inv, NEW a \in Agents, CreateNode(a)
    PROVE  /\ Writes(beat[a].id, HostOf[a])
           /\ ShowsNewer(HostOf[a], beats[beat[a].id].before)'
<1> USE DEF Inv, RegistryInv
<1> DEFINE v == [host |-> HostOf[a], from |-> beat[a].id]
<1>1. /\ HostOf[a] \in Hosts /\ beat[a].id \in 1..Len(beats)
      /\ beat[a].id \notin beats[beat[a].id].before
  BY PendingBeat DEF CreateNode, IsPending
<1>2. v \in Node /\ nodes \in Seq(Node) /\ beats' = beats
  BY <1>1 DEF Node, TypeOK, Pending, CreateNode
<1>3. CASE RowsOf(HostOf[a]) = {}
  <2>1. nodes' = Append(nodes, v)
    BY <1>3 DEF CreateNode, HostFree
  <2>2. v.host = HostOf[a] /\ v.from = beat[a].id
    OBVIOUS
  <2> HIDE DEF v
  <2>3. /\ nodes' \in Seq(Node) /\ Len(nodes') = Len(nodes) + 1 /\ Len(nodes) \in Nat
        /\ nodes'[Len(nodes) + 1] = v /\ \A n \in 1..Len(nodes) : nodes'[n] = nodes[n]
    BY <1>2, <2>1
  <2>4. Writes(beat[a].id, HostOf[a])
    BY <1>3, <2>2, <2>3 DEF Writes
  <2>5. ShowsNewer(HostOf[a], beats[beat[a].id].before)'
    <3>1. beat'[a].id = beat[a].id
      BY DEF CreateNode, TypeOK, Pending
    <3> QED BY <1>1, <1>2, <2>2, <2>3, <3>1 DEF ShowsNewer, RowsOf
  <2> QED BY <2>4, <2>5
<1>4. CASE RowsOf(HostOf[a]) # {}
  <2>1. nodes' = nodes
    BY <1>4 DEF CreateNode, HostFree
  <2>2. Writes(beat[a].id, HostOf[a])
    BY <1>2, <2>1 DEF Writes
  <2>3. beat'[a].id = beat[a].id
    BY DEF CreateNode, TypeOK, Pending
  <2>4. ShowsNewer(HostOf[a], beats[beat[a].id].before)
    BY <1>4 DEF FoundInv, ShowsNewer, CreateNode
  <2> QED BY <1>2, <2>1, <2>2, <2>3, <2>4 DEF ShowsNewer, RowsOf
<1> QED BY <1>3, <1>4

LEMMA SaveNodeWrites ==
    ASSUME Inv, NEW a \in Agents, SaveNode(a)
    PROVE  /\ Writes(beat[a].id, HostOf[a])
           /\ ShowsNewer(HostOf[a], beats[beat[a].id].before)'
<1> USE DEF Inv, RegistryInv
<1> DEFINE v == [host |-> HostOf[a], from |-> beat[a].id]
           k == beat[a].row
<1>1. /\ HostOf[a] \in Hosts /\ beat[a].id \in 1..Len(beats)
      /\ beat[a].id \notin beats[beat[a].id].before
  BY PendingBeat DEF SaveNode, IsPending
<1>2. v \in Node /\ nodes \in Seq(Node) /\ beats' = beats
  BY <1>1 DEF Node, TypeOK, Pending, SaveNode
<1>3. k \in 1..Len(nodes) /\ nodes[k].host = HostOf[a]
  BY DEF SaveNode, FoundInv, RowsOf
<1>4. nodes' = [nodes EXCEPT ![k] = v] /\ beat'[a].id = beat[a].id
  BY DEF SaveNode, TypeOK, Pending
<1>5. v.host = HostOf[a] /\ v.from = beat[a].id
  OBVIOUS
<1> HIDE DEF v, k
<1>6. /\ nodes' \in Seq(Node) /\ Len(nodes') = Len(nodes) /\ nodes'[k] = v
      /\ \A n \in 1..Len(nodes) : n # k => nodes'[n] = nodes[n]
  BY <1>2, <1>3, <1>4, Replaced
<1>7. Len(nodes) \in Nat
  BY <1>2
<1>8. Writes(beat[a].id, HostOf[a])
  BY <1>3, <1>5, <1>6, <1>7 DEF Writes
<1>9. ShowsNewer(HostOf[a], beats[beat[a].id].before)'
  BY <1>1, <1>2, <1>3, <1>4, <1>5, <1>6 DEF ShowsNewer, RowsOf
<1> QED BY <1>8, <1>9

\* What was found, written or not, has been written.
LEMMA WriteNodeStep ==
    ASSUME Inv, NEW a \in Agents, CreateNode(a) \/ SaveNode(a) \/ WriteNodeFails(a)
    PROVE  RegistryInv' /\ nodes' \in Seq(Node) /\ beats' \in Seq(Beat)
           /\ Len(beats') <= MaxBeats
           /\ beat' \in [Agents -> Pending] /\ \A c \in Agents : beat'[c].id <= Len(beats')
<1> USE RegistryAssumption DEF Inv, RegistryInv
<1> DEFINE b == beat[a].id
           h == HostOf[a]
           v == [beats[b] EXCEPT !.failed = TRUE]
<1>0. beat[a].at = "found" /\ beat' = [beat EXCEPT ![a].at = "written"]
  BY DEF CreateNode, SaveNode, WriteNodeFails
<1>1. /\ b \in 1..Len(beats) /\ beats[b] \in Beat /\ beats[b].host = h /\ h \in Hosts
      /\ \A i \in 1..Len(beats) : b \notin beats[i].before
  BY <1>0, PendingBeat DEF IsPending
<1>2. /\ nodes \in Seq(Node) /\ beats \in Seq(Beat) /\ Len(beats) <= MaxBeats
      /\ Len(nodes) \in Nat /\ Len(beats) \in Nat
  BY DEF TypeOK
<1>3. /\ beat' \in [Agents -> Pending] /\ beat'[a].at = "written"
      /\ \A c \in Agents : c # a => beat'[c] = beat[c]
      /\ \A c \in Agents : beat'[c].id = beat[c].id
  BY <1>0 DEF TypeOK, Pending
<1>4. /\ v \in Beat /\ v.failed /\ v.host = h /\ v.before = beats[b].before
      /\ v.answered = beats[b].answered
  BY <1>1 DEF Beat
<1>5. Writes(b, h)
  <2>1. CASE WriteNodeFails(a)
    <3>1. nodes' = nodes
      BY <2>1 DEF WriteNodeFails
    <3> QED BY <1>2, <3>1 DEF Writes
  <2> QED BY <2>1, CreateNodeWrites, SaveNodeWrites
<1> HIDE DEF v
<1>6. /\ beats' \in Seq(Beat) /\ Len(beats') = Len(beats)
      /\ \A i \in 1..Len(beats) : /\ beats'[i].host = beats[i].host
                                  /\ beats'[i].before = beats[i].before
                                  /\ beats'[i].answered = beats[i].answered
                                  /\ beats[i].failed => beats'[i].failed
      /\ beats'[b].failed \/ ShowsNewer(h, beats[b].before)'
  <2>1. CASE WriteNodeFails(a)
    <3>1. beats' = [beats EXCEPT ![b] = v]
      BY <2>1 DEF WriteNodeFails, v
    <3>2. /\ beats' \in Seq(Beat) /\ Len(beats') = Len(beats) /\ beats'[b] = v
          /\ \A i \in 1..Len(beats) : i # b => beats'[i] = beats[i]
      BY <1>1, <1>2, <1>4, <3>1, Replaced
    <3> QED BY <1>1, <1>4, <3>2
  <2>2. CASE CreateNode(a) \/ SaveNode(a)
    <3>1. beats' = beats
      BY <2>2 DEF CreateNode, SaveNode
    <3>2. ShowsNewer(HostOf[a], beats[beat[a].id].before)'
      BY <2>2, CreateNodeWrites, SaveNodeWrites
    <3>3. beat'[a].id = beat[a].id
      BY <1>3
    <3>4. ShowsNewer(h, beats[b].before)'
      BY <3>1, <3>2, <3>3
    <3> QED BY <1>2, <3>1, <3>4
  <2> QED BY <2>1, <2>2
<1>7. \A c \in Agents : IsPending(c)' <=> IsPending(c)
  BY <1>0, <1>3 DEF IsPending
<1>8. \A c \in Agents : IsPending(c) => beat[c].id \in 1..Len(beats)
  BY PendingBeat
<1>9. \A x : AnsweredOf(x)' = AnsweredOf(x)
  BY <1>6 DEF AnsweredOf
<1>10. BeatInv'
  BY <1>3, <1>6, <1>7, <1>8 DEF BeatInv
<1>11. BeforeInv'
  BY <1>6, <1>9 DEF BeforeInv
<1>12. OneNodePerHost'
  <2> SUFFICES ASSUME NEW m \in 1..Len(nodes'), NEW n \in 1..Len(nodes'),
                      nodes'[m].host = nodes'[n].host
               PROVE  m = n
    BY DEF OneNodePerHost
  <2>1. CASE m \in 1..Len(nodes) /\ n \in 1..Len(nodes)
    BY <1>5, <2>1 DEF Writes, OneNodePerHost
  <2>2. ASSUME NEW j \in 1..Len(nodes) PROVE RowsOf(h) = {} => nodes'[j].host # h
    BY <1>5 DEF Writes, RowsOf
  <2>3. \A j \in 1..Len(nodes') : j \notin 1..Len(nodes) =>
           j = Len(nodes) + 1 /\ RowsOf(h) = {} /\ nodes'[j].host = h
    BY <1>2, <1>5 DEF Writes
  <2> QED BY <2>1, <2>2, <2>3
<1>13. FoundInv'
  <2> SUFFICES ASSUME NEW c \in Agents, beat'[c].at = "found"
               PROVE  /\ beat'[c].row # 0 => beat'[c].row \in RowsOf(HostOf[c])'
                      /\ beat'[c].row = 0 =>
                            \A n \in RowsOf(HostOf[c])' :
                               nodes'[n].from \notin beats'[beat'[c].id].before
    BY DEF FoundInv
  <2>1. c # a /\ beat'[c] = beat[c] /\ beat[c].at = "found"
    BY <1>3
  <2>2. beat[c].id \in 1..Len(beats)
    BY <1>8, <2>1 DEF IsPending
  <2>3. beats'[beat[c].id].before = beats[beat[c].id].before
    BY <1>6, <2>2
  <2>4. ASSUME beat[c].row # 0 PROVE beat[c].row \in RowsOf(HostOf[c])'
    <3>1. beat[c].row \in 1..Len(nodes) /\ nodes[beat[c].row].host = HostOf[c]
      BY <2>1, <2>4 DEF FoundInv, RowsOf
    <3> QED BY <1>2, <1>5, <3>1 DEF Writes, RowsOf
  <2>5. ASSUME beat[c].row = 0, NEW n \in RowsOf(HostOf[c])'
        PROVE  nodes'[n].from \notin beats[beat[c].id].before
    <3>1. n \in 1..Len(nodes') /\ nodes'[n].host = HostOf[c]
      BY DEF RowsOf
    <3>2. CASE n \in 1..Len(nodes)
      BY <1>1, <1>5, <2>1, <2>2, <2>5, <3>1, <3>2 DEF Writes, FoundInv, RowsOf
    <3>3. CASE n \notin 1..Len(nodes)
      BY <1>1, <1>2, <1>5, <2>2, <3>1, <3>3 DEF Writes
    <3> QED BY <3>2, <3>3
  <2> QED BY <2>1, <2>3, <2>4, <2>5
<1>14. SeenInv'
  <2> SUFFICES ASSUME NEW i \in 1..Len(beats), beats'[i].answered \/ BeatWritten(i)',
                      ~beats'[i].failed
               PROVE  \E n \in RowsOf(beats[i].host)' : nodes'[n].from \notin beats[i].before
    BY <1>6 DEF SeenInv, ShowsNewer
  <2>1. CASE i = b
    BY <1>1, <1>3, <1>6, <2>1 DEF ShowsNewer
  <2>2. CASE i # b
    <3>1. beats[i].answered \/ BeatWritten(i)
      BY <1>3, <1>6, <2>2 DEF BeatWritten
    <3>2. ShowsNewer(beats[i].host, beats[i].before)
      BY <1>6, <3>1 DEF SeenInv
    <3>3. \E n \in 1..Len(nodes') : /\ nodes'[n].host = beats[i].host
                                    /\ nodes'[n].from \notin beats[i].before
      BY <1>1, <1>2, <1>5, <3>2 DEF Writes, ShowsNewer, RowsOf
    <3> QED BY <1>6, <3>3 DEF RowsOf
  <2> QED BY <2>1, <2>2
<1>15. \A c \in Agents : beat'[c].id <= Len(beats')
  BY <1>3, <1>6 DEF TypeOK
<1> QED BY <1>2, <1>3, <1>5, <1>6, <1>10, <1>11, <1>12, <1>13, <1>14, <1>15 DEF Writes

LEMMA AnswerBeatStep ==
    ASSUME Inv, NEW a \in Agents, AnswerBeat(a)
    PROVE  RegistryInv' /\ nodes' \in Seq(Node) /\ beats' \in Seq(Beat)
           /\ Len(beats') <= MaxBeats
           /\ beat' \in [Agents -> Pending] /\ \A c \in Agents : beat'[c].id <= Len(beats')
<1> USE RegistryAssumption DEF Inv, RegistryInv
<1> DEFINE b == beat[a].id
           v == [beats[b] EXCEPT !.answered = TRUE]
<1>0. /\ beat[a].at = "written" /\ beat' = [beat EXCEPT ![a] = NotPending]
      /\ beats' = [beats EXCEPT ![b] = v] /\ nodes' = nodes
  BY DEF AnswerBeat
<1>1. b \in 1..Len(beats) /\ beats[b] \in Beat
  BY <1>0, PendingBeat DEF IsPending
<1>2. nodes \in Seq(Node) /\ beats \in Seq(Beat) /\ Len(beats) <= MaxBeats /\ Len(beats) \in Nat
  BY DEF TypeOK
<1>3. NotPending \in Pending /\ NotPending.id = 0 /\ NotPending.at = "idle"
  BY DEF NotPending, Pending, BeatIds
<1>4. /\ beat' \in [Agents -> Pending] /\ beat'[a] = NotPending
      /\ \A c \in Agents : c # a => beat'[c] = beat[c]
  BY <1>0, <1>3 DEF TypeOK
<1>5. /\ v \in Beat /\ v.answered /\ v.host = beats[b].host /\ v.before = beats[b].before
      /\ v.failed = beats[b].failed
  BY <1>1 DEF Beat
<1> HIDE DEF v
<1>6. /\ beats' \in Seq(Beat) /\ Len(beats') = Len(beats) /\ beats'[b] = v
      /\ \A i \in 1..Len(beats) : i # b => beats'[i] = beats[i]
  BY <1>0, <1>1, <1>2, <1>5, Replaced
<1>7. \A c \in Agents : IsPending(c)' => /\ c # a /\ IsPending(c) /\ beat'[c] = beat[c]
                                        /\ beat[c].id \in 1..Len(beats) /\ beat[c].id # b
  <2>1. \A c \in Agents : IsPending(c)' => c # a /\ IsPending(c) /\ beat'[c] = beat[c]
    BY <1>3, <1>4 DEF IsPending
  <2>2. \A c \in Agents : IsPending(c) /\ beat[c].id = b => c = a
    BY <1>0 DEF BeatInv, IsPending
  <2> QED BY <2>1, <2>2, PendingBeat
<1>8. BeatInv'
  BY <1>6, <1>7 DEF BeatInv
<1>9. BeforeInv'
  <2>1. \A x : AnsweredOf(x) \subseteq AnsweredOf(x)'
    BY <1>1, <1>5, <1>6 DEF AnsweredOf
  <2> QED BY <1>1, <1>5, <1>6, <2>1 DEF BeforeInv
<1>10. OneNodePerHost'
  BY <1>0 DEF OneNodePerHost
<1>11. FoundInv'
  <2>1. \A c \in Agents : beat'[c].at = "found" => IsPending(c)'
    BY DEF IsPending
  <2> QED BY <1>0, <1>6, <1>7, <2>1 DEF FoundInv, RowsOf
<1>12. SeenInv'
  <2>1. BeatWritten(b)
    BY <1>0 DEF BeatWritten
  <2>2. \A i \in 1..Len(beats) : BeatWritten(i)' => BeatWritten(i)
    BY <1>3, <1>4 DEF BeatWritten
  <2>3. \A i \in 1..Len(beats) :
           /\ beats'[i].host = beats[i].host /\ beats'[i].before = beats[i].before
           /\ beats'[i].failed = beats[i].failed
           /\ beats'[i].answered => beats[i].answered \/ i = b
    BY <1>1, <1>5, <1>6
  <2> QED BY <1>0, <1>6, <2>1, <2>2, <2>3 DEF SeenInv, ShowsNewer, RowsOf
<1>13. \A c \in Agents : beat'[c].id <= Len(beats')
  BY <1>2, <1>3, <1>4, <1>6 DEF TypeOK
<1> QED BY <1>0, <1>2, <1>4, <1>6, <1>8, <1>9, <1>10, <1>11, <1>12, <1>13
-----------------------------------------------------------------------------
LEMMA Invariance == Inv /\ [Next]_vars => Inv'
<1> SUFFICES ASSUME Inv, [Next]_vars PROVE Inv'
  OBVIOUS
<1>1. CASE AccessNext /\ UNCHANGED registryVars
  <2>1. AccessInv'
    BY <1>1, AccessStep DEF Inv
  <2>2. TypeOK'
    BY <1>1, <2>1 DEF Inv, TypeOK, AccessInv, registryVars
  <2>3. RegistryInv'
    BY <1>1 DEF Inv, registryVars, RegistryInv, BeatInv, BeforeInv, OneNodePerHost, FoundInv,
       SeenInv, IsPending, AnsweredOf, ShowsNewer, RowsOf, BeatWritten
  <2> QED BY <2>1, <2>2, <2>3 DEF Inv
<1>2. ASSUME NEW a \in Agents, PostAgentHeartbeat(a), UNCHANGED accessVars PROVE Inv'
  <2>1. failures' \in 0..MaxFailures
    BY <1>2, AccessAssumption DEF PostAgentHeartbeat, Receive, FindNode, CreateNode, SaveNode,
       WriteNodeFails, AnswerBeat, Inv, AccessInv, AccessTypeOK
  <2>2. AccessInv'
    BY <1>2, <2>1, AccessUnchanged DEF Inv
  <2>3. RegistryInv' /\ nodes' \in Seq(Node) /\ beats' \in Seq(Beat)
        /\ Len(beats') <= MaxBeats
        /\ beat' \in [Agents -> Pending] /\ \A c \in Agents : beat'[c].id <= Len(beats')
    BY <1>2, ReceiveStep, FindNodeStep, WriteNodeStep, AnswerBeatStep DEF PostAgentHeartbeat
  <2> QED BY <2>2, <2>3 DEF Inv, TypeOK, AccessInv
<1>3. CASE UNCHANGED vars
  <2>1. AccessInv'
    BY <1>3, AccessUnchanged DEF vars, Inv, AccessInv, AccessTypeOK
  <2>2. TypeOK' /\ RegistryInv'
    BY <1>3, <2>1 DEF vars, registryVars, Inv, TypeOK, AccessInv, RegistryInv, BeatInv, BeforeInv,
       OneNodePerHost, FoundInv, SeenInv, IsPending, AnsweredOf, ShowsNewer, RowsOf, BeatWritten
  <2> QED BY <2>1, <2>2 DEF Inv
<1> QED BY <1>1, <1>2, <1>3 DEF Next

LEMMA Invariant == Spec => []Inv
BY Initially, Invariance, PTL DEF Spec

\* Every variable keeps its type; what a row, a cookie or a pending request
\* names has been signed, made or received.
THEOREM TypeCorrect == Spec => []TypeOK
<1>1. Inv => TypeOK
  BY DEF Inv
<1> QED BY <1>1, Invariant, PTL

\* However logins and logouts of any number of browsers overlap, with rows
\* written by one and cookies set by another, one browser is let in at most.
THEOREM OneBrowser == Spec => []OneBrowserIn
<1>1. Inv => OneBrowserIn
  BY AccessInvariants DEF Inv
<1> QED BY <1>1, Invariant, PTL

\* An answered login or logout whose write did not fail is not undone by one
\* that had been answered before it was sent.
THEOREM SigningHolds == Spec => []AnsweredSigningHolds
<1>1. Inv => AnsweredSigningHolds
  BY AccessInvariants DEF Inv
<1> QED BY <1>1, Invariant, PTL

\* The count in GenerateAPIToken keeps the table to one row, unless two
\* requests have counted at once.
THEOREM OneAPIToken == Spec => []OneToken
<1>1. Inv => OneToken
  BY AccessInvariants DEF Inv
<1> QED BY <1>1, Invariant, PTL

\* A revocation sent from a page takes away the token the page showed or none,
\* however old the page is: ids are not used twice.
THEOREM LateRevocation == Spec => []PageNamesItsTokens
<1>1. Inv => PageNamesItsTokens
  BY DEF Inv, AccessInv
<1> QED BY <1>1, Invariant, PTL

\* A host has one row, also when its first heartbeats arrive at once.
THEOREM OneNode == Spec => []OneNodePerHost
<1>1. Inv => OneNodePerHost
  BY DEF Inv, RegistryInv
<1> QED BY <1>1, Invariant, PTL

\* No answered heartbeat whose write did not fail is hidden by one that had
\* been answered before it was received: neither the Create() that loses a
\* race nor the Save() of a stale row brings an older one back.
THEOREM BeatIsSeen == Spec => []AnsweredBeatIsSeen
<1>1. Inv => AnsweredBeatIsSeen
  BY DEF Inv, RegistryInv, SeenInv, ShowsNewer, AnsweredBeatIsSeen
<1> QED BY <1>1, Invariant, PTL
=============================================================================
