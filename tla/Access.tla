------------------------------ MODULE Access --------------------------------
(***************************************************************************)
(* Who gets in: the administrator's session, which is one row of settings  *)
(* and a cookie in a browser, and the table of API tokens agents present.  *)
(*                                                                         *)
(* Logins and logouts that write the session's row are numbered; the row   *)
(* holds the number of the one that wrote it last, a cookie the number of  *)
(* the login that set it, 0 is "not there".  generateSessionToken never    *)
(* returns a token twice, so a token is the number of its login.  A        *)
(* handler's statements are steps of their own.  A browser sends one       *)
(* request at a time.  Passwords are the module Settings'.                 *)
(***************************************************************************)
EXTENDS Naturals, Sequences, FiniteSets, Functions

CONSTANTS
    Browsers,
    MaxSignings,    \* bound: logins and logouts
    MaxTokens,      \* bound: API tokens made
    MaxFailures     \* bound: writes that fail, to any table

ASSUME AccessAssumption ==
    MaxSignings \in Nat /\ MaxTokens \in Nat /\ MaxFailures \in Nat

VARIABLES
    session,    \* row active_session_token: who wrote it last
    cookie,     \* per browser
    signings,   \* the logins and logouts so far
    tokens,     \* table api_tokens: the token of an id
    made,       \* API tokens made so far
    page,       \* the tokens on a dashboard that is still shown somewhere
    req,        \* per browser: the request it waits for
    raced,      \* whether two requests have counted the tokens at once
    failures    \* writes that failed so far

accessVars == <<session, cookie, signings, tokens, made, page, req, raced>>
-----------------------------------------------------------------------------
SigningIds == 0..MaxSignings

TokenIds == 1..MaxTokens

\* A login or logout: which, those that had been answered when it was sent,
\* whether its write failed, whether it has been answered.
Signing == [kind : {"login", "logout"}, before : SUBSET SigningIds,
            failed : BOOLEAN, answered : BOOLEAN]

\* A browser's request: none, signed in or out but not answered, written and
\* not answered, past the middleware, past the count of tokens, turned away.
Request == [at : {"idle", "sign", "written", "admitted", "counted", "refused"},
            id : SigningIds]

Idle == [at |-> "idle", id |-> 0]

\* The token the row holds: none after a logout.
ActiveToken == IF session > 0 /\ signings[session].kind = "login" THEN session ELSE 0

\* WebAuthMiddleware, of browser b's cookie
Authorised(b) == cookie[b] # 0 /\ cookie[b] = ActiveToken

Answered == {i \in 1..Len(signings) : signings[i].answered}
-----------------------------------------------------------------------------
AccessInit ==
    /\ session = 0
    /\ cookie = [b \in Browsers |-> 0]
    /\ signings = <<>>
    /\ tokens = <<>>
    /\ made = 0
    /\ page = <<>>
    /\ req = [b \in Browsers |-> Idle]
    /\ raced = FALSE
    /\ failures = 0

Goto(b, at) == req' = [req EXCEPT ![b].at = at]

Return(b) == req' = [req EXCEPT ![b] = Idle]

\* ProcessLogin with the right password, or Logout, which asks for no session.
Sign(b, kind) ==
    /\ req[b] = Idle /\ Len(signings) < MaxSignings
    /\ signings' = Append(signings, [kind |-> kind, before |-> {0} \cup Answered,
                                     failed |-> FALSE, answered |-> FALSE])
    /\ req' = [req EXCEPT ![b] = [at |-> "sign", id |-> Len(signings) + 1]]
    /\ UNCHANGED <<session, cookie, tokens, made, page, raced, failures>>

\* Mutant: a session that is active stays.
KeepSession(b) == session' = IF ActiveToken = 0 THEN req[b].id ELSE session

\* Mutant: the row is given another token than the browser.
OtherToken(b) == session' = req[b].id + 1

\* SetSetting of the fresh token, or of the empty one.
SetSession(b) == session' = req[b].id

WriteSession(b) ==
    /\ req[b].at = "sign"
    /\ SetSession(b)
    /\ Goto(b, "written")
    /\ UNCHANGED <<cookie, signings, tokens, made, page, raced, failures>>

\* The write fails; the error is dropped.
WriteSessionFails(b) ==
    /\ req[b].at = "sign"
    /\ failures < MaxFailures
    /\ failures' = failures + 1
    /\ signings' = [signings EXCEPT ![req[b].id].failed = TRUE]
    /\ Goto(b, "written")
    /\ UNCHANGED <<session, cookie, tokens, made, page, raced>>

\* Mutant: a login is given the token that is active when it is answered.
ActiveCookie(b) == IF signings[req[b].id].kind = "login" THEN ActiveToken ELSE 0

\* SetCookie of the login's token; of nothing, which removes it.
NewCookie(b) == IF signings[req[b].id].kind = "login" THEN req[b].id ELSE 0

\* The redirect arrives at the browser.
AnswerSign(b) ==
    /\ req[b].at = "written"
    /\ cookie' = [cookie EXCEPT ![b] = NewCookie(b)]
    /\ signings' = [signings EXCEPT ![req[b].id].answered = TRUE]
    /\ Return(b)
    /\ UNCHANGED <<session, tokens, made, page, raced, failures>>
-----------------------------------------------------------------------------
(* Requests to /admin. *)

\* WebAuthMiddleware: on to the handler, or to the login page.
Ask(b) ==
    /\ req[b] = Idle
    /\ Goto(b, IF Authorised(b) THEN "admitted" ELSE "refused")
    /\ UNCHANGED <<session, cookie, signings, tokens, made, page, raced, failures>>

\* The redirect to the login page removes the cookie.
Refuse(b) ==
    /\ req[b].at = "refused"
    /\ cookie' = [cookie EXCEPT ![b] = 0]
    /\ Return(b)
    /\ UNCHANGED <<session, signings, tokens, made, page, raced, failures>>

\* The dashboard's list of tokens; one of the pages shown is remembered.
ShowTokens(b) ==
    /\ req[b].at = "admitted"
    /\ page' = tokens
    /\ Return(b)
    /\ UNCHANGED <<session, cookie, signings, tokens, made, raced, failures>>

\* Mutant: the count is not looked at.
AnyCount == TRUE

\* count >= 1 sends the request back.
NoToken == DOMAIN tokens = {}

\* GenerateAPIToken up to the count of the tokens ...
CountTokens(b) ==
    /\ req[b].at = "admitted"
    /\ IF NoToken THEN Goto(b, "counted") ELSE Return(b)
    /\ raced' = (raced \/ (NoToken /\ \E c \in Browsers \ {b} : req[c].at = "counted"))
    /\ UNCHANGED <<session, cookie, signings, tokens, made, page, failures>>

\* Mutant: the lowest id that is free.
LowestId == CHOOSE id \in 1..(made + 1) :
                id \notin DOMAIN tokens /\ \A i \in 1..(id - 1) : i \in DOMAIN tokens

\* autoIncrement
NextId == made + 1

\* ... and from there on.  Create() may fail, its error is dropped.
CreateToken(b) ==
    /\ req[b].at = "counted"
    /\ \/ /\ made < MaxTokens
          /\ made' = made + 1
          /\ tokens' = [i \in DOMAIN tokens \cup {NextId} |->
                           IF i = NextId THEN made + 1 ELSE tokens[i]]
       \/ UNCHANGED <<made, tokens>>
    /\ Return(b)
    /\ UNCHANGED <<session, cookie, signings, page, raced, failures>>

\* RevokeAPIToken of an id on the page, however old the page is.
RevokeAPIToken(b, id) ==
    /\ req[b].at = "admitted"
    /\ tokens' = Restrict(tokens, DOMAIN tokens \ {id})
    /\ Return(b)
    /\ UNCHANGED <<session, cookie, signings, made, page, raced, failures>>

\* BearerAuthMiddleware: what an agent presents is looked up by its hash.
ValidToken(t) == \E id \in DOMAIN tokens : tokens[id] = t

Browser(b) ==
    \/ \E kind \in {"login", "logout"} : Sign(b, kind)
    \/ WriteSession(b) \/ WriteSessionFails(b) \/ AnswerSign(b)
    \/ Ask(b) \/ Refuse(b) \/ ShowTokens(b)
    \/ CountTokens(b) \/ CreateToken(b)
    \/ \E id \in DOMAIN page : RevokeAPIToken(b, id)

AccessNext == \E b \in Browsers : Browser(b)
-----------------------------------------------------------------------------
(* Properties. *)

\* Types; what a row or a cookie names has been signed or made.
AccessTypeOK ==
    /\ signings \in Seq(Signing) /\ Len(signings) <= MaxSignings
    /\ session \in 0..Len(signings)
    /\ cookie \in [Browsers -> 0..Len(signings)]
    /\ made \in 0..MaxTokens
    /\ DOMAIN tokens \subseteq 1..made /\ tokens \in [DOMAIN tokens -> 1..made]
    /\ DOMAIN page \subseteq 1..made
    /\ req \in [Browsers -> Request] /\ \A b \in Browsers : req[b].id <= Len(signings)
    /\ raced \in BOOLEAN /\ failures \in 0..MaxFailures

\* However logins overlap, one browser at a time is let in: the last one to
\* write the row.
OneBrowserIn == Cardinality({b \in Browsers : Authorised(b)}) <= 1

\* A login or logout that was answered and did not fail has not been undone by
\* one that had been answered before it was sent: whoever is told that they
\* are signed out, or in, has at most been overtaken since.
AnsweredSigningHolds ==
    \A i \in Answered : ~signings[i].failed => session \notin signings[i].before

\* There is one API token at most, unless two requests counted at once.
OneToken == raced \/ Cardinality(DOMAIN tokens) <= 1

\* An id on a page, however old, is that of the token shown or of none: a late
\* revocation takes away no other token.
PageNamesItsTokens ==
    \A id \in DOMAIN page \cap DOMAIN tokens : page[id] = tokens[id]
=============================================================================
