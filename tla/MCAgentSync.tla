---------------------------- MODULE MCAgentSync ----------------------------
(***************************************************************************)
(* Small instances of AgentSync for TLC: a web server with a pair of       *)
(* files, a mail server whose key file is missing, a proxy with a combined *)
(* file, IIS with a PFX file that is not there yet.                        *)
(***************************************************************************)
EXTENDS AgentSync, TLC

CONSTANTS web, mail, proxy, iis

MCKind == web :> "pair" @@ mail :> "pair" @@ proxy :> "combined" @@ iis :> "pfx"

KindOf == [t \in Targets |-> MCKind[t]]

InitialOf == [x \in Files |-> IF x \in {<<mail, "key">>, <<iis, "cert">>} THEN Missing ELSE 0]

WebOnly == <<web>>
ProxyOnly == <<proxy>>
WebMailIis == <<web, mail, iis>>
WebProxy == <<web, proxy>>

\* How many versions the server comes to have of each.
OneOfEach == [t \in Targets |-> 1]
TwoOfWeb == [t \in Targets |-> CASE t = web -> 2 [] t = mail -> 0 [] OTHER -> 1]
\* The name configured first is one the server never has.
OneOfSecond == [t \in Targets |-> IF t = Certs[1] THEN 0 ELSE 1]
=============================================================================
