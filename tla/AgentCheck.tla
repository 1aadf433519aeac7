---------------------------- MODULE AgentCheck ------------------------------
(***************************************************************************)
(* "cert-agent check" beside "cert-agent sync" on one host (AgentSync): it *)
(* goes through the same list, reads the expiry of the local file, asks    *)
(* the server for that of its certificate, prints what it makes of the two *)
(* dates, and reports the host like a sync.  It writes no file.            *)
(*                                                                         *)
(* sync compares hashes, check compares dates, and a run of sync or a new  *)
(* certificate may come between its two reads; check looks at no key file, *)
(* without which sync skips a pair.  So what it prints is no promise of    *)
(* what sync will do, and no property says so.                             *)
(***************************************************************************)
EXTENDS AgentSync

CONSTANTS
    NotAfter,   \* per target: the expiry of its versions
    MaxChecks   \* bound: runs of check

ASSUME CheckAssumption ==
    /\ \A t \in Targets : NotAfter[t] \in [0..MaxVersion[t] -> Nat]
    /\ MaxChecks \in Nat

VARIABLES
    check,      \* the check command
    checks      \* runs of it so far

Statuses == {"PENDING", "SERVER NOT FOUND", "CONN ERR", "LOCAL NOT FOUND",
             "UPDATE AVAIL", "UP TO DATE"}

\* Where it is, at which certificate, the version in the local file (Missing:
\* none that could be read) and in the answer, the status of the row.
Check == [at : {"idle", "cert", "ask", "row"}, i : 1..Len(Certs) + 1,
          local : Nat \cup {Missing}, seen : Nat, status : Statuses]

NoCheck == [at |-> "idle", i |-> 1, local |-> Missing, seen |-> 0, status |-> "PENDING"]

Checked == Certs[check.i]

CheckInit == Init /\ check = NoCheck /\ checks = 0

StartCheck ==
    /\ check = NoCheck /\ checks < MaxChecks
    /\ check' = [NoCheck EXCEPT !.at = "cert"]
    /\ checks' = checks + 1
    /\ UNCHANGED vars

\* The PFX file, or else the first block of the certificate file; a torn file
\* may have it or not.
ReadLocal ==
    /\ check.at = "cert" /\ check.i <= Len(Certs)
    /\ \E c \in {disk[<<Checked, "cert">>], Missing} :
          /\ c # Torn /\ (c = Missing => disk[<<Checked, "cert">>] \in {Missing, Torn})
          /\ check' = [check EXCEPT !.at = "ask", !.local = c]
    /\ UNCHANGED <<vars, checks>>

\* t.After(*localCertTime)
Later(t, seen, local) == NotAfter[t][seen] > NotAfter[t][local]

Status(t, seen, local) ==
    CASE local = Missing -> "LOCAL NOT FOUND"
      [] local # Missing /\ Later(t, seen, local) -> "UPDATE AVAIL"
      [] OTHER -> "UP TO DATE"

\* GetCertMeta answers, or there is no such name, or there is no answer that
\* can be read, of whatever kind.
Ask ==
    LET t == Checked
        Row(status) == [check EXCEPT !.at = "row", !.seen = server[t], !.status = status]
    IN  /\ check.at = "ask"
        /\ check' \in
              {Row(IF server[t] = 0 THEN "SERVER NOT FOUND"
                   ELSE Status(t, server[t], check.local)),
               Row("CONN ERR"), Row("PENDING")}
        /\ UNCHANGED <<vars, checks>>

NextRow ==
    /\ check.at = "row"
    /\ check' = [NoCheck EXCEPT !.at = "cert", !.i = check.i + 1]
    /\ UNCHANGED <<vars, checks>>

\* The heartbeat lists all configured names, whatever their status.
FinishCheck ==
    /\ check.at = "cert" /\ check.i > Len(Certs)
    /\ check' = NoCheck
    /\ reported' \in {reported, Targets}
    /\ UNCHANGED <<server, files, loaded, agent, crashes, checks>>

CheckNext ==
    \/ Next /\ UNCHANGED <<check, checks>>
    \/ StartCheck \/ ReadLocal \/ Ask \/ NextRow \/ FinishCheck

CheckSpec == CheckInit /\ [][CheckNext]_<<vars, check, checks>>

\* The timer's runs of sync go on whatever becomes of a check.
FairCheckSpec == CheckSpec /\ Fairness
-----------------------------------------------------------------------------
(* Properties. *)

\* Types; a row is about a certificate of the list.
CheckTypeOK ==
    /\ TypeOK
    /\ check \in Check /\ (check.at \in {"ask", "row"} => check.i <= Len(Certs))
    /\ checks \in 0..MaxChecks
=============================================================================
