----------------------------- MODULE AgentSync -----------------------------
(***************************************************************************)
(* "cert-agent sync" on one host: the loop over the configured             *)
(* certificates, the comparison with what the server has, and the writing  *)
(* of the target files, step by step as the file system sees it.           *)
(*                                                                         *)
(* A target is a pair of files (nginx), one combined file (HAProxy) or one *)
(* PFX file (IIS).  The content of a file is the version of the server's   *)
(* certificate it was written from; a file of a pair holds its half of     *)
(* that version.  0 is what was there before the agent.  A file that has   *)
(* been opened for writing and not yet been written is Torn.               *)
(*                                                                         *)
(* Every call may fail, and the process may die between any two of them    *)
(* (crash, reboot, the service's stop); the next run starts from the files *)
(* alone.  Nothing keeps two runs apart: the timer's and an operator's may *)
(* overlap, and they use the same temporary file.                          *)
(***************************************************************************)
EXTENDS Naturals, Sequences

CONSTANTS
    Agents,         \* cert-agent processes
    Operators,      \* the ones started by hand, once; the timer starts the others
    Certs,          \* the "certs" list of config.yaml: a sequence of targets
    Kind,           \* per target: "pair", "combined" or "pfx"
    Fullchain,      \* targets whose certificate comes with intermediates
    PostCmd,        \* targets with a post_cmd of their own
    GlobalPost,     \* whether there is a global_post_cmd, which reloads them all
    Initial,        \* per file: 0, or Missing when there is none yet
    Missing,        \* no such file
    Torn,           \* a file with a part of its content
    MaxVersion,     \* bound, per target: versions the server publishes
    MaxCrashes      \* bound: processes that die

Targets == {Certs[i] : i \in 1..Len(Certs)}

\* The files of a target in the order WriteCertAndKey replaces them.
FilesOf(t) == IF Kind[t] = "pair" THEN <<"cert", "key">> ELSE <<"cert">>

Files == {x \in Targets \X {"cert", "key"} :
             x[2] = "cert" \/ Kind[x[1]] = "pair"}

ASSUME ConfigAssumption ==
    /\ Operators \subseteq Agents
    /\ Len(Certs) \in Nat \ {0}
    /\ \A i, j \in 1..Len(Certs) : Certs[i] = Certs[j] => i = j
    /\ Kind \in [Targets -> {"pair", "combined", "pfx"}]
    /\ Fullchain \subseteq Targets /\ PostCmd \subseteq Targets
    /\ GlobalPost \in BOOLEAN
    /\ Initial \in [Files -> {0, Missing}]
    /\ Missing \notin Nat /\ Torn \notin Nat /\ Torn # Missing

ASSUME BoundsAssumption ==
    /\ MaxVersion \in [Targets -> Nat]
    /\ MaxCrashes \in Nat

VARIABLES
    server,     \* per target: the version the server has, 0 for none (404)
    disk,       \* per file: what is at its path
    tmp,        \* per file: what is at its path + ".tmp"
    bak,        \* per file: what is at its path + today's ".bak"
    loaded,     \* per target: the version its web server runs with
    agent,      \* per process: where it is in sync
    reported,   \* the names in the server's node registry for this host
    crashes     \* processes that died so far

vars == <<server, disk, tmp, bak, loaded, agent, reported, crashes>>
files == <<disk, tmp, bak>>

Content == Nat \cup {Missing, Torn}

\* pc; index into Certs; version in the server's answer; index into FilesOf;
\* which file the descriptor that is open for writing belongs to by now; and
\* whether the run has updated a target, updatedCount > 0.
Agent == [pc : {"idle", "done", "cert", "backup", "open", "write", "rename",
               "post"},
          i : 1..Len(Certs) + 1, v : Nat, f : {1, 2},
          fd : {"none", "tmp", "target", "unlinked"}, updated : BOOLEAN]

Idle == [pc |-> "idle", i |-> 1, v |-> 0, f |-> 1, fd |-> "none",
         updated |-> FALSE]

\* A process that has ended: the timer will start the next.
Ended(a) == IF a \in Operators THEN [Idle EXCEPT !.pc = "done"] ELSE Idle

Target(a) == Certs[agent[a].i]
File(a) == <<Target(a), FilesOf(Target(a))[agent[a].f]>>
FilesAt(t) == {x \in Files : x[1] = t}
-----------------------------------------------------------------------------
Init ==
    /\ server = [t \in Targets |-> 0]
    /\ disk = Initial
    /\ tmp = [x \in Files |-> Missing]
    /\ bak = [x \in Files |-> Missing]
    /\ loaded = [t \in Targets |-> 0]
    /\ agent = [a \in Agents |-> Idle]
    /\ reported = {}
    /\ crashes = 0

\* An administrator or the renewal scheduler replaces the certificate.
Publish(t) ==
    /\ server[t] < MaxVersion[t]
    /\ server' = [server EXCEPT ![t] = @ + 1]
    /\ UNCHANGED <<files, loaded, agent, reported, crashes>>

Goto(a, pc) == agent' = [agent EXCEPT ![a].pc = pc]

\* The process at the head of the loop, k certificates on.
Ahead(a, k) == [Idle EXCEPT !.pc = "cert", !.i = agent[a].i + k,
                            !.updated = agent[a].updated]

\* Mutant: one certificate too far.
NextCertTwice(a) == agent' = [agent EXCEPT ![a] = Ahead(a, 2)]

\* continue: on to the next certificate of the list.
NextCert(a) == agent' = [agent EXCEPT ![a] = Ahead(a, 1)]

\* The timer, or an operator, starts a run; global_pre_cmd may fail.
Start(a) ==
    /\ agent[a].pc = "idle"
    /\ Goto(a, "cert")
    /\ UNCHANGED <<server, files, loaded, reported, crashes>>

Processing(a) == agent[a].pc = "cert" /\ agent[a].i <= Len(Certs)

\* A PEM file that is not there is not created; a PFX file is.  A pair without
\* its key file is skipped like one without its certificate file.
Present(t) == Kind[t] = "pfx" \/ \A x \in FilesAt(t) : disk[x] # Missing

SkipMissing(a) ==
    /\ Processing(a) /\ ~Present(Target(a))
    /\ NextCert(a)
    /\ UNCHANGED <<server, files, loaded, reported, crashes>>

\* Mutant: return instead of continue; the heartbeat is skipped as well.
FetchFailureEndsRun(a) ==
    /\ Processing(a) /\ Present(Target(a))
    /\ agent' = [agent EXCEPT ![a] = Ended(a)]
    /\ UNCHANGED <<server, files, loaded, reported, crashes>>

\* No connection, a status other than 200 (404 for a name the server does not
\* have), a body that is no JSON.
FetchFails(a) ==
    /\ Processing(a) /\ Present(Target(a))
    /\ NextCert(a)
    /\ UNCHANGED <<server, files, loaded, reported, crashes>>

\* The SHA-256 the agent computes of its file is the one the server sent: of
\* a certificate file when it is that version; never of a combined file, which
\* has the key in it; of a PFX file, whose leaf alone is hashed, only when the
\* server's PEM is the leaf alone.
UpToDate(t) ==
    /\ disk[<<t, "cert">>] = server[t]
    /\ Kind[t] = "pair" \/ (Kind[t] = "pfx" /\ t \notin Fullchain)

SkipUpToDate(a) ==
    /\ Processing(a) /\ Present(Target(a)) /\ server[Target(a)] > 0
    /\ UpToDate(Target(a))
    /\ NextCert(a)
    /\ UNCHANGED <<server, files, loaded, reported, crashes>>

StartUpdate(a) ==
    /\ Processing(a) /\ Present(Target(a)) /\ server[Target(a)] > 0
    /\ ~UpToDate(Target(a))
    /\ agent' = [agent EXCEPT ![a].pc = "backup", ![a].v = server[Target(a)]]
    /\ UNCHANGED <<server, files, loaded, reported, crashes>>

\* Mutant: the file is moved to its backup.
BackupByRename(a) ==
    /\ agent[a].pc = "backup"
    /\ Goto(a, "open")
    /\ bak' = [bak EXCEPT ![File(a)] = disk[File(a)]]
    /\ disk' = [disk EXCEPT ![File(a)] = Missing]
    /\ UNCHANGED <<server, tmp, loaded, reported, crashes>>

\* BackupFile: copy to <file>.<DDMMYYYY>.bak, over an earlier one of the day.
\* Its error is dropped, and it is no atomic write.
Backup(a) ==
    /\ agent[a].pc = "backup"
    /\ Goto(a, "open")
    /\ \/ UNCHANGED bak
       \/ /\ disk[File(a)] # Missing
          /\ bak' \in {[bak EXCEPT ![File(a)] = c] : c \in {Torn, disk[File(a)]}}
    /\ UNCHANGED <<server, disk, tmp, loaded, reported, crashes>>

\* Mutant: the target is opened in place.
OpenTarget(a) ==
    /\ agent[a].pc = "open"
    /\ disk' = [disk EXCEPT ![File(a)] = Torn]
    /\ agent' = [agent EXCEPT ![a].pc = "write", ![a].fd = "target"]
    /\ UNCHANGED <<server, tmp, bak, loaded, reported, crashes>>

\* os.WriteFile(tmpFile): open with O_TRUNC ...
OpenTmp(a) ==
    /\ agent[a].pc = "open"
    /\ tmp' = [tmp EXCEPT ![File(a)] = Torn]
    /\ agent' = [agent EXCEPT ![a].pc = "write", ![a].fd = "tmp"]
    /\ UNCHANGED <<server, disk, bak, loaded, reported, crashes>>

\* What a file holds after one write(2) of v from its start: if another process
\* has written something longer since it was truncated, the tail stays.
Written(old, v) == IF old \in {Torn, v} THEN {v} ELSE {v, Torn}

\* ... and write.  Another process may have moved the temporary file to the
\* target path meanwhile: then that is the file written to.
WriteTmp(a) ==
    LET x == File(a)
        v == agent[a].v
    IN  /\ agent[a].pc = "write"
        /\ agent' = [agent EXCEPT ![a].pc = "rename", ![a].fd = "none"]
        /\ CASE agent[a].fd = "tmp" ->
                  /\ \E c \in Written(tmp[x], v) : tmp' = [tmp EXCEPT ![x] = c]
                  /\ UNCHANGED disk
             [] agent[a].fd = "target" ->
                  /\ \E c \in Written(disk[x], v) : disk' = [disk EXCEPT ![x] = c]
                  /\ UNCHANGED tmp
             [] OTHER -> UNCHANGED <<disk, tmp>>
        /\ UNCHANGED <<server, bak, loaded, reported, crashes>>

\* The descriptors other processes have open on file x, after its temporary
\* file has been moved (to = "target") or removed (to = "unlinked").
Redirect(a, x, to) ==
    [b \in Agents |->
       CASE b # a /\ agent[b].fd = "tmp" /\ File(b) = x -> [agent[b] EXCEPT !.fd = to]
         [] b # a /\ agent[b].fd = "target" /\ File(b) = x /\ to = "target" ->
               [agent[b] EXCEPT !.fd = "unlinked"]
         [] OTHER -> agent[b]]

\* Mutants: post_cmd after the first file; neither updatedCount++ nor post_cmd.
AfterFirstFile(a) == [agent[a] EXCEPT !.pc = "post"]

AfterLastFileNextCert(a) ==
    IF agent[a].f < Len(FilesOf(Target(a)))
    THEN [agent[a] EXCEPT !.pc = "backup", !.f = @ + 1]
    ELSE Ahead(a, 1)

\* After a file of the target: the next one, else updatedCount++ and post_cmd.
AfterFile(a) ==
    CASE agent[a].f < Len(FilesOf(Target(a))) ->
            [agent[a] EXCEPT !.pc = "backup", !.f = @ + 1]
      [] agent[a].f = Len(FilesOf(Target(a))) /\ Target(a) \in PostCmd ->
            [agent[a] EXCEPT !.pc = "post", !.updated = TRUE]
      [] OTHER -> [Ahead(a, 1) EXCEPT !.updated = TRUE]

\* os.Rename(tmpFile, targetPath)
Rename(a) ==
    LET x == File(a)
    IN  /\ agent[a].pc = "rename" /\ tmp[x] # Missing
        /\ disk' = [disk EXCEPT ![x] = tmp[x]]
        /\ tmp' = [tmp EXCEPT ![x] = Missing]
        /\ agent' = [Redirect(a, x, "target") EXCEPT ![a] = AfterFile(a)]
        /\ UNCHANGED <<server, bak, loaded, reported, crashes>>

\* EncodePEMToPFX, MkdirAll, the write or the rename failed: the error is
\* logged and the loop continues.  A failed rename removes the temporary file.
WriteFails(a) ==
    LET x == File(a)
        next == Ahead(a, 1)
    IN  /\ \/ /\ \/ agent[a].pc \in {"open", "write"}
                 \/ agent[a].pc = "backup" /\ Kind[Target(a)] = "pfx"
              /\ agent' = [agent EXCEPT ![a] = next]
              /\ UNCHANGED tmp
           \/ /\ agent[a].pc = "rename"
              /\ agent' = [Redirect(a, x, "unlinked") EXCEPT ![a] = next]
              /\ tmp' = [tmp EXCEPT ![x] = Missing]
        /\ UNCHANGED <<server, disk, bak, loaded, reported, crashes>>

\* A web server takes files that are whole and match.
Loadable(t) == \A x \in FilesAt(t) : disk[x] \in Nat /\ disk[x] = disk[<<t, "cert">>]

\* post_cmd reloads the target's web server.
Reload(a) ==
    /\ agent[a].pc = "post" /\ Loadable(Target(a))
    /\ loaded' = [loaded EXCEPT ![Target(a)] = disk[<<Target(a), "cert">>]]
    /\ NextCert(a)
    /\ UNCHANGED <<server, files, reported, crashes>>

AtGlobalPost(a) ==
    /\ agent[a].pc = "cert" /\ agent[a].i > Len(Certs)
    /\ agent[a].updated /\ GlobalPost

\* global_post_cmd, once per run and only if the run updated something.
GlobalReload(a) ==
    /\ AtGlobalPost(a)
    /\ loaded' = [t \in Targets |-> IF Loadable(t) THEN disk[<<t, "cert">>] ELSE loaded[t]]
    /\ agent' = [agent EXCEPT ![a].updated = FALSE]
    /\ UNCHANGED <<server, files, reported, crashes>>

\* Either command failed, or timed out after 30 seconds: logged, and no more.
ReloadFails(a) ==
    /\ \/ agent[a].pc = "post" /\ NextCert(a)
       \/ AtGlobalPost(a) /\ agent' = [agent EXCEPT ![a].updated = FALSE]
    /\ UNCHANGED <<server, files, loaded, reported, crashes>>

\* The heartbeat lists all configured names; it may not arrive.
Finish(a) ==
    /\ agent[a].pc = "cert" /\ agent[a].i > Len(Certs) /\ ~AtGlobalPost(a)
    /\ agent' = [agent EXCEPT ![a] = Ended(a)]
    /\ reported' \in {reported, Targets}
    /\ UNCHANGED <<server, files, loaded, crashes>>

Crash(a) ==
    /\ agent[a].pc \notin {"idle", "done"} /\ crashes < MaxCrashes
    /\ crashes' = crashes + 1
    /\ agent' = [agent EXCEPT ![a] = Ended(a)]
    /\ UNCHANGED <<server, files, loaded, reported>>

Step(a) ==
    \/ Start(a) \/ SkipMissing(a) \/ FetchFails(a) \/ SkipUpToDate(a) \/ StartUpdate(a)
    \/ Backup(a) \/ OpenTmp(a) \/ WriteTmp(a) \/ Rename(a) \/ WriteFails(a)
    \/ Reload(a) \/ GlobalReload(a) \/ ReloadFails(a) \/ Finish(a)

Next ==
    \/ \E t \in Targets : Publish(t)
    \/ \E a \in Agents : Step(a) \/ Crash(a)

Spec == Init /\ [][Next]_vars

(***************************************************************************)
(* Fairness: the timer starts a run every six hours and a run ends, and    *)
(* what is tried for a target in run after run (the request, each call     *)
(* that writes a file, the reload) does not fail for ever.  Other targets  *)
(* may fail for ever: a name the server never has is never fetched.        *)
(* Nothing is assumed of an operator's run, which may hang at any point.   *)
(***************************************************************************)
At(a, t) == agent[a].i <= Len(Certs) /\ Target(a) = t

Fairness ==
    \A a \in Agents \ Operators :
       /\ WF_vars(Step(a))
       /\ \A t \in {u \in Targets : MaxVersion[u] > 0} :
             /\ SF_vars(At(a, t) /\ StartUpdate(a))
             /\ SF_vars(At(a, t) /\ Backup(a))
             /\ SF_vars(At(a, t) /\ OpenTmp(a))
             /\ SF_vars(At(a, t) /\ WriteTmp(a))
             /\ SF_vars(At(a, t) /\ Rename(a))
             /\ SF_vars(At(a, t) /\ Reload(a))
       /\ GlobalPost => SF_vars(GlobalReload(a))
-----------------------------------------------------------------------------
(* Properties. *)

\* Where a process is at a target it writes or has written.
AtTarget == {"backup", "open", "write", "rename", "post"}

\* No two runs are at the same target: one starts when the other has ended, say.
\* Nothing in the code sees to it; properties below say when they depend on it.
RunsApart ==
    \A a, b \in Agents :
       a # b /\ agent[a].pc \in AtTarget /\ agent[b].pc \in AtTarget =>
          Target(a) # Target(b)

\* Types.
TypeOK ==
    /\ server \in [Targets -> Nat]
    /\ disk \in [Files -> Content] /\ tmp \in [Files -> Content]
    /\ bak \in [Files -> Content]
    /\ loaded \in [Targets -> Nat]
    /\ agent \in [Agents -> Agent]
    /\ reported \subseteq Targets
    /\ crashes \in 0..MaxCrashes

\* Whoever reads a target file reads a whole one, whenever the agent dies, if
\* runs keep apart.
FilesWhole == \A x \in Files : disk[x] # Torn

\* When post_cmd runs, all files of the target hold the version fetched: a web
\* server is never made to load the halves of two versions.
ReloadOnMatchingFiles ==
    \A a \in Agents : agent[a].pc = "post" =>
       \A x \in FilesAt(Target(a)) : disk[x] = agent[a].v

\* Files are written only when some file of the target is not what the server
\* has.  (Not so of a combined file, nor of a PFX file with intermediates, whose
\* hash is never the server's.)
NoNeedlessRewrite ==
    [][\A a \in Agents : StartUpdate(a) =>
          \E x \in FilesAt(Target(a)) : disk[x] # server[Target(a)]]_vars

\* Between runs, and between the targets of a run, a target that sync calls
\* "already up to date" has all its files from the server's version.  (A run that
\* fails or dies between the two files of a pair breaks it for good.)
UpToDateMeansInstalled ==
    (\A a \in Agents : agent[a].pc \in {"idle", "done", "cert"}) =>
       \A t \in Targets : server[t] > 0 /\ UpToDate(t) =>
          \A x \in FilesAt(t) : disk[x] = server[t]

\* The last version published reaches the certificate file of a target that
\* may be written, and stays there, whatever runs die or overlap and whatever
\* becomes of the other targets.
LastVersion(t) ==
    /\ MaxVersion[t] > 0 /\ server[t] = MaxVersion[t]
    /\ Present(t)

EventuallyInstalled ==
    \A t \in Targets : LastVersion(t) ~> [](disk[<<t, "cert">>] = MaxVersion[t])

\* And the web server that uses a combined file is reloaded, by the target's own
\* command or the global one.  (A reload that failed is not tried again for a
\* target that is up to date from then on; a combined file never is.)
EventuallyLoaded ==
    \A t \in Targets :
       Kind[t] = "combined" => (LastVersion(t) ~> loaded[t] = MaxVersion[t])
-----------------------------------------------------------------------------
(* Target files and web servers follow what the server has published.      *)

TargetFiles == INSTANCE Replica
               WITH published <- [x \in Files |-> server[x[1]]], installed <- disk,
                    WebServers <- Targets, FilesUsed <- [t \in Targets |-> FilesAt(t)],
                    running <- loaded

\* Runs that do not meet at one target keep that promise through failures and
\* restarts: no file and no web server ever goes back to an older version.
FilesAreReplicas == TargetFiles!Spec
=============================================================================
