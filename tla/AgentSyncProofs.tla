-------------------------- MODULE AgentSyncProofs ---------------------------
(***************************************************************************)
(* Proofs about AgentSync and AgentCheck, for any list of targets and any  *)
(* number of processes, versions, failures and crashes.  What is said of   *)
(* the content of the files holds while no two runs are at one target.     *)
(***************************************************************************)
EXTENDS AgentCheck, TLAPS

-----------------------------------------------------------------------------
\* A process is at a certificate of the list, at a second file only of a pair,
\* and has a file open only to write it.
Placed(r) ==
    /\ r.pc \in AtTarget => r.i <= Len(Certs)
    /\ r.f = 2 => r.pc \in AtTarget /\ Kind[Certs[r.i]] = "pair"
    /\ r.fd # "none" => r.pc = "write"

TypeInv == TypeOK /\ \A a \in Agents : Placed(agent[a])

LEMMA TargetIsOne == \A i \in 1..Len(Certs) : Certs[i] \in Targets
BY DEF Targets

LEMMA FilesOfTarget ==
    ASSUME NEW t \in Targets
    PROVE  /\ <<t, "cert">> \in FilesAt(t)
           /\ Kind[t] = "pair" => <<t, "key">> \in FilesAt(t)
           /\ \A x \in FilesAt(t) :
                 x \in Files /\ (x = <<t, "cert">> \/ (Kind[t] = "pair" /\ x = <<t, "key">>))
<1>1. \A x \in Files : x = <<x[1], x[2]>> /\ x[1] \in Targets /\ x[2] \in {"cert", "key"}
  BY DEF Files
<1>2. <<t, "cert">> \in Files /\ (Kind[t] = "pair" => <<t, "key">> \in Files)
  BY DEF Files
<1>3. \A x \in Files : x[2] = "key" => Kind[x[1]] = "pair"
  BY <1>1 DEF Files
<1> QED BY <1>1, <1>2, <1>3 DEF FilesAt

LEMMA FileOfTarget ==
    ASSUME NEW a \in Agents, TypeInv, agent[a].pc \in AtTarget
    PROVE  /\ agent[a].i \in 1..Len(Certs) /\ Target(a) \in Targets
           /\ File(a) \in FilesAt(Target(a)) /\ File(a) \in Files
           /\ agent[a].f = 1 => File(a) = <<Target(a), "cert">>
           /\ agent[a].f = 2 => File(a) = <<Target(a), "key">> /\ Kind[Target(a)] = "pair"
<1>1. agent[a] \in Agent /\ Placed(agent[a])
  BY DEF TypeInv, TypeOK
<1>2. /\ agent[a].i \in 1..Len(Certs) /\ agent[a].f \in {1, 2}
      /\ agent[a].f = 2 => Kind[Target(a)] = "pair"
  BY <1>1, ConfigAssumption DEF Agent, Placed, Target
<1>3. Target(a) \in Targets
  BY <1>2, TargetIsOne DEF Target
<1>4. /\ agent[a].f = 1 => File(a) = <<Target(a), "cert">>
      /\ agent[a].f = 2 => File(a) = <<Target(a), "key">>
  BY <1>2 DEF File, FilesOf
<1> QED BY <1>2, <1>3, <1>4, FilesOfTarget

LEMMA Records ==
    /\ Idle \in Agent /\ Placed(Idle)
    /\ \A a \in Agents : /\ Ended(a) \in Agent /\ Ended(a).pc \in {"idle", "done"}
                         /\ Ended(a).f = 1 /\ Ended(a).fd = "none"
    /\ \A a \in Agents : agent[a].i \in 1..Len(Certs) /\ agent[a] \in Agent =>
          /\ Ahead(a, 1) \in Agent /\ Ahead(a, 1).pc = "cert"
          /\ Ahead(a, 1).f = 1 /\ Ahead(a, 1).fd = "none"
<1>1. Idle \in Agent /\ Idle.pc = "idle" /\ Idle.f = 1 /\ Idle.fd = "none"
  BY ConfigAssumption DEF Idle, Agent
<1>2. ASSUME NEW a \in Agents
      PROVE  /\ Ended(a) \in Agent /\ Ended(a).pc \in {"idle", "done"}
             /\ Ended(a).f = 1 /\ Ended(a).fd = "none"
  BY <1>1 DEF Ended, Agent
<1>3. ASSUME NEW a \in Agents, agent[a].i \in 1..Len(Certs), agent[a] \in Agent
      PROVE  /\ Ahead(a, 1) \in Agent /\ Ahead(a, 1).pc = "cert"
             /\ Ahead(a, 1).f = 1 /\ Ahead(a, 1).fd = "none"
  <2>1. agent[a].i + 1 \in 1..Len(Certs) + 1 /\ agent[a].updated \in BOOLEAN
    BY <1>3, ConfigAssumption DEF Agent
  <2> QED BY <1>1, <2>1 DEF Ahead, Agent
<1> QED BY <1>1, <1>2, <1>3 DEF Placed, AtTarget

LEMMA TypeInitially == Init => TypeInv
<1> SUFFICES ASSUME Init PROVE TypeInv
  OBVIOUS
<1> USE ConfigAssumption, BoundsAssumption DEF Init
<1>1. \A x \in Files : x[1] \in Targets
  BY DEF Files
<1>2. disk \in [Files -> Content] /\ tmp \in [Files -> Content] /\ bak \in [Files -> Content]
  BY <1>1 DEF Content
<1>3. agent \in [Agents -> Agent] /\ \A a \in Agents : Placed(agent[a])
  BY Records
<1> QED BY <1>2, <1>3 DEF TypeInv, TypeOK

\* A process that has moved, and whose move leaves the others where they are.
LEMMA Moved ==
    ASSUME TypeInv, NEW a \in Agents, NEW r \in Agent, Placed(r),
           agent' = [agent EXCEPT ![a] = r]
    PROVE  /\ agent' \in [Agents -> Agent] /\ agent'[a] = r
           /\ \A b \in Agents : b # a => agent'[b] = agent[b]
           /\ \A b \in Agents : Placed(agent'[b])
BY DEF TypeInv, TypeOK

LEMMA MovedAhead ==
    ASSUME TypeInv, NEW a \in Agents, agent[a].i \in 1..Len(Certs), NextCert(a)
    PROVE  agent' \in [Agents -> Agent] /\ \A b \in Agents : Placed(agent'[b])
<1>1. Ahead(a, 1) \in Agent /\ Placed(Ahead(a, 1))
  BY Records DEF Placed, AtTarget, TypeInv, TypeOK
<1> QED BY <1>1, Moved DEF NextCert

\* Opening, writing and moving files keeps their content typed.
LEMMA FilesTyped ==
    ASSUME TypeInv, NEW a \in Agents,
           Backup(a) \/ OpenTmp(a) \/ WriteTmp(a) \/ Rename(a) \/ WriteFails(a)
    PROVE  /\ disk' \in [Files -> Content] /\ tmp' \in [Files -> Content]
           /\ bak' \in [Files -> Content]
<1> USE DEF TypeInv, TypeOK
<1>1. Missing \in Content /\ Torn \in Content
  BY DEF Content
<1>2. CASE Backup(a) \/ OpenTmp(a)
  BY <1>1, <1>2 DEF Backup, OpenTmp
<1>3. CASE WriteTmp(a)
  <2>1. \A c \in Content : Written(c, agent[a].v) \subseteq Content
    BY <1>1 DEF Written, Agent, Content
  <2>2. agent[a].pc = "write" /\ bak' = bak
    BY <1>3 DEF WriteTmp
  <2>3. File(a) \in Files
    BY <2>2, FileOfTarget DEF AtTarget
  <2>4. /\ Written(tmp[File(a)], agent[a].v) \subseteq Content
        /\ Written(disk[File(a)], agent[a].v) \subseteq Content
    BY <2>1, <2>3
  <2>5. CASE agent[a].fd = "tmp"
    <3>1. disk' = disk /\ \E c \in Content : tmp' = [tmp EXCEPT ![File(a)] = c]
      BY <1>3, <2>4, <2>5 DEF WriteTmp
    <3> QED BY <2>2, <3>1
  <2>6. CASE agent[a].fd = "target"
    <3>1. tmp' = tmp /\ \E c \in Content : disk' = [disk EXCEPT ![File(a)] = c]
      BY <1>3, <2>4, <2>6 DEF WriteTmp
    <3> QED BY <2>2, <3>1
  <2>7. CASE agent[a].fd \notin {"tmp", "target"}
    <3>1. tmp' = tmp /\ disk' = disk
      BY <1>3, <2>7 DEF WriteTmp
    <3> QED BY <2>2, <3>1
  <2> QED BY <2>5, <2>6, <2>7
<1>4. CASE Rename(a)
  <2>1. File(a) \in Files
    BY <1>4, FileOfTarget DEF Rename, AtTarget
  <2> QED BY <1>1, <1>4, <2>1 DEF Rename
<1>5. CASE WriteFails(a)
  BY <1>1, <1>5 DEF WriteFails
<1> QED BY <1>2, <1>3, <1>4, <1>5

\* The descriptors of the others, when a file is moved or removed.
LEMMA Redirected ==
    ASSUME TypeInv, NEW a \in Agents, NEW r \in Agent, Placed(r),
           NEW to \in {"target", "unlinked"}, NEW x,
           agent' = [Redirect(a, x, to) EXCEPT ![a] = r]
    PROVE  agent' \in [Agents -> Agent] /\ \A b \in Agents : Placed(agent'[b])
<1>1. agent \in [Agents -> Agent] /\ \A b \in Agents : Placed(agent[b])
  BY DEF TypeInv, TypeOK
<1>2. ASSUME NEW b \in Agents
      PROVE  Redirect(a, x, to)[b] \in Agent /\ Placed(Redirect(a, x, to)[b])
  <2>1. \/ Redirect(a, x, to)[b] = agent[b]
        \/ /\ agent[b].fd # "none"
           /\ Redirect(a, x, to)[b] \in {[agent[b] EXCEPT !.fd = to],
                                         [agent[b] EXCEPT !.fd = "unlinked"]}
    BY DEF Redirect
  <2>2. ASSUME agent[b].fd # "none", NEW f \in {"target", "unlinked"}
        PROVE  [agent[b] EXCEPT !.fd = f] \in Agent /\ Placed([agent[b] EXCEPT !.fd = f])
    <3>1. agent[b] \in Agent /\ Placed(agent[b]) /\ agent[b].pc = "write"
      BY <1>1, <2>2 DEF Placed
    <3>2. [agent[b] EXCEPT !.fd = f] \in Agent
      BY <3>1 DEF Agent
    <3>3. \A k \in {"pc", "i", "f"} : [agent[b] EXCEPT !.fd = f][k] = agent[b][k]
      BY <3>1 DEF Agent
    <3> QED BY <3>1, <3>2, <3>3 DEF Placed
  <2> QED BY <1>1, <2>1, <2>2
<1>3. Redirect(a, x, to) \in [Agents -> Agent]
  BY <1>2 DEF Redirect
<1> QED BY <1>2, <1>3

\* The last file, or not, of a target.
LEMMA AfterFileTyped ==
    ASSUME TypeInv, NEW a \in Agents, agent[a].pc = "rename"
    PROVE  /\ AfterFile(a) \in Agent /\ Placed(AfterFile(a))
           /\ \/ /\ AfterFile(a).pc \in {"backup", "post"}
                 /\ AfterFile(a).i = agent[a].i /\ AfterFile(a).v = agent[a].v
              \/ AfterFile(a).pc = "cert"
           /\ AfterFile(a).pc = "backup" => agent[a].f = 1 /\ Kind[Target(a)] = "pair"
           /\ AfterFile(a).pc = "post" => (Kind[Target(a)] = "pair" => agent[a].f = 2)
<1> DEFINE r == agent[a]
<1>1. r \in Agent /\ r.i \in 1..Len(Certs) /\ (r.f = 2 => Kind[Target(a)] = "pair")
      /\ Target(a) = Certs[r.i] /\ r.fd = "none"
  BY FileOfTarget DEF AtTarget, TypeInv, TypeOK, Target, Placed
<1>2. Len(FilesOf(Target(a))) = IF Kind[Target(a)] = "pair" THEN 2 ELSE 1
  BY DEF FilesOf
<1>3. CASE r.f < Len(FilesOf(Target(a)))
  <2>1. AfterFile(a) = [r EXCEPT !.pc = "backup", !.f = r.f + 1]
    BY <1>3 DEF AfterFile
  <2>2. r.f = 1 /\ Kind[Target(a)] = "pair"
    BY <1>1, <1>2, <1>3 DEF Agent
  <2> HIDE DEF r
  <2>3. /\ AfterFile(a) \in Agent /\ AfterFile(a).pc = "backup" /\ AfterFile(a).i = r.i
        /\ AfterFile(a).v = r.v /\ AfterFile(a).fd = "none"
    <3>1. AfterFile(a) = [r EXCEPT !.pc = "backup", !.f = 2]
      BY <2>1, <2>2
    <3> QED BY <1>1, <3>1 DEF Agent
  <2>4. r.i <= Len(Certs) /\ Kind[Certs[r.i]] = "pair"
    BY <1>1, <2>2, ConfigAssumption
  <2> QED BY <2>2, <2>3, <2>4 DEF Placed, AtTarget, r
<1>4. CASE r.f = Len(FilesOf(Target(a))) /\ Target(a) \in PostCmd
  <2>1. AfterFile(a) = [r EXCEPT !.pc = "post", !.updated = TRUE]
    BY <1>2, <1>4 DEF AfterFile
  <2>2. /\ AfterFile(a) \in Agent /\ AfterFile(a).pc = "post" /\ AfterFile(a).i = r.i
        /\ AfterFile(a).v = r.v /\ AfterFile(a).f = r.f /\ AfterFile(a).fd = "none"
    BY <1>1, <2>1 DEF Agent
  <2> QED BY <1>1, <1>2, <1>4, <2>2, ConfigAssumption DEF Placed, AtTarget
<1>5. CASE /\ ~(r.f < Len(FilesOf(Target(a))))
           /\ ~(r.f = Len(FilesOf(Target(a))) /\ Target(a) \in PostCmd)
  <2>1. AfterFile(a) = [Ahead(a, 1) EXCEPT !.updated = TRUE]
    BY <1>5 DEF AfterFile
  <2>2. Ahead(a, 1) \in Agent /\ Ahead(a, 1).f = 1 /\ Ahead(a, 1).fd = "none"
        /\ Ahead(a, 1).pc = "cert"
    BY <1>1, Records
  <2> DEFINE next == Ahead(a, 1)
  <2> HIDE DEF next
  <2>3. AfterFile(a) \in Agent /\ AfterFile(a).pc = "cert" /\ AfterFile(a).f = 1
        /\ AfterFile(a).fd = "none"
    <3>1. AfterFile(a) = [next EXCEPT !.updated = TRUE] /\ next \in Agent
          /\ next.pc = "cert" /\ next.f = 1 /\ next.fd = "none"
      BY <2>1, <2>2 DEF next
    <3> QED BY <3>1 DEF Agent
  <2> QED BY <2>3 DEF Placed, AtTarget
<1> QED BY <1>3, <1>4, <1>5

LEMMA AgentTyped ==
    ASSUME TypeInv, NEW a \in Agents, Step(a) \/ Crash(a)
    PROVE  agent' \in [Agents -> Agent] /\ \A b \in Agents : Placed(agent'[b])
<1> DEFINE r == agent[a]
<1>0. r \in Agent /\ Placed(r) /\ agent \in [Agents -> Agent]
      /\ server \in [Targets -> Nat] /\ Len(Certs) \in Nat
  BY ConfigAssumption DEF TypeInv, TypeOK
<1>1. CASE Start(a)
  <2> DEFINE q == [r EXCEPT !.pc = "cert"]
  <2>1. r.pc = "idle" /\ agent' = [agent EXCEPT ![a] = q]
    BY <1>1 DEF Start, Goto
  <2>2. q \in Agent /\ Placed(q)
    <3>1. q \in Agent /\ q.pc = "cert" /\ q.f = r.f /\ q.fd = r.fd
      BY <1>0 DEF Agent
    <3>2. r.f = 1 /\ r.fd = "none"
      BY <1>0, <2>1 DEF Agent, Placed, AtTarget
    <3> HIDE DEF q
    <3> QED BY <3>1, <3>2 DEF Placed, AtTarget
  <2> QED BY <2>1, <2>2, Moved
<1>2. CASE SkipMissing(a) \/ FetchFails(a) \/ SkipUpToDate(a)
  <2>1. r.i \in 1..Len(Certs) /\ NextCert(a)
    BY <1>0, <1>2 DEF SkipMissing, FetchFails, SkipUpToDate, Processing, Agent
  <2> QED BY <2>1, MovedAhead
<1>3. CASE StartUpdate(a)
  <2> DEFINE q == [r EXCEPT !.pc = "backup", !.v = server[Target(a)]]
  <2>1. r.i \in 1..Len(Certs) /\ Target(a) \in Targets
    BY <1>0, <1>3, TargetIsOne DEF StartUpdate, Processing, Agent, Target
  <2>2. agent' = [agent EXCEPT ![a] = q]
    BY <1>0, <1>3 DEF StartUpdate
  <2>3. q \in Agent
    BY <1>0, <2>1 DEF Agent
  <2>4. Placed(q)
    <3>1. r.f = 1 /\ r.pc = "cert"
      BY <1>0, <1>3 DEF StartUpdate, Processing, Agent, Placed, AtTarget
    <3> QED BY <1>0, <2>1, <3>1 DEF Placed, Agent
  <2> QED BY <2>2, <2>3, <2>4, Moved
<1>4. CASE Backup(a)
  <2>1. [r EXCEPT !.pc = "open"] \in Agent /\ Placed([r EXCEPT !.pc = "open"])
    BY <1>0, <1>4 DEF Agent, Placed, AtTarget, Backup
  <2> QED BY <1>4, <2>1, Moved DEF Backup, Goto
<1>5. CASE OpenTmp(a)
  <2> DEFINE q == [r EXCEPT !.pc = "write", !.fd = "tmp"]
  <2>1. q \in Agent /\ Placed(q)
    BY <1>0, <1>5 DEF Agent, Placed, AtTarget, OpenTmp
  <2>2. agent' = [agent EXCEPT ![a] = q]
    BY <1>0, <1>5 DEF OpenTmp
  <2> QED BY <2>1, <2>2, Moved
<1>6. CASE WriteTmp(a)
  <2> DEFINE q == [r EXCEPT !.pc = "rename", !.fd = "none"]
  <2>1. q \in Agent /\ Placed(q)
    BY <1>0, <1>6 DEF Agent, Placed, AtTarget, WriteTmp
  <2>2. agent' = [agent EXCEPT ![a] = q]
    BY <1>0, <1>6 DEF WriteTmp
  <2> QED BY <2>1, <2>2, Moved
<1>7. CASE Rename(a)
  <2>1. r.pc = "rename" /\ agent' = [Redirect(a, File(a), "target") EXCEPT ![a] = AfterFile(a)]
    BY <1>7 DEF Rename
  <2>2. AfterFile(a) \in Agent /\ Placed(AfterFile(a))
    BY <2>1, AfterFileTyped
  <2> QED BY <2>1, <2>2, Redirected
<1>8. CASE WriteFails(a)
  <2>1. r.pc \in AtTarget
    BY <1>8 DEF WriteFails, AtTarget
  <2>2. Ahead(a, 1) \in Agent /\ Placed(Ahead(a, 1))
    BY <1>0, <2>1, FileOfTarget, Records DEF Placed, AtTarget
  <2>3. \/ agent' = [agent EXCEPT ![a] = Ahead(a, 1)]
        \/ agent' = [Redirect(a, File(a), "unlinked") EXCEPT ![a] = Ahead(a, 1)]
    BY <1>8 DEF WriteFails
  <2> QED BY <2>2, <2>3, Moved, Redirected
<1>9. CASE Reload(a)
  <2>1. r.i \in 1..Len(Certs) /\ NextCert(a)
    BY <1>9, FileOfTarget DEF Reload, AtTarget
  <2> QED BY <2>1, MovedAhead
<1>10. CASE GlobalReload(a) \/ (AtGlobalPost(a) /\ ReloadFails(a) /\ r.pc = "cert")
  <2> DEFINE q == [r EXCEPT !.updated = FALSE]
  <2>1. r.pc = "cert" /\ agent' = [agent EXCEPT ![a] = q]
    BY <1>0, <1>10 DEF GlobalReload, AtGlobalPost, ReloadFails
  <2>2. q \in Agent /\ Placed(q)
    BY <1>0, <2>1 DEF Agent, Placed, AtTarget
  <2> QED BY <2>1, <2>2, Moved
<1>11. CASE ReloadFails(a) /\ r.pc = "post"
  <2>1. r.i \in 1..Len(Certs) /\ NextCert(a)
    BY <1>11, FileOfTarget DEF ReloadFails, AtTarget, AtGlobalPost
  <2> QED BY <2>1, MovedAhead
<1>12. CASE Finish(a) \/ Crash(a)
  <2>1. agent' = [agent EXCEPT ![a] = Ended(a)]
    BY <1>12 DEF Finish, Crash
  <2>2. Ended(a) \in Agent /\ Placed(Ended(a))
    BY Records DEF Placed, AtTarget
  <2> QED BY <2>1, <2>2, Moved
<1>13. CASE ReloadFails(a)
  BY <1>10, <1>11, <1>13 DEF ReloadFails, AtGlobalPost
<1> QED BY <1>1, <1>2, <1>3, <1>4, <1>5, <1>6, <1>7, <1>8, <1>9, <1>10, <1>12, <1>13 DEF Step

LEMMA TypeStep == TypeInv /\ [Next]_vars => TypeInv'
<1> SUFFICES ASSUME TypeInv, [Next]_vars PROVE TypeInv'
  OBVIOUS
<1>1. ASSUME NEW t \in Targets, Publish(t) PROVE TypeInv'
  BY <1>1 DEF Publish, TypeInv, TypeOK, files
<1>2. ASSUME NEW a \in Agents, Step(a) \/ Crash(a) PROVE TypeInv'
  <2> USE <1>2 DEF TypeInv, TypeOK
  <2>1. agent' \in [Agents -> Agent] /\ \A b \in Agents : Placed(agent'[b])
    BY AgentTyped
  <2>2. server' = server
    BY DEF Step, Start, SkipMissing, FetchFails, SkipUpToDate, StartUpdate, Backup, OpenTmp,
       WriteTmp, Rename, WriteFails, Reload, GlobalReload, ReloadFails, Finish, Crash
  <2>3. \/ Backup(a) \/ OpenTmp(a) \/ WriteTmp(a) \/ Rename(a) \/ WriteFails(a)
        \/ UNCHANGED files
    BY DEF Step, Start, SkipMissing, FetchFails, SkipUpToDate, StartUpdate, Reload,
       GlobalReload, ReloadFails, Finish, Crash
  <2>4. /\ disk' \in [Files -> Content] /\ tmp' \in [Files -> Content]
        /\ bak' \in [Files -> Content]
    BY <2>3, FilesTyped DEF files
  <2>5. loaded' \in [Targets -> Nat]
    <3>1. \A t \in Targets : <<t, "cert">> \in FilesAt(t) /\ <<t, "cert">> \in Files
      BY FilesOfTarget
    <3>2. \A t \in Targets : Loadable(t) => disk[<<t, "cert">>] \in Nat
      BY <3>1 DEF Loadable
    <3>3. CASE Reload(a)
      <4>1. Target(a) \in Targets
        BY <3>3, FileOfTarget DEF Reload, AtTarget
      <4> QED BY <3>2, <3>3, <4>1 DEF Reload
    <3>4. CASE GlobalReload(a)
      BY <3>2, <3>4 DEF GlobalReload
    <3>5. CASE ~Reload(a) /\ ~GlobalReload(a)
      <4>1. loaded' = loaded
        BY <3>5 DEF Step, Start, SkipMissing, FetchFails, SkipUpToDate, StartUpdate, Backup,
           OpenTmp, WriteTmp, Rename, WriteFails, ReloadFails, Finish, Crash
      <4> QED BY <4>1
    <3> QED BY <3>3, <3>4, <3>5
  <2>6. reported' \subseteq Targets
    BY DEF Step, Start, SkipMissing, FetchFails, SkipUpToDate, StartUpdate, Backup, OpenTmp,
       WriteTmp, Rename, WriteFails, Reload, GlobalReload, ReloadFails, Finish, Crash
  <2>7. crashes' \in 0..MaxCrashes
    <3>1. crashes' = crashes \/ (crashes < MaxCrashes /\ crashes' = crashes + 1)
      BY DEF Step, Start, SkipMissing, FetchFails, SkipUpToDate, StartUpdate, Backup, OpenTmp,
         WriteTmp, Rename, WriteFails, Reload, GlobalReload, ReloadFails, Finish, Crash
    <3> QED BY <3>1, BoundsAssumption
  <2> QED BY <2>1, <2>2, <2>4, <2>5, <2>6, <2>7
<1>3. CASE UNCHANGED vars
  BY <1>3 DEF vars, TypeInv, TypeOK
<1> QED BY <1>1, <1>2, <1>3 DEF Next

LEMMA TypeInvariant == Spec => []TypeInv
BY TypeInitially, TypeStep, PTL DEF Spec

\* Every variable of AgentSync keeps its type, for any number of processes.
THEOREM SyncTypeCorrect == Spec => []TypeOK
<1>1. TypeInv => TypeOK
  BY DEF TypeInv
<1> QED BY <1>1, TypeInvariant, PTL
-----------------------------------------------------------------------------
(* While runs keep apart (RunsApart), what is at a target path is whole and *)
(* has been published, and no web server is ahead of its files; what a run  *)
(* is about to put there is not older than what is there, and whole before  *)
(* it is moved.                                                             *)

DiskInv ==
    \A x \in Files : disk[x] # Missing => disk[x] \in 0..server[x[1]]

LoadedInv ==
    \A t \in Targets :
       IF disk[<<t, "cert">>] = Missing THEN loaded[t] = 0
                                        ELSE loaded[t] <= disk[<<t, "cert">>]

\* What a run at a target relies on.
Sound(a) ==
    /\ agent[a].v \in 1..server[Target(a)]
    /\ \A x \in FilesAt(Target(a)) : disk[x] # Missing => disk[x] <= agent[a].v
    /\ agent[a].f = 2 => disk[<<Target(a), "cert">>] = agent[a].v
    /\ agent[a].pc = "write" => agent[a].fd = "tmp" /\ tmp[File(a)] = Torn
    /\ agent[a].pc = "rename" => tmp[File(a)] = agent[a].v
    /\ agent[a].pc = "post" => \A x \in FilesAt(Target(a)) : disk[x] = agent[a].v

AgentInv == \A a \in Agents : agent[a].pc \in AtTarget => Sound(a)

FileInv == TypeInv /\ DiskInv /\ LoadedInv /\ AgentInv

LEMMA Content0 == Missing \notin Nat /\ Torn \notin Nat /\ Torn # Missing
BY ConfigAssumption

LEMMA FilesInitially == Init => FileInv
<1> SUFFICES ASSUME Init PROVE FileInv
  OBVIOUS
<1>1. TypeInv
  BY TypeInitially
<1>2. \A x \in Files : x[1] \in Targets
  BY DEF Files
<1>3. \A x \in Files : disk[x] \in {0, Missing} /\ server[x[1]] = 0
  BY <1>2, ConfigAssumption DEF Init
<1>4. DiskInv
  BY <1>3 DEF DiskInv
<1>5. LoadedInv
  <2>1. \A t \in Targets : <<t, "cert">> \in Files /\ loaded[t] = 0
    BY FilesOfTarget DEF Init
  <2>2. \A t \in Targets : disk[<<t, "cert">>] \in {0, Missing}
    BY <1>3, <2>1
  <2>3. \A t \in Targets : disk[<<t, "cert">>] # Missing => loaded[t] <= disk[<<t, "cert">>]
    BY <2>1, <2>2
  <2> QED BY <2>1, <2>3 DEF LoadedInv
<1>6. AgentInv
  BY DEF AgentInv, Init, Idle, AtTarget
<1> QED BY <1>1, <1>4, <1>5, <1>6 DEF FileInv

\* A run at a target, after a step that leaves alone where it is and its files.
LEMMA StillSound ==
    ASSUME FileInv, NEW b \in Agents, agent[b].pc \in AtTarget, agent'[b] = agent[b],
           agent[b].v \in 1..server'[Target(b)],
           \A x \in FilesAt(Target(b)) : disk'[x] = disk[x] /\ tmp'[x] = tmp[x]
    PROVE  Sound(b)'
<1>1. /\ Sound(b) /\ TypeInv
      /\ Target(b) \in Targets /\ File(b) \in FilesAt(Target(b))
      /\ <<Target(b), "cert">> \in FilesAt(Target(b))
  BY FileOfTarget, FilesOfTarget DEF FileInv, AgentInv
<1>2. Target(b)' = Target(b) /\ File(b)' = File(b) /\ FilesAt(Target(b))' = FilesAt(Target(b))
  BY DEF Target, File, FilesAt
<1> QED BY <1>1, <1>2 DEF Sound

\* The runs that are at another target do not notice what a run does at its own.
LEMMA ApartFromOthers ==
    ASSUME RunsApart, FileInv, NEW a \in Agents, agent[a].pc \in AtTarget,
           server' = server,
           \A x \in Files \ FilesAt(Target(a)) : disk'[x] = disk[x] /\ tmp'[x] = tmp[x],
           NEW b \in Agents, b # a, agent'[b] = agent[b], agent'[b].pc \in AtTarget
    PROVE  Sound(b)'
<1>1. Target(b) # Target(a) /\ Target(b) \in Targets
  BY FileOfTarget DEF RunsApart, FileInv
<1>2. \A x \in FilesAt(Target(b)) : x \in Files \ FilesAt(Target(a))
  BY <1>1 DEF FilesAt
<1>3. agent[b].v \in 1..server'[Target(b)]
  BY DEF FileInv, AgentInv, Sound
<1> QED BY <1>2, <1>3, StillSound

\* No other run has the temporary file open that a run moves or removes.
LEMMA NoneRedirected ==
    ASSUME RunsApart, TypeInv, NEW a \in Agents, agent[a].pc \in AtTarget, NEW to
    PROVE  Redirect(a, File(a), to) = agent
<1>1. agent \in [Agents -> Agent]
  BY DEF TypeInv, TypeOK
<1>2. ASSUME NEW b \in Agents PROVE Redirect(a, File(a), to)[b] = agent[b]
  <2>1. CASE b = a \/ agent[b].fd \notin {"tmp", "target"}
    BY <2>1 DEF Redirect
  <2>2. CASE b # a /\ agent[b].fd \in {"tmp", "target"}
    <3>1. agent[b].pc \in AtTarget
      BY <2>2 DEF TypeInv, Placed, AtTarget
    <3>2. Target(b) # Target(a)
      BY <2>2, <3>1 DEF RunsApart
    <3>3. File(b) # File(a)
      BY <3>2 DEF File
    <3> QED BY <3>3 DEF Redirect
  <2> QED BY <2>1, <2>2
<1> QED BY <1>1, <1>2 DEF Redirect

LEMMA PublishFiles ==
    ASSUME FileInv, TypeInv', NEW t \in Targets, Publish(t)
    PROVE  FileInv'
<1> USE DEF FileInv
<1>1. /\ server \in [Targets -> Nat] /\ \A u \in Targets : server'[u] \in {server[u], server[u] + 1}
      /\ UNCHANGED <<disk, tmp, agent, loaded>>
  BY DEF Publish, TypeInv, TypeOK, files
<1>2. DiskInv' /\ LoadedInv'
  <2>1. \A x \in Files : x[1] \in Targets
    BY DEF Files
  <2> QED BY <1>1, <2>1 DEF DiskInv, LoadedInv
<1>3. AgentInv'
  <2> SUFFICES ASSUME NEW a \in Agents, agent[a].pc \in AtTarget
               PROVE  Sound(a)'
    BY <1>1 DEF AgentInv
  <2>1. Target(a) \in Targets /\ agent[a].v \in 1..server[Target(a)]
    BY FileOfTarget DEF AgentInv, Sound
  <2>2. agent[a].v \in 1..server'[Target(a)]
    BY <1>1, <2>1
  <2> QED BY <1>1, <2>2, StillSound
<1> QED BY <1>2, <1>3

\* A step of a run that leaves all files alone and ends away from a target.
LEMMA AwayFiles ==
    ASSUME FileInv, TypeInv', LoadedInv', NEW a \in Agents, UNCHANGED <<server, disk, tmp>>,
           \A b \in Agents : b # a => agent'[b] = agent[b], agent'[a].pc \notin AtTarget
    PROVE  FileInv'
<1>1. DiskInv'
  BY DEF FileInv, DiskInv
<1>2. AgentInv'
  <2> SUFFICES ASSUME NEW b \in Agents, agent'[b].pc \in AtTarget PROVE Sound(b)'
    BY DEF AgentInv
  <2>1. agent'[b] = agent[b] /\ agent[b].v \in 1..server'[Target(b)]
    BY DEF FileInv, AgentInv, Sound
  <2> QED BY <2>1, StillSound
<1> QED BY <1>1, <1>2 DEF FileInv

LEMMA StartUpdateFiles ==
    ASSUME FileInv, TypeInv', NEW a \in Agents, StartUpdate(a)
    PROVE  FileInv'
<1> USE DEF FileInv
<1>1. /\ agent[a] \in Agent /\ agent[a].i \in 1..Len(Certs) /\ agent[a].pc = "cert"
      /\ agent[a].f = 1
  BY ConfigAssumption
     DEF StartUpdate, Processing, TypeInv, TypeOK, Agent, Placed, AtTarget
<1>2. Target(a) \in Targets
  BY <1>1, TargetIsOne DEF Target
<1>3. /\ agent'[a].pc = "backup" /\ agent'[a].v = server[Target(a)] /\ agent'[a].f = 1
      /\ agent'[a].i = agent[a].i /\ UNCHANGED <<server, disk, tmp, loaded>>
      /\ \A b \in Agents : b # a => agent'[b] = agent[b]
  BY <1>1 DEF StartUpdate, TypeInv, TypeOK, Agent, files
<1>4. Target(a)' = Target(a) /\ FilesAt(Target(a))' = FilesAt(Target(a))
  BY <1>3 DEF Target, FilesAt
<1>5. server[Target(a)] \in Nat /\ server[Target(a)] > 0
  BY <1>2 DEF StartUpdate, TypeInv, TypeOK
<1>6. \A x \in FilesAt(Target(a)) : disk[x] # Missing => disk[x] <= server[Target(a)]
  <2>1. \A x \in FilesAt(Target(a)) : x \in Files /\ x[1] = Target(a)
    BY DEF FilesAt
  <2> QED BY <1>5, <2>1 DEF DiskInv
<1>7. DiskInv' /\ LoadedInv'
  BY <1>3 DEF DiskInv, LoadedInv
<1>8. Sound(a)'
  BY <1>3, <1>4, <1>5, <1>6 DEF Sound
<1>9. AgentInv'
  <2> SUFFICES ASSUME NEW b \in Agents, agent'[b].pc \in AtTarget, b # a PROVE Sound(b)'
    BY <1>8 DEF AgentInv
  <2>1. agent'[b] = agent[b] /\ agent[b].v \in 1..server'[Target(b)]
    BY <1>3 DEF AgentInv, Sound
  <2> QED BY <1>3, <2>1, StillSound
<1> QED BY <1>7, <1>9

\* At a target, up to the move.
LEMMA WriteFiles ==
    ASSUME RunsApart, FileInv, TypeInv', NEW a \in Agents,
           Backup(a) \/ OpenTmp(a) \/ WriteTmp(a)
    PROVE  FileInv'
<1> USE DEF FileInv
<1>1. agent[a] \in Agent /\ agent[a].pc \in AtTarget /\ tmp \in [Files -> Content]
      /\ agent \in [Agents -> Agent] /\ Sound(a)
  BY DEF Backup, OpenTmp, WriteTmp, TypeInv, TypeOK, AtTarget, AgentInv
<1>2. File(a) \in Files /\ File(a) \in FilesAt(Target(a))
  BY <1>1, FileOfTarget
<1>3. UNCHANGED <<server, disk, loaded>>
  BY <1>1 DEF Backup, OpenTmp, WriteTmp, Sound
<1>4. /\ agent'[a].v = agent[a].v /\ agent'[a].i = agent[a].i /\ agent'[a].f = agent[a].f
      /\ agent'[a].pc \in {"open", "write", "rename"}
      /\ agent'[a].pc = "write" => agent'[a].fd = "tmp" /\ tmp'[File(a)] = Torn
      /\ agent'[a].pc = "rename" => tmp'[File(a)] = agent[a].v
      /\ \A b \in Agents : b # a => agent'[b] = agent[b]
      /\ \A x \in Files : x # File(a) => tmp'[x] = tmp[x]
  <2>1. CASE Backup(a)
    BY <1>1, <2>1 DEF Backup, Goto, Agent
  <2>2. CASE OpenTmp(a)
    BY <1>1, <1>2, <2>2 DEF OpenTmp, Agent
  <2>3. CASE WriteTmp(a)
    <3>1. agent[a].pc = "write" /\ agent[a].fd = "tmp" /\ tmp[File(a)] = Torn
      BY <1>1, <2>3 DEF WriteTmp, Sound
    <3>2. \E c \in Written(Torn, agent[a].v) : tmp' = [tmp EXCEPT ![File(a)] = c]
      BY <2>3, <3>1 DEF WriteTmp
    <3>3. tmp'[File(a)] = agent[a].v /\ \A x \in Files : x # File(a) => tmp'[x] = tmp[x]
      BY <1>1, <1>2, <3>2 DEF Written
    <3>4. agent' = [agent EXCEPT ![a].pc = "rename", ![a].fd = "none"]
      BY <2>3 DEF WriteTmp
    <3> QED BY <1>1, <3>3, <3>4 DEF Agent
  <2> QED BY <2>1, <2>2, <2>3
<1>5. Target(a)' = Target(a) /\ File(a)' = File(a) /\ FilesAt(Target(a))' = FilesAt(Target(a))
  BY <1>4 DEF Target, File, FilesAt
<1>6. DiskInv' /\ LoadedInv'
  BY <1>3 DEF DiskInv, LoadedInv
<1>7. Sound(a)'
  BY <1>1, <1>3, <1>4, <1>5 DEF Sound
<1>8. AgentInv'
  <2> SUFFICES ASSUME NEW b \in Agents, agent'[b].pc \in AtTarget, b # a PROVE Sound(b)'
    BY <1>7 DEF AgentInv
  <2>1. \A x \in Files \ FilesAt(Target(a)) : disk'[x] = disk[x] /\ tmp'[x] = tmp[x]
    BY <1>2, <1>3, <1>4
  <2> QED BY <1>1, <1>3, <1>4, <2>1, ApartFromOthers
<1> QED BY <1>6, <1>8

\* What the move of a temporary file does.
LEMMA RenameInstalls ==
    ASSUME FileInv, NEW a \in Agents, Rename(a)
    PROVE  /\ File(a) \in Files /\ Target(a) \in Targets /\ File(a)[1] = Target(a)
           /\ agent[a].v \in 1..server[Target(a)] /\ server' = server /\ loaded' = loaded
           /\ disk' = [disk EXCEPT ![File(a)] = agent[a].v] /\ disk \in [Files -> Content]
           /\ disk[File(a)] # Missing => disk[File(a)] <= agent[a].v
<1> USE DEF FileInv
<1>1. agent[a].pc = "rename" /\ agent[a].pc \in AtTarget
  BY DEF Rename, AtTarget
<1>2. File(a) \in Files /\ Target(a) \in Targets /\ File(a) \in FilesAt(Target(a))
  BY <1>1, FileOfTarget
<1>3. File(a)[1] = Target(a)
  BY <1>2 DEF FilesAt
<1>4. disk' = [disk EXCEPT ![File(a)] = agent[a].v] /\ server' = server /\ loaded' = loaded
  BY <1>1 DEF Rename, AgentInv, Sound
<1> QED BY <1>1, <1>2, <1>3, <1>4 DEF AgentInv, Sound, TypeInv, TypeOK

LEMMA RenameFiles ==
    ASSUME RunsApart, FileInv, TypeInv', NEW a \in Agents, Rename(a)
    PROVE  FileInv'
<1> USE DEF FileInv
<1> DEFINE t == Target(a)
           v == agent[a].v
<1>1. /\ File(a) \in Files /\ t \in Targets /\ File(a)[1] = t
      /\ v \in 1..server[t] /\ server' = server /\ loaded' = loaded
      /\ disk' = [disk EXCEPT ![File(a)] = v] /\ disk \in [Files -> Content]
      /\ disk[File(a)] # Missing => disk[File(a)] <= v
  BY RenameInstalls
<1>2. /\ disk'[File(a)] = v
      /\ \A x \in Files : x # File(a) => disk'[x] = disk[x] /\ tmp'[x] = tmp[x]
  BY <1>1 DEF Rename, TypeInv, TypeOK
<1>3. agent[a].pc = "rename" /\ agent[a].pc \in AtTarget /\ agent[a] \in Agent
      /\ agent \in [Agents -> Agent]
  BY DEF Rename, AtTarget, TypeInv, TypeOK
<1>4. agent'[a] = AfterFile(a) /\ \A b \in Agents : b # a => agent'[b] = agent[b]
  BY <1>3, NoneRedirected DEF Rename
<1>5. DiskInv' /\ LoadedInv'
  <2>1. server[t] \in Nat /\ v \in Nat /\ loaded \in [Targets -> Nat]
    BY <1>1, <1>3 DEF TypeInv, TypeOK, Agent
  <2>2. DiskInv'
    BY <1>1, <1>2, <2>1 DEF DiskInv
  <2>3. \A u \in Targets : <<u, "cert">> \in Files
    BY FilesOfTarget
  <2>4. LoadedInv'
    <3> SUFFICES ASSUME NEW u \in Targets
                 PROVE  IF disk'[<<u, "cert">>] = Missing THEN loaded[u] = 0
                        ELSE loaded[u] <= disk'[<<u, "cert">>]
      BY <1>1 DEF LoadedInv
    <3>1. CASE <<u, "cert">> # File(a)
      BY <1>2, <2>3, <3>1 DEF LoadedInv
    <3>2. CASE <<u, "cert">> = File(a)
      <4>1. disk[File(a)] # Missing => disk[File(a)] \in Nat
        BY <1>1 DEF DiskInv
      <4>2. disk'[<<u, "cert">>] = v /\ v # Missing /\ loaded[u] \in Nat
        BY <1>2, <2>1, <3>2, Content0
      <4> QED BY <1>1, <2>1, <3>2, <4>1, <4>2 DEF LoadedInv
    <3> QED BY <3>1, <3>2
  <2> QED BY <2>2, <2>4
<1>6. ASSUME agent'[a].pc \in AtTarget PROVE Sound(a)'
  <2>1. /\ agent'[a].pc \in {"backup", "post"} /\ agent'[a].i = agent[a].i
        /\ agent'[a].v = v
    BY <1>3, <1>4, <1>6, AfterFileTyped DEF AtTarget
  <2>2. Target(a)' = t /\ FilesAt(Target(a))' = FilesAt(t)
    BY <2>1 DEF Target, FilesAt
  <2>3. \A x \in FilesAt(t) : disk'[x] # Missing => disk'[x] <= v
    <3>1. v \in Nat
      BY <1>3 DEF Agent
    <3>2. \A x \in FilesAt(t) : disk[x] # Missing => disk[x] <= v
      BY <1>3 DEF AgentInv, Sound
    <3>3. FilesAt(t) \subseteq Files
      BY DEF FilesAt
    <3> QED BY <1>2, <3>1, <3>2, <3>3
  <2>4. agent'[a].pc = "backup" => disk'[<<t, "cert">>] = v
    BY <1>2, <1>3, <1>4, AfterFileTyped, FileOfTarget DEF Agent
  <2>5. ASSUME agent'[a].pc = "post", NEW x \in FilesAt(t) PROVE disk'[x] = v
    <3>1. Kind[t] = "pair" => agent[a].f = 2
      BY <1>3, <1>4, <2>5, AfterFileTyped
    <3>2. x \in Files /\ (x = <<t, "cert">> \/ (Kind[t] = "pair" /\ x = <<t, "key">>))
      BY <1>1, <2>5, FilesOfTarget
    <3>3. CASE x = File(a)
      BY <1>2, <3>3
    <3>4. CASE x # File(a)
      <4>1. agent[a].f = 2 /\ x = <<t, "cert">>
        BY <1>3, <3>1, <3>2, <3>4, FileOfTarget DEF Agent
      <4>2. disk[x] = v
        BY <1>3, <4>1 DEF AgentInv, Sound
      <4> QED BY <1>2, <3>2, <3>4, <4>2
    <3> QED BY <3>3, <3>4
  <2>6. agent'[a].f = 2 => disk'[<<t, "cert">>] = v
    <3>1. <<t, "cert">> \in FilesAt(t)
      BY <1>1, FilesOfTarget
    <3> QED BY <2>1, <2>4, <2>5, <3>1
  <2> QED BY <1>1, <2>1, <2>2, <2>3, <2>5, <2>6 DEF Sound
<1>7. AgentInv'
  <2> SUFFICES ASSUME NEW b \in Agents, agent'[b].pc \in AtTarget, b # a PROVE Sound(b)'
    BY <1>6 DEF AgentInv
  <2>1. \A x \in Files \ FilesAt(t) : disk'[x] = disk[x] /\ tmp'[x] = tmp[x]
    BY <1>1, <1>2 DEF FilesAt
  <2> QED BY <1>1, <1>3, <1>4, <2>1, ApartFromOthers
<1> QED BY <1>5, <1>7

\* A reload runs a web server with what is whole at its target's path.
LEMMA ReloadsForward ==
    ASSUME FileInv, NEW a \in Agents, Reload(a) \/ GlobalReload(a)
    PROVE  /\ loaded' = [t \in Targets |-> loaded'[t]]
           /\ \A t \in Targets : loaded'[t] = loaded[t] \/
                 (Loadable(t) /\ loaded'[t] = disk[<<t, "cert">>])
           /\ UNCHANGED <<server, disk, tmp>>
<1>1. loaded \in [Targets -> Nat]
  BY DEF FileInv, TypeInv, TypeOK
<1>2. CASE Reload(a)
  <2>1. agent[a].pc \in AtTarget
    BY <1>2 DEF Reload, AtTarget
  <2>2. Target(a) \in Targets
    BY <2>1, FileOfTarget DEF FileInv
  <2> QED BY <1>1, <1>2, <2>2 DEF Reload, files
<1>3. CASE GlobalReload(a)
  BY <1>1, <1>3 DEF GlobalReload, files
<1> QED BY <1>2, <1>3

LEMMA LoadedAfterReload ==
    ASSUME FileInv, NEW a \in Agents, Reload(a) \/ GlobalReload(a)
    PROVE  LoadedInv'
<1> SUFFICES ASSUME NEW t \in Targets
             PROVE  IF disk[<<t, "cert">>] = Missing THEN loaded'[t] = 0
                    ELSE loaded'[t] <= disk[<<t, "cert">>]
  BY ReloadsForward DEF LoadedInv
<1>1. CASE loaded'[t] = loaded[t]
  BY <1>1 DEF FileInv, LoadedInv
<1>2. CASE Loadable(t) /\ loaded'[t] = disk[<<t, "cert">>]
  <2>1. disk[<<t, "cert">>] \in Nat
    BY <1>2, FilesOfTarget DEF Loadable
  <2> QED BY <1>2, <2>1, Content0
<1> QED BY <1>1, <1>2, ReloadsForward

LEMMA FileStep == RunsApart /\ FileInv /\ [Next]_vars => FileInv'
<1> SUFFICES ASSUME RunsApart, FileInv, [Next]_vars PROVE FileInv'
  OBVIOUS
<1>0. TypeInv'
  BY TypeStep DEF FileInv
<1>1. ASSUME NEW t \in Targets, Publish(t) PROVE FileInv'
  BY <1>0, <1>1, PublishFiles
<1>2. ASSUME NEW a \in Agents, Step(a) \/ Crash(a) PROVE FileInv'
  <2>0. agent \in [Agents -> Agent] /\ agent[a] \in Agent
    BY DEF FileInv, TypeInv, TypeOK
  <2>1. CASE StartUpdate(a)
    BY <1>0, <2>1, StartUpdateFiles
  <2>2. CASE Backup(a) \/ OpenTmp(a) \/ WriteTmp(a)
    BY <1>0, <2>2, WriteFiles
  <2>3. CASE Rename(a)
    BY <1>0, <2>3, RenameFiles
  <2>4. CASE WriteFails(a)
    <3>1. agent[a].pc \in AtTarget
      BY <2>4 DEF WriteFails, AtTarget
    <3>2. agent' = [agent EXCEPT ![a] = Ahead(a, 1)]
      BY <2>4, <3>1, NoneRedirected DEF WriteFails, FileInv
    <3>3. Ahead(a, 1).pc = "cert"
      BY DEF Ahead, Idle
    <3>4. File(a) \in FilesAt(Target(a))
      BY <3>1, FileOfTarget DEF FileInv
    <3>5. UNCHANGED <<server, disk, loaded>>
          /\ \A x \in Files \ FilesAt(Target(a)) : tmp'[x] = tmp[x]
      BY <2>4, <3>4 DEF WriteFails, FileInv, TypeInv, TypeOK
    <3>6. DiskInv' /\ LoadedInv'
      BY <3>5 DEF FileInv, DiskInv, LoadedInv
    <3>7. AgentInv'
      <4> SUFFICES ASSUME NEW b \in Agents, agent'[b].pc \in AtTarget, b # a PROVE Sound(b)'
        BY <2>0, <3>2, <3>3 DEF AgentInv, AtTarget
      <4> QED BY <2>0, <3>1, <3>2, <3>5, ApartFromOthers
    <3> QED BY <1>0, <3>6, <3>7 DEF FileInv
  <2>5. CASE \/ Start(a) \/ SkipMissing(a) \/ FetchFails(a) \/ SkipUpToDate(a)
             \/ Reload(a) \/ GlobalReload(a) \/ ReloadFails(a) \/ Finish(a) \/ Crash(a)
    <3>1. UNCHANGED <<server, disk, tmp>>
      BY <2>5 DEF Start, SkipMissing, FetchFails, SkipUpToDate, Reload, GlobalReload,
         ReloadFails, Finish, Crash, files
    <3>2. agent'[a].pc \notin AtTarget /\ \A b \in Agents : b # a => agent'[b] = agent[b]
      <4>1. CASE Start(a)
        BY <2>0, <4>1 DEF Start, Goto, Agent, AtTarget
      <4>2. CASE \/ SkipMissing(a) \/ FetchFails(a) \/ SkipUpToDate(a)
                 \/ Reload(a) \/ (ReloadFails(a) /\ agent[a].pc = "post")
        <5>1. agent' = [agent EXCEPT ![a] = Ahead(a, 1)]
          BY <4>2 DEF SkipMissing, FetchFails, SkipUpToDate, Reload, ReloadFails, NextCert,
             AtGlobalPost
        <5>2. Ahead(a, 1).pc = "cert"
          BY DEF Ahead, Idle
        <5> QED BY <2>0, <5>1, <5>2 DEF AtTarget
      <4>3. CASE GlobalReload(a) \/ (ReloadFails(a) /\ agent[a].pc # "post")
        <5>1. agent[a].pc = "cert" /\ agent' = [agent EXCEPT ![a].updated = FALSE]
          BY <4>3 DEF GlobalReload, ReloadFails, AtGlobalPost
        <5> QED BY <2>0, <5>1 DEF AtTarget, Agent
      <4>4. CASE Finish(a) \/ Crash(a)
        <5>1. agent' = [agent EXCEPT ![a] = Ended(a)]
          BY <4>4 DEF Finish, Crash
        <5> QED BY <2>0, <5>1, Records DEF AtTarget
      <4> QED BY <2>5, <4>1, <4>2, <4>3, <4>4
    <3>3. LoadedInv'
      <4>1. CASE Reload(a) \/ GlobalReload(a)
        BY <4>1, LoadedAfterReload
      <4>2. CASE ~Reload(a) /\ ~GlobalReload(a)
        <5>1. loaded' = loaded
          BY <2>5, <4>2 DEF Start, SkipMissing, FetchFails, SkipUpToDate, ReloadFails, Finish,
             Crash
        <5> QED BY <3>1, <5>1 DEF FileInv, LoadedInv
      <4> QED BY <4>1, <4>2
    <3> QED BY <1>0, <3>1, <3>2, <3>3, AwayFiles
  <2> QED BY <1>2, <2>1, <2>2, <2>3, <2>4, <2>5 DEF Step
<1>3. CASE UNCHANGED vars
  BY <1>0, <1>3 DEF vars, FileInv, DiskInv, LoadedInv, AgentInv, Sound, FilesAt, Target, File
<1> QED BY <1>1, <1>2, <1>3 DEF Next

LEMMA FileInvariant == Spec /\ []RunsApart => []FileInv
BY FilesInitially, FileStep, PTL DEF Spec

\* While runs keep apart a reader finds a whole file at every target path,
\* whatever fails and wherever runs die.
THEOREM WholeFiles == Spec /\ []RunsApart => []FilesWhole
<1>1. FileInv => FilesWhole
  BY Content0 DEF FileInv, DiskInv, FilesWhole, TypeInv, TypeOK
<1> QED BY <1>1, FileInvariant, PTL

\* While runs keep apart post_cmd runs only when all files of its target are of
\* the version that was fetched, be it a pair of files or one.
THEOREM MatchingFiles == Spec /\ []RunsApart => []ReloadOnMatchingFiles
<1>1. FileInv => ReloadOnMatchingFiles
  BY DEF FileInv, AgentInv, Sound, ReloadOnMatchingFiles, AtTarget
<1> QED BY <1>1, FileInvariant, PTL

\* A single process always keeps apart: what is said of RunsApart is said of the
\* timer alone.
LEMMA AloneIsApart == ASSUME \A a, b \in Agents : a = b PROVE Spec => []RunsApart
<1>1. RunsApart
  BY DEF RunsApart
<1> QED BY <1>1, PTL
-----------------------------------------------------------------------------
(* The refinement: while runs keep apart, files and web servers follow what *)
(* the server has published.                                                *)

LEMMA ReplicaInit == Init => TargetFiles!Init
<1> SUFFICES ASSUME Init PROVE TargetFiles!Init
  OBVIOUS
<1>1. \A x \in Files : x[1] \in Targets
  BY DEF Files
<1> QED BY <1>1, ConfigAssumption DEF Init, TargetFiles!Init

LEMMA ReplicaLoads ==
    ASSUME FileInv, NEW a \in Agents, Reload(a) \/ GlobalReload(a)
    PROVE  TargetFiles!Load
<1>1. ASSUME NEW t \in Targets, loaded'[t] # loaded[t]
      PROVE  /\ loaded[t] < loaded'[t]
             /\ \A x \in FilesAt(t) : disk[x] = loaded'[t]
  <2>1. Loadable(t) /\ loaded'[t] = disk[<<t, "cert">>] /\ disk[<<t, "cert">>] \in Nat
    BY <1>1, ReloadsForward, FilesOfTarget DEF Loadable
  <2>2. loaded[t] <= disk[<<t, "cert">>] /\ loaded[t] \in Nat
    BY <2>1, Content0 DEF FileInv, LoadedInv, TypeInv, TypeOK
  <2> QED BY <1>1, <2>1, <2>2 DEF Loadable
<1> QED BY <1>1, ReloadsForward DEF TargetFiles!Load

LEMMA ReplicaStep ==
    FileInv /\ [Next]_vars
       => [TargetFiles!Next]_<<[x \in Files |-> server[x[1]]], disk, loaded>>
<1> SUFFICES ASSUME FileInv, [Next]_vars
             PROVE  TargetFiles!Next \/ UNCHANGED <<[x \in Files |-> server[x[1]]], disk, loaded>>
  OBVIOUS
<1>0. \A x \in Files : x[1] \in Targets
  BY DEF Files
<1>1. ASSUME NEW t \in Targets, Publish(t) PROVE TargetFiles!Publish
  BY <1>0, <1>1 DEF Publish, TargetFiles!Publish, files, FileInv, TypeInv, TypeOK
<1>2. ASSUME NEW a \in Agents, Rename(a) PROVE TargetFiles!Next
  <2>1. /\ File(a) \in Files /\ Target(a) \in Targets /\ File(a)[1] = Target(a)
        /\ agent[a].v \in 1..server[Target(a)] /\ server' = server /\ loaded' = loaded
        /\ disk' = [disk EXCEPT ![File(a)] = agent[a].v] /\ disk \in [Files -> Content]
        /\ disk[File(a)] # Missing => disk[File(a)] <= agent[a].v
    BY <1>2, RenameInstalls
  <2>2. TargetFiles!Install(File(a))
    BY <2>1 DEF TargetFiles!Install
  <2> QED BY <2>1, <2>2 DEF TargetFiles!Next
<1>3. ASSUME NEW a \in Agents, Reload(a) \/ GlobalReload(a) PROVE TargetFiles!Next
  BY <1>3, ReplicaLoads DEF TargetFiles!Next
<1>4. ASSUME NEW a \in Agents, Step(a) \/ Crash(a), ~Rename(a), ~Reload(a), ~GlobalReload(a)
      PROVE  UNCHANGED <<server, disk, loaded>>
  <2>1. CASE WriteTmp(a)
    BY <2>1 DEF WriteTmp, FileInv, AgentInv, Sound, AtTarget
  <2> QED BY <1>4, <2>1 DEF Step, Start, SkipMissing, FetchFails, SkipUpToDate, StartUpdate,
     Backup, OpenTmp, WriteFails, ReloadFails, Finish, Crash, files
<1>5. CASE UNCHANGED vars
  BY <1>5 DEF vars
<1> QED BY <1>1, <1>2, <1>3, <1>4, <1>5 DEF Next, TargetFiles!Next

\* While runs keep apart the agent implements Replica: a target file is what was
\* there before or a published version, replaced as a whole by a newer one, and
\* a web server runs with what all its files held, and moves forward with them.
THEOREM FilesReplicate == Spec /\ []RunsApart => FilesAreReplicas
BY ReplicaInit, ReplicaStep, FileInvariant, PTL DEF Spec, FilesAreReplicas, TargetFiles!Spec
-----------------------------------------------------------------------------
(* "check" beside any number of processes.                                 *)

CheckInv ==
    /\ TypeInv
    /\ check \in Check /\ (check.at \in {"ask", "row"} => check.i <= Len(Certs))
    /\ checks \in 0..MaxChecks

LEMMA NoCheckIsCheck == NoCheck \in Check /\ NoCheck.at = "idle" /\ NoCheck.i = 1
<1>1. 1 \in 1..Len(Certs) + 1
  BY ConfigAssumption
<1> QED BY <1>1 DEF NoCheck, Check, Statuses

LEMMA CheckInitially == CheckInit => CheckInv
<1> SUFFICES ASSUME CheckInit PROVE CheckInv
  OBVIOUS
<1>1. checks \in 0..MaxChecks
  BY CheckAssumption DEF CheckInit
<1> QED BY <1>1, TypeInitially, NoCheckIsCheck DEF CheckInit, CheckInv

LEMMA OneMore == \A n \in Nat : \A m \in 0..n : m < n => m + 1 \in 0..n
OBVIOUS

LEMMA OneFurther == \A n \in Nat : \A m \in 1..n + 1 : m <= n => m + 1 \in 1..n + 1
OBVIOUS

LEMMA CheckStep == CheckInv /\ [CheckNext]_<<vars, check, checks>> => CheckInv'
<1> SUFFICES ASSUME CheckInv, [CheckNext]_<<vars, check, checks>> PROVE CheckInv'
  OBVIOUS
<1> USE DEF CheckInv
<1>0. Len(Certs) \in Nat \ {0} /\ Missing \notin Nat /\ MaxChecks \in Nat
  BY ConfigAssumption, CheckAssumption
<1>1. NoCheck \in Check /\ NoCheck.at = "idle" /\ NoCheck.i = 1
  BY NoCheckIsCheck
<1>2. ASSUME UNCHANGED vars PROVE TypeInv'
  BY <1>2, TypeStep DEF vars
<1>3. CASE Next /\ UNCHANGED <<check, checks>>
  BY <1>3, TypeStep
<1>4. CASE StartCheck
  <2>1. check' \in Check /\ check'.at = "cert"
    BY <1>1, <1>4 DEF StartCheck, Check
  <2>2. checks' \in 0..MaxChecks
    <3>1. checks < MaxChecks /\ checks' = checks + 1 /\ checks \in 0..MaxChecks
      BY <1>4 DEF StartCheck
    <3> HIDE DEF CheckInv
    <3> QED BY <1>0, <3>1, OneMore
  <2> QED BY <1>2, <1>4, <2>1, <2>2 DEF StartCheck
<1>5. CASE ReadLocal
  <2>1. PICK c : /\ c \in {disk[<<Checked, "cert">>], Missing} /\ c # Torn
                 /\ check' = [check EXCEPT !.at = "ask", !.local = c]
    BY <1>5 DEF ReadLocal
  <2>2. check.i \in 1..Len(Certs)
    BY <1>0, <1>5 DEF ReadLocal, Check
  <2>3. <<Checked, "cert">> \in Files
    BY <2>2, TargetIsOne, FilesOfTarget DEF Checked
  <2>4. c \in Nat \cup {Missing}
    BY <2>1, <2>3 DEF TypeInv, TypeOK, Content
  <2>5. check' \in Check /\ check'.at = "ask" /\ check'.i = check.i
    BY <2>1, <2>4 DEF Check
  <2> QED BY <1>0, <1>2, <1>5, <2>2, <2>5 DEF ReadLocal
<1>6. CASE Ask
  <2> DEFINE t == Checked
             s == IF server[t] = 0 THEN "SERVER NOT FOUND" ELSE Status(t, server[t], check.local)
  <2>1. check.at = "ask" /\ check.i \in 1..Len(Certs) /\ t \in Targets /\ server[t] \in Nat
    BY <1>0, <1>6, TargetIsOne DEF Ask, Check, Checked, TypeInv, TypeOK
  <2>2. PICK status \in {s, "CONN ERR", "PENDING"} :
           check' = [check EXCEPT !.at = "row", !.seen = server[t], !.status = status]
    BY <1>6 DEF Ask
  <2>3. s \in Statuses
    BY DEF Status, Statuses
  <2>4. check' \in Check /\ check'.at = "row" /\ check'.i = check.i
    BY <2>1, <2>2, <2>3 DEF Check, Statuses
  <2> QED BY <1>0, <1>2, <1>6, <2>1, <2>4 DEF Ask
<1>7. CASE NextRow
  <2>1. check.i + 1 \in 1..Len(Certs) + 1
    <3>1. check.i \in 1..Len(Certs) + 1 /\ check.i <= Len(Certs)
      BY <1>7 DEF NextRow, Check
    <3> HIDE DEF CheckInv
    <3> QED BY <1>0, <3>1, OneFurther
  <2>2. check' \in Check /\ check'.at = "cert"
    BY <1>1, <1>7, <2>1 DEF NextRow, Check
  <2> QED BY <1>2, <1>7, <2>2 DEF NextRow
<1>8. CASE FinishCheck
  <2>1. TypeInv'
    BY <1>8 DEF FinishCheck, TypeInv, TypeOK, files
  <2> QED BY <1>1, <1>8, <2>1 DEF FinishCheck
<1>9. CASE UNCHANGED <<vars, check, checks>>
  BY <1>2, <1>9
<1> QED BY <1>3, <1>4, <1>5, <1>6, <1>7, <1>8, <1>9 DEF CheckNext

LEMMA CheckInvariant == CheckSpec => []CheckInv
BY CheckInitially, CheckStep, PTL DEF CheckSpec

\* Types, with a check beside any number of runs of sync.
THEOREM CheckTypeCorrect == CheckSpec => []CheckTypeOK
<1>1. CheckInv => CheckTypeOK
  BY DEF CheckInv, CheckTypeOK, TypeInv
<1> QED BY <1>1, CheckInvariant, PTL
=============================================================================
