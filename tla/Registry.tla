----------------------------- MODULE Registry -------------------------------
(***************************************************************************)
(* The registry of agents: the table agent_nodes, which heartbeats write   *)
(* on behalf of whoever presents an API token (module Access).             *)
(*                                                                         *)
(* A process of an agent, "sync" or "check", ends with a heartbeat.  The   *)
(* handler looks the host up and then creates its row or saves all the     *)
(* columns of it; it answers "recorded" whatever came of that.  A row's    *)
(* content is the number of the heartbeat it is from.                      *)
(***************************************************************************)
EXTENDS Access

CONSTANTS
    Agents,         \* processes of agents
    Hosts,
    HostOf,         \* the host a process runs on
    MaxBeats        \* bound: heartbeats received

ASSUME RegistryAssumption ==
    HostOf \in [Agents -> Hosts] /\ MaxBeats \in Nat

VARIABLES
    nodes,      \* table agent_nodes
    beats,      \* the heartbeats received so far
    beat        \* per process: the heartbeat it waits for

registryVars == <<nodes, beats, beat>>

vars == <<accessVars, registryVars, failures>>
-----------------------------------------------------------------------------
BeatIds == 0..MaxBeats

\* Columns hostname, and the others, which are all of one heartbeat.
Node == [host : Hosts, from : BeatIds]

\* A heartbeat: its host, those of the host that had been answered when it was
\* received, whether a write of it failed, whether it has been answered.
Beat == [host : Hosts, before : SUBSET BeatIds, failed : BOOLEAN, answered : BOOLEAN]

\* Where a process's heartbeat is, and the row that was found (0: none).
Pending == [at : {"idle", "received", "found", "written"}, id : BeatIds, row : Nat]

NotPending == [at |-> "idle", id |-> 0, row |-> 0]

RowsOf(host) == {n \in 1..Len(nodes) : nodes[n].host = host}

AnsweredOf(host) ==
    {i \in 1..Len(beats) : beats[i].host = host /\ beats[i].answered}
-----------------------------------------------------------------------------
Init ==
    /\ AccessInit
    /\ nodes = <<>>
    /\ beats = <<>>
    /\ beat = [a \in Agents |-> NotPending]

\* sendAgentHeartbeat with a token that is in the table: past the middleware.
\* Any other is refused, which changes nothing.
Receive(a) ==
    /\ beat[a] = NotPending /\ Len(beats) < MaxBeats
    /\ \E t \in TokenIds : ValidToken(t)
    /\ beats' = Append(beats, [host |-> HostOf[a], before |-> AnsweredOf(HostOf[a]),
                               failed |-> FALSE, answered |-> FALSE])
    /\ beat' = [beat EXCEPT ![a] = [at |-> "received", id |-> Len(beats) + 1, row |-> 0]]
    /\ UNCHANGED <<nodes, failures>>

\* Mutant: what was found is not used.
FoundNothing(a) == beat' = [beat EXCEPT ![a].at = "found"]

\* First(hostname)
Find(a) ==
    beat' = [beat EXCEPT
                ![a].at = "found",
                ![a].row = IF RowsOf(HostOf[a]) = {} THEN 0
                           ELSE CHOOSE n \in RowsOf(HostOf[a]) :
                                   \A m \in RowsOf(HostOf[a]) : n <= m]

FindNode(a) ==
    /\ beat[a].at = "received"
    /\ Find(a)
    /\ UNCHANGED <<nodes, beats, failures>>

\* Mutant: hostname without its unique index.
AnyHost(host) == TRUE

HostFree(host) == RowsOf(host) = {}

\* Create() of the row, which fails when the host has got one since; nobody
\* looks at the error.
CreateNode(a) ==
    /\ beat[a].at = "found" /\ beat[a].row = 0
    /\ nodes' = IF HostFree(HostOf[a])
                THEN Append(nodes, [host |-> HostOf[a], from |-> beat[a].id]) ELSE nodes
    /\ beat' = [beat EXCEPT ![a].at = "written"]
    /\ UNCHANGED <<beats, failures>>

\* Save() of the row that was found.
SaveNode(a) ==
    /\ beat[a].at = "found" /\ beat[a].row # 0
    /\ nodes' = [nodes EXCEPT ![beat[a].row] = [host |-> HostOf[a], from |-> beat[a].id]]
    /\ beat' = [beat EXCEPT ![a].at = "written"]
    /\ UNCHANGED <<beats, failures>>

\* The write fails for another reason, which is not looked at either.
WriteNodeFails(a) ==
    /\ beat[a].at = "found"
    /\ failures < MaxFailures
    /\ failures' = failures + 1
    /\ beats' = [beats EXCEPT ![beat[a].id].failed = TRUE]
    /\ beat' = [beat EXCEPT ![a].at = "written"]
    /\ UNCHANGED nodes

\* "Heartbeat recorded"
AnswerBeat(a) ==
    /\ beat[a].at = "written"
    /\ beats' = [beats EXCEPT ![beat[a].id].answered = TRUE]
    /\ beat' = [beat EXCEPT ![a] = NotPending]
    /\ UNCHANGED <<nodes, failures>>

PostAgentHeartbeat(a) ==
    \/ Receive(a) \/ FindNode(a) \/ CreateNode(a) \/ SaveNode(a)
    \/ WriteNodeFails(a) \/ AnswerBeat(a)

Next ==
    \/ AccessNext /\ UNCHANGED registryVars
    \/ (\E a \in Agents : PostAgentHeartbeat(a)) /\ UNCHANGED accessVars

Spec == Init /\ [][Next]_vars
-----------------------------------------------------------------------------
(* Properties. *)

\* Types; a heartbeat that is pending has been received.
TypeOK ==
    /\ AccessTypeOK
    /\ nodes \in Seq(Node)
    /\ beats \in Seq(Beat) /\ Len(beats) <= MaxBeats
    /\ beat \in [Agents -> Pending] /\ \A a \in Agents : beat[a].id <= Len(beats)

\* A host has one row, also when its first heartbeats arrive at once.
OneNodePerHost ==
    \A m, n \in 1..Len(nodes) : nodes[m].host = nodes[n].host => m = n

\* A heartbeat that was answered and whose write did not fail shows, or one
\* that was not answered when it was received: the Create() that loses a race
\* and the Save() of a stale row hide no heartbeat behind an older one.
AnsweredBeatIsSeen ==
    \A i \in 1..Len(beats) : beats[i].answered /\ ~beats[i].failed =>
       \E n \in RowsOf(beats[i].host) : nodes[n].from \notin beats[i].before
=============================================================================
