------------------------------ MODULE Replica ------------------------------
(***************************************************************************)
(* What the agent promises to the web servers that read the target files:  *)
(* a file holds what was there before the agent came, or one whole version *)
(* the server has published for it, and only ever moves to a newer one.  A *)
(* web server is told to load its files when they are all of one version,  *)
(* and so it never goes back to an older one either.                       *)
(***************************************************************************)
EXTENDS Naturals

CONSTANTS Files, Missing, WebServers,
          FilesUsed     \* per web server, the files it reads

VARIABLES
    published,  \* per file, the versions 1..published[x] have been published
    installed,  \* per file, the version at its path
    running     \* per web server, the version it runs with

Init ==
    /\ published = [x \in Files |-> 0]
    /\ installed \in [Files -> {0, Missing}]
    /\ running = [w \in WebServers |-> 0]

Publish ==
    /\ \A x \in Files : published'[x] \in {published[x], published[x] + 1}
    /\ published' = [x \in Files |-> published'[x]]
    /\ UNCHANGED <<installed, running>>

\* One file is replaced as a whole.
Install(x) ==
    /\ installed'[x] \in 1..published[x]
    /\ installed[x] # Missing => installed[x] <= installed'[x]
    /\ installed' = [installed EXCEPT ![x] = installed'[x]]
    /\ UNCHANGED <<published, running>>

\* Some web servers load what their files hold.
Load ==
    /\ \A w \in WebServers : running'[w] # running[w] =>
          /\ running[w] < running'[w]
          /\ \A x \in FilesUsed[w] : installed[x] = running'[w]
    /\ running' = [w \in WebServers |-> running'[w]]
    /\ UNCHANGED <<published, installed>>

Next == Publish \/ Load \/ \E x \in Files : Install(x)

Spec == Init /\ [][Next]_<<published, installed, running>>
=============================================================================
