------------------------------ MODULE Settings ------------------------------
(***************************************************************************)
(* The settings table under "Save Settings", which writes it row by row:   *)
(* the rows of the outbound proxy, which whoever makes a connection reads  *)
(* one by one, and the administrator's password, which a login page        *)
(* migrates from plain text to a hash.                                     *)
(*                                                                         *)
(* Every row is written and read by a statement of its own, without a      *)
(* transaction, and the error of a write is dropped (the password's alone  *)
(* is not).  A row of the proxy holds the number of the save that wrote it *)
(* last, 0 for none: then, and when it cannot be read, it is worth its     *)
(* default, "no".  saves[i].on is what save i put into "enable_proxy",     *)
(* saves[i].host whether its proxy_host was filled in.  Rows that are      *)
(* written next to each other and read next to each other are one: "host"  *)
(* stands for proxy_protocol, proxy_host and proxy_port, "user" for        *)
(* proxy_user and proxy_pass, "auth" for enable_proxy_auth.  The rows      *)
(* nobody reads together with others are left out; the root of the         *)
(* internal CA is the module InternalCA's, the session's row the module    *)
(* Access's.                                                               *)
(*                                                                         *)
(* A text that is stored as a password or typed as one is a password that  *)
(* has been hashed depth times, 0 for plain text.  The salt of a hash is   *)
(* left out: whoever types a hash types the one that is stored.            *)
(***************************************************************************)
EXTENDS Naturals, Sequences

CONSTANTS
    Procs,          \* goroutines that serve HTTP requests
    Passwords,
    DefaultAdminPass,   \* the password of a fresh installation
    NoPassword,     \* what an empty password field or a missing row holds
    NoCopy,         \* a request that has not read the password row
    Typed,          \* the texts typed on the login page
    Forms,          \* the settings forms: see Form
    MaxDepth,       \* bound: times a text is hashed
    MaxSaves,       \* bound: settings forms submitted
    MaxFaults       \* bound: reads and writes that fail, restarts of the server

Text == [depth : 0..MaxDepth, pw : Passwords \cup {NoPassword}]

PlainText(pw) == [depth |-> 0, pw |-> pw]

Empty == PlainText(NoPassword)

Default == PlainText(DefaultAdminPass)

\* A form: whether it enables the proxy, whether it names a host, the current
\* and the new password typed in.
Form == [on : BOOLEAN, host : BOOLEAN, typed : Text, new : Text]

ASSUME SettingsAssumption ==
    /\ DefaultAdminPass \in Passwords /\ NoPassword \notin Passwords
    /\ Typed \subseteq Text /\ Forms \subseteq Form
    /\ NoCopy \notin Text
    /\ MaxDepth \in Nat \ {0} /\ MaxSaves \in Nat /\ MaxFaults \in Nat

VARIABLES
    password,   \* row admin_password
    proxy,      \* the rows of the outbound proxy
    saves,      \* the settings forms submitted so far
    req,        \* per goroutine: the request it serves
    reader,     \* a connection that is reading the proxy's rows
    faults      \* failed reads and writes of a setting and restarts so far

vars == <<password, proxy, saves, req, reader, faults>>
-----------------------------------------------------------------------------
\* Mutant: the switch is written first.
EnableFirst == <<"enable", "host", "user", "auth">>

\* The order in which SaveSettings writes the rows of the proxy ...
WriteOrder == <<"host", "user", "enable", "auth">>

\* ... and GetConstructedProxyURL reads them.
ReadOrder == <<"enable", "host", "auth", "user">>

ProxyRows == {"host", "user", "enable", "auth"}

Ids == 0..MaxSaves

\* A save: what its form said of the proxy, the saves that had ended when it was
\* submitted (and 0), whether a write of it failed, and what became of it.
Save == [on : BOOLEAN, host : BOOLEAN, before : SUBSET Ids, failed : BOOLEAN,
         state : {"running", "refused", "audited"}]

\* A request: where it is, its save and the row it writes next, the password
\* fields, the password row it has read.
Request == [at : {"idle", "rows", "read", "compare", "store"},
            op : {"none", "save", "login"}, id : Ids, row : 1..5,
            typed : Text, new : Text, copy : Text \cup {NoCopy}]

Idle == [at |-> "idle", op |-> "none", id |-> 0, row |-> 1, typed |-> Empty,
         new |-> Empty, copy |-> NoCopy]

\* A reader: how many rows it has read, from which save each was, the saves that
\* had ended when it began, and whether a read of it has failed.
Reader == [n : 0..4, got : [ProxyRows -> Ids], ended : SUBSET Ids, failed : BOOLEAN]

NotReading == [n |-> 0, got |-> [r \in ProxyRows |-> 0], ended |-> {}, failed |-> FALSE]

Ended == {i \in 1..Len(saves) : saves[i].state # "running"}

IsOn(i) == i > 0 /\ saves[i].on

NamesHost(i) == i > 0 /\ saves[i].host
-----------------------------------------------------------------------------
Init ==
    /\ password \in [depth : {0, 1}, pw : {DefaultAdminPass}]
    /\ proxy = [r \in ProxyRows |-> 0]
    /\ saves = <<>>
    /\ req = [p \in Procs |-> Idle]
    /\ reader = NotReading
    /\ faults = 0

Goto(p, at) == req' = [req EXCEPT ![p].at = at]

Return(p) == req' = [req EXCEPT ![p] = Idle]

\* SaveSettings with a valid port.
SaveSettings(p, form) ==
    /\ req[p] = Idle /\ Len(saves) < MaxSaves
    /\ saves' = Append(saves, [on |-> form.on, host |-> form.host, failed |-> FALSE,
                               state |-> "running", before |-> {0} \cup Ended])
    /\ req' = [req EXCEPT ![p] =
                  [Idle EXCEPT !.at = "rows", !.op = "save", !.id = Len(saves) + 1,
                               !.typed = form.typed, !.new = form.new]]
    /\ UNCHANGED <<password, proxy, reader, faults>>

NextRow(p) == req' = [req EXCEPT ![p].row = @ + 1]

\* db.SetSetting of the next row ...
WriteSetting(p) ==
    /\ req[p].at = "rows" /\ req[p].row <= 4
    /\ proxy' = [proxy EXCEPT ![WriteOrder[req[p].row]] = req[p].id]
    /\ NextRow(p)
    /\ UNCHANGED <<password, saves, reader, faults>>

\* ... which fails: the database is locked, or another request has created the
\* row since it was looked for.  The error is dropped.
WriteSettingFails(p) ==
    /\ req[p].at = "rows" /\ req[p].row <= 4
    /\ faults < MaxFaults
    /\ faults' = faults + 1
    /\ saves' = [saves EXCEPT ![req[p].id].failed = TRUE]
    /\ NextRow(p)
    /\ UNCHANGED <<password, proxy, reader>>

\* Mutant: an empty new password is accepted.
AnyNewPassword(p) == TRUE

\* newPass is there and is what confirmPass says.
NewPasswordGiven(p) == req[p].new # Empty

\* Mutant: a password that is refused takes the settings back.
RefuseAndRollBack(p) ==
    /\ proxy' = [r \in ProxyRows |-> IF proxy[r] = req[p].id THEN 0 ELSE proxy[r]]
    /\ saves' = [saves EXCEPT ![req[p].id].state = "refused"]
    /\ Return(p)

\* The redirect with an error: what has been saved stays, nothing is audited.
RefusePassword(p) ==
    /\ saves' = [saves EXCEPT ![req[p].id].state = "refused"]
    /\ Return(p)
    /\ UNCHANGED proxy

\* LogAudit and the redirect with success.
Audit(p) ==
    /\ saves' = [saves EXCEPT ![req[p].id].state = "audited"]
    /\ Return(p)

\* After the rows: the change of password, if a field is filled in.
FinishRows(p) ==
    /\ req[p].at = "rows" /\ req[p].row = 5
    /\ \/ /\ req[p].typed = Empty /\ req[p].new = Empty
          /\ Audit(p)
       \/ /\ req[p].typed # Empty \/ req[p].new # Empty
          /\ Goto(p, "read")
          /\ UNCHANGED saves
    /\ UNCHANGED <<password, proxy, reader, faults>>
-----------------------------------------------------------------------------
(* The password. *)

\* GET /login tries the default password, to show the banner that names it.
ShowLogin(p) ==
    /\ req[p] = Idle
    /\ req' = [req EXCEPT ![p] = [Idle EXCEPT !.at = "read", !.op = "login",
                                              !.typed = Default]]
    /\ UNCHANGED <<password, proxy, saves, reader, faults>>

\* POST /login; a user name that is not the administrator's is like a password
\* that is wrong.
ProcessLogin(p, typed) ==
    /\ req[p] = Idle
    /\ req' = [req EXCEPT ![p] = [Idle EXCEPT !.at = "read", !.op = "login",
                                              !.typed = typed]]
    /\ UNCHANGED <<password, proxy, saves, reader, faults>>

\* GetSetting("admin_password", "") ...
ReadPassword(p) ==
    /\ req[p].at = "read"
    /\ req' = [req EXCEPT ![p].at = "compare", ![p].copy = password]
    /\ UNCHANGED <<password, proxy, saves, reader, faults>>

\* ... which gives the default, the empty text, when the row cannot be read.
ReadPasswordFails(p) ==
    /\ req[p].at = "read"
    /\ faults < MaxFaults
    /\ faults' = faults + 1
    /\ req' = [req EXCEPT ![p].at = "compare", ![p].copy = Empty]
    /\ UNCHANGED <<password, proxy, saves, reader>>

HashPassword(text) == [text EXCEPT !.depth = @ + 1]

\* CheckPassword: what was read is the hash of what was typed, or the same text.
Matches(p) == req[p].copy \in {req[p].typed, HashPassword(req[p].typed)}

\* Mutant: also when the hash has matched.
UpgradesAnyMatch(p) == Matches(p) /\ req[p].copy.depth < MaxDepth

\* In the latter case, be it plain text or not, its hash is stored.  A login that
\* fails goes on to try the default password.
Upgrades(p) ==
    /\ req[p].copy = req[p].typed \/ (req[p].op = "login" /\ req[p].copy = Default)
    /\ req[p].copy.depth < MaxDepth

\* CheckPassword, with the row as it was read; the upgrade may fail.
Compare(p) ==
    /\ req[p].at = "compare"
    /\ \/ UNCHANGED password
       \/ Upgrades(p) /\ password' = HashPassword(req[p].copy)
    /\ CASE req[p].op # "save" -> Return(p) /\ UNCHANGED <<saves, proxy>>
         [] req[p].op = "save" /\ Matches(p) /\ NewPasswordGiven(p) ->
              Goto(p, "store") /\ UNCHANGED <<saves, proxy>>
         [] OTHER -> RefusePassword(p)
    /\ UNCHANGED <<reader, faults>>

StorePassword(p) ==
    /\ req[p].at = "store" /\ req[p].new.depth < MaxDepth
    /\ password' = HashPassword(req[p].new)
    /\ Audit(p)
    /\ UNCHANGED <<proxy, reader, faults>>

\* Too long for bcrypt, or the write failed: here the error is shown.
StorePasswordFails(p) ==
    /\ req[p].at = "store"
    /\ RefusePassword(p)
    /\ UNCHANGED <<password, reader, faults>>
-----------------------------------------------------------------------------
(* A connection to an ACME server, a DNS provider or a chat service. *)

\* The rows read so far make a connection without the proxy.
Direct ==
    \/ reader.n >= 1 /\ ~IsOn(reader.got["enable"])
    \/ reader.n >= 2 /\ ~NamesHost(reader.got["host"])

Got(i, failed) ==
    [n |-> reader.n + 1, got |-> [reader.got EXCEPT ![ReadOrder[reader.n + 1]] = i],
     ended |-> IF reader.n = 0 THEN Ended ELSE reader.ended, failed |-> failed]

\* GetConstructedProxyURL, one row; with the proxy off, or no host, no more.
ReadProxyRow ==
    /\ reader.n < 4 /\ ~Direct
    /\ reader' = Got(proxy[ReadOrder[reader.n + 1]], reader.failed)
    /\ UNCHANGED <<password, proxy, saves, req, faults>>

\* A row that cannot be read is worth its default.
ReadProxyRowFails ==
    /\ reader.n < 4 /\ ~Direct
    /\ faults < MaxFaults
    /\ faults' = faults + 1
    /\ reader' = Got(0, TRUE)
    /\ UNCHANGED <<password, proxy, saves, req>>

\* The connection is made: directly, or through the proxy of the "host" row, as
\* the "user" row's user if the "auth" row says so.
Connect ==
    /\ reader.n = 4 \/ Direct
    /\ reader' = NotReading
    /\ UNCHANGED <<password, proxy, saves, req, faults>>

\* The process dies and is started again.
Crash ==
    /\ faults < MaxFaults
    /\ faults' = faults + 1
    /\ req' = [p \in Procs |-> Idle]
    /\ reader' = NotReading
    /\ saves' = [i \in 1..Len(saves) |->
                    IF saves[i].state = "running"
                    THEN [saves[i] EXCEPT !.state = "refused", !.failed = TRUE]
                    ELSE saves[i]]
    /\ UNCHANGED <<password, proxy>>

Handler(p) ==
    \/ \E form \in Forms : SaveSettings(p, form)
    \/ WriteSetting(p) \/ WriteSettingFails(p) \/ FinishRows(p)
    \/ ShowLogin(p) \/ (\E typed \in Typed : ProcessLogin(p, typed))
    \/ ReadPassword(p) \/ ReadPasswordFails(p)
    \/ Compare(p) \/ StorePassword(p) \/ StorePasswordFails(p)

Next ==
    \/ \E p \in Procs : Handler(p)
    \/ ReadProxyRow \/ ReadProxyRowFails \/ Connect \/ Crash

Spec == Init /\ [][Next]_vars
-----------------------------------------------------------------------------
(* Properties. *)

\* Types; saves are numbered in the order they were submitted, and a request
\* that has come to store a password has one.
TypeOK ==
    /\ password \in Text
    /\ saves \in Seq(Save) /\ Len(saves) <= MaxSaves
    /\ proxy \in [ProxyRows -> 0..Len(saves)]
    /\ req \in [Procs -> Request]
    /\ \A p \in Procs : req[p].id \in 0..Len(saves)
    /\ \A p \in Procs : req[p].at = "store" => req[p].new # Empty
    /\ reader \in Reader
    /\ reader.got \in [ProxyRows -> 0..Len(saves)]
    /\ faults \in 0..MaxFaults

RowsRead == {ReadOrder[k] : k \in 1..reader.n}

\* Row r, as it was read, is not what a save had left there that had ended before
\* save i.
NotOlder(r, i) == r \in RowsRead => reader.got[r] \notin saves[i].before

\* A connection that sees the switch of a save, turned on, reads that save's host
\* and user, or newer ones: these rows are written before the switch and read
\* after it.  Whether the user is used is in the "auth" row, which is written
\* after the switch, and may be older while the save is under way.  A connection
\* that began after a save had ended reads nothing older in any row.  (Unless a
\* write of that save or a read of the connection has failed.)
NewProxyIsWhole ==
    \A i \in 1..Len(saves) : ~saves[i].failed /\ ~reader.failed =>
       /\ reader.got["enable"] = i /\ IsOn(i) => NotOlder("host", i) /\ NotOlder("user", i)
       /\ i \in reader.ended => \A r \in ProxyRows : NotOlder(r, i)

\* A save that has ended, be it with an error about the password, has left in
\* no row a value older than its own.
EndedSaveIsWhole ==
    \A i \in 1..Len(saves) : saves[i].state # "running" /\ ~saves[i].failed =>
       \A r \in ProxyRows : proxy[r] \notin saves[i].before

\* The password is hashed, and so is every copy of the row a request holds.
Migrated ==
    /\ password.depth > 0
    /\ \A p \in Procs : req[p].copy = NoCopy \/ req[p].copy.depth > 0

\* Once that is so it stays so, and no login page and no late migration brings an
\* old password back: the row changes by a change of password, or because somebody
\* has typed the very hash that was read, and the copies are hashes until a read
\* of the row fails.
MigratedPasswordLasts ==
    [][Migrated =>
          /\ Migrated' \/ \E p \in Procs : ReadPasswordFails(p)
          /\ password' # password =>
                \E p \in Procs : \/ StorePassword(p)
                                 \/ Compare(p) /\ req[p].copy = req[p].typed]_vars
=============================================================================
