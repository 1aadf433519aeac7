# Specifications of cert-deployer

TLA+ models of the certificate server and the certificate agent, the TLC
configurations that check them on small instances, and proofs checked by
TLAPS. The reference is the Go code under `server/` and `client/`; paths below
are relative to the repository. `PROJECT.json` lists runs, properties, the
source lines behind every definition, findings, hazards and theorems.

## 1. The system

**Server** (`server/`): one process, a SQLite database, an HTTP server with a
goroutine per request, and three background goroutines.

**Agent** (`client/`): a command run by a systemd timer every six hours, or by
hand, on each host; it fetches certificates and writes files.

| part | state | operations | interacts with | what makes it correct |
|---|---|---|---|---|
| Certificate store (`handlers/web.go`, `handlers/api.go`, `models/certificate.go`, `crypto/cert.go`) | table `certificates` | upload, delete, ACME issue, internal issue, read (which may fill in `domains`) | scheduler and all requests share the table; every handler works on a copy of the row it read | a row's key, fingerprint and expiry belong to its certificate; one row per name; a late write hits its own row; enrolled rows stay renewable |
| ACME auto-renew scheduler (`acme/renew.go`) | the rows of the pass, the row being renewed | every 12 h: read, renew each due row, save | issuer (minutes per row), store | due rows are renewed in the end whatever becomes of others; nothing but due rows is written |
| ACME issuer (`acme/issuer.go`) | none (sets proxy variables of the process) | `IssueCertificate` | ACME server, DNS provider | returns a certificate for the domains asked for, or an error |
| Internal CA (`crypto/ca.go`, handlers in `web.go`) | two rows of `settings`: root certificate and key | generate, upload, delete, download, issue | store | the two belong together; what is issued is of a root that was configured |
| Settings, outbound proxy (`db/db.go`) | table `settings`, process environment | `SetSetting`, `SaveSettings`, `GetConstructedProxyURL` | everything | related rows are read and written together |
| Admin login, session, API tokens (`web.go`, `middleware/auth.go`) | rows of `settings`, table `api_tokens` | login, logout, password, token | every request | one session, one token, a change of password lasts |
| Notifications (`notifications/scheduler.go`) | none | scan every n hours, send | store (reads), settings | every expiring certificate is reported |
| Audit log, maintenance (`db/db.go`) | table `audit_logs` | append, purge | every handler | what is audited happened |
| Node registry (`handlers/api.go`, `cmd/root.go`) | table `agent_nodes` | heartbeat | agents | one row per host, true content |
| Agent sync (`cmd/sync.go`, `agent/*.go`) | target files, temporary files, backups | the loop over targets; compare, back up, write, rename, reload, heartbeat | server, file system, web servers, other runs | files are whole and match, the last version is installed and loaded |
| Agent check (`cmd/check.go`) | none | compare expiry dates, print | server | it disturbs no run of sync |
| Agent configuration (`config/config.go`) | none | preprocess and parse YAML | file system | Windows paths survive |

Hard parts: no handler uses a transaction, so reads go stale before they are
written back; an ACME issuance takes minutes; errors of writes are dropped;
both programs may die between any two statements or system calls; two runs of
the agent share file names.

## 2. Modules

| module | what it is | proofs |
|---|---|---|
| `Certificates` | certificates, the fingerprint, the key check; shared | |
| `CertVault` | abstract: what the server promises to agents per name | |
| `CertStore` | the table, all its writers, the scheduler; implements `CertVault` | `CertStoreProofs`, `EnrolmentProofs` |
| `InternalCA` | the root of the internal CA in two settings | `InternalCAProofs` |
| `Settings` | the proxy's rows and the password under "Save Settings", login pages and a connection that is being made | `SettingsProofs` |
| `Access` | the session's row, cookies, the table of API tokens | `RegistryProofs` |
| `Registry` | `Access` composed with the heartbeat handler and its table | `RegistryProofs` |
| `Notifications` | the expiration scheduler in hours | `NotificationsProofs` |
| `Replica` | abstract: what the agent promises to readers of target files and what web servers load | |
| `AgentSync` | runs of `cert-agent sync` on a host; runs that do not meet at a target implement `Replica` | `AgentSyncProofs` |
| `AgentCheck` | `cert-agent check` composed with `AgentSync` | `AgentSyncProofs` |
| `MC...` | small instances for TLC, and the `.cfg` files | |

A definition called a mutant in its comment is a plausible bug; no
specification uses it. `PROJECT.json` names the property it breaks.

### CertStore

`table` is the table by primary key, `nextId` its AUTOINCREMENT counter
(`models/certificate.go:8`). A handler is two steps: up to `First()`, which
puts the copy it is going to write into `req[p]`, and the write. One SQL
statement is one step.

| action | code |
|---|---|
| `SaveCertificate`, `HandleIssueInternalCert`, then `FinishSave` | `web.go:363`, `web.go:850` |
| `IssueACMECertificate`, then `FinishIssue` | `web.go:575`: read and resolve credentials; issue; write |
| `FinishWithoutWriting` | issuance failed, or the write did and its error was dropped |
| `DeleteCertificate` | `web.go:412`, one statement |
| `GetCert`, `ShowDashboard`, then `Backfill` per row | `api.go:31`, `api.go:59`, `web.go:164`: the UPDATE of an empty `domains` column. With nothing to fill in they are pure reads and no step |
| `StartPass`, `SkipRow`, `RenewRow`, `FinishRenew`, `RenewFails` | `renew.go:32` |
| `Crash` | the process dies and `Restart=always` starts it again |
| `Tick` | a day passes |

`Create` and `Save` are what gorm does: `Create` takes the next id or fails on
the unique index; `Save` writes every column of the row with the copy's id and
inserts the copy under that id when the row is gone.

Abstractions: days instead of hours (the truncation in `daysLeft` is modelled
in `Notifications`); the content of a certificate is its key, domains and
expiry; the five credential columns are one account (that the saved row's token
is not used when the form names another DNS provider, `web.go:605`, is a choice
made per request); the audit log is left out; the form's name check is the choice of `Names`; a pass
takes its rows in any order. The two reads of `ReadRows` that lead to nothing
are stuttering.

### InternalCA

The two settings are written by two statements and read by two; any request
may change the root or issue with it. A root is named by its key pair. Two
changes that interleave can leave the certificate of one with the key of the
other, and a write that fails can leave half a change: `req[p].apart` records
that neither has happened to a change, or to those a request that issues has met,
and only then is something promised. `whole` records the roots to which both
settings have belonged while a request that issues is under way. A root is any
certificate the handlers accept: an upload needs no CA certificate
(`web.go:820`), so nothing is said of whether a client accepts what a root signs.

### Settings

`proxy` holds, per row of the outbound proxy, the number of the save that wrote
it last; `saves` remembers of each form whether it switched the proxy on, which
forms had ended when it came, whether a write of it failed and how it ended.
Rows written next to each other and read next to each other are one row. A text
that is stored or typed as a password is a password hashed `depth` times, 0 for
plain text; salts are left out, since whoever types a hash types the stored one.
`CheckPassword` takes the stored text itself for the password, plain or not, and
stores its hash (`db.go:69-71`): `Upgrades` does so too.

| action | code |
|---|---|
| `SaveSettings`, `WriteSetting`, `WriteSettingFails`, `FinishRows` | `web.go:458-552`: the rows, one `SetSetting` each, errors dropped |
| `ReadPassword`, `ReadPasswordFails`, `Compare`, `StorePassword`, `StorePasswordFails` | `web.go:552-573`, `db.go:79` (`GetSetting`, the default when the row cannot be read) and `db.go:63` (`CheckPassword` with its upgrade) |
| `ShowLogin`, `ProcessLogin` | `web.go:110`, `web.go:118`: they check a password, and may upgrade it |
| `ReadProxyRow`, `ReadProxyRowFails`, `Connect` | `db.go:97` (`GetConstructedProxyURL`), row by row with its two early returns, and its callers |
| `Crash` | the process dies between any two statements |

Rows that no reader relates to others (port, defaults, channels) are left out.

### Access and Registry

`session` is the row `active_session_token`, held as the number of the login or
logout that wrote it last; `cookie` is what each browser has. A handler's
statements, the answer's arrival and the middleware are steps of their own
(`Sign`, `WriteSession`, `AnswerSign`, `Ask`, `Refuse`). `tokens` is the table of
API tokens by id; `page` is a dashboard that some browser still shows, and
`RevokeAPIToken` takes its ids from there. `Registry` adds the agents: `Receive`
(a heartbeat with a token that is in `tokens`), `FindNode`, `CreateNode`,
`SaveNode`, `WriteNodeFails`, `AnswerBeat` (`api.go:85-133`). A row's content is
the number of its heartbeat. `GET /logout` asks for no session, so `Sign` of a
logout has no guard.

### Notifications

`StartCheck` reads the interval (`scheduler.go:49`), `FindCertificates` and
`ReadChannels` what to report and where (`scheduler.go:63-95`), `Send`,
`SendFails`, `SendHangs` serve one channel each in the order of `Rank`
(`scheduler.go:99-111`); the check ends in `Sleep`. `Slept` is the product of
hours and nanoseconds in 64 bits, with `HalfRange` for 2^63 ns; `DaysLeft`
truncates towards zero; `OrDefault` is `Atoi` with its default. `Store` is any
writer of the certificates' expiry, `SaveSettings` any change of a row the
scheduler reads. `quiet` is when a certificate was last reported over a channel,
or last had a reason not to be (it is new, a setting changed, the channel or the
query failed).

A check takes no time on the scale of hours, so `Tick` waits for it, unless it
hangs. That a refused message counts as sent is what the code does: it looks at
the transport's error only (`scheduler.go:143-149`), not at the HTTP status.

### AgentSync and AgentCheck

One process per element of `Agents`; `agent[a].pc` is the call it makes next.
A target is a pair of files, a combined file or a PFX file. File contents are
version numbers: version v is the v-th certificate the server has had under
that name; every publication counts as new content, so going back to an
earlier certificate is a new version. A descriptor follows its file through
`rename` (`fd`, `Redirect`), which is what makes overlapping runs interesting.
A pair is skipped when either of its files is missing (`sync.go:81-90`).
Failures of every call are modelled; `BackupFile` may fail silently or leave a
torn copy; `post_cmd` and `global_post_cmd` may fail or time out; the
heartbeat may not arrive. Pre-commands, file modes, owners and the IIS
rebinding change nothing the model contains.

`check` goes through the same list in steps of its own: `ReadLocal`, `Ask` (the
server's answer and the status made of the two dates), `NextRow`, and the
heartbeat in `FinishCheck` (`check.go:32-166`). A new version may expire before
the old one, and `check` looks at no key file: what it announces is no promise of
what `sync` will do (section 4), and no property says so.

## 3. Runs

All are started as `tlc -config X.cfg M`, where `X` is `M_<run>`.

| run (module) | instance | checks |
|---|---|---|
| `requests` (`MCCertStore`) | a row without domains, 2 names, 2 requests, 2 ids, 1 restart | `TypeOK`, `RowsIntact`, `UniqueNames`, `LateWritesHitTheirName`, `AcmeRowsRenewable`, `VaultSpec`, `OnlyLateReadsMislead` |
| `renewals` (`MCCertStore`) | 2 ACME rows, one with revoked credentials, scheduler with fairness, 1 request, 1 restart, 1 day | `UniqueNames`, `LateWritesHitTheirName`, `DomainsDescribeCert`, `DueRowsAreRenewed`, `EnrolmentKept`, `VaultSpec` |
| `root` (`MCInternalCA`) | 3 requests, 2 roots, 1 failed write, 2 restarts | `TypeOK`, `IssuedByConfiguredRoot`, `CompletedStoreMatches` |
| `saves` (`MCSettings`) | 2 requests, 3 forms of which 2 are submitted, logins, a connection, 1 failed read or write or restart | `TypeOK`, `NewProxyIsWhole`, `EndedSaveIsWhole`, `MigratedPasswordLasts` |
| `access` (`MCRegistry`) | 2 browsers, 3 logins or logouts, 2 tokens, 2 processes on a new host, 2 heartbeats, 1 failed write | `TypeOK`, `OneBrowserIn`, `AnsweredSigningHolds`, `OneToken`, `PageNamesItsTokens`, `OneNodePerHost`, `AnsweredBeatIsSeen` |
| `alerts` (`MCNotifications`) | every setting, 1 change, 2 channels, 2 faults, 7 hours | `TypeOK`, `ReportedInTime`, `NoFlood` |
| `files` (`MCAgentCheck`) | 1 sync and 1 check; pair, pair without its key file, PFX not there yet; 1 crash | `CheckTypeOK`, `FilesWhole`, `ReloadOnMatchingFiles`, `FilesAreReplicas` |
| `repair` (`MCAgentCheck`) | combined file after a name never published; timer's runs and an operator's, 1 crash, fairness | `EventuallyInstalled`, `EventuallyLoaded` |
| `late_renewal`, `overlap`, `stale_key`, `rewrite` | the smallest instance that shows it | one property each, violated: section 4 |

**What the properties say.** Of the store: a row's key, fingerprint and expiry
are those of its certificate; no two rows have a name; a late write hits the
name it was meant for; enrolled rows stay renewable and stay enrolled; the
domains are those of the certificate, and only a read that fills them in too late
can make them others; a due row is renewed. Of the root: a certificate is issued
by one that was configured during the request, never by a mixture, and an
undisturbed change repairs whatever crashes left. Of the settings: a connection
that sees the new switch reads no older host and no older user, and one that
begins after a save has ended reads nothing older; a save that has ended, even
one that was refused, is not mixed with older ones; a migrated password changes
only by a change of password, or when somebody types the hash. Of access: one browser is in; an
answered login or logout is not undone by an older one; a stale page revokes the
token it shows or none; a host has one row that no lost or stale write hides an
answered heartbeat from. Of notifications: every certificate at its threshold
is reported over every working channel within one sleep; no channel is flooded.
Of the agent: files are whole, match when the web server is reloaded, only move
forward, and reach the last version.

**Bounds.** Two names and two requests are what it takes for one row's copy to
be held while the row is deleted and another is created; with two ids a third
`Create` is refused, which the handlers take like any failed write. One day and
thresholds of one and two days give a row that is due, one that becomes due
and one that is not. Two of the forms overlap or follow each other; a third would
be to the second what that is to the first. A text is hashed twice at most
(`MaxDepth`): a password, its hash, and the hash of the hash. For the root, two
changes overlap or follow each other while a third request issues. Three logins and logouts let one be
answered before another two race. Two heartbeats on a new host are the race of
two `Create`s, or of `Create` and `Save`. Two hours a day, a longest Duration of
three hours and intervals of 0 to 9 hours give every case of `Slept`: a default,
a sleep, an overflow to a negative number (9 is a sleep again); the first and
the last channel stand for what a channel does to those after it. Two versions
of a target let a run meet an older one of its own. The safety theorems of
section 5 have none of these bounds. `MaxId`, `MaxDay`, `MaxVersion`, `MaxChecks`,
`MaxSaves`, `MaxSignings`, `MaxTokens`, `MaxBeats`, `MaxNow`, `MaxChanges`,
`MaxCrashes`, `MaxFaults`, `MaxFailures` and `MaxDepth` are the only ones. In
`requests` the internal CA is asked for nothing (`InternalDomains` is empty: its
writes are those of an upload but for two columns); in `renewals` it is, over an
ACME row. No row of `renewals` has an empty domains column, that of `requests` has.

In `repair` no check runs: it writes nothing but the registry, as `files` shows.

**Symmetry** is used in `requests`, `root`, `saves` and `access`, of requests,
browsers and processes on one host. None of the four has a liveness property, all start
from states that treat these alike, and no definition tells two of them apart.

**Deadlock** is checked in every run but `alerts`: some step is always possible (a
request, a run of the agent). The hours of `alerts` are bounded, and a scheduler
that sleeps beyond the last one is where its behaviours end.

**Fairness.** `CertStore!Fairness`: the scheduler goroutine runs in a loop that
no error leaves (`renew.go:25-28`); an issuance ends (the ACME client and its HTTP
client time out); and a row tried in pass after pass with accepted credentials
is not refused for ever (strong fairness of its renewal, since others' writes
and restarts interrupt it). `AgentSync!Fairness`: the timer starts runs and a
run ends (every request and command has a timeout); what is tried for a target
in run after run succeeds once. Nothing is assumed of a target that the server
does not have, of requests, of an operator's run, or of restarts.
`ReportedInTime` needs no fairness: it is stated with the clock, and `Tick`
waits for a check that is due.

## 4. Findings

Each is a run in which TLC violates what the repository says.

| run | the code | the text |
|---|---|---|
| `late_renewal` | `renew.go:118` saves the copy read at the start of the pass: renews rows deleted, converted or renewed meanwhile | `renew.go:14-15` |
| `overlap` | `writer.go:62`: one temporary file name for all runs | `README.md:90` |
| `stale_key` | `sync.go:146` compares the certificate file only | `README.md:89` |
| `rewrite` | `sync.go:143` hashes certificate and key of a combined file | `README.md:89` |

What these do *not* break is shown by the passing runs beside them: a late
renewal may bring a deleted row back, but never writes over another name's row
or leaves half a bundle; an overlapping run tears a file, but the timer's next
run repairs it; a torn root pair issues nothing.

The models also contain behaviour that a reader of the code should know and
that no text contradicts clearly enough, or no state of the models shows, to be
a finding:

- The API is called read-only (`README.md:69`); a read request updates an empty
  `domains` column (`api.go:45`), with the domains of a certificate that may have
  been replaced. Agents are told these domains (`api.go:55`, `api.go:81`) and the
  scheduler renews for them. `OnlyLateReadsMislead` says that nothing else does this.
- `check` prints UPDATE AVAIL for a pair whose key file is missing, which `sync`
  skips (`check.go:61-125`, `sync.go:86-88`); and for a certificate that expires
  later than the local one, which `sync` does not ask.
- The heartbeat lists what is configured (`sync.go:208`), not what was synced
  (`README.md:135`).
- A `post_cmd` that fails is not tried again before the next certificate
  (`sync.go:187`), unless the target is a combined file; a backup that fails does
  not stop the overwriting (`writer.go:112`).
- A request that has read the root issues with it after it was deleted
  (`web.go:857`); `IssuedByConfiguredRoot` says how old that root may be. An uploaded
  root need not be a CA's (`web.go:820`).
- Two requests that change the root at once may leave the certificate of one with
  the key of the other, with which nothing is issued (`web.go:804`).
- A connection that sees the new proxy switch may see the old answer to whether a
  user is sent (`web.go:487-496`, `db.go:112-116`).
- The stored hash, typed as the password, is accepted, and its own hash is stored
  in its place (`db.go:69-71`): the password is then no longer what it was.
- Two requests for a token that overlap make two (`web.go:421`; `OneToken`).
- Anybody's `GET /logout` ends the session there is (`web.go:141`).
- A settings form with a wrong password is refused after everything else in it
  was stored, and is not audited (`web.go:552-573`).
- Until the password is migrated, a login page that has read the plain-text row
  may write it back, hashed, over a change (`db.go:71`).
- A mail server that neither answers nor hangs up stops all alerts until the
  server is restarted (`scheduler.go:253`): `ReportedInTime` excludes it. An
  interval beyond 2562047 hours overflows and makes the scheduler spin
  (`scheduler.go:58`): `NoFlood` excludes it; the form does not offer it.
- A channel's HTTP status is not looked at: a refused alert is logged as sent.

## 5. Proofs

All theorems hold for every value of the constants that satisfies the named
assumptions of the module (`...Assumption`); TLC evaluates these in every run.
A theorem that needs more says so in its own `ASSUME`.

**`CertStoreProofs`**: `TypeCorrect`, `RowsStayIntact`, `NamesStayUnique`,
`LateWritesAreSafe`, `EnrolledRowsStayRenewable`, `StoreImplementsVault`, with the
table an earlier version left being one this program could read
(`LegacyAssumption`). The safety properties are not inductive by themselves. A
late `Save()` may insert a row again under its old id, so comparing a copy with
the table says too little: after the row is deleted there is nothing to compare
with, and two copies of it may both still be written. The invariant therefore
speaks of all rows anybody holds, in the table or in memory (`Holders`): each is
well formed and intact, and renewable if enrolled; any two with one id have one
name (`IdsAgree`); ids are below the counter. A step then either only moves held
rows about (`ReadStep`), writes one row that may be held (`WriteStep`), or
removes or updates rows of one name (`UpdateStep`); each action is shown to be
one of these, which gives both the invariant and `OneName`, the fact the
refinement needs.

**`EnrolmentProofs`** builds on it. `LateReadsAlone`, without any hypothesis: a copy
that a request is going to save lists its certificate's domains (`DescInv`), and an
issue or a renewal writes the domains it asked for with the certificate, so whatever
row it hits is written whole; what remains is the one statement that writes the
domains column only. `DomainsStayTrue` follows: no row lists domains its certificate is not for,
as long as no certificate is replaced between the two statements of a read that
fills its domains in (`ReadsApart`); `FilledDomainsStayTrue` has the same for an
installation with no empty column, where no read ever writes. `EnrolmentStays`,
while no request holds a copy of a row that another has an ACME certificate
issued for (`IssuesApart`; of the two, the later `Save()` wins): the rows the
scheduler holds are enrolled, and whoever holds a row that somebody else holds
as enrolled holds it enrolled or taken over by the internal CA (`KeptInv`),
which is what makes a renewal that started before an upload harmless.

**`InternalCAProofs`**: `TypeCorrect`, `ConfiguredRootIssues`,
`CompletedStoresMatch`. Neither of the last two is inductive. Between the two
statements of a change the invariant has to say that one which is `apart` is the
only one under way (`AloneInv`), that the certificate it has stored is still there,
and that what a change holds matches (`MatchInv`), which is where the check of an
upload is needed. Of a request it says (`ReadInv`) that a root whose
certificate it has read, and that has not been whole since, does not have its key
in the settings: a change that is `apart` can put the key there only with the
certificate before it, which makes the root whole. With the reads the
other way round this fails, and TLC shows how (the mutant `KeyFirst`).

**`SettingsProofs`**: `TypeCorrect`, `NewProxy`, `EndedSave`, `PasswordLasts`. What a
save has written can be seen before it ends, so the invariant speaks of how far
a save has come: a row a save has passed (`Passed`) without failing is not of a
save that had ended before it (`RowInv`); the save whose switch is in the table,
or was read, has passed the host and the user (`WriterInv`, `ReaderInv`), which is
where the order of writing and reading meet; the row that says whether a user is
sent is written after the switch, so of that only a connection that began after
the save's end can be sure. For the password, `PasswordStep` looks at the one step
that writes without having been asked for a change: with every copy a hash it
takes somebody who typed that text. A running save belongs to one
request (`ReqInv`), and the saves before a save have ended (`BeforeInv`), so none
of them writes any more.

**`RegistryProofs`**: `TypeCorrect`, `OneBrowser`, `SigningHolds`, `OneAPIToken`,
`LateRevocation`, `OneNode`, `BeatIsSeen`. A login that waits for its answer has not
been answered, and no two browsers wait for or hold one token (`SigningInv`); a
login that is written counts before it is answered (`SessionInv`); whoever has
counted no tokens is alone (`TokenInv`). The heartbeat's proof is the same
argument as the session's, with two more facts: the row that was found is
still that host's, and who found none may meet one since, which is of a
heartbeat that was not answered when this one was received.

**`AgentSyncProofs`**: types for any number of overlapping runs (`SyncTypeCorrect`);
`WholeFiles`, `MatchingFiles` and the refinement `FilesReplicate` for any number of
runs of which no two are at one target (`RunsApart`), for any list of targets,
failures and crashes; `CheckTypeCorrect` for a check beside any number of runs. The invariant (`FileInv`) says what is at a target path has
been published (`DiskInv`), what a web server runs with is not newer than its
files (`LoadedInv`), and what a run is about to move to a path is whole, published
and not older than what is there (`AgentInv`): a torn temporary file that a crash
left is truncated before it is moved. The server may publish, and another
run's global reload may load, while a run is at a target, so what a run relies on
is stated relative to the version it fetched (`Sound`).

**`NotificationsProofs`**: `TypeCorrect`, `NotFlooded`, and `ReportsAreInTime` under
`SleepsBounded` (the settings allow a longest sleep, and not only sleeps that end
at once), for any channels, settings, days and Durations. The property compares
the clock with the last report, and the clock may be at any hour of a sleep; so
the invariant says when the check before the sleep was (`Looked`, `AsleepInv`) and
that by then every certificate was reported or had days to spare; during a check
it says which channels and certificates have been seen to (`CheckedInv`). The
arithmetic of truncated days and wrapped products is in lemmas of its own.

**Hypotheses on behaviours.** Three theorems hold of the behaviours of the
specification in which certain steps do not overlap, which nothing in the code
sees to: `RunsApart` (no two runs of the agent at one target; run `overlap` is what
happens otherwise), `ReadsApart` (no certificate is replaced under a read that
fills in its domains) and `IssuesApart` (no request holds a copy of a row that
another has an ACME certificate issued for). Each is a definition beside the
properties in `AgentSync` or `CertStore`, all actions, failures and crashes remain
possible under it, and what it excludes is in section 4 or in `hazards`. One run at
a time satisfies `RunsApart` (`AloneIsApart`), one request at a time `IssuesApart`.
The properties `IssuedByConfiguredRoot`, `CompletedStoreMatches`, `OneToken`,
`NewProxyIsWhole` and `EndedSaveIsWhole` carry such conditions in themselves.

**Only model-checked:** liveness (`DueRowsAreRenewed`, `EventuallyInstalled`,
`EventuallyLoaded`), since the prover handles neither fairness nor `ENABLED`; and
the four properties the code breaks (`RenewalReplacesDueRow`,
`UpToDateMeansInstalled`, `NoNeedlessRewrite`, and `FilesWhole` with runs that
overlap). Every other property of a run is stated by a theorem.

## 6. Not modelled

- The audit log and database maintenance: the log is written after the fact
  and read by nothing but a page; the purge, checkpoint and `VACUUM` touch no row
  that another part reads. (A comment says 180 days, `db.go` purges after six
  months: `AddDate(0, -6, 0)`.)
- The proxy variables in the process environment (`issuer.go:175`), which
  libraries outside the repository read, at times of their own.
- The preprocessing of backslashes in the agent's YAML file, and the choice of
  ACME directory and DNS provider: text in, text out.
- IIS binding, file modes and owners: calls whose errors are dropped and whose
  effects the program does not read.
- The web pages, the Windows service loop, the older `server/cmd/main.go`, the
  installation scripts and packaging have no state of their own. The buttons that
  send a test message keep none either.
- SQLite, gorm, lego and `crypto/x509` are the environment: one statement is
  atomic, an issuance returns what was asked for or an error.

## 7. Plan

Done, in this order: `CertStore` with `CertVault`; `AgentSync` with `Replica`;
`InternalCA`; `Settings`; `Access` and `Registry`; `Notifications`; `AgentCheck`; and
the proofs of every safety property of the passing runs.

Worth adding: `CertVault` and `Replica` composed end to end, so that a change of
a certificate on the server is followed to the web server that loads it; the
environment's proxy variables, once it is known who reads them.
