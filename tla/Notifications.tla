--------------------------- MODULE Notifications ----------------------------
(***************************************************************************)
(* The expiration notification scheduler: every interval it looks for      *)
(* certificates near their expiry and sends an alert over each channel     *)
(* that is enabled, while the settings and the certificates change.        *)
(*                                                                         *)
(* Time is counted in hours.  A check takes no time on that scale: the     *)
(* clock does not advance past the end of a sleep before the check that    *)
(* follows it is over, unless the check hangs.  The certificates are the   *)
(* expiry dates of the table that the module CertStore models; Store is    *)
(* any of its writers.  An alert is what names the certificate; its text   *)
(* is left out, and so is what the channel's server does with it: an       *)
(* answer that refuses it is for the code like one that takes it.          *)
(***************************************************************************)
EXTENDS Integers

CONSTANTS
    Names,              \* certificates
    NoCert,             \* the expiry of a name without a row
    Channels,
    Rank,               \* the place of a channel in the order they are served
    Unlimited,          \* the channels whose client has no timeout
    Intervals,          \* what "notify_check_interval_hours" may hold, 0: no number
    DefaultInterval,
    Warnings,           \* what "notify_warning_days" may hold, 0: no number
    DefaultWarning,
    Day,                \* hours of a day
    HalfRange,          \* the least number of hours that is no time.Duration
    MaxNow,             \* bound: hours
    MaxChanges,         \* bound: changes of settings and certificates
    MaxFaults           \* bound: failures, hanging calls and restarts

ASSUME NotificationsAssumption ==
    /\ Rank \in [Channels -> Nat] /\ Unlimited \subseteq Channels
    /\ Intervals \subseteq Nat /\ DefaultInterval \in Nat \ {0}
    /\ Warnings \subseteq Nat /\ DefaultWarning \in Nat \ {0}
    /\ Day \in Nat \ {0} /\ HalfRange \in Nat \ {0}
    /\ DefaultInterval < HalfRange
    /\ MaxNow \in Nat /\ MaxChanges \in Nat /\ MaxFaults \in Nat
    /\ NoCert \notin 0..MaxNow

VARIABLES
    now,
    expiry,     \* column not_after, per certificate
    settings,   \* the rows of the settings table that the scheduler reads
    sched,      \* the scheduler's goroutine
    checks,     \* checks begun by this process in this hour, up to 2
    quiet,      \* per channel and certificate: when it was last reported over
                \* the channel, or last could not be
    changes, faults

vars == <<now, expiry, settings, sched, checks, quiet, changes, faults>>
-----------------------------------------------------------------------------
Times == 0..MaxNow

\* A channel is enabled, and its address and credentials are set.
Channel == [enabled : BOOLEAN, set : BOOLEAN]

Settings == [interval : Intervals, warning : Warnings, channel : [Channels -> Channel]]

\* The goroutine: where it is, the interval it has read, the certificates it
\* warns of, the channels it has still to serve, the end of its sleep.
Scheduler == [at : {"starting", "checking", "found", "sending", "asleep", "hung"},
              hours : Nat, found : SUBSET Names, todo : SUBSET Channels, wake : Nat]

Starting == [at |-> "starting", hours |-> 0, found |-> {}, todo |-> {}, wake |-> 0]

\* int(time.Until(t).Hours() / 24): the days left, truncated towards zero.
DaysLeft(t) == IF t >= now THEN (t - now) \div Day ELSE -((now - t) \div Day)

\* Mutant: what is no number stays 0.
AsTyped(n, default) == n

\* Atoi with its default, for what is no number or less than 1.
OrDefault(n, default) == IF n < 1 THEN default ELSE n

\* Mutant: a duration that does not wrap.
Unwrapped(n) == n

\* time.Duration(n) * time.Hour in 64 bits; Sleep returns at once if negative.
Slept(n) ==
    LET wrapped == ((n + HalfRange) % (2 * HalfRange)) - HalfRange
    IN  IF wrapped < 0 THEN 0 ELSE wrapped

Quiet(chs, names) ==
    [ch \in Channels |-> [n \in Names |->
        IF ch \in chs /\ n \in names THEN now ELSE quiet[ch][n]]]
-----------------------------------------------------------------------------
Init ==
    /\ now = 0
    /\ expiry \in [Names -> Times \cup {NoCert}]
    /\ settings \in Settings
    /\ sched = Starting
    /\ checks = 0
    /\ quiet = [ch \in Channels |-> [n \in Names |-> 0]]
    /\ changes = 0 /\ faults = 0

\* An upload, an issue, a renewal or a delete.
Store(n, t) ==
    /\ changes < MaxChanges
    /\ expiry' = [expiry EXCEPT ![n] = t]
    /\ quiet' = Quiet(Channels, {n})
    /\ changes' = changes + 1
    /\ UNCHANGED <<now, settings, sched, checks, faults>>

\* SaveSettings, one row.
SaveSettings ==
    /\ changes < MaxChanges
    /\ \/ \E i \in Intervals : settings' = [settings EXCEPT !.interval = i]
       \/ \E w \in Warnings : settings' = [settings EXCEPT !.warning = w]
       \/ \E ch \in Channels, c \in Channel :
             settings' = [settings EXCEPT !.channel[ch] = c]
    /\ quiet' = Quiet(Channels, Names)
    /\ changes' = changes + 1
    /\ UNCHANGED <<now, expiry, sched, checks, faults>>

Fault == faults < MaxFaults /\ faults' = faults + 1
-----------------------------------------------------------------------------
Awake == sched.at = "starting" \/ (sched.at = "asleep" /\ now >= sched.wake)

\* The head of the loop: the interval is read before the check, and decides
\* how long the scheduler sleeps after it.
StartCheck ==
    /\ Awake
    /\ sched' = [Starting EXCEPT
                    !.at = "checking",
                    !.hours = OrDefault(settings.interval, DefaultInterval)]
    /\ checks' = IF checks < 2 THEN checks + 1 ELSE checks
    /\ UNCHANGED <<now, expiry, settings, quiet, changes, faults>>

\* The end of RunNotificationCheck: back in the loop.
Sleep == [sched EXCEPT !.at = "asleep", !.found = {}, !.todo = {},
                       !.wake = now + Slept(sched.hours)]

NearExpiry(n, days) == DaysLeft(expiry[n]) <= days

\* RunNotificationCheck up to the list of certificates to warn of.
FindCertificates ==
    /\ sched.at = "checking"
    /\ LET days  == OrDefault(settings.warning, DefaultWarning)
           found == {n \in Names : expiry[n] # NoCert /\ NearExpiry(n, days)}
       IN  sched' = IF found = {} THEN Sleep
                    ELSE [sched EXCEPT !.at = "found", !.found = found]
    /\ UNCHANGED <<now, expiry, settings, checks, quiet, changes, faults>>

\* The query fails: this check is over.
QueryFails ==
    /\ sched.at = "checking" /\ Fault
    /\ sched' = Sleep
    /\ quiet' = Quiet(Channels, Names)
    /\ UNCHANGED <<now, expiry, settings, checks, changes>>

\* The channels that are enabled, read before the first alert is sent.
ReadChannels ==
    /\ sched.at = "found"
    /\ LET todo == {ch \in Channels : settings.channel[ch].enabled}
       IN  sched' = IF todo = {} THEN Sleep
                    ELSE [sched EXCEPT !.at = "sending", !.todo = todo]
    /\ UNCHANGED <<now, expiry, settings, checks, quiet, changes, faults>>

\* The turn of a channel: of those still to be served it is the first.
Turn(ch) ==
    /\ sched.at = "sending"
    /\ ch \in sched.todo /\ \A c \in sched.todo : Rank[ch] <= Rank[c]

Served(ch) ==
    IF sched.todo = {ch} THEN Sleep ELSE [sched EXCEPT !.todo = @ \ {ch}]

\* send...Alert, if the channel is set; the alert arrives.
Send(ch) ==
    /\ Turn(ch)
    /\ quiet' = IF settings.channel[ch].set THEN Quiet({ch}, sched.found) ELSE quiet
    /\ sched' = Served(ch)
    /\ UNCHANGED <<now, expiry, settings, checks, changes, faults>>

\* Mutant: an error ends the check.
ErrorEndsCheck(ch) == Sleep

\* An error is logged, and the next channel's turn comes.
AfterError(ch) == Served(ch)

SendFails(ch) ==
    /\ Turn(ch) /\ Fault
    /\ settings.channel[ch].set
    /\ sched' = AfterError(ch)
    /\ quiet' = Quiet({ch}, Names)
    /\ UNCHANGED <<now, expiry, settings, checks, changes>>

\* smtp.SendMail to a server that neither answers nor hangs up.
SendHangs(ch) ==
    /\ Turn(ch) /\ Fault
    /\ ch \in Unlimited /\ settings.channel[ch].set
    /\ sched' = [sched EXCEPT !.at = "hung"]
    /\ UNCHANGED <<now, expiry, settings, checks, quiet, changes>>

\* The process dies and is started again within the hour.  No channel could be
\* served while it hung.
Restart ==
    /\ Fault
    /\ sched' = Starting
    /\ checks' = 0
    /\ quiet' = IF sched.at = "hung" THEN Quiet(Channels, Names) ELSE quiet
    /\ UNCHANGED <<now, expiry, settings, changes>>

\* An hour passes: the scheduler hangs, sleeps on, or has checked in this hour
\* and found its sleep over at once.
Tick ==
    /\ now < MaxNow
    /\ \/ sched.at = "hung"
       \/ sched.at = "asleep" /\ (now < sched.wake \/ checks > 0)
    /\ now' = now + 1
    /\ checks' = 0
    /\ UNCHANGED <<expiry, settings, sched, quiet, changes, faults>>

Check ==
    \/ StartCheck \/ FindCertificates \/ QueryFails \/ ReadChannels
    \/ \E ch \in Channels : Send(ch) \/ SendFails(ch) \/ SendHangs(ch)

Next ==
    \/ Check \/ Restart \/ Tick \/ SaveSettings
    \/ \E n \in Names, t \in Times \cup {NoCert} : Store(n, t)

Spec == Init /\ [][Next]_vars
-----------------------------------------------------------------------------
(* Properties. *)

\* Types; a sleep is shorter than the longest time.Duration.
TypeOK ==
    /\ now \in Times
    /\ expiry \in [Names -> Times \cup {NoCert}]
    /\ settings \in Settings
    /\ sched \in Scheduler /\ sched.wake < now + HalfRange
    /\ checks \in 0..2
    /\ quiet \in [Channels -> [Names -> 0..now]]
    /\ changes \in 0..MaxChanges /\ faults \in 0..MaxFaults

\* The longest sleep the settings allow.
Longest ==
    LET Hours == {Slept(OrDefault(i, DefaultInterval)) : i \in Intervals}
    IN  CHOOSE h \in Hours : \A i \in Hours : i <= h

\* The first hour in which the days left, as they are shown, are no more than
\* the warning days.
WarnedFrom(n) ==
    expiry[n] - Day * (OrDefault(settings.warning, DefaultWarning) + 1) + 1

\* A certificate whose days left have reached the threshold is reported over
\* every channel that is enabled and set up, at the latest one sleep after that,
\* after it was stored, after the last change of the settings, after an error
\* of that channel, and after the last report: whatever the other channels do,
\* and however often the server is started again.  Only a call that hangs ends
\* this, until the server is started again.
ReportedInTime ==
    sched.at # "hung" =>
       \A ch \in Channels, n \in Names :
          /\ settings.channel[ch] = [enabled |-> TRUE, set |-> TRUE]
          /\ expiry[n] # NoCert
          => now - quiet[ch][n] <= Longest \/ now - WarnedFrom(n) <= Longest

\* A process checks once an hour at most, whatever the settings hold, so that no
\* channel is flooded; only the interval that is beyond a time.Duration, and
\* which the form does not offer, lets the next check follow at once.
NoFlood == [][StartCheck /\ checks > 0 => sched.hours >= HalfRange]_vars
=============================================================================
