------------------------ MODULE NotificationsProofs -------------------------
(***************************************************************************)
(* Proofs about Notifications, for any channels, certificates and          *)
(* settings, any length of a day and of the longest time.Duration, and any *)
(* number of hours, changes and faults.                                    *)
(*                                                                         *)
(* ReportedInTime compares now with the last report, and the clock may be  *)
(* at any hour of a sleep.  The invariant therefore says when the check    *)
(* that came before the sleep was (Looked), and that at that hour every    *)
(* certificate was either reported or had days to spare; and while a check *)
(* is under way, which channels and certificates that is true of already.  *)
(***************************************************************************)
EXTENDS Notifications, TLAPS

\* What the interval may come to.
Hours == {OrDefault(i, DefaultInterval) : i \in Intervals}

\* The settings allow a longest sleep, and not only sleeps that end at once.
SleepsBounded ==
    \E h \in Hours : Slept(h) > 0 /\ \A i \in Hours : Slept(i) <= Slept(h)

\* A process has not checked before its first check; a check that is followed
\* by a sleep of a Duration is the only one of its hour.
HourInv ==
    /\ sched.at = "starting" => checks = 0
    /\ sched.at # "starting" => sched.hours \in Hours
    /\ sched.at = "asleep" /\ checks > 0 => sched.wake > now \/ sched.hours >= HalfRange

\* The hour of the check that came before this sleep.
Looked == sched.wake - Slept(sched.hours)

AsleepInv ==
    sched.at = "asleep" =>
       /\ Looked \in 0..now
       /\ now <= sched.wake \/ now <= Looked + 1
       /\ checks > 0 => now = Looked

\* The channel works, and there is a certificate.
Live(ch, n) ==
    settings.channel[ch] = [enabled |-> TRUE, set |-> TRUE] /\ expiry[n] # NoCert

\* At hour t or later it was reported; or it was not yet time to, at hour t.
Since(ch, n, t) == quiet[ch][n] >= t \/ WarnedFrom(n) > t

\* What has been seen to: in the check under way, in the one before the sleep.
CheckedInv ==
    \A ch \in Channels, n \in Names : Live(ch, n) =>
       /\ sched.at = "found" /\ n \notin sched.found => Since(ch, n, now)
       /\ sched.at = "sending" /\ (n \notin sched.found \/ ch \notin sched.todo) =>
             Since(ch, n, now)
       /\ sched.at = "asleep" => Since(ch, n, Looked)
-----------------------------------------------------------------------------
(* Arithmetic. *)

LEMMA Remainder ==
    \A a \in Int : \A b \in Nat \ {0} :
       /\ a % b \in 0..b - 1
       /\ a \in 0..b - 1 => a % b = a
OBVIOUS

\* A sleep is a Duration; an interval that is one is slept as it is.
LEMMA SleptLemma ==
    ASSUME NEW n \in Nat
    PROVE  Slept(n) \in Nat /\ Slept(n) < HalfRange /\ (n < HalfRange => Slept(n) = n)
<1> DEFINE wrapped == ((n + HalfRange) % (2 * HalfRange)) - HalfRange
<1>1. HalfRange \in Nat \ {0} /\ 2 * HalfRange \in Nat \ {0} /\ n + HalfRange \in Int
  BY NotificationsAssumption
<1>2. (n + HalfRange) % (2 * HalfRange) \in 0..2 * HalfRange - 1
  BY <1>1, Remainder
<1>3. n < HalfRange => (n + HalfRange) % (2 * HalfRange) = n + HalfRange
  <2>1. n < HalfRange => n + HalfRange \in 0..2 * HalfRange - 1
    BY <1>1
  <2> QED BY <1>1, <2>1, Remainder
<1>4. wrapped \in Int /\ wrapped < HalfRange /\ (n < HalfRange => wrapped = n)
  BY <1>1, <1>2, <1>3
<1> HIDE DEF wrapped
<1>5. Slept(n) = IF wrapped < 0 THEN 0 ELSE wrapped
  BY DEF Slept, wrapped
<1> QED BY <1>1, <1>4, <1>5

LEMMA Quotient ==
    ASSUME NEW a \in Nat, NEW d \in Nat \ {0}, NEW q \in Nat, a \div d >= q
    PROVE  a >= d * q
<1>1. d * (a \div d) <= a /\ a \div d \in Int
  OBVIOUS
<1>2. d * (a \div d) >= d * q
  BY <1>1
<1> QED BY <1>1, <1>2

\* What is not found near its expiry need not be reported yet.
LEMMA NotNear ==
    ASSUME NEW n, NEW days \in Nat, expiry[n] \in Nat, now \in Nat, ~NearExpiry(n, days)
    PROVE  expiry[n] - Day * (days + 1) + 1 > now
<1>1. Day \in Nat \ {0}
  BY NotificationsAssumption
<1>2. expiry[n] >= now /\ (expiry[n] - now) \div Day > days
  BY <1>1 DEF NearExpiry, DaysLeft
<1>3. expiry[n] - now \in Nat /\ days + 1 \in Nat
  BY <1>2
<1>4. (expiry[n] - now) \div Day \in Int
  BY <1>1, <1>3
<1>5. (expiry[n] - now) \div Day >= days + 1
  BY <1>2, <1>4
<1>6. expiry[n] - now >= Day * (days + 1)
  BY <1>1, <1>3, <1>5, Quotient
<1>7. Day * (days + 1) \in Nat
  BY <1>1
<1> QED BY <1>6, <1>7
-----------------------------------------------------------------------------
(* Types, and one check an hour. *)

LEMMA HoursLemma ==
    /\ Hours \subseteq Nat \ {0}
    /\ \A i \in Intervals : OrDefault(i, DefaultInterval) \in Hours
    /\ \A w \in Warnings : OrDefault(w, DefaultWarning) \in Nat \ {0}
<1>1. \A i \in Nat : i < 1 \/ i \in Nat \ {0}
  OBVIOUS
<1> QED BY <1>1, NotificationsAssumption DEF Hours, OrDefault

\* Sleep, from a check with an interval that was read from the settings.
LEMMA SleepLemma ==
    ASSUME TypeOK, HourInv, sched.at # "starting"
    PROVE  /\ Sleep \in Scheduler /\ Sleep.at = "asleep" /\ Sleep.hours = sched.hours
           /\ Sleep.wake = now + Slept(sched.hours) /\ Sleep.wake < now + HalfRange
           /\ Sleep.hours \in Hours
           /\ Sleep.wake > now \/ Sleep.hours >= HalfRange
<1>1. sched.hours \in Hours /\ sched.hours \in Nat \ {0}
  BY HoursLemma DEF HourInv
<1>2. /\ Slept(sched.hours) \in Nat /\ Slept(sched.hours) < HalfRange
      /\ sched.hours < HalfRange => Slept(sched.hours) = sched.hours
  BY <1>1, SleptLemma
<1>3. now \in Nat /\ HalfRange \in Nat
  BY NotificationsAssumption DEF TypeOK, Times
<1>4. /\ Sleep.at = "asleep" /\ Sleep.hours = sched.hours
      /\ Sleep.wake = now + Slept(sched.hours) /\ Sleep \in Scheduler
  <2> DEFINE w == now + Slept(sched.hours)
  <2>1. w \in Nat
    BY <1>2, <1>3
  <2>2. Sleep = [sched EXCEPT !.at = "asleep", !.found = {}, !.todo = {}, !.wake = w]
    BY DEF Sleep
  <2>3. sched \in Scheduler
    BY DEF TypeOK
  <2> HIDE DEF w
  <2>4. /\ Sleep.at = "asleep" /\ Sleep.hours = sched.hours /\ Sleep.wake = w
        /\ Sleep \in Scheduler
    BY <2>1, <2>2, <2>3 DEF Scheduler
  <2> QED BY <2>4 DEF w
<1> QED BY <1>1, <1>2, <1>3, <1>4

\* What has been reported at now, and what was there before.
LEMMA QuietLemma ==
    ASSUME TypeOK, NEW chs, NEW names
    PROVE  /\ Quiet(chs, names) \in [Channels -> [Names -> 0..now]]
           /\ \A ch \in Channels, n \in Names :
                 Quiet(chs, names)[ch][n] =
                    IF ch \in chs /\ n \in names THEN now ELSE quiet[ch][n]
<1>1. now \in 0..now
  BY NotificationsAssumption DEF TypeOK, Times
<1> QED BY <1>1 DEF TypeOK, Quiet

\* The end of a channel's turn.
LEMMA ServedLemma ==
    ASSUME TypeOK, HourInv, NEW ch \in Channels, Turn(ch)
    PROVE  /\ Served(ch) \in Scheduler /\ Served(ch).hours \in Hours
           /\ Served(ch).wake < now + HalfRange
           /\ \/ Served(ch).at = "sending" /\ Served(ch).found = sched.found
                 /\ Served(ch).todo = sched.todo \ {ch}
              \/ Served(ch) = Sleep /\ sched.todo = {ch}
<1>1. sched.at = "sending" /\ sched.hours \in Hours
  BY DEF Turn, HourInv
<1>2. CASE sched.todo = {ch}
  <2>1. Served(ch) = Sleep
    BY <1>2 DEF Served
  <2> QED BY <1>1, <1>2, <2>1, SleepLemma
<1>3. CASE sched.todo # {ch}
  <2>1. Served(ch) = [sched EXCEPT !.todo = sched.todo \ {ch}]
    BY <1>3 DEF Served
  <2>2. sched \in Scheduler /\ sched.wake < now + HalfRange
    BY DEF TypeOK
  <2> QED BY <1>1, <2>1, <2>2 DEF Scheduler
<1> QED BY <1>2, <1>3

LEMMA TypeInit == Init => TypeOK /\ HourInv
<1> SUFFICES ASSUME Init PROVE TypeOK /\ HourInv
  OBVIOUS
<1>1. 0 \in Times /\ 0 \in 0..MaxChanges /\ 0 \in 0..MaxFaults /\ 0 < HalfRange
      /\ 0 \in 0..2 /\ 0 \in 0..0
  BY NotificationsAssumption DEF Times
<1>2. Starting \in Scheduler /\ Starting.at = "starting" /\ Starting.wake = 0
  BY DEF Starting, Scheduler
<1>3. now = 0 /\ 0 + HalfRange = HalfRange
  BY NotificationsAssumption DEF Init
<1> QED BY <1>1, <1>2, <1>3 DEF Init, TypeOK, HourInv

LEMMA TypeStep == TypeOK /\ HourInv /\ [Next]_vars => TypeOK' /\ HourInv'
<1> SUFFICES ASSUME TypeOK, HourInv, [Next]_vars PROVE TypeOK' /\ HourInv'
  OBVIOUS
<1>0. /\ now \in 0..MaxNow /\ MaxNow \in Nat /\ HalfRange \in Nat
      /\ MaxChanges \in Nat /\ MaxFaults \in Nat /\ changes \in 0..MaxChanges
      /\ faults \in 0..MaxFaults /\ checks \in 0..2
      /\ sched \in Scheduler /\ sched.wake < now + HalfRange /\ sched.wake \in Nat
      /\ settings \in Settings /\ expiry \in [Names -> Times \cup {NoCert}]
      /\ quiet \in [Channels -> [Names -> 0..now]]
  BY NotificationsAssumption DEF TypeOK, Times, Scheduler
<1>1. ASSUME Fault PROVE faults' \in 0..MaxFaults
  <2>1. faults < MaxFaults /\ faults' = faults + 1
    BY <1>1 DEF Fault
  <2> QED BY <1>0, <2>1
<1>2. ASSUME changes < MaxChanges, changes' = changes + 1 PROVE changes' \in 0..MaxChanges
  BY <1>0, <1>2
<1>3. \A chs, names : Quiet(chs, names) \in [Channels -> [Names -> 0..now]]
  BY QuietLemma
<1>4. Starting \in Scheduler /\ Starting.at = "starting" /\ Starting.wake = 0
  BY DEF Starting, Scheduler
<1>5. 0 < now + HalfRange
  BY <1>0, NotificationsAssumption
<1>6. ASSUME NEW n \in Names, NEW t \in Times \cup {NoCert}, Store(n, t)
      PROVE  TypeOK' /\ HourInv'
  <2>1. /\ expiry' = [expiry EXCEPT ![n] = t] /\ quiet' = Quiet(Channels, {n})
        /\ changes' \in 0..MaxChanges /\ UNCHANGED <<now, settings, sched, checks, faults>>
    BY <1>2, <1>6 DEF Store
  <2> QED BY <1>0, <1>3, <2>1 DEF TypeOK, HourInv, Times
<1>7. CASE SaveSettings
  <2>1. /\ quiet' = Quiet(Channels, Names) /\ changes' \in 0..MaxChanges
        /\ UNCHANGED <<now, expiry, sched, checks, faults>>
    BY <1>2, <1>7 DEF SaveSettings
  <2>2. settings' \in Settings
    BY <1>0, <1>7 DEF SaveSettings, Settings
  <2> QED BY <1>0, <1>3, <2>1, <2>2 DEF TypeOK, HourInv, Times
<1>8. CASE StartCheck
  <2>1. settings.interval \in Intervals
    BY <1>0 DEF Settings
  <2> DEFINE h == OrDefault(settings.interval, DefaultInterval)
  <2>2. h \in Hours /\ h \in Nat
    BY <2>1, HoursLemma
  <2>3. sched' = [Starting EXCEPT !.at = "checking", !.hours = h]
    BY <1>8 DEF StartCheck
  <2> HIDE DEF h
  <2>4. /\ sched' \in Scheduler /\ sched'.at = "checking" /\ sched'.hours = h
        /\ sched'.wake = 0
    BY <2>2, <2>3 DEF Starting, Scheduler
  <2>5. checks' \in 0..2
    BY <1>0, <1>8 DEF StartCheck
  <2>6. UNCHANGED <<now, expiry, settings, quiet, changes, faults>>
    BY <1>8 DEF StartCheck
  <2> QED BY <1>0, <1>5, <2>2, <2>4, <2>5, <2>6 DEF TypeOK, HourInv, Times
<1>9. ASSUME sched.at \in {"checking", "found", "sending"}, sched' = Sleep,
             UNCHANGED <<now, expiry, settings, checks, changes>>,
             faults' \in 0..MaxFaults, quiet' \in [Channels -> [Names -> 0..now]]
      PROVE  TypeOK' /\ HourInv'
  <2>1. /\ Sleep \in Scheduler /\ Sleep.wake < now + HalfRange /\ Sleep.hours \in Hours
        /\ Sleep.wake > now \/ Sleep.hours >= HalfRange
        /\ Sleep.at = "asleep"
    BY <1>9, SleepLemma
  <2> QED BY <1>0, <1>9, <2>1 DEF TypeOK, HourInv, Times
<1>10. CASE FindCertificates
  <2>1. sched.at = "checking" /\ UNCHANGED <<now, expiry, settings, checks, quiet, changes, faults>>
    BY <1>10 DEF FindCertificates
  <2>2. PICK found \in SUBSET Names :
           sched' = Sleep \/ sched' = [sched EXCEPT !.at = "found", !.found = found]
    BY <1>10 DEF FindCertificates
  <2>3. CASE sched' = [sched EXCEPT !.at = "found", !.found = found]
    <3>1. /\ sched' \in Scheduler /\ sched'.at = "found" /\ sched'.hours = sched.hours
          /\ sched'.wake = sched.wake
      BY <1>0, <2>3 DEF Scheduler
    <3> QED BY <1>0, <2>1, <3>1 DEF TypeOK, HourInv, Times
  <2> QED BY <1>0, <1>9, <2>1, <2>2, <2>3
<1>11. CASE QueryFails
  BY <1>1, <1>3, <1>9, <1>11 DEF QueryFails
<1>12. CASE ReadChannels
  <2>1. sched.at = "found" /\ UNCHANGED <<now, expiry, settings, checks, quiet, changes, faults>>
    BY <1>12 DEF ReadChannels
  <2>2. PICK todo \in SUBSET Channels :
           sched' = Sleep \/ sched' = [sched EXCEPT !.at = "sending", !.todo = todo]
    BY <1>12 DEF ReadChannels
  <2>3. CASE sched' = [sched EXCEPT !.at = "sending", !.todo = todo]
    <3>1. /\ sched' \in Scheduler /\ sched'.at = "sending" /\ sched'.hours = sched.hours
          /\ sched'.wake = sched.wake
      BY <1>0, <2>3 DEF Scheduler
    <3> QED BY <1>0, <2>1, <3>1 DEF TypeOK, HourInv, Times
  <2> QED BY <1>0, <1>9, <2>1, <2>2, <2>3
<1>13. ASSUME NEW ch \in Channels, Send(ch) \/ SendFails(ch) PROVE TypeOK' /\ HourInv'
  <2>1. /\ Turn(ch) /\ sched.at = "sending" /\ sched' = Served(ch)
        /\ UNCHANGED <<now, expiry, settings, checks, changes>>
    BY <1>13 DEF Send, SendFails, Turn, AfterError
  <2>2. faults' \in 0..MaxFaults /\ quiet' \in [Channels -> [Names -> 0..now]]
    BY <1>0, <1>1, <1>3, <1>13 DEF Send, SendFails
  <2>3. CASE Served(ch) = Sleep
    BY <1>9, <2>1, <2>2, <2>3
  <2>4. CASE Served(ch).at = "sending"
    <3>1. /\ Served(ch) \in Scheduler /\ Served(ch).hours \in Hours
          /\ Served(ch).wake < now + HalfRange
      BY <2>1, ServedLemma
    <3> QED BY <1>0, <2>1, <2>2, <2>4, <3>1 DEF TypeOK, HourInv, Times
  <2> QED BY <2>1, <2>3, <2>4, ServedLemma
<1>14. ASSUME NEW ch \in Channels, SendHangs(ch) PROVE TypeOK' /\ HourInv'
  <2>1. /\ sched.at = "sending" /\ sched' = [sched EXCEPT !.at = "hung"]
        /\ UNCHANGED <<now, expiry, settings, checks, quiet, changes>>
        /\ faults' \in 0..MaxFaults
    BY <1>1, <1>14 DEF SendHangs, Turn
  <2>2. /\ sched' \in Scheduler /\ sched'.at = "hung" /\ sched'.hours = sched.hours
        /\ sched'.wake = sched.wake
    BY <1>0, <2>1 DEF Scheduler
  <2> QED BY <1>0, <2>1, <2>2 DEF TypeOK, HourInv, Times
<1>15. CASE Restart
  <2>1. /\ sched' = Starting /\ checks' = 0 /\ faults' \in 0..MaxFaults
        /\ UNCHANGED <<now, expiry, settings, changes>>
        /\ quiet' \in [Channels -> [Names -> 0..now]]
    BY <1>0, <1>1, <1>3, <1>15 DEF Restart
  <2> QED BY <1>0, <1>4, <1>5, <2>1 DEF TypeOK, HourInv, Times
<1>16. CASE Tick
  <2>1. /\ now < MaxNow /\ now' = now + 1 /\ checks' = 0
        /\ UNCHANGED <<expiry, settings, sched, quiet, changes, faults>>
    BY <1>16 DEF Tick
  <2>2. now' \in 0..MaxNow /\ sched.wake < now' + HalfRange
    BY <1>0, <2>1
  <2>3. 0..now \subseteq 0..now'
    BY <1>0, <2>1
  <2>4. quiet \in [Channels -> [Names -> 0..now']]
    BY <1>0, <2>3
  <2> QED BY <1>0, <2>1, <2>2, <2>4 DEF TypeOK, HourInv, Times
<1>17. CASE UNCHANGED vars
  BY <1>17 DEF vars, TypeOK, HourInv, Hours
<1> QED BY <1>6, <1>7, <1>8, <1>10, <1>11, <1>12, <1>13, <1>14, <1>15, <1>16, <1>17
        DEF Next, Check

LEMMA TypeInvariant == Spec => [](TypeOK /\ HourInv)
BY TypeInit, TypeStep, PTL DEF Spec

\* Types; a sleep is a time.Duration, whatever number the settings hold.
THEOREM TypeCorrect == Spec => []TypeOK
BY TypeInvariant, PTL

\* A process checks once an hour at most, unless the interval it has read is
\* beyond a time.Duration.
THEOREM NotFlooded == Spec => NoFlood
<1>1. TypeOK /\ HourInv => [StartCheck /\ checks > 0 => sched.hours >= HalfRange]_vars
  <2> SUFFICES ASSUME TypeOK, HourInv, StartCheck, checks > 0
               PROVE  sched.hours >= HalfRange
    OBVIOUS
  <2>1. sched.at = "asleep" /\ now >= sched.wake
    BY DEF StartCheck, Awake, HourInv
  <2>2. now \in Nat /\ sched.wake \in Nat
    BY DEF TypeOK, Times, Scheduler
  <2>3. ~(sched.wake > now)
    BY <2>1, <2>2
  <2> QED BY <2>1, <2>3 DEF HourInv
<1> QED BY <1>1, TypeInvariant, PTL DEF NoFlood
-----------------------------------------------------------------------------
(* Reports in time. *)

TimeInv == TypeOK /\ HourInv /\ AsleepInv /\ CheckedInv /\ ReportedInTime

LEMMA LongestLemma ==
    ASSUME SleepsBounded
    PROVE  /\ Longest \in Nat \ {0}
           /\ \A h \in Hours : Slept(h) <= Longest
<1> DEFINE H == {Slept(OrDefault(i, DefaultInterval)) : i \in Intervals}
<1>1. H = {Slept(h) : h \in Hours}
  BY DEF Hours
<1>2. H \subseteq Nat
  BY <1>1, HoursLemma, SleptLemma
<1>3. \E h \in H : h > 0 /\ \A i \in H : i <= h
  BY <1>1 DEF SleepsBounded
<1>4. Longest = CHOOSE h \in H : \A i \in H : i <= h
  BY DEF Longest
<1> HIDE DEF H
<1>5. Longest \in H /\ \A i \in H : i <= Longest
  BY <1>3, <1>4
<1>6. PICK h \in H : h > 0 /\ h <= Longest
  BY <1>3, <1>5
<1>7. Longest \in Nat \ {0}
  BY <1>2, <1>5, <1>6
<1> QED BY <1>1, <1>5, <1>7

\* The terms the properties are made of are numbers.
LEMMA Numbers ==
    ASSUME TypeOK, NEW ch \in Channels, NEW n \in Names
    PROVE  /\ now \in Nat /\ quiet[ch][n] \in 0..now
           /\ expiry[n] # NoCert => expiry[n] \in Nat /\ WarnedFrom(n) \in Int
<1>1. now \in Nat /\ quiet[ch][n] \in 0..now /\ (expiry[n] # NoCert => expiry[n] \in Nat)
  BY DEF TypeOK, Times
<1>2. OrDefault(settings.warning, DefaultWarning) \in Nat /\ Day \in Nat
  BY HoursLemma, NotificationsAssumption DEF TypeOK, Settings
<1>3. Day * (OrDefault(settings.warning, DefaultWarning) + 1) \in Int
  BY <1>2
<1> QED BY <1>1, <1>3 DEF WarnedFrom

\* What was seen to no longer than the longest sleep ago is in time.
LEMMA SinceIsInTime ==
    ASSUME SleepsBounded, TypeOK, NEW ch \in Channels, NEW n \in Names,
           expiry[n] # NoCert, NEW t \in Nat, now - t <= Longest, Since(ch, n, t)
    PROVE  now - quiet[ch][n] <= Longest \/ now - WarnedFrom(n) <= Longest
<1>1. /\ now \in Nat /\ quiet[ch][n] \in Int /\ WarnedFrom(n) \in Int
      /\ Longest \in Nat
  BY Numbers, LongestLemma
<1> QED BY <1>1 DEF Since

LEMMA TimeInit == ASSUME SleepsBounded PROVE Init => TimeInv
<1> SUFFICES ASSUME Init PROVE TimeInv
  OBVIOUS
<1>1. TypeOK /\ HourInv
  BY TypeInit
<1>2. sched.at = "starting"
  BY DEF Init, Starting
<1>3. ASSUME NEW ch \in Channels, NEW n \in Names PROVE now - quiet[ch][n] <= Longest
  <2>1. now = 0 /\ quiet[ch][n] = 0 /\ Longest \in Nat
    BY LongestLemma DEF Init
  <2> QED BY <2>1
<1> QED BY <1>1, <1>2, <1>3 DEF TimeInv, AsleepInv, CheckedInv, ReportedInTime

\* While the scheduler sleeps everything is in time.
LEMMA AsleepInTime ==
    ASSUME SleepsBounded
    PROVE  TypeOK /\ HourInv /\ AsleepInv /\ CheckedInv /\ sched.at = "asleep" => ReportedInTime
<1> SUFFICES ASSUME TypeOK, HourInv, AsleepInv, CheckedInv, sched.at = "asleep",
                    NEW ch \in Channels, NEW n \in Names, Live(ch, n)
             PROVE  now - quiet[ch][n] <= Longest \/ now - WarnedFrom(n) <= Longest
  BY DEF ReportedInTime, Live
<1>1. /\ Looked \in 0..now
      /\ now <= sched.wake \/ now <= Looked + 1
      /\ Since(ch, n, Looked)
      /\ sched.hours \in Hours
  BY DEF AsleepInv, CheckedInv, HourInv
<1>2. /\ Slept(sched.hours) \in Nat /\ Slept(sched.hours) <= Longest
      /\ Longest \in Nat \ {0}
  BY <1>1, HoursLemma, SleptLemma, LongestLemma
<1>3. sched.wake = Looked + Slept(sched.hours) /\ now \in Nat
  <2>1. sched.wake \in Nat /\ now \in Nat
    BY DEF TypeOK, Scheduler, Times
  <2>2. \A a, b \in Nat : a = (a - b) + b
    OBVIOUS
  <2>3. Looked = sched.wake - Slept(sched.hours)
    BY DEF Looked
  <2> QED BY <1>2, <2>1, <2>2, <2>3
<1>4. Looked \in Nat
  BY <1>1, <1>3
<1>5. now - Looked <= Longest
  BY <1>1, <1>2, <1>3, <1>4
<1> QED BY <1>1, <1>4, <1>5, SinceIsInTime DEF Live

LEMMA AsleepInTimeNext ==
    ASSUME SleepsBounded
    PROVE  (TypeOK /\ HourInv /\ AsleepInv /\ CheckedInv /\ sched.at = "asleep" => ReportedInTime)'
BY AsleepInTime, PTL

\* In the same hour reports stay in time: a change of what they depend on counts
\* like a report.
LEMMA ReportsStay ==
    ASSUME SleepsBounded, TypeOK, ReportedInTime, now' = now,
           \A ch \in Channels, n \in Names :
              \/ quiet'[ch][n] = now
              \/ /\ quiet'[ch][n] = quiet[ch][n] /\ sched.at # "hung"
                 /\ expiry'[n] = expiry[n] /\ settings' = settings
    PROVE  ReportedInTime'
<1> SUFFICES ASSUME NEW ch \in Channels, NEW n \in Names, Live(ch, n)'
             PROVE  now' - quiet'[ch][n] <= Longest \/ now' - WarnedFrom(n)' <= Longest
  BY DEF ReportedInTime, Live
<1>1. CASE quiet'[ch][n] = now
  <2>1. now \in Nat /\ Longest \in Nat
    BY Numbers, LongestLemma
  <2> QED BY <1>1, <2>1
<1>2. CASE /\ quiet'[ch][n] = quiet[ch][n] /\ sched.at # "hung"
           /\ expiry'[n] = expiry[n] /\ settings' = settings
  <2>1. Live(ch, n) /\ WarnedFrom(n)' = WarnedFrom(n)
    BY <1>2 DEF Live, WarnedFrom
  <2>2. now - quiet[ch][n] <= Longest \/ now - WarnedFrom(n) <= Longest
    BY <1>2, <2>1 DEF ReportedInTime, Live
  <2> QED BY <1>2, <2>1, <2>2
<1> QED BY <1>1, <1>2

\* So does what was seen to.
LEMMA SinceStays ==
    ASSUME TypeOK, NEW ch \in Channels, NEW n \in Names, NEW t \in 0..now,
           \/ quiet'[ch][n] = now
           \/ /\ quiet'[ch][n] = quiet[ch][n] /\ Since(ch, n, t)
              /\ expiry'[n] = expiry[n] /\ settings' = settings
    PROVE  quiet'[ch][n] >= t \/ WarnedFrom(n)' > t
<1>1. now \in Nat
  BY Numbers
<1>2. CASE quiet'[ch][n] = now
  BY <1>1, <1>2
<1>3. CASE /\ quiet'[ch][n] = quiet[ch][n] /\ Since(ch, n, t)
           /\ expiry'[n] = expiry[n] /\ settings' = settings
  BY <1>3 DEF Since, WarnedFrom
<1> QED BY <1>2, <1>3

\* The end of a check that has seen to everything.
LEMMA CheckEnds ==
    ASSUME SleepsBounded, TimeInv, TypeOK', HourInv',
           sched.at \in {"checking", "found", "sending"}, sched' = Sleep,
           UNCHANGED <<now, checks>>,
           \A ch \in Channels, n \in Names :
              Live(ch, n)' => quiet'[ch][n] >= now \/ WarnedFrom(n)' > now
    PROVE  TimeInv'
<1>1. /\ sched'.at = "asleep" /\ sched'.hours = sched.hours
      /\ sched'.wake = now + Slept(sched.hours) /\ sched.hours \in Hours
  BY SleepLemma DEF TimeInv, HourInv
<1>2. Slept(sched.hours) \in Nat /\ now \in Nat
  <2>1. now \in Nat
    BY DEF TimeInv, TypeOK, Times
  <2>2. sched.hours \in Nat
    BY <1>1, HoursLemma
  <2> QED BY <2>1, <2>2, SleptLemma
<1>3. Looked' = now
  <2>1. Looked' = (now + Slept(sched.hours)) - Slept(sched.hours)
    BY <1>1 DEF Looked
  <2> QED BY <1>2, <2>1
<1>4. AsleepInv'
  BY <1>1, <1>2, <1>3 DEF AsleepInv
<1>5. CheckedInv'
  BY <1>1, <1>3 DEF CheckedInv, Since
<1> QED BY <1>1, <1>4, <1>5, AsleepInTimeNext DEF TimeInv

\* A change of the settings or of a certificate.
LEMMA ChangeStep ==
    ASSUME SleepsBounded, TimeInv, TypeOK', HourInv',
           UNCHANGED <<now, sched, checks>>,
           \A ch \in Channels, n \in Names :
              \/ quiet'[ch][n] = now
              \/ /\ quiet'[ch][n] = quiet[ch][n] /\ sched.at # "hung"
                 /\ expiry'[n] = expiry[n] /\ settings' = settings
    PROVE  TimeInv'
<1>1. TypeOK /\ AsleepInv /\ CheckedInv /\ ReportedInTime
  BY DEF TimeInv
<1>2. ReportedInTime'
  BY <1>1, ReportsStay
<1>3. AsleepInv' /\ Looked' = Looked
  BY <1>1 DEF AsleepInv, Looked
<1>4. ASSUME NEW ch \in Channels, NEW n \in Names, Live(ch, n)', NEW t \in 0..now,
             quiet'[ch][n] = now \/ (Live(ch, n) => Since(ch, n, t))
      PROVE  quiet'[ch][n] >= t \/ WarnedFrom(n)' > t
  <2>1. CASE quiet'[ch][n] = now
    BY <1>1, <2>1, SinceStays
  <2>2. CASE quiet'[ch][n] # now
    <3>1. Live(ch, n)
      BY <1>4, <2>2 DEF Live
    <3> QED BY <1>1, <1>4, <2>2, <3>1, SinceStays
  <2> QED BY <2>1, <2>2
<1>5. CheckedInv'
  <2> SUFFICES ASSUME NEW ch \in Channels, NEW n \in Names, Live(ch, n)'
               PROVE  /\ sched.at = "found" /\ n \notin sched.found => Since(ch, n, now)'
                      /\ sched.at = "sending" /\ (n \notin sched.found \/ ch \notin sched.todo) =>
                            Since(ch, n, now)'
                      /\ sched.at = "asleep" => Since(ch, n, Looked)'
    BY DEF CheckedInv
  <2>1. now \in 0..now
    BY <1>1, Numbers
  <2>2. ASSUME \/ sched.at = "found" /\ n \notin sched.found
               \/ sched.at = "sending" /\ (n \notin sched.found \/ ch \notin sched.todo)
        PROVE  Since(ch, n, now)'
    <3>1. Live(ch, n) => Since(ch, n, now)
      BY <1>1, <2>2 DEF CheckedInv
    <3>2. quiet'[ch][n] >= now \/ WarnedFrom(n)' > now
      BY <1>4, <2>1, <3>1
    <3> QED BY <3>2 DEF Since
  <2>3. ASSUME sched.at = "asleep" PROVE Since(ch, n, Looked)'
    <3>1. (Live(ch, n) => Since(ch, n, Looked)) /\ Looked \in 0..now
      BY <1>1, <2>3 DEF CheckedInv, AsleepInv
    <3>2. quiet'[ch][n] >= Looked \/ WarnedFrom(n)' > Looked
      BY <1>4, <3>1
    <3> QED BY <1>3, <3>2 DEF Since
  <2> QED BY <2>2, <2>3
<1> QED BY <1>2, <1>3, <1>5 DEF TimeInv

\* A channel has been served, or has failed.
LEMMA ServeStep ==
    ASSUME SleepsBounded, TimeInv, TypeOK', HourInv', NEW ch \in Channels,
           Send(ch) \/ SendFails(ch)
    PROVE  TimeInv'
<1>1. TypeOK /\ HourInv /\ CheckedInv /\ ReportedInTime
  BY DEF TimeInv
<1>2. /\ Turn(ch) /\ sched.at = "sending" /\ sched' = Served(ch)
      /\ UNCHANGED <<now, expiry, settings, checks, changes>>
  BY DEF Send, SendFails, Turn, AfterError
<1>3. \A c \in Channels, n \in Names :
         \/ quiet'[c][n] = now
         \/ /\ quiet'[c][n] = quiet[c][n]
            /\ c = ch /\ n \in sched.found => settings.channel[ch].set = FALSE
  <2>1. CASE SendFails(ch)
    BY <1>1, <2>1, QuietLemma DEF SendFails
  <2>2. CASE Send(ch) /\ settings.channel[ch].set
    BY <1>1, <2>2, QuietLemma DEF Send
  <2>3. CASE Send(ch) /\ ~settings.channel[ch].set
    <3>1. settings.channel[ch] \in Channel
      BY <1>1 DEF TypeOK, Settings
    <3> QED BY <2>3, <3>1 DEF Send, Channel
  <2> QED BY <2>1, <2>2, <2>3
<1>4. ReportedInTime'
  BY <1>1, <1>2, <1>3, ReportsStay
<1>5. now \in 0..now
  BY <1>1 DEF TypeOK, Times
<1>6. ASSUME NEW c \in Channels, NEW n \in Names, Live(c, n)',
             n \notin sched.found \/ c \notin sched.todo \/ c = ch
      PROVE  quiet'[c][n] >= now \/ WarnedFrom(n)' > now
  <2>1. Live(c, n)
    BY <1>2, <1>6 DEF Live
  <2>2. CASE n \notin sched.found \/ c \notin sched.todo
    <3>1. Since(c, n, now)
      BY <1>1, <1>2, <2>1, <2>2 DEF CheckedInv
    <3> QED BY <1>1, <1>2, <1>3, <1>5, <3>1, SinceStays
  <2>3. CASE c = ch /\ n \in sched.found
    <3>1. quiet'[c][n] = now
      BY <1>3, <2>1, <2>3 DEF Live
    <3> QED BY <1>1, <1>5, <3>1, SinceStays
  <2> QED BY <1>6, <2>2, <2>3
<1>7. CASE Served(ch) = Sleep /\ sched.todo = {ch}
  <2>1. \A c \in Channels, n \in Names :
           Live(c, n)' => quiet'[c][n] >= now \/ WarnedFrom(n)' > now
    BY <1>6, <1>7
  <2> QED BY <1>2, <1>7, <2>1, CheckEnds
<1>8. CASE /\ Served(ch).at = "sending" /\ Served(ch).found = sched.found
           /\ Served(ch).todo = sched.todo \ {ch}
  <2>1. CheckedInv'
    <3> SUFFICES ASSUME NEW c \in Channels, NEW n \in Names, Live(c, n)',
                        n \notin sched.found \/ c \notin sched.todo \ {ch}
                 PROVE  quiet'[c][n] >= now \/ WarnedFrom(n)' > now
      BY <1>2, <1>8 DEF CheckedInv, Since
    <3> QED BY <1>6
  <2>2. AsleepInv'
    BY <1>2, <1>8 DEF AsleepInv
  <2> QED BY <1>4, <2>1, <2>2 DEF TimeInv
<1> QED BY <1>1, <1>2, <1>7, <1>8, ServedLemma

LEMMA TimeStep == ASSUME SleepsBounded PROVE TimeInv /\ [Next]_vars => TimeInv'
<1> SUFFICES ASSUME TimeInv, [Next]_vars PROVE TimeInv'
  OBVIOUS
<1>0. TypeOK /\ HourInv /\ AsleepInv /\ CheckedInv /\ ReportedInTime
  BY DEF TimeInv
<1>1. TypeOK' /\ HourInv'
  BY <1>0, TypeStep
<1>2. \A chs, names : \A ch \in Channels, n \in Names :
         Quiet(chs, names)[ch][n] = IF ch \in chs /\ n \in names THEN now ELSE quiet[ch][n]
  BY <1>0, QuietLemma
<1>3. now \in Nat
  BY <1>0 DEF TypeOK, Times
<1>4. ASSUME UNCHANGED <<now, expiry, settings, quiet>>, sched.at # "hung"
      PROVE  ReportedInTime'
  BY <1>0, <1>4, ReportsStay
<1>5. ASSUME NEW m \in Names, NEW t \in Times \cup {NoCert}, Store(m, t) PROVE TimeInv'
  <2>1. CASE sched.at = "hung"
    <3>1. sched'.at = "hung"
      BY <1>5, <2>1 DEF Store
    <3> QED BY <1>1, <3>1 DEF TimeInv, AsleepInv, CheckedInv, ReportedInTime
  <2>2. CASE sched.at # "hung"
    <3>1. \A ch \in Channels, n \in Names :
             \/ quiet'[ch][n] = now
             \/ /\ quiet'[ch][n] = quiet[ch][n] /\ expiry'[n] = expiry[n]
                /\ settings' = settings
      BY <1>0, <1>2, <1>5 DEF Store, TypeOK
    <3>2. UNCHANGED <<now, sched, checks>>
      BY <1>5 DEF Store
    <3> QED BY <1>1, <2>2, <3>1, <3>2, ChangeStep
  <2> QED BY <2>1, <2>2
<1>6. CASE SaveSettings
  <2>1. \A ch \in Channels, n \in Names : quiet'[ch][n] = now
    BY <1>2, <1>6 DEF SaveSettings
  <2>2. UNCHANGED <<now, sched, checks>>
    BY <1>6 DEF SaveSettings
  <2> QED BY <1>1, <2>1, <2>2, ChangeStep
<1>7. CASE StartCheck
  <2>1. /\ sched'.at = "checking" /\ sched.at # "hung"
        /\ UNCHANGED <<now, expiry, settings, quiet, changes, faults>>
    BY <1>7 DEF StartCheck, Awake, Starting
  <2> QED BY <1>1, <1>4, <2>1 DEF TimeInv, AsleepInv, CheckedInv
<1>8. CASE FindCertificates
  <2> DEFINE days == OrDefault(settings.warning, DefaultWarning)
             found == {n \in Names : expiry[n] # NoCert /\ NearExpiry(n, days)}
  <2>1. /\ sched.at = "checking"
        /\ sched' = IF found = {} THEN Sleep
                    ELSE [sched EXCEPT !.at = "found", !.found = found]
        /\ UNCHANGED <<now, expiry, settings, checks, quiet, changes, faults>>
    BY <1>8 DEF FindCertificates
  <2>2. ASSUME NEW ch \in Channels, NEW n \in Names, Live(ch, n)', n \notin found
        PROVE  quiet'[ch][n] >= now \/ WarnedFrom(n)' > now
    <3>1. expiry[n] # NoCert /\ ~NearExpiry(n, days)
      BY <2>1, <2>2 DEF Live
    <3>2. days \in Nat /\ expiry[n] \in Nat
      BY <1>0, <3>1, HoursLemma, Numbers DEF TypeOK, Settings
    <3>3. WarnedFrom(n) > now
      BY <1>3, <3>1, <3>2, NotNear DEF WarnedFrom
    <3>4. WarnedFrom(n)' = WarnedFrom(n)
      BY <2>1 DEF WarnedFrom
    <3> QED BY <3>3, <3>4
  <2> HIDE DEF found
  <2>3. CASE found = {}
    BY <1>1, <2>1, <2>2, <2>3, CheckEnds
  <2>4. CASE found # {}
    <3>1. sched'.at = "found" /\ sched'.found = found
      BY <1>0, <2>1, <2>4 DEF TypeOK, Scheduler
    <3>2. CheckedInv'
      BY <2>1, <2>2, <3>1 DEF CheckedInv, Since
    <3> QED BY <1>1, <1>4, <2>1, <3>1, <3>2 DEF TimeInv, AsleepInv
  <2> QED BY <2>3, <2>4
<1>9. CASE QueryFails
  <2>1. /\ sched.at = "checking" /\ sched' = Sleep /\ UNCHANGED <<now, checks>>
        /\ quiet' = Quiet(Channels, Names)
    BY <1>9 DEF QueryFails
  <2>2. \A ch \in Channels, n \in Names : quiet'[ch][n] = now /\ now >= now
    BY <1>2, <1>3, <2>1
  <2> QED BY <1>1, <2>1, <2>2, CheckEnds
<1>10. CASE ReadChannels
  <2> DEFINE todo == {ch \in Channels : settings.channel[ch].enabled}
  <2>1. /\ sched.at = "found"
        /\ sched' = IF todo = {} THEN Sleep ELSE [sched EXCEPT !.at = "sending", !.todo = todo]
        /\ UNCHANGED <<now, expiry, settings, checks, quiet, changes, faults>>
    BY <1>10 DEF ReadChannels
  <2>2. \A ch \in Channels, n \in Names : Live(ch, n)' => Live(ch, n) /\ ch \in todo
    BY <2>1 DEF Live
  <2> HIDE DEF todo
  <2>3. CASE todo = {}
    BY <1>1, <2>1, <2>2, <2>3, CheckEnds
  <2>4. CASE todo # {}
    <3>1. sched'.at = "sending" /\ sched'.found = sched.found /\ sched'.todo = todo
      BY <1>0, <2>1, <2>4 DEF TypeOK, Scheduler
    <3>2. CheckedInv'
      <4> SUFFICES ASSUME NEW ch \in Channels, NEW n \in Names, Live(ch, n)',
                          n \notin sched.found
                   PROVE  Since(ch, n, now)'
        BY <2>2, <3>1 DEF CheckedInv
      <4>1. Since(ch, n, now)
        BY <1>0, <2>1, <2>2 DEF CheckedInv
      <4> QED BY <2>1, <4>1 DEF Since, WarnedFrom
    <3> QED BY <1>1, <1>4, <2>1, <3>1, <3>2 DEF TimeInv, AsleepInv
  <2> QED BY <2>3, <2>4
<1>11. ASSUME NEW ch \in Channels, Send(ch) \/ SendFails(ch) PROVE TimeInv'
  BY <1>1, <1>11, ServeStep
<1>12. ASSUME NEW ch \in Channels, SendHangs(ch) PROVE TimeInv'
  <2>1. sched'.at = "hung"
    BY <1>0, <1>12 DEF SendHangs, TypeOK, Scheduler
  <2> QED BY <1>1, <2>1 DEF TimeInv, AsleepInv, CheckedInv, ReportedInTime
<1>13. CASE Restart
  <2>1. /\ sched'.at = "starting" /\ UNCHANGED <<now, expiry, settings, changes>>
        /\ quiet' = IF sched.at = "hung" THEN Quiet(Channels, Names) ELSE quiet
    BY <1>13 DEF Restart, Starting
  <2>2. \A ch \in Channels, n \in Names :
           quiet'[ch][n] = now \/ (quiet'[ch][n] = quiet[ch][n] /\ sched.at # "hung")
    BY <1>2, <2>1
  <2>3. ReportedInTime'
    BY <1>0, <2>1, <2>2, ReportsStay
  <2> QED BY <1>1, <2>1, <2>3 DEF TimeInv, AsleepInv, CheckedInv
<1>14. CASE Tick
  <2>1. /\ now' = now + 1 /\ checks' = 0
        /\ UNCHANGED <<expiry, settings, sched, quiet, changes, faults>>
        /\ \/ sched.at = "hung"
           \/ sched.at = "asleep" /\ (now < sched.wake \/ checks > 0)
    BY <1>14 DEF Tick
  <2>2. CASE sched.at = "hung"
    BY <1>1, <2>1, <2>2 DEF TimeInv, AsleepInv, CheckedInv, ReportedInTime
  <2>3. CASE sched.at = "asleep" /\ (now < sched.wake \/ checks > 0)
    <3>1. Looked' = Looked /\ Looked \in 0..now /\ (checks > 0 => now = Looked)
      BY <1>0, <2>1, <2>3 DEF AsleepInv, Looked
    <3>2. sched.wake \in Nat
      BY <1>0 DEF TypeOK, Scheduler
    <3>3. Looked' \in 0..now' /\ (now' <= sched.wake \/ now' <= Looked' + 1)
      BY <1>3, <2>1, <2>3, <3>1, <3>2
    <3>4. AsleepInv'
      BY <2>1, <3>3 DEF AsleepInv
    <3>5. CheckedInv'
      <4> SUFFICES ASSUME NEW ch \in Channels, NEW n \in Names, Live(ch, n)'
                   PROVE  Since(ch, n, Looked)'
        BY <2>1, <2>3 DEF CheckedInv
      <4>1. Live(ch, n)
        BY <2>1 DEF Live
      <4>2. Since(ch, n, Looked)
        BY <1>0, <2>3, <4>1 DEF CheckedInv
      <4> QED BY <2>1, <3>1, <4>2 DEF Since, WarnedFrom
    <3> QED BY <1>1, <2>1, <2>3, <3>4, <3>5, AsleepInTimeNext DEF TimeInv
  <2> QED BY <2>1, <2>2, <2>3
<1>15. CASE UNCHANGED vars
  <2>1. UNCHANGED <<now, expiry, settings, sched, checks, quiet>>
    BY <1>15 DEF vars
  <2>2. CASE sched.at = "hung"
    BY <1>1, <2>1, <2>2 DEF TimeInv, AsleepInv, CheckedInv, ReportedInTime
  <2>3. CASE sched.at # "hung"
    BY <1>1, <2>1, <2>3, ChangeStep
  <2> QED BY <2>2, <2>3
<1> QED BY <1>5, <1>6, <1>7, <1>8, <1>9, <1>10, <1>11, <1>12, <1>13, <1>14, <1>15
        DEF Next, Check

\* Whatever fails, changes or is restarted, a certificate at the threshold is
\* reported over every working channel within one sleep, unless a call hangs.
THEOREM ReportsAreInTime == ASSUME SleepsBounded PROVE Spec => []ReportedInTime
<1>1. TimeInv => ReportedInTime
  BY DEF TimeInv
<1> QED BY <1>1, TimeInit, TimeStep, PTL DEF Spec
=============================================================================
