\* Two browsers sign in and out, make and revoke tokens; two processes of an
\* agent on a new host report.
SPECIFICATION Spec
CONSTANTS
    host = host
    Browsers = {b1, b2}
    MaxSignings = 3
    MaxTokens = 2
    MaxFailures = 1
    Agents = {a1, a2}
    Hosts = {host}
    HostOf <- MCHostOf
    MaxBeats = 2
INVARIANTS TypeOK OneBrowserIn AnsweredSigningHolds OneToken PageNamesItsTokens OneNodePerHost AnsweredBeatIsSeen
SYMMETRY MCSymmetry
