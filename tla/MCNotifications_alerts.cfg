\* Every initial setting, a change of one, failing and hanging calls, restarts.
SPECIFICATION Spec
CONSTANTS
    Names = {n1}
    NoCert = NoCert
    Channels = {"telegram", "email"}
    Rank <- MCRank
    Unlimited = {"email"}
    Intervals = {0, 1, 2, 5, 9}
    DefaultInterval = 3
    Warnings = {0, 1}
    DefaultWarning = 2
    Day = 2
    HalfRange = 4
    MaxNow = 7
    MaxChanges = 1
    MaxFaults = 2
INVARIANTS TypeOK ReportedInTime
PROPERTY NoFlood
CHECK_DEADLOCK FALSE
