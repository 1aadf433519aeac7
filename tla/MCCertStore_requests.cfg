\* A row an earlier version left without its domains: two requests in flight,
\* two names, reads that fill the column in, a restart of the server.
SPECIFICATION Spec
CONSTANTS
    n1 = n1
    n2 = n2
    k1 = k1
    k2 = k2
    d1 = d1
    d2 = d2
    good = good
    revoked = revoked
    Blank = Blank
    NoRow = NoRow
    Names = {n1, n2}
    Keys = {k1, k2}
    FreshKeys = {k2}
    RenewDays = 1
    AcmeDays = 2
    InternalDays = 4
    Procs = {p1, p2}
    Domains = {d1, d2}
    Accounts = {good}
    GoodAccounts = {good}
    SettingAccounts = {Blank, good}
    Uploads <- MCUploads
    AcmeForms <- TwoForms
    InternalDomains = {}
    LegacyTable <- LegacyTable1
    LegacyNextId = 2
    MaxId = 2
    MaxDay = 0
    MaxCrashes = 1
INVARIANTS TypeOK RowsIntact UniqueNames LateWritesHitTheirName
    AcmeRowsRenewable
PROPERTIES VaultSpec OnlyLateReadsMislead
SYMMETRY ProcSymmetry
