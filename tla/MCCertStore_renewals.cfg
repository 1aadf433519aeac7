\* The scheduler under its fairness: two ACME rows, the credentials of one
\* revoked; one request, a restart, days passing.
SPECIFICATION FairSpec
CONSTANTS
    n1 = n1
    n2 = n2
    k1 = k1
    k2 = k2
    d1 = d1
    d2 = d2
    good = good
    revoked = revoked
    Blank = Blank
    NoRow = NoRow
    Names = {n1, n2}
    Keys = {k1, k2}
    FreshKeys = {k2}
    RenewDays = 1
    AcmeDays = 2
    InternalDays = 4
    Procs = {p1}
    Domains = {d1, d2}
    Accounts = {good, revoked}
    GoodAccounts = {good}
    SettingAccounts = {Blank, good}
    Uploads <- OneUpload
    AcmeForms <- NoForms
    InternalDomains = {d1}
    LegacyTable <- AcmeTable
    LegacyNextId = 3
    MaxId = 3
    MaxDay = 1
    MaxCrashes = 1
INVARIANTS UniqueNames LateWritesHitTheirName DomainsDescribeCert
PROPERTIES DueRowsAreRenewed EnrolmentKept VaultSpec
