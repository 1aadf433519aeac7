\* What the comment on the scheduler says of the rows it re-issues.
SPECIFICATION Spec
CONSTANTS
    n1 = n1
    n2 = n2
    k1 = k1
    k2 = k2
    d1 = d1
    d2 = d2
    good = good
    revoked = revoked
    Blank = Blank
    NoRow = NoRow
    Procs = {p1}
    Names = {n1, n2}
    Keys = {k1, k2}
    FreshKeys = {k2}
    Domains = {d1, d2}
    Accounts = {good, revoked}
    GoodAccounts = {good}
    SettingAccounts = {Blank, good}
    Uploads <- MCUploadsNoDomain
    AcmeForms <- NoForms
    InternalDomains = {}
    LegacyTable <- OneAcmeTable
    LegacyNextId = 2
    RenewDays = 1
    AcmeDays = 2
    InternalDays = 4
    MaxId = 2
    MaxDay = 1
    MaxCrashes = 1
PROPERTY RenewalReplacesDueRow
