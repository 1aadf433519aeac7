\* Two settings forms, one after the other or overlapping, login pages, a
\* connection; a read or a write that fails, or a restart.
SPECIFICATION Spec
CONSTANTS
    default = default
    changed = changed
    Procs = {p1, p2}
    DefaultAdminPass = default
    Passwords = {default, changed}
    NoPassword = NoPassword
    NoCopy = NoCopy
    Typed <- MCTyped
    Forms <- MCForms
    MaxDepth = 2
    MaxSaves = 2
    MaxFaults = 1
INVARIANTS TypeOK NewProxyIsWhole EndedSaveIsWhole
PROPERTY MigratedPasswordLasts
SYMMETRY ProcSymmetry
