\* Three requests change the root and issue; a write that fails, two restarts.
SPECIFICATION Spec
CONSTANTS
    r1 = r1
    r2 = r2
    NoPEM = NoPEM
    Procs = {p1, p2, p3}
    Roots = {r1, r2}
    Uploads <- MCUploads
    MaxFailures = 1
    MaxCrashes = 2
INVARIANT TypeOK
PROPERTIES CompletedStoreMatches IssuedByConfiguredRoot
SYMMETRY ProcSymmetry
