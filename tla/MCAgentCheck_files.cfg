\* One sync and one check; a pair, a pair whose key file is missing and a PFX
\* target; failures and a crash.
SPECIFICATION CheckSpec
CONSTANTS
    web = web
    mail = mail
    proxy = proxy
    iis = iis
    Missing = Missing
    Torn = Torn
    Agents = {a1}
    Operators = {}
    Certs <- WebMailIis
    Kind <- KindOf
    Fullchain = {}
    PostCmd = {web}
    GlobalPost = TRUE
    Initial <- InitialOf
    MaxVersion <- TwoOfWeb
    MaxCrashes = 1
    NotAfter <- MCNotAfter
    MaxChecks = 1
INVARIANTS CheckTypeOK FilesWhole ReloadOnMatchingFiles
PROPERTY FilesAreReplicas
