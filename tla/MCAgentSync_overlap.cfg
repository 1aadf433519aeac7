\* Two runs at a time: what the README says of atomic writes.
SPECIFICATION Spec
CONSTANTS
    web = web
    mail = mail
    proxy = proxy
    iis = iis
    Missing = Missing
    Torn = Torn
    Agents = {a1, a2}
    Operators = {a2}
    Certs <- WebOnly
    Kind <- KindOf
    Fullchain = {}
    PostCmd = {web}
    GlobalPost = FALSE
    Initial <- InitialOf
    MaxVersion <- OneOfEach
    MaxCrashes = 0
INVARIANT FilesWhole
