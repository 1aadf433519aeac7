\* A crash between the two renames of a pair.
SPECIFICATION Spec
CONSTANTS
    web = web
    mail = mail
    proxy = proxy
    iis = iis
    Missing = Missing
    Torn = Torn
    Agents = {a1}
    Operators = {}
    Certs <- WebOnly
    Kind <- KindOf
    Fullchain = {}
    PostCmd = {web}
    GlobalPost = FALSE
    Initial <- InitialOf
    MaxVersion <- OneOfEach
    MaxCrashes = 1
INVARIANT UpToDateMeansInstalled
