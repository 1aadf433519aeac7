\* A combined target: what the README says of files already up to date.
SPECIFICATION Spec
CONSTANTS
    web = web
    mail = mail
    proxy = proxy
    iis = iis
    Missing = Missing
    Torn = Torn
    Agents = {a1}
    Operators = {}
    Certs <- ProxyOnly
    Kind <- KindOf
    Fullchain = {}
    PostCmd = {}
    GlobalPost = FALSE
    Initial <- InitialOf
    MaxVersion <- OneOfEach
    MaxCrashes = 0
PROPERTY NoNeedlessRewrite
