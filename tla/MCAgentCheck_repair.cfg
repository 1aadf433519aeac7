\* A combined file after a name the server never has: the timer's runs and an
\* operator's, which may die or hang.  No check beside them: it writes no file.
SPECIFICATION FairCheckSpec
CONSTANTS
    web = web
    mail = mail
    proxy = proxy
    iis = iis
    Missing = Missing
    Torn = Torn
    Agents = {a1, a2}
    Operators = {a2}
    Certs <- WebProxy
    Kind <- KindOf
    Fullchain = {}
    PostCmd = {proxy}
    GlobalPost = TRUE
    Initial <- InitialOf
    MaxVersion <- OneOfSecond
    MaxCrashes = 1
    NotAfter <- MCNotAfter
    MaxChecks = 0
PROPERTIES EventuallyInstalled EventuallyLoaded
