SPECIFICATION FairSpec
CONSTANTS
    tool = tool
    payload = payload
    url = url
    nix = nix
    engine = engine
    Procs = {1, 2}
    Tools = {tool}
    Payloads = {payload}
    Urls = {url}
    Recipes = {nix}
    Engines = {engine}
    Slug <- NixTag
    Apart = TRUE
    Size = 2
    MaxVersion = 2
    MaxKeys = 1
    MaxRequests = 4
    MaxFaults = 2
INVARIANTS
    TypeOK
    MarkerVouches
    GotIsRight
    FreshDownload
PROPERTIES
    Recovers
CHECK_DEADLOCK FALSE
