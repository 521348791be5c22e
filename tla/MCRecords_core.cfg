SPECIFICATION Spec
CONSTANTS
    Apps = {p1}
    Owners = {o1}
    URIs = {v1}
    Scopes = {s1, s2}
    Exchanges = {r1, r2}
    MaxCodes = 1
    MaxKeys = 2
    Askers = {u1, u2}
    Uploads = {r1, r2}
    MaxTickets = 2
    MaxFiles = 3
    BatchSize = 1
    MaxMessages = 2
    Makers = {u1, u2}
    Objects = {j1, j2, j3}
    Chats = {j2, j3}
    Hosts = {h1, h2}
    CodexHosts = {h2}
    Masking = {h2}
    Lookups = {r1, r2}
    MaxLookups = 2
    MaxMade = 2
    Editors = {r1, r2}
    Columns = {"remark", "weight", "system_prompt", "cache_ttl_preference", "status", "param_override"}
    Wanted = {"value"}
    MaxSaves = 3
    APIs = {"responses", "chat", "messages", "gemini", "gemini_embed"}
    Bodies <- MCBodies
    Settings <- MCSettings
    Routes = {n1, n2}
    MaxTries = 2
    Servers = {h1}
    Members = {u1, u2}
    Routers = {r1, r2}
    MaxPins = 1
SYMMETRY Symmetry
INVARIANTS
    OneTokenPerCode
    CodesHaveConsent
    FilesMatchRows
    RefsServeMakers
    SavesStand
    BodiesShaped
PROPERTY PinsStand
CHECK_DEADLOCK FALSE
