SPECIFICATION Spec
CONSTANTS
    Clients = {a1, a2}
    Names = {na, nb}
    MaxGroups = 3
    MaxChannels = 2
    MaxCreds = 1
    Mains = {ma, mb}
    Users = {u1, u2}
    Emails = {e1, e2}
    MaxPasswords = 3
    MaxSecond = 2
    MaxSecrets = 2
    MaxCodes = 2
    Requests = {r1}
    AuthTTL = 2
    SnapTTL = 2
    MaxLate = 2
    Tokens = {t1}
    Tagged = {m1}
    OwnerOf <- MCOwnerOf
    Instances = {i1, i2}
    MaxRequests = 3
SYMMETRY Symmetry
INVARIANTS CatalogInv TidyWhenAlone CodesProveOnce PasswordEndsSessions TokensLapse ChannelsLapse
PROPERTY RenamesKeepRoutes
CHECK_DEADLOCK FALSE
