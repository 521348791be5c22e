SPECIFICATION UpstreamSpec
CONSTANTS
    Channels = {1, 2}
    Credentials = {"key", "other"}
    ChannelOf <- MCChannelOf
    AutoBan = {1}
    Base = 1
    LongCooldown = 2
    MaxBan = 2
    MaxStreak = 2
    Deletable = {"key"}
    Sessions = {"s"}
    Horizon = 2
    Requests = {1, 2}
    Session <- MCSession
    NumGroups = 2
    Members <- MCMembers
    Subgroups <- MCSubgroups
    Rank <- MCRank
    MaxAttempts <- MCMaxAttempts
    GroupOrder <- MCGroupOrder
    Retries = 2
    MaxSelections = 5
    Instances = {h1}
    Callers = {c1, c2}
    Pollers = {p1}
    MaxTokens = 2
    MaxCalls = 3
SYMMETRY Symmetry
INVARIANTS IInv AttemptsBounded GrantsKept LimitsHold
PROPERTIES BansEndProperly
