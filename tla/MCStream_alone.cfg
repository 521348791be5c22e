SPECIFICATION EitherSpec
CONSTANTS
    Channels = {1, 2}
    Credentials = {"key", "key2", "key3", "other"}
    ChannelOf <- MCChannelOf
    AutoBan = {2}
    Base = 1
    LongCooldown = 2
    MaxBan = 2
    MaxStreak = 2
    Deletable = {"other"}
    Sessions = {"s"}
    Horizon = 2
    Requests = {1}
    Session <- MCSession
    NumGroups = 2
    Members <- MCMembers
    Subgroups <- MCSubgroups
    Rank <- MCRank
    MaxAttempts <- MCMaxAttemptsAlone
    GroupOrder <- MCGroupOrderAlone
    Retries = 2
    MaxSelections = 5
    Buffer = 1
    MaxLines = 3
    MaxPings = 1
INVARIANTS StreamInv BlameFits
PROPERTIES SwitchesAfterTwo ImplementsAnswer ClientGoneEnds PumpReturns
