SPECIFICATION EitherSpec
CONSTANTS
    NumOrders = 2
    Users = {u1}
    Owner <- MCOwner
    Topups <- MCTopups
    Credit <- MCCredit
    Plans = {q1}
    PlanOf <- MCPlanOf
    Channels = {stripe, epay}
    StripeChannels = {stripe}
    Payments = {p1}
    Deliveries = {d1, d2}
    MaxEvents = 2
    MaxSlot = 4
    Arrivals = {3, 4}
    SlotsPerHour = 2
    HoursPerDay = 2
    Payers = {y1}
    Upstreams = {c1}
    Priced = {m1}
    Shards = 2
    Cutover = 4
    Ranges <- MCRanges
    BackfillBatch = 1
    MaxBackfill = 1
    DeleteBatch = 1
INVARIANT PagesCountOnce
PROPERTY TakenIsHonoured
CHECK_DEADLOCK FALSE
