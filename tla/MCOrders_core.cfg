SPECIFICATION Spec
CONSTANTS
    NumOrders = 2
    Users = {u1}
    Owner <- MCOwner
    Topups <- MCTopups
    Credit <- MCCredit
    Plans = {q1}
    PlanOf <- MCPlanOf
    Channels = {stripe, epay}
    StripeChannels = {stripe}
    Payments = {p1, p2}
    Deliveries = {d1, d2}
SYMMETRY Symmetry
INVARIANTS IInv CreditedOnce OneSubscriptionPerOrder SettledIsEarned AcknowledgedIsRecorded
PROPERTIES CanceledIsFinal
