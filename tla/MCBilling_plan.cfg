SPECIFICATION Spec
CONSTANTS
    u1 = u1
    u2 = u2
    basic = basic
    NumRequests = 2
    Users = {u1}
    Owner <- MCOwner
    Subs = {1}
    Sub <- MCSub
    Plans = {basic}
    PlanLimit <- MCPlanLimit
    Windows = {2}
    Estimates = {0, 2}
    Charges = {1, 3}
    Credits = {2}
    DefaultReserve = 1
    ReserveTTL = 1
    Modes = {"normal"}
    Deletable = {basic}
    Horizon = 3
    MaxCredited = 4
PROPERTIES RefundsOnlyPayAsYouGo
