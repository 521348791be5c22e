------------------------------- MODULE MCOrders -------------------------------
\* Order 1 tops up a balance, order 2 buys a subscription; one Stripe account and
\* one EPay account; two payments, for one order or for both.
EXTENDS Orders, TLC

MCOwner == [o \in 1..NumOrders |-> CHOOSE u \in Users : TRUE]
MCTopups == {1}
MCCredit == [o \in 1..NumOrders |-> 10 + o]
MCPlanOf == [o \in 1..NumOrders |-> CHOOSE q \in Plans : TRUE]

\* Payments are started by anyone for anything, deliveries are alike.
Symmetry == Permutations(Payments) \cup Permutations(Deliveries)

=============================================================================
