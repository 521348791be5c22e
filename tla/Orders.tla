-------------------------------- MODULE Orders --------------------------------
(***************************************************************************)
(* Top-up and subscription orders, the payments made for them, and the     *)
(* webhooks by which the payment gateways report those payments.           *)
(*                                                                         *)
(*   internal/store/topup_orders.go, subscription_orders.go       (tables) *)
(*   internal/store/subscriptions.go                         (plan delete) *)
(*   internal/server/payment_webhooks.go, webhooks.go           (webhooks) *)
(*   router/billing_api_routes.go, admin_billing_api_routes.go  (requests) *)
(*                                                                         *)
(* A gateway repeats a notification until it is acknowledged, and may have *)
(* several deliveries of one payment open at once; answers may be lost.    *)
(* A completed checkout is not yet a paid one: Stripe's delayed methods.   *)
(* A store transaction (rows FOR UPDATE) is one action.                    *)
(***************************************************************************)
EXTENDS Integers, FiniteSums

CONSTANTS
    NumOrders,
    Users,
    Owner,           \* Owner[o]: the user who placed order o
    Topups,          \* the top-up orders; the others buy a subscription
    Credit,          \* Credit[o]: credit_usd of a top-up order
    Plans,
    PlanOf,          \* PlanOf[o]: plan_id of a subscription order
    Channels,        \* payment channels
    StripeChannels,  \* those of type stripe; the others are EPay
    Payments,        \* payments that may be started
    Deliveries       \* deliveries of one notification open at a time

Orders == 1..NumOrders
None == "none"

ASSUME OrdersAssumption ==
    /\ NumOrders \in Nat
    /\ Owner \in [Orders -> Users]
    /\ Topups \subseteq Orders
    /\ Credit \in [Orders -> Nat \ {0}]
    /\ PlanOf \in [Orders -> Plans]
ASSUME PaymentsAssumption ==
    /\ StripeChannels \subseteq Channels
    /\ None \notin Payments /\ None \notin Channels

VARIABLES
    orders,     \* the topup_orders and subscription_orders tables
    balance,    \* user_balances.usd, as far as orders move it
    inserted,   \* history: user_subscriptions rows inserted for an order
    plan,       \* status of a subscription plan
    enabled,    \* payment channels whose webhook answers
    payments,   \* the gateways: what was started, completed and paid
    hooks,      \* where each delivery's handler is
    acked       \* payments whose notification the gateway saw acknowledged

vars == <<orders, balance, inserted, plan, enabled, payments, hooks, acked>>

OrderRows == [state: {"none", "checked", "pending", "done", "canceled", "deleted"},
              method: {None, "webhook", "gateway"},  \* paid_at, paid_method
              ref: Payments \cup {None},             \* paid_ref
              channel: Channels \cup {None},         \* paid_channel_id
              approved: BOOLEAN]                     \* approved_at, approved_by
NoOrder == [state |-> "none", method |-> None, ref |-> None, channel |-> None,
            approved |-> FALSE]
Checkouts == [order: Orders \cup {0}, channel: Channels \cup {None},
              exact: BOOLEAN, complete: BOOLEAN, taken: BOOLEAN]
NoCheckout == [order |-> 0, channel |-> None, exact |-> FALSE, complete |-> FALSE,
               taken |-> FALSE]

TypeOK ==
    /\ orders \in [Orders -> OrderRows]
    /\ balance \in [Users -> Nat]
    /\ inserted \in [Orders -> Nat]
    /\ plan \in [Plans -> {"on", "off", "deleted"}]
    /\ enabled \subseteq Channels
    /\ payments \in [Payments -> Checkouts]
    /\ hooks \in [Payments \X Deliveries -> {"idle", "received", "verified"}]
    /\ acked \subseteq Payments

Init ==
    /\ orders = [o \in Orders |-> NoOrder]
    /\ balance = [u \in Users |-> 0]
    /\ inserted = [o \in Orders |-> 0]
    /\ plan = [p \in Plans |-> "on"]
    /\ enabled = Channels
    /\ payments = [p \in Payments |-> NoCheckout]
    /\ hooks = [d \in Payments \X Deliveries |-> "idle"]
    /\ acked = {}

IsTopup(o) == o \in Topups
Started(p) == payments[p] # NoCheckout
OrderOf(p) == payments[p].order
ChannelOf(p) == payments[p].channel
ViaStripe(p) == Started(p) /\ ChannelOf(p) \in StripeChannels
PlanOn(o) == plan[PlanOf[o]] = "on"

gateways == <<plan, enabled, payments, hooks, acked>>
requests == <<balance, inserted, gateways>>

-----------------------------------------------------------------------------
(* What users do: order, cancel, pay.                                      *)

CreateTopupOrder(o) ==
    /\ IsTopup(o) /\ orders[o].state = "none"
    /\ orders' = [orders EXCEPT ![o].state = "pending"]
    /\ UNCHANGED requests

\* CreateSubscriptionOrderByPlanID reads the plan, then inserts the order.
CheckPlan(o) ==
    /\ ~IsTopup(o) /\ orders[o].state = "none" /\ PlanOn(o)
    /\ orders' = [orders EXCEPT ![o].state = "checked"]
    /\ UNCHANGED requests
InsertSubscriptionOrder(o) ==
    /\ orders[o].state = "checked"
    /\ orders' = [orders EXCEPT ![o].state = "pending"]
    /\ UNCHANGED requests

\* CancelTopupOrderByUser, CancelSubscriptionOrderByUser: canceling twice is no
\* error, canceling a settled order is one.
CancelOrderByUser(o) ==
    /\ orders[o].state = "pending"
    /\ orders' = [orders EXCEPT ![o].state = "canceled"]
    /\ UNCHANGED requests

\* Stripe.Key is one variable of the whole process, set before the session is
\* created: of two payments started at once, either may get the other's account.
Accounts(c) == IF c \in StripeChannels THEN StripeChannels ELSE {c}

\* The order must be pending when its payment starts.  `exact` is whether the
\* gateway will report the order's amount in the channel's currency, which may
\* be edited before it does.
StartPayment(p, o) ==
    /\ ~Started(p) /\ orders[o].state = "pending"
    /\ \E c \in enabled, exact \in BOOLEAN : \E a \in Accounts(c) :
        payments' = [payments EXCEPT ![p] =
                        [order |-> o, channel |-> a, exact |-> exact,
                         complete |-> FALSE, taken |-> FALSE]]
    /\ UNCHANGED <<orders, balance, inserted, plan, enabled, hooks, acked>>

\* The customer completes the checkout; the order may be in any state by then.
\* The session does not restrict Stripe's methods of payment: with a delayed one
\* it is complete before the money is taken.  EPay reports a trade that succeeded.
Complete(p) ==
    /\ Started(p) /\ ~payments[p].complete
    /\ \E taken \in BOOLEAN :
        /\ ViaStripe(p) \/ taken
        /\ payments' = [payments EXCEPT ![p].complete = TRUE, ![p].taken = taken]
    /\ UNCHANGED <<orders, balance, inserted, plan, enabled, hooks, acked>>

\* Stripe takes the money of a delayed method, if it ever does.
Pay(p) ==
    /\ payments[p].complete /\ ~payments[p].taken
    /\ payments' = [payments EXCEPT ![p].taken = TRUE]
    /\ UNCHANGED <<orders, balance, inserted, plan, enabled, hooks, acked>>

-----------------------------------------------------------------------------
(* Store transactions behind the webhooks.                                 *)

\* COALESCE(column, value) for the payment columns of a canceled order.
Or(old, new) == IF old = None THEN new ELSE old
Remember(o, method, ref, channel) ==
    orders' = [orders EXCEPT ![o].method = Or(@, method), ![o].ref = Or(@, ref),
                             ![o].channel = Or(@, channel)]

\* A payment of a settled order only fills in the channel.
FillChannel(o, channel) == orders' = [orders EXCEPT ![o].channel = Or(@, channel)]

\* Mutant of MarkTopupOrderPaid: a canceled order is credited when its payment
\* arrives after all.
CreditCanceled(o, p) ==
    \/ /\ orders[o].state = "done"
       /\ FillChannel(o, ChannelOf(p))
       /\ UNCHANGED balance
    \/ /\ orders[o].state \in {"pending", "canceled"}
       /\ orders' = [orders EXCEPT ![o] = [state |-> "done", method |-> "gateway",
                       ref |-> p, channel |-> ChannelOf(p), approved |-> FALSE]]
       /\ balance' = [balance EXCEPT ![Owner[o]] = @ + Credit[o]]

\* Mutant of MarkTopupOrderPaid: a repeated notification is credited again.
CreditEachTime(o, p) ==
    \/ /\ orders[o].state = "canceled"
       /\ Remember(o, "gateway", p, ChannelOf(p))
       /\ UNCHANGED balance
    \/ /\ orders[o].state \in {"pending", "done"}
       /\ orders' = [orders EXCEPT ![o] = [state |-> "done", method |-> "gateway",
                       ref |-> p, channel |-> ChannelOf(p), approved |-> FALSE]]
       /\ balance' = [balance EXCEPT ![Owner[o]] = @ + Credit[o]]

MarkTopupOrderPaid(o, p) ==
    \/ /\ orders[o].state = "canceled"
       /\ Remember(o, "gateway", p, ChannelOf(p))
       /\ UNCHANGED balance
    \/ /\ orders[o].state = "done"
       /\ FillChannel(o, ChannelOf(p))
       /\ UNCHANGED balance
    \/ /\ orders[o].state = "pending"
       /\ orders' = [orders EXCEPT ![o].state = "done", ![o].method = "gateway",
                                   ![o].ref = p, ![o].channel = ChannelOf(p)]
       /\ balance' = [balance EXCEPT ![Owner[o]] = @ + Credit[o]]

\* The error that makes the caller answer 500: the plan is gone or disabled.
ActivationFails(o) == orders[o].state = "pending" /\ ~PlanOn(o)

\* Mutant of MarkSubscriptionOrderPaidAndActivate: a payment of an active order
\* does not leave its channel.
IgnorePaidActive(o, method, ref, channel) ==
    \/ /\ orders[o].state = "canceled"
       /\ Remember(o, method, ref, channel)
       /\ UNCHANGED inserted
    \/ /\ orders[o].state \in {"done", "deleted"} \/ ActivationFails(o)
       /\ UNCHANGED <<orders, inserted>>
    \/ /\ orders[o].state = "pending" /\ PlanOn(o)
       /\ orders' = [orders EXCEPT ![o].state = "done", ![o].method = method,
                                   ![o].ref = ref, ![o].channel = Or(@, channel)]
       /\ inserted' = [inserted EXCEPT ![o] = @ + 1]

MarkSubscriptionOrderPaidAndActivate(o, method, ref, channel) ==
    \/ /\ orders[o].state = "canceled"
       /\ Remember(o, method, ref, channel)
       /\ UNCHANGED inserted
    \/ /\ orders[o].state = "done"
       /\ FillChannel(o, channel)
       /\ UNCHANGED inserted
    \/ /\ orders[o].state = "deleted" \/ ActivationFails(o)
       /\ UNCHANGED <<orders, inserted>>
    \/ /\ orders[o].state = "pending" /\ PlanOn(o)
       /\ orders' = [orders EXCEPT ![o].state = "done", ![o].method = method,
                                   ![o].ref = ref, ![o].channel = Or(@, channel)]
       /\ inserted' = [inserted EXCEPT ![o] = @ + 1]

-----------------------------------------------------------------------------
(* The webhook handlers, one per delivery d = <<payment, slot>>.           *)

Move(d, to) == hooks' = [hooks EXCEPT ![d] = to]

\* The answer may be lost on its way, and the gateway then asks again.
Answer(d) == Move(d, "idle") /\ acked' \in {acked, acked \cup {d[1]}}

\* The EPay handler answers "success" whatever comes of it; Stripe's answers 500.
AnswerError(d) == IF ViaStripe(d[1]) THEN Move(d, "idle") /\ UNCHANGED acked
                                     ELSE Answer(d)

\* Mutant of Receive: any event of a session is taken for its completion.
ReceiveIncomplete(d) ==
    LET p == d[1]
    IN  /\ hooks[d] = "idle" /\ Started(p) /\ p \notin acked
        /\ ChannelOf(p) \in enabled
        /\ Move(d, "received")
        /\ UNCHANGED <<orders, balance, inserted, plan, enabled, payments, acked>>

\* The payment channel must exist and be enabled, billing not switched off;
\* otherwise the answer is 404 and nothing changes.  Stripe's event says that
\* the session is complete, and its payment_status is not read.
Receive(d) ==
    LET p == d[1]
    IN  /\ hooks[d] = "idle" /\ Started(p) /\ p \notin acked
        /\ payments[p].complete /\ ChannelOf(p) \in enabled
        /\ Move(d, "received")
        /\ UNCHANGED <<orders, balance, inserted, plan, enabled, payments, acked>>

\* Mutant of VerifyAmount: the order is read, its amount is not compared.
VerifyOrderOnly(d) ==
    /\ hooks[d] = "received"
    /\ IF orders[OrderOf(d[1])].state # "deleted"
       THEN Move(d, "verified") /\ UNCHANGED acked
       ELSE Answer(d)
    /\ UNCHANGED <<orders, balance, inserted, plan, enabled, payments>>

\* The order is read and its amount compared; an order that is gone and an
\* amount that differs are acknowledged and dropped.
VerifyAmount(d) ==
    /\ hooks[d] = "received"
    /\ IF orders[OrderOf(d[1])].state # "deleted" /\ payments[d[1]].exact
       THEN Move(d, "verified") /\ UNCHANGED acked
       ELSE Answer(d)
    /\ UNCHANGED <<orders, balance, inserted, plan, enabled, payments>>

\* Mutant of MarkPaid: Stripe's handler answers 200 to a failed activation too.
MarkPaidAnswersAll(d) ==
    LET p == d[1]
        o == OrderOf(p)
    IN  /\ hooks[d] = "verified"
        /\ IF IsTopup(o)
           THEN MarkTopupOrderPaid(o, p) /\ UNCHANGED inserted
           ELSE /\ MarkSubscriptionOrderPaidAndActivate(o, "gateway", p, ChannelOf(p))
                /\ UNCHANGED balance
        /\ Answer(d)
        /\ UNCHANGED <<plan, enabled, payments>>

MarkPaid(d) ==
    LET p == d[1]
        o == OrderOf(p)
    IN  /\ hooks[d] = "verified"
        /\ IF IsTopup(o)
           THEN MarkTopupOrderPaid(o, p) /\ UNCHANGED inserted
           ELSE /\ MarkSubscriptionOrderPaidAndActivate(o, "gateway", p, ChannelOf(p))
                /\ UNCHANGED balance
        /\ IF ~IsTopup(o) /\ ActivationFails(o) THEN AnswerError(d) ELSE Answer(d)
        /\ UNCHANGED <<plan, enabled, payments>>

\* A query fails, or the process dies before it answers.
HookFails(d) ==
    /\ hooks[d] # "idle"
    /\ AnswerError(d)
    /\ UNCHANGED <<orders, balance, inserted, plan, enabled, payments>>

\* POST /api/webhooks/subscription-orders/:id/paid, called by the operator's
\* own systems: no reference, no channel.
PaidBySystem(o) ==
    /\ ~IsTopup(o) /\ orders[o].state \notin {"none", "checked"}
    /\ MarkSubscriptionOrderPaidAndActivate(o, "webhook", None, None)
    /\ UNCHANGED <<balance, gateways>>

-----------------------------------------------------------------------------
(* Administration.                                                         *)

\* Mutant of ApproveSubscriptionOrder: subscription_id is not looked at.
ApproveAgain(o) ==
    /\ ~IsTopup(o) /\ orders[o].state \in {"pending", "done"} /\ PlanOn(o)
    /\ orders' = [orders EXCEPT ![o].state = "done", ![o].approved = TRUE]
    /\ inserted' = [inserted EXCEPT ![o] = @ + 1]
    /\ inserted[o] < 2
    /\ UNCHANGED <<balance, gateways>>

\* Approving an active order keeps its subscription.
ApproveSubscriptionOrder(o) ==
    /\ ~IsTopup(o) /\ orders[o].state \in {"pending", "done"} /\ PlanOn(o)
    /\ orders' = [orders EXCEPT ![o].state = "done", ![o].approved = TRUE]
    /\ inserted' = IF orders[o].state = "pending"
                   THEN [inserted EXCEPT ![o] = @ + 1] ELSE inserted
    /\ UNCHANGED <<balance, gateways>>

\* Refused for an active order.
RejectSubscriptionOrder(o) ==
    /\ ~IsTopup(o) /\ orders[o].state \in {"pending", "canceled"}
    /\ orders' = [orders EXCEPT ![o].state = "canceled"]
    /\ UNCHANGED requests

UpdatePlanStatus(q) ==
    /\ plan[q] # "deleted"
    /\ plan' = [plan EXCEPT ![q] = IF @ = "on" THEN "off" ELSE "on"]
    /\ UNCHANGED <<orders, balance, inserted, enabled, payments, hooks, acked>>

\* Deletes the plan's orders with it, paid or not.
DeleteSubscriptionPlan(q) ==
    /\ plan[q] # "deleted"
    /\ plan' = [plan EXCEPT ![q] = "deleted"]
    /\ orders' = [o \in Orders |->
                    IF /\ ~IsTopup(o) /\ PlanOf[o] = q
                       /\ orders[o].state \in {"pending", "done", "canceled"}
                    THEN [NoOrder EXCEPT !.state = "deleted"] ELSE orders[o]]
    /\ UNCHANGED <<balance, inserted, enabled, payments, hooks, acked>>

UpdatePaymentChannel(c) ==
    /\ enabled' = IF c \in enabled THEN enabled \ {c} ELSE enabled \cup {c}
    /\ UNCHANGED <<orders, balance, inserted, plan, payments, hooks, acked>>

Next ==
    \/ \E o \in Orders :
        \/ CreateTopupOrder(o) \/ CheckPlan(o) \/ InsertSubscriptionOrder(o)
        \/ CancelOrderByUser(o) \/ PaidBySystem(o)
        \/ ApproveSubscriptionOrder(o) \/ RejectSubscriptionOrder(o)
        \/ \E p \in Payments : StartPayment(p, o)
    \/ \E p \in Payments : Complete(p) \/ Pay(p)
    \/ \E d \in Payments \X Deliveries :
        Receive(d) \/ VerifyAmount(d) \/ MarkPaid(d) \/ HookFails(d)
    \/ \E q \in Plans : UpdatePlanStatus(q) \/ DeleteSubscriptionPlan(q)
    \/ \E c \in Channels : UpdatePaymentChannel(c)

Spec == Init /\ [][Next]_vars

\* A gateway repeats a notification until it is answered, handlers run to their
\* end unless they fail, and not every attempt fails.
Fairness ==
    \A d \in Payments \X Deliveries :
        WF_vars(Receive(d)) /\ SF_vars(VerifyAmount(d)) /\ SF_vars(MarkPaid(d))

-----------------------------------------------------------------------------
(* Properties.                                                             *)

PaidRows(u) == [o \in Orders |->
    IF IsTopup(o) /\ Owner[o] = u /\ orders[o].state = "done" THEN Credit[o] ELSE 0]
PaidBy(u) == Total(PaidRows(u), NumOrders)

\* However often and however concurrently a payment is reported, and whatever
\* cancellation it races, a user's balance holds the credit of each paid top-up
\* order once and of no other (MarkTopupOrderPaid).
CreditedOnce == \A u \in Users : balance[u] = PaidBy(u)

\* An order has at most the one subscription it was activated with, whether a
\* payment, the operator or an administrator got there first, or all of them.
OneSubscriptionPerOrder ==
    \A o \in Orders :
        /\ inserted[o] <= 1
        /\ orders[o].state = "done" /\ ~IsTopup(o) => inserted[o] = 1
        /\ orders[o].state \in {"none", "checked", "pending", "canceled"} => inserted[o] = 0

\* What a gateway says of p in its notifications: a completed checkout, and for
\* EPay a paid one.
Reported(p) == payments[p].complete /\ (ViaStripe(p) \/ payments[p].taken)

\* A settled order has a checkout of its own amount that its gateway reported
\* complete (for EPay: paid), or an administrator or the operator vouched for it;
\* the reference and the channel it carries are those of one and the same
\* checkout (payment_webhooks.go).
Earned(o) ==
    /\ orders[o].ref # None =>
        LET p == orders[o].ref
        IN  /\ Started(p) /\ OrderOf(p) = o /\ payments[p].exact
            /\ Reported(p) /\ orders[o].channel = ChannelOf(p)
    /\ orders[o].state = "done" =>
        \/ orders[o].ref # None
        \/ ~IsTopup(o) /\ (orders[o].approved \/ orders[o].method = "webhook")
SettledIsEarned == \A o \in Orders : Earned(o)

\* A canceled order stays canceled: it is neither credited nor activated by a
\* payment that arrives later ("not credited", topup_orders.go:270).
CanceledIsFinal ==
    [][\A o \in Orders : orders[o].state = "canceled" =>
          /\ orders'[o].state \in {"canceled", "deleted"}
          /\ inserted'[o] = inserted[o]]_vars

\* No payment that Stripe saw acknowledged is lost from sight: unless its plan
\* was deleted, its order is settled or canceled and carries a channel to ask.
AcknowledgedIsRecorded ==
    \A p \in acked : (ViaStripe(p) /\ payments[p].exact) =>
        LET o == orders[OrderOf(p)]
        IN  o.state = "deleted" \/ (o.state \in {"done", "canceled"} /\ o.channel # None)

\* What an order's columns say in each of its states, and what its payments
\* and their deliveries have established about it.
RowInv(o) ==
    /\ orders[o].state \in {"none", "checked", "pending", "deleted"} =>
        orders[o].ref = None /\ orders[o].channel = None
    /\ orders[o].state = "canceled" /\ orders[o].ref = None => orders[o].channel = None
    /\ IsTopup(o) => orders[o].state \notin {"checked", "deleted"}
PaymentInv(p) ==
    Started(p) => /\ OrderOf(p) \in Orders /\ ChannelOf(p) \in Channels
                  /\ orders[OrderOf(p)].state \notin {"none", "checked"}
                  /\ payments[p].complete => Reported(p)
HookInv(d) ==
    /\ hooks[d] # "idle" => Started(d[1]) /\ Reported(d[1])
    /\ hooks[d] = "verified" => payments[d[1]].exact

\* The inductive invariant behind the theorems of OrdersProofs.
IInv ==
    /\ TypeOK
    /\ \A o \in Orders : RowInv(o)
    /\ \A p \in Payments : PaymentInv(p)
    /\ \A d \in Payments \X Deliveries : HookInv(d)
    /\ acked \subseteq {p \in Payments : Started(p)}
    /\ CreditedOnce
    /\ OneSubscriptionPerOrder
    /\ SettledIsEarned
    /\ AcknowledgedIsRecorded

\* A payment that Stripe took for a pending order settles the order, if nobody
\* disables the plan or the channel: failed deliveries are repeated.
TakenIsHonoured ==
    \A p \in Payments, o \in Orders :
        (ViaStripe(p) /\ OrderOf(p) = o /\ payments[p].exact /\ payments[p].taken)
        ~> \/ orders[o].state # "pending"
           \/ ChannelOf(p) \notin enabled
           \/ ~IsTopup(o) /\ ~PlanOn(o)

=============================================================================
