----------------------------- MODULE OrdersProofs -----------------------------
(***************************************************************************)
(* The safety of Orders for any number of orders, users, plans, payments,  *)
(* channels and concurrent deliveries: IInv is inductive.                  *)
(*                                                                         *)
(* The argument: a step that touches orders, other than the deletion of a  *)
(* plan, changes one row, what was inserted for it and its owner's balance *)
(* in one of the ways of Change, on behalf of a payment that is linked to  *)
(* that order.  From Change alone follow the money, the subscriptions and  *)
(* where the payment columns come from.                                    *)
(***************************************************************************)
EXTENDS Orders, FiniteSumsProofs

USE DEF Orders, IsTopup, Started, OrderOf, ChannelOf, None

\* A checkout that was reported for o in o's amount, or none at all.
Link(o, ref, c) ==
  \/ ref = None /\ c = None
  \/ /\ ref \in Payments /\ Started(ref) /\ OrderOf(ref) = o
     /\ payments[ref].exact /\ Reported(ref)
     /\ c = ChannelOf(ref) /\ c \in Channels

Same(o, n, usd) == n = inserted[o] /\ usd = balance[Owner[o]]
SameColumns(e, w) == w.ref = e.ref /\ w.channel = e.channel

Places(o, e, w) ==
  /\ e.state \in {"none", "checked"} /\ w.state \in {"checked", "pending"}
  /\ IsTopup(o) => w.state = "pending"
  /\ SameColumns(e, w)
Cancels(e, w) ==
  e.state \in {"pending", "canceled"} /\ w.state = "canceled" /\ SameColumns(e, w)
Remembers(e, w, ref, c) ==
  /\ e.state = "canceled" /\ w.state = "canceled"
  /\ w.ref = Or(e.ref, ref) /\ w.channel = Or(e.channel, c)
Fills(e, w, c) ==
  /\ e.state = "done" /\ w.state = "done"
  /\ w.ref = e.ref /\ w.channel = Or(e.channel, c)
  /\ w.method = e.method /\ (e.approved => w.approved)
Settles(o, e, w, ref, c) ==
  /\ e.state = "pending" /\ w.state = "done" /\ w.ref = ref /\ w.channel = c
  /\ ref = None => ~IsTopup(o) /\ (w.approved \/ w.method = "webhook")

Change(o, w, n, usd, ref, c) ==
  LET e == orders[o]
  IN  \/ w = e /\ Same(o, n, usd)
      \/ Places(o, e, w) /\ Same(o, n, usd)
      \/ Cancels(e, w) /\ Same(o, n, usd)
      \/ Remembers(e, w, ref, c) /\ Same(o, n, usd)
      \/ Fills(e, w, c) /\ Same(o, n, usd)
      \/ /\ Settles(o, e, w, ref, c) /\ IsTopup(o)
         /\ n = inserted[o] /\ usd = balance[Owner[o]] + Credit[o]
      \/ /\ Settles(o, e, w, ref, c) /\ ~IsTopup(o)
         /\ n = inserted[o] + 1 /\ usd = balance[Owner[o]]

Writes(o, w, n, usd) ==
  /\ orders' = [orders EXCEPT ![o] = w]
  /\ inserted' = [inserted EXCEPT ![o] = n]
  /\ balance' = [balance EXCEPT ![Owner[o]] = usd]

Touches(o) ==
  \E w \in OrderRows, n \in Nat, usd \in Nat,
     ref \in Payments \cup {None}, c \in Channels \cup {None} :
    Writes(o, w, n, usd) /\ Link(o, ref, c) /\ Change(o, w, n, usd, ref, c)

Recorded(e) == e.state = "deleted" \/ (e.state \in {"done", "canceled"} /\ e.channel # None)

OrderTypes ==
  orders \in [Orders -> OrderRows] /\ balance \in [Users -> Nat] /\ inserted \in [Orders -> Nat]

-----------------------------------------------------------------------------
(* What a Touches step preserves.                                          *)

\* The credit that counts for user u in row o, as PaidBy sums it.
LEMMA PaidRowsType ==
  ASSUME NEW u \in Users
  PROVE  PaidRows(u) \in [1..NumOrders -> Nat] /\ PaidRows(u) \in [1..NumOrders -> Int]
BY OrdersAssumption DEF PaidRows

\* A step on one order moves its owner's sum by the change of that order's credit,
\* and nobody else's.
LEMMA PaidByChange ==
  ASSUME NEW u \in Users, NEW o \in Orders, NEW w \in OrderRows, OrderTypes,
         orders' = [orders EXCEPT ![o] = w]
  PROVE  PaidBy(u)' = PaidBy(u) + (PaidRows(u)'[o] - PaidRows(u)[o])
<1> DEFINE f == PaidRows(u)
           g == PaidRows(u)'
<1>1. f \in [1..NumOrders -> Int]
  BY PaidRowsType
<1>2. g \in [1..NumOrders -> Int]
  BY OrdersAssumption DEF PaidRows
<1>3. \A i \in 1..NumOrders : i # o => g[i] = f[i]
  BY DEF PaidRows, OrderTypes
<1>4. NumOrders \in Nat /\ o \in 1..NumOrders
  BY OrdersAssumption
<1> HIDE DEF f, g
<1>5. Total(g, NumOrders) = Total(f, NumOrders) + (g[o] - f[o])
  BY <1>1, <1>2, <1>3, <1>4, TotalUpdate
<1>6. QED
  BY <1>5 DEF PaidBy, f, g

LEMMA TouchesTypes ==
  ASSUME NEW o \in Orders, OrderTypes, Touches(o)
  PROVE  OrderTypes'
BY OrdersAssumption DEF Touches, Writes, OrderTypes

LEMMA TouchesRowInv ==
  ASSUME NEW o \in Orders, OrderTypes, Touches(o), \A i \in Orders : RowInv(i)
  PROVE  \A i \in Orders : RowInv(i)'
<1>1. PICK w \in OrderRows, n \in Nat, usd \in Nat,
           ref \in Payments \cup {None}, c \in Channels \cup {None} :
         Writes(o, w, n, usd) /\ Link(o, ref, c) /\ Change(o, w, n, usd, ref, c)
  BY DEF Touches
<1>2. orders' = [orders EXCEPT ![o] = w]
  BY <1>1 DEF Writes
<1>3. \A i \in Orders : i # o => orders'[i] = orders[i]
  BY <1>2 DEF OrderTypes
<1>4. orders'[o] = w
  BY <1>2 DEF OrderTypes
<1>5. RowInv(o)
  OBVIOUS
<1>6. RowInv(o)'
  <2>1. CASE w = orders[o]
    BY <2>1, <1>4, <1>5 DEF RowInv
  <2>2. CASE Places(o, orders[o], w)
    BY <2>2, <1>4, <1>5 DEF RowInv, Places, SameColumns
  <2>3. CASE Cancels(orders[o], w)
    BY <2>3, <1>4, <1>5 DEF RowInv, Cancels, SameColumns
  <2>4. CASE Remembers(orders[o], w, ref, c)
    BY <2>4, <1>1, <1>4, <1>5, PaymentsAssumption DEF RowInv, Remembers, Or, Link
  <2>5. CASE Fills(orders[o], w, c)
    BY <2>5, <1>4, <1>5 DEF RowInv, Fills
  <2>6. CASE Settles(o, orders[o], w, ref, c)
    BY <2>6, <1>4, <1>5 DEF RowInv, Settles
  <2>7. QED
    BY <1>1, <2>1, <2>2, <2>3, <2>4, <2>5, <2>6 DEF Change
<1>7. QED
  BY <1>3, <1>5, <1>6 DEF RowInv

LEMMA TouchesEarned ==
  ASSUME NEW o \in Orders, OrderTypes, Touches(o), UNCHANGED payments,
         RowInv(o), \A i \in Orders : Earned(i), \A p \in Payments : PaymentInv(p)
  PROVE  \A i \in Orders : Earned(i)'
<1>1. PICK w \in OrderRows, n \in Nat, usd \in Nat,
           ref \in Payments \cup {None}, c \in Channels \cup {None} :
         Writes(o, w, n, usd) /\ Link(o, ref, c) /\ Change(o, w, n, usd, ref, c)
  BY DEF Touches
<1>2. orders' = [orders EXCEPT ![o] = w]
  BY <1>1 DEF Writes
<1>3. \A i \in Orders : i # o => orders'[i] = orders[i]
  BY <1>2 DEF OrderTypes
<1>4. orders'[o] = w
  BY <1>2 DEF OrderTypes
<1>5. Earned(o)
  OBVIOUS
<1>6. orders[o].ref # None => orders[o].channel # None
  <2>1. SUFFICES ASSUME orders[o].ref # None PROVE orders[o].channel # None
    OBVIOUS
  <2>2. orders[o].ref \in Payments
    BY <2>1 DEF OrderTypes, OrderRows
  <2>3. Started(orders[o].ref) /\ orders[o].channel = ChannelOf(orders[o].ref)
    BY <2>1, <1>5 DEF Earned, Reported, ViaStripe
  <2>4. QED
    BY <2>2, <2>3, PaymentsAssumption DEF PaymentInv
<1>7. Earned(o)'
  <2>1. CASE w = orders[o]
    BY <2>1, <1>4, <1>5 DEF Earned, Reported, ViaStripe
  <2>2. CASE Places(o, orders[o], w)
    BY <2>2, <1>4, <1>5 DEF Earned, Reported, ViaStripe, Places, SameColumns, RowInv
  <2>3. CASE Cancels(orders[o], w)
    BY <2>3, <1>4, <1>5 DEF Earned, Reported, ViaStripe, Cancels, SameColumns
  <2>4. CASE Remembers(orders[o], w, ref, c)
    <3>1. CASE orders[o].ref = None
      BY <3>1, <2>4, <1>1, <1>4, <1>5 DEF Earned, Reported, ViaStripe, Remembers, Or, Link, RowInv
    <3>2. CASE orders[o].ref # None
      BY <3>2, <2>4, <1>4, <1>5, <1>6 DEF Earned, Reported, ViaStripe, Remembers, Or
    <3>3. QED
      BY <3>1, <3>2
  <2>5. CASE Fills(orders[o], w, c)
    <3>1. w.ref = orders[o].ref /\ (w.ref # None => w.channel = orders[o].channel)
      BY <2>5, <1>6 DEF Fills, Or
    <3>2. w.approved = TRUE \/ w.approved = FALSE
      BY DEF OrderRows
    <3>3. QED
      BY <3>1, <3>2, <2>5, <1>4, <1>5 DEF Earned, Reported, ViaStripe, Fills
  <2>6. CASE Settles(o, orders[o], w, ref, c)
    BY <2>6, <1>1, <1>4, <1>5 DEF Earned, Reported, ViaStripe, Settles, Link
  <2>7. QED
    BY <1>1, <2>1, <2>2, <2>3, <2>4, <2>5, <2>6 DEF Change
<1>8. ASSUME NEW i \in Orders, i # o PROVE Earned(i)'
  <2>1. Earned(i) /\ orders'[i] = orders[i] /\ payments' = payments
    BY <1>8, <1>3
  <2>2. QED
    BY <2>1 DEF Earned, NoCheckout, Reported, ViaStripe
<1>9. QED
  BY <1>7, <1>8

\* The equation for the money: a settled top-up pays its credit once, and no other
\* change moves money or makes an order count that did not.
LEMMA TouchesCredits ==
  ASSUME NEW o \in Orders, OrderTypes, Touches(o), CreditedOnce
  PROVE  CreditedOnce'
<1>1. PICK w \in OrderRows, n \in Nat, usd \in Nat,
           ref \in Payments \cup {None}, c \in Channels \cup {None} :
         Writes(o, w, n, usd) /\ Link(o, ref, c) /\ Change(o, w, n, usd, ref, c)
  BY DEF Touches
<1>2. orders' = [orders EXCEPT ![o] = w] /\ orders'[o] = w
  BY <1>1 DEF Writes, OrderTypes
<1>3. Owner[o] \in Users /\ Credit[o] \in Nat /\ orders[o] \in OrderRows
  BY OrdersAssumption DEF OrderTypes
<1> DEFINE was(u) == IF IsTopup(o) /\ Owner[o] = u /\ orders[o].state = "done"
                     THEN Credit[o] ELSE 0
           is(u)  == IF IsTopup(o) /\ Owner[o] = u /\ w.state = "done"
                     THEN Credit[o] ELSE 0
<1>4. ASSUME NEW u \in Users PROVE balance'[u] = PaidBy(u)'
  <2>1. PaidRows(u)[o] = was(u) /\ PaidRows(u)'[o] = is(u)
    BY <1>2 DEF PaidRows
  <2>2. PaidBy(u)' = PaidBy(u) + (is(u) - was(u))
    BY <2>1, <1>2, PaidByChange
  <2>3. balance[u] = PaidBy(u) /\ balance[u] \in Nat
    BY DEF CreditedOnce, OrderTypes
  <2>4. balance'[u] = IF u = Owner[o] THEN usd ELSE balance[u]
    BY <1>1 DEF Writes, OrderTypes
  <2>5. CASE IsTopup(o) /\ Settles(o, orders[o], w, ref, c)
    <3>1. usd = balance[Owner[o]] + Credit[o]
      BY <1>1, <2>5 DEF Change, Settles, Places, Cancels, Remembers, Fills
    <3>2. orders[o].state # "done" /\ w.state = "done"
      BY <2>5 DEF Settles
    <3>3. was(u) = 0 /\ is(u) = IF Owner[o] = u THEN Credit[o] ELSE 0
      BY <3>2, <2>5
    <3> HIDE DEF was, is
    <3>4. QED
      BY <3>1, <3>3, <2>2, <2>3, <2>4, <1>3
  <2>6. CASE ~(IsTopup(o) /\ Settles(o, orders[o], w, ref, c))
    <3>1. usd = balance[Owner[o]]
      BY <1>1, <2>6 DEF Change, Same
    <3>2. is(u) = was(u)
      BY <1>1, <2>6 DEF Change, Places, Cancels, Remembers, Fills
    <3>3. was(u) \in Nat
      BY <1>3
    <3> HIDE DEF was, is
    <3>4. QED
      BY <3>1, <3>2, <3>3, <2>2, <2>3, <2>4, <1>3
  <2>7. QED
    BY <2>5, <2>6
<1>5. QED
  BY <1>4 DEF CreditedOnce

LEMMA TouchesSubscriptions ==
  ASSUME NEW o \in Orders, OrderTypes, Touches(o), OneSubscriptionPerOrder
  PROVE  OneSubscriptionPerOrder'
<1>1. PICK w \in OrderRows, n \in Nat, usd \in Nat,
           ref \in Payments \cup {None}, c \in Channels \cup {None} :
         Writes(o, w, n, usd) /\ Link(o, ref, c) /\ Change(o, w, n, usd, ref, c)
  BY DEF Touches
<1>2. /\ orders' = [orders EXCEPT ![o] = w] /\ orders'[o] = w
      /\ inserted' = [inserted EXCEPT ![o] = n] /\ inserted'[o] = n
  BY <1>1 DEF Writes, OrderTypes
<1>3. \A i \in Orders : i # o => orders'[i] = orders[i] /\ inserted'[i] = inserted[i]
  BY <1>2 DEF OrderTypes
<1>4. /\ inserted[o] <= 1
      /\ orders[o].state = "done" /\ ~IsTopup(o) => inserted[o] = 1
      /\ orders[o].state \in {"none", "checked", "pending", "canceled"} => inserted[o] = 0
  BY DEF OneSubscriptionPerOrder
<1>5. /\ n <= 1
      /\ w.state = "done" /\ ~IsTopup(o) => n = 1
      /\ w.state \in {"none", "checked", "pending", "canceled"} => n = 0
  BY <1>1, <1>4 DEF Change, Same, Places, Cancels, Remembers, Fills, Settles
<1>6. QED
  BY <1>2, <1>3, <1>4, <1>5 DEF OneSubscriptionPerOrder

\* A canceled row stays canceled without a subscription, and a payment that has
\* left its trace on a row, or found it deleted, is not forgotten.
LEMMA TouchesFinal ==
  ASSUME NEW o \in Orders, OrderTypes, Touches(o), \A i \in Orders : RowInv(i),
         NEW i \in Orders
  PROVE  /\ orders[i].state = "canceled" =>
              orders'[i].state = "canceled" /\ inserted'[i] = inserted[i]
         /\ Recorded(orders[i]) => Recorded(orders'[i])
         /\ orders[i].state \notin {"none", "checked"} =>
              orders'[i].state \notin {"none", "checked"}
<1>1. PICK w \in OrderRows, n \in Nat, usd \in Nat,
           ref \in Payments \cup {None}, c \in Channels \cup {None} :
         Writes(o, w, n, usd) /\ Link(o, ref, c) /\ Change(o, w, n, usd, ref, c)
  BY DEF Touches
<1>2. CASE i # o
  BY <1>1, <1>2 DEF Writes, OrderTypes, Recorded
<1>3. CASE i = o
  <2>1. orders'[i] = w /\ inserted'[i] = n
    BY <1>1, <1>3 DEF Writes, OrderTypes
  <2>2. QED
    BY <1>1, <1>3, <2>1
       DEF Change, Same, Places, Cancels, Remembers, Fills, Settles, Recorded, Or, SameColumns
<1>4. QED
  BY <1>2, <1>3

\* What an acknowledgment of p promises.
AckInv(p) == (ViaStripe(p) /\ payments[p].exact) => Recorded(orders[OrderOf(p)])

LEMMA AckInvAll == AcknowledgedIsRecorded <=> \A p \in acked : AckInv(p)
BY DEF AcknowledgedIsRecorded, AckInv, Recorded

\* All of IInv that speaks of orders and payments, and not of the hooks.
OrdersInv ==
  /\ OrderTypes
  /\ \A o \in Orders : RowInv(o)
  /\ \A p \in Payments : PaymentInv(p)
  /\ CreditedOnce /\ OneSubscriptionPerOrder /\ SettledIsEarned

LEMMA TouchesOrdersInv ==
  ASSUME NEW o \in Orders, OrdersInv, Touches(o), UNCHANGED payments
  PROVE  /\ OrdersInv'
         /\ \A p \in Payments : Started(p) /\ AckInv(p) => AckInv(p)'
<1>1. /\ OrderTypes /\ \A i \in Orders : RowInv(i)
      /\ \A p \in Payments : PaymentInv(p)
      /\ CreditedOnce /\ OneSubscriptionPerOrder
      /\ \A i \in Orders : Earned(i)
  BY DEF OrdersInv, SettledIsEarned
<1>2. OrderTypes'
  BY <1>1, TouchesTypes
<1>3. \A i \in Orders : RowInv(i)'
  BY <1>1, TouchesRowInv
<1>4. \A i \in Orders : Earned(i)'
  BY <1>1, TouchesEarned
<1>5. CreditedOnce' /\ OneSubscriptionPerOrder'
  BY <1>1, TouchesCredits, TouchesSubscriptions
<1>6. ASSUME NEW p \in Payments, Started(p)
      PROVE  PaymentInv(p)' /\ (AckInv(p) => AckInv(p)')
  <2>1. OrderOf(p) \in Orders /\ ChannelOf(p) \in Channels
        /\ orders[OrderOf(p)].state \notin {"none", "checked"}
    BY <1>1, <1>6 DEF PaymentInv
  <2>2. /\ Recorded(orders[OrderOf(p)]) => Recorded(orders'[OrderOf(p)])
        /\ orders'[OrderOf(p)].state \notin {"none", "checked"}
    BY <1>1, <2>1, TouchesFinal
  <2>3. QED
    BY <1>1, <1>6, <2>1, <2>2
       DEF PaymentInv, AckInv, ViaStripe, Recorded, NoCheckout, Reported
<1>7. \A p \in Payments : ~Started(p) => PaymentInv(p)'
  BY DEF PaymentInv, NoCheckout
<1>8. QED
  BY <1>2, <1>3, <1>4, <1>5, <1>6, <1>7 DEF OrdersInv, SettledIsEarned

-----------------------------------------------------------------------------
(* Which actions are Touches steps.                                        *)

LEMMA TopupTouches ==
  ASSUME NEW o \in Orders, OrdersInv, NEW p \in Payments, IsTopup(o),
         Link(o, p, ChannelOf(p)), MarkTopupOrderPaid(o, p), UNCHANGED inserted
  PROVE  Touches(o)
<1> DEFINE c == ChannelOf(p)
           e == orders[o]
<1>1. /\ e \in OrderRows /\ inserted[o] \in Nat /\ Owner[o] \in Users
      /\ balance[Owner[o]] \in Nat /\ Credit[o] \in Nat /\ c \in Channels
      /\ p # None
  BY OrdersAssumption, PaymentsAssumption DEF OrdersInv, OrderTypes, Link
<1>2. inserted' = [inserted EXCEPT ![o] = inserted[o]]
  BY DEF OrdersInv, OrderTypes
<1>3. CASE orders[o].state = "canceled"
  <2> DEFINE w == [e EXCEPT !.method = Or(@, "gateway"), !.ref = Or(@, p), !.channel = Or(@, c)]
  <2>1. w \in OrderRows /\ Remembers(e, w, p, c)
    BY <1>1, <1>3 DEF OrderRows, Remembers, Or
  <2>2. Writes(o, w, inserted[o], balance[Owner[o]])
    BY <1>1, <1>2, <1>3 DEF MarkTopupOrderPaid, Remember, Writes, OrdersInv, OrderTypes
  <2> HIDE DEF w
  <2>3. QED
    BY <1>1, <2>1, <2>2 DEF Touches, Change, Same
<1>4. CASE orders[o].state = "done"
  <2> DEFINE w == [e EXCEPT !.channel = Or(@, c)]
  <2>1. w \in OrderRows /\ Fills(e, w, c)
    BY <1>1, <1>4 DEF OrderRows, Fills, Or
  <2>2. Writes(o, w, inserted[o], balance[Owner[o]])
    BY <1>1, <1>2, <1>4 DEF MarkTopupOrderPaid, FillChannel, Writes, OrdersInv, OrderTypes
  <2> HIDE DEF w
  <2>3. QED
    BY <1>1, <2>1, <2>2 DEF Touches, Change, Same
<1>5. CASE orders[o].state = "pending"
  <2> DEFINE w == [e EXCEPT !.state = "done", !.method = "gateway", !.ref = p, !.channel = c]
  <2>1. w \in OrderRows /\ Settles(o, e, w, p, c)
    BY <1>1, <1>5 DEF OrderRows, Settles
  <2>2. Writes(o, w, inserted[o], balance[Owner[o]] + Credit[o])
    BY <1>1, <1>2, <1>5 DEF MarkTopupOrderPaid, Writes, OrdersInv, OrderTypes
  <2> HIDE DEF w
  <2>3. balance[Owner[o]] + Credit[o] \in Nat
    BY <1>1
  <2>4. QED
    BY <1>1, <2>1, <2>2, <2>3 DEF Touches, Change
<1>6. QED
  BY <1>3, <1>4, <1>5 DEF MarkTopupOrderPaid

LEMMA SubscriptionTouches ==
  ASSUME NEW o \in Orders, OrdersInv, ~IsTopup(o), NEW method \in {"webhook", "gateway"},
         NEW ref \in Payments \cup {None}, NEW c \in Channels \cup {None},
         Link(o, ref, c), ref = None => method = "webhook",
         MarkSubscriptionOrderPaidAndActivate(o, method, ref, c), UNCHANGED balance
  PROVE  Touches(o)
<1> DEFINE e == orders[o]
<1>1. /\ e \in OrderRows /\ inserted[o] \in Nat /\ inserted[o] + 1 \in Nat
      /\ Owner[o] \in Users /\ balance[Owner[o]] \in Nat
  BY OrdersAssumption DEF OrdersInv, OrderTypes
<1>2. balance' = [balance EXCEPT ![Owner[o]] = balance[Owner[o]]]
  BY DEF OrdersInv, OrderTypes
<1>3. CASE orders[o].state = "canceled"
  <2> DEFINE w == [e EXCEPT !.method = Or(@, method), !.ref = Or(@, ref), !.channel = Or(@, c)]
  <2>1. w \in OrderRows /\ Remembers(e, w, ref, c)
    BY <1>1, <1>3 DEF OrderRows, Remembers, Or
  <2>2. Writes(o, w, inserted[o], balance[Owner[o]])
    BY <1>1, <1>2, <1>3
       DEF MarkSubscriptionOrderPaidAndActivate, Remember, Writes, OrdersInv, OrderTypes,
           ActivationFails
  <2> HIDE DEF w
  <2>3. QED
    BY <1>1, <2>1, <2>2 DEF Touches, Change, Same
<1>4. CASE orders[o].state = "done"
  <2> DEFINE w == [e EXCEPT !.channel = Or(@, c)]
  <2>1. w \in OrderRows /\ Fills(e, w, c)
    BY <1>1, <1>4 DEF OrderRows, Fills, Or
  <2>2. Writes(o, w, inserted[o], balance[Owner[o]])
    BY <1>1, <1>2, <1>4
       DEF MarkSubscriptionOrderPaidAndActivate, FillChannel, Writes, OrdersInv, OrderTypes,
           ActivationFails
  <2> HIDE DEF w
  <2>3. QED
    BY <1>1, <2>1, <2>2 DEF Touches, Change, Same
<1>5. CASE orders[o].state = "pending" /\ PlanOn(o)
  <2> DEFINE w == [e EXCEPT !.state = "done", !.method = method, !.ref = ref,
                            !.channel = Or(@, c)]
  <2>1. e.channel = None
    BY <1>5 DEF OrdersInv, RowInv
  <2>2. w \in OrderRows /\ Settles(o, e, w, ref, c)
    BY <1>1, <1>5, <2>1 DEF OrderRows, Settles, Or
  <2>3. Writes(o, w, inserted[o] + 1, balance[Owner[o]])
    BY <1>1, <1>2, <1>5
       DEF MarkSubscriptionOrderPaidAndActivate, Writes, OrdersInv, OrderTypes, ActivationFails
  <2> HIDE DEF w
  <2>4. QED
    BY <1>1, <2>2, <2>3 DEF Touches, Change
<1>6. CASE UNCHANGED <<orders, inserted>>
  <2>1. Writes(o, e, inserted[o], balance[Owner[o]])
    BY <1>1, <1>2, <1>6 DEF Writes, OrdersInv, OrderTypes
  <2>2. QED
    BY <1>1, <2>1 DEF Touches, Change, Same
<1>7. QED
  BY <1>3, <1>4, <1>5, <1>6 DEF MarkSubscriptionOrderPaidAndActivate

\* What users and administrators do to one order.
Requested(o) ==
  \/ CreateTopupOrder(o) \/ CheckPlan(o) \/ InsertSubscriptionOrder(o)
  \/ CancelOrderByUser(o) \/ PaidBySystem(o)
  \/ ApproveSubscriptionOrder(o) \/ RejectSubscriptionOrder(o)

LEMMA RequestedTouches ==
  ASSUME NEW o \in Orders, OrdersInv, Requested(o)
  PROVE  Touches(o) /\ UNCHANGED gateways
<1> DEFINE e == orders[o]
<1>1. /\ e \in OrderRows /\ inserted[o] \in Nat /\ inserted[o] + 1 \in Nat
      /\ Owner[o] \in Users /\ balance[Owner[o]] \in Nat
      /\ RowInv(o) /\ Link(o, None, None)
  BY OrdersAssumption DEF OrdersInv, OrderTypes, Link
<1>2. ASSUME NEW st \in {"checked", "pending", "canceled"},
             orders' = [orders EXCEPT ![o].state = st], UNCHANGED requests,
             \/ e.state \in {"none", "checked"} /\ st # "canceled"
                  /\ (IsTopup(o) => st = "pending")
             \/ e.state \in {"pending", "canceled"} /\ st = "canceled"
      PROVE  Touches(o)
  <2> DEFINE w == [e EXCEPT !.state = st]
  <2>1. w \in OrderRows /\ w.state = st /\ SameColumns(e, w)
    BY <1>1 DEF OrderRows, SameColumns
  <2>2. Writes(o, w, inserted[o], balance[Owner[o]])
    BY <1>1, <1>2 DEF Writes, OrdersInv, OrderTypes, requests
  <2> HIDE DEF w
  <2>3. Places(o, e, w) \/ Cancels(e, w)
    BY <1>2, <2>1 DEF Places, Cancels
  <2>4. QED
    BY <1>1, <2>1, <2>2, <2>3 DEF Touches, Change, Same
<1>3. CASE CreateTopupOrder(o)
  BY <1>2, <1>3 DEF CreateTopupOrder, requests
<1>4. CASE CheckPlan(o)
  BY <1>2, <1>4 DEF CheckPlan, requests
<1>5. CASE InsertSubscriptionOrder(o)
  BY <1>1, <1>2, <1>5 DEF InsertSubscriptionOrder, requests
<1>6. CASE CancelOrderByUser(o)
  BY <1>2, <1>6 DEF CancelOrderByUser, requests
<1>7. CASE RejectSubscriptionOrder(o)
  BY <1>2, <1>7 DEF RejectSubscriptionOrder, requests
<1>8. CASE PaidBySystem(o)
  BY <1>1, <1>8, SubscriptionTouches DEF PaidBySystem
<1>9. CASE ApproveSubscriptionOrder(o)
  <2> DEFINE w == [e EXCEPT !.state = "done", !.approved = TRUE]
             n == IF e.state = "pending" THEN inserted[o] + 1 ELSE inserted[o]
  <2>1. w \in OrderRows /\ n \in Nat
    BY <1>1 DEF OrderRows
  <2>2. Writes(o, w, n, balance[Owner[o]]) /\ UNCHANGED gateways
    BY <1>1, <1>9 DEF ApproveSubscriptionOrder, Writes, OrdersInv, OrderTypes
  <2>3. CASE e.state = "pending"
    <3>1. Settles(o, e, w, None, None)
      BY <1>1, <1>9, <2>3 DEF Settles, RowInv, OrderRows, ApproveSubscriptionOrder
    <3>2. n = inserted[o] + 1 /\ ~IsTopup(o)
      BY <1>9, <2>3 DEF ApproveSubscriptionOrder
    <3> HIDE DEF w, n
    <3>3. QED
      BY <1>1, <2>1, <2>2, <3>1, <3>2 DEF Touches, Change
  <2>4. CASE e.state # "pending"
    <3>1. Fills(e, w, None)
      BY <1>1, <1>9, <2>4 DEF Fills, Or, OrderRows, ApproveSubscriptionOrder
    <3>2. n = inserted[o]
      BY <2>4
    <3> HIDE DEF w, n
    <3>3. QED
      BY <1>1, <2>1, <2>2, <3>1, <3>2 DEF Touches, Change, Same
  <2>5. QED
    BY <2>2, <2>3, <2>4
<1>10. UNCHANGED gateways
  BY DEF Requested, CreateTopupOrder, CheckPlan, InsertSubscriptionOrder, CancelOrderByUser,
         PaidBySystem, ApproveSubscriptionOrder, RejectSubscriptionOrder, requests
<1>11. QED
  BY <1>3, <1>4, <1>5, <1>6, <1>7, <1>8, <1>9, <1>10 DEF Requested

-----------------------------------------------------------------------------
(* IInv is inductive.                                                      *)

\* What IInv says of the gateways and their deliveries.
GatewayInv ==
  /\ plan \in [Plans -> {"on", "off", "deleted"}]
  /\ enabled \subseteq Channels
  /\ payments \in [Payments -> Checkouts]
  /\ hooks \in [Payments \X Deliveries -> {"idle", "received", "verified"}]
  /\ acked \subseteq {p \in Payments : Started(p)}
  /\ \A d \in Payments \X Deliveries : HookInv(d)
  /\ \A p \in acked : AckInv(p)

LEMMA IInvSplit == IInv <=> OrdersInv /\ GatewayInv
BY AckInvAll DEF IInv, OrdersInv, GatewayInv, TypeOK, OrderTypes

LEMMA InitIInv == Init => IInv
<1> SUFFICES ASSUME Init PROVE IInv
  OBVIOUS
<1>1. OrderTypes
  BY DEF Init, OrderTypes, OrderRows, NoOrder
<1>2. \A o \in Orders : RowInv(o) /\ Earned(o)
  BY DEF Init, RowInv, Earned, NoOrder
<1>3. \A p \in Payments : PaymentInv(p)
  BY DEF Init, PaymentInv
<1>4. OneSubscriptionPerOrder
  BY DEF Init, OneSubscriptionPerOrder, NoOrder
<1>5. CreditedOnce
  <2>1. \A u \in Users : PaidRows(u) = [i \in 1..NumOrders |-> 0]
    BY DEF Init, PaidRows, NoOrder
  <2>2. \A u \in Users : PaidBy(u) = 0
    BY <2>1, OrdersAssumption, TotalZero DEF PaidBy
  <2>3. QED
    BY <2>2 DEF Init, CreditedOnce
<1>6. GatewayInv
  BY DEF Init, GatewayInv, HookInv, Checkouts, NoCheckout
<1>7. QED
  BY <1>1, <1>2, <1>3, <1>4, <1>5, <1>6, IInvSplit DEF OrdersInv, SettledIsEarned

\* Requests leave the gateways alone, and forget no payment.
LEMMA RequestedIInv ==
  ASSUME NEW o \in Orders, IInv, Requested(o)
  PROVE  IInv'
<1>1. OrdersInv /\ GatewayInv
  BY IInvSplit
<1>2. Touches(o) /\ UNCHANGED gateways
  BY <1>1, RequestedTouches
<1>3. UNCHANGED <<plan, enabled, payments, hooks, acked>>
  BY <1>2 DEF gateways
<1>4. OrdersInv' /\ \A p \in Payments : Started(p) /\ AckInv(p) => AckInv(p)'
  BY <1>1, <1>2, <1>3, TouchesOrdersInv
<1>5. \A d \in Payments \X Deliveries : HookInv(d)'
  BY <1>1, <1>3 DEF GatewayInv, HookInv, NoCheckout, Reported, ViaStripe
<1>6. \A p \in acked' : AckInv(p)'
  BY <1>1, <1>3, <1>4 DEF GatewayInv
<1>7. GatewayInv'
  BY <1>1, <1>3, <1>5, <1>6 DEF GatewayInv, NoCheckout
<1>8. QED
  BY <1>4, <1>7, IInvSplit, PTL

\* A payment that starts, is completed or taken, finds its order past its creation;
\* what other payments established stays.
LEMMA PaymentsIInv ==
  ASSUME NEW p \in Payments, IInv,
         Complete(p) \/ Pay(p) \/ \E o \in Orders : StartPayment(p, o)
  PROVE  IInv'
<1>1. OrdersInv /\ GatewayInv
  BY IInvSplit
<1>2. UNCHANGED <<orders, balance, inserted, plan, enabled, hooks, acked>>
  BY DEF Complete, Pay, StartPayment
<1>3. PICK row \in Checkouts :
        /\ payments' = [payments EXCEPT ![p] = row]
        /\ row.order \in Orders /\ row.channel \in Channels
        /\ orders[row.order].state \notin {"none", "checked"}
        /\ row.complete => row.channel \in StripeChannels \/ row.taken
        /\ Started(p) => /\ row.order = OrderOf(p) /\ row.channel = ChannelOf(p)
                         /\ row.exact = payments[p].exact /\ row.complete = TRUE
  <2>1. CASE Complete(p) \/ Pay(p)
    <3>1. payments[p] \in Checkouts
      BY <1>1 DEF GatewayInv
    <3>2. Started(p) /\ PaymentInv(p)
      BY <1>1, <2>1 DEF OrdersInv, Complete, Pay, NoCheckout
    <3>3. PICK taken \in BOOLEAN :
            /\ ViaStripe(p) \/ taken
            /\ payments' = [payments EXCEPT ![p] =
                    [payments[p] EXCEPT !.complete = TRUE, !.taken = taken]]
      <4>1. CASE Complete(p)
        BY <1>1, <4>1 DEF Complete, GatewayInv
      <4>2. CASE Pay(p)
        <5>1. payments[p].complete = TRUE
          BY <3>1, <4>2 DEF Pay, Checkouts
        <5>2. [payments[p] EXCEPT !.taken = TRUE]
                = [payments[p] EXCEPT !.complete = TRUE, !.taken = TRUE]
          BY <3>1, <5>1 DEF Checkouts
        <5>3. payments' = [payments EXCEPT ![p] = [payments[p] EXCEPT !.taken = TRUE]]
          BY <1>1, <4>2 DEF Pay, GatewayInv
        <5>4. QED
          BY <5>2, <5>3
      <4>3. QED
        BY <2>1, <4>1, <4>2
    <3> DEFINE row == [payments[p] EXCEPT !.complete = TRUE, !.taken = taken]
    <3>4. /\ row \in Checkouts /\ row.order = OrderOf(p) /\ row.channel = ChannelOf(p)
          /\ row.exact = payments[p].exact /\ row.complete = TRUE /\ row.taken = taken
      BY <3>1 DEF Checkouts
    <3>5. payments' = [payments EXCEPT ![p] = row]
      BY <3>3
    <3> HIDE DEF row
    <3>6. row.channel \in StripeChannels \/ row.taken
      BY <3>3, <3>4 DEF ViaStripe
    <3>7. QED
      BY <3>2, <3>4, <3>5, <3>6 DEF PaymentInv
  <2>2. CASE \E o \in Orders : StartPayment(p, o)
    <3>1. PICK o \in Orders, c \in enabled, exact \in BOOLEAN : \E a \in Accounts(c) :
            /\ payments' = [payments EXCEPT ![p] =
                    [order |-> o, channel |-> a, exact |-> exact,
                     complete |-> FALSE, taken |-> FALSE]]
            /\ orders[o].state = "pending" /\ ~Started(p)
      BY <2>2 DEF StartPayment
    <3>2. PICK a \in Accounts(c) :
            payments' = [payments EXCEPT ![p] =
                    [order |-> o, channel |-> a, exact |-> exact,
                     complete |-> FALSE, taken |-> FALSE]]
      BY <3>1
    <3>3. a \in Channels
      BY <1>1, PaymentsAssumption DEF Accounts, GatewayInv
    <3> DEFINE row == [order |-> o, channel |-> a, exact |-> exact,
                       complete |-> FALSE, taken |-> FALSE]
    <3>4. row \in Checkouts /\ row.order = o /\ row.channel = a /\ row.complete = FALSE
      BY <3>3 DEF Checkouts
    <3>5. payments' = [payments EXCEPT ![p] = row]
      BY <3>2
    <3> HIDE DEF row
    <3>6. QED
      BY <3>1, <3>3, <3>4, <3>5
  <2>3. QED
    BY <2>1, <2>2
<1>4. payments' \in [Payments -> Checkouts] /\ payments'[p] = row
      /\ \A q \in Payments : q # p => payments'[q] = payments[q]
  BY <1>1, <1>3 DEF GatewayInv
<1>5. \A q \in Payments : Started(q) =>
        /\ Started(q)' /\ OrderOf(q)' = OrderOf(q) /\ ChannelOf(q)' = ChannelOf(q)
        /\ payments'[q].exact = payments[q].exact
        /\ Reported(q) => Reported(q)'
  <2>1. row # NoCheckout
    <3>1. NoCheckout.order = 0
      BY DEF NoCheckout
    <3>2. row.order # 0
      BY <1>3, OrdersAssumption
    <3>3. QED
      BY <3>1, <3>2
  <2>2. ASSUME NEW q \in Payments, Started(q), q # p PROVE payments'[q] = payments[q]
    BY <1>4, <2>2
  <2>3. QED
    BY <1>3, <1>4, <2>1, <2>2 DEF NoCheckout, Reported, ViaStripe
<1>6. \A q \in Payments : PaymentInv(q)'
  <2>1. PaymentInv(p)'
    BY <1>2, <1>3, <1>4 DEF PaymentInv, Reported, ViaStripe, NoCheckout
  <2>2. \A q \in Payments : q # p => PaymentInv(q)'
    BY <1>1, <1>2, <1>4 DEF OrdersInv, PaymentInv, NoCheckout, Reported, ViaStripe
  <2>3. QED
    BY <2>1, <2>2
<1>7. \A o \in Orders : Earned(o)'
  <2>1. ASSUME NEW o \in Orders PROVE Earned(o)'
    <3>1. Earned(o) /\ orders[o] \in OrderRows /\ orders'[o] = orders[o]
      BY <1>1, <1>2 DEF OrdersInv, SettledIsEarned, OrderTypes
    <3>2. orders[o].ref # None => orders[o].ref \in Payments
      BY <3>1 DEF OrderRows
    <3>3. QED
      BY <3>1, <3>2, <1>5 DEF Earned
  <2>2. QED
    BY <2>1
<1>8. OrdersInv'
  <2>1. CreditedOnce' /\ OneSubscriptionPerOrder' /\ OrderTypes'
    BY <1>1, <1>2 DEF OrdersInv, CreditedOnce, OneSubscriptionPerOrder, PaidBy, PaidRows,
                      OrderTypes
  <2>2. \A o \in Orders : RowInv(o)'
    BY <1>1, <1>2 DEF OrdersInv, RowInv
  <2>3. QED
    BY <1>6, <1>7, <2>1, <2>2 DEF OrdersInv, SettledIsEarned
<1>9. \A d \in Payments \X Deliveries : HookInv(d)'
  <2>1. ASSUME NEW d \in Payments \X Deliveries PROVE HookInv(d)'
    <3>1. HookInv(d) /\ d[1] \in Payments /\ hooks'[d] = hooks[d]
      BY <1>1, <1>2 DEF GatewayInv
    <3>2. QED
      BY <3>1, <1>5 DEF HookInv
  <2>2. QED
    BY <2>1
<1>10. \A q \in acked' : q \in Payments /\ Started(q)' /\ AckInv(q)'
  BY <1>1, <1>2, <1>5 DEF GatewayInv, AckInv, ViaStripe, Recorded
<1>11. GatewayInv'
  BY <1>1, <1>2, <1>4, <1>9, <1>10 DEF GatewayInv
<1>12. QED
  BY <1>8, <1>11, IInvSplit, PTL

\* An answer moves one hook to idle and acknowledges no other payment.
LEMMA AnswerMoves ==
  ASSUME NEW d \in Payments \X Deliveries, GatewayInv, Answer(d) \/ AnswerError(d)
  PROVE  /\ hooks' = [hooks EXCEPT ![d] = "idle"]
         /\ acked' \in {acked, acked \cup {d[1]}}
BY DEF Answer, AnswerError, Move

\* A delivery's step that moves its hook, with the orders' part already shown.
LEMMA HookStepIInv ==
  ASSUME NEW d \in Payments \X Deliveries, IInv, OrdersInv',
         UNCHANGED <<plan, enabled, payments>>,
         \A p \in Payments : Started(p) /\ AckInv(p) => AckInv(p)',
         NEW to \in {"idle", "received", "verified"},
         hooks' = [hooks EXCEPT ![d] = to],
         to # "idle" => Started(d[1]) /\ Reported(d[1]),
         to = "verified" => payments[d[1]].exact,
         \/ acked' = acked
         \/ acked' = acked \cup {d[1]} /\ Started(d[1]) /\ AckInv(d[1])'
  PROVE  IInv'
<1>1. OrdersInv /\ GatewayInv
  BY IInvSplit
<1>2. hooks' \in [Payments \X Deliveries -> {"idle", "received", "verified"}]
      /\ hooks'[d] = to
      /\ \A e \in Payments \X Deliveries : e # d => hooks'[e] = hooks[e]
  BY <1>1 DEF GatewayInv
<1>3. ASSUME NEW e \in Payments \X Deliveries PROVE HookInv(e)'
  <2>1. HookInv(e) /\ payments' = payments
    BY <1>1 DEF GatewayInv
  <2>2. CASE e = d
    BY <1>2, <2>1, <2>2 DEF HookInv, NoCheckout, Reported, ViaStripe
  <2>3. CASE e # d
    BY <1>2, <2>1, <2>3 DEF HookInv, NoCheckout, Reported, ViaStripe
  <2>4. QED
    BY <2>2, <2>3
<1>4. d[1] \in Payments
  OBVIOUS
<1>5. \A p \in acked' : p \in Payments /\ Started(p) /\ AckInv(p)'
  BY <1>1, <1>4 DEF GatewayInv
<1>6. \A p \in acked' : Started(p)'
  BY <1>5 DEF NoCheckout
<1>7. GatewayInv'
  BY <1>1, <1>2, <1>3, <1>5, <1>6 DEF GatewayInv
<1>8. QED
  BY <1>7, IInvSplit, PTL

\* What a payment leaves behind on its order: a trace, unless the activation failed.
LEMMA TopupRecorded ==
  ASSUME NEW o \in Orders, OrderTypes, NEW p \in Payments, ChannelOf(p) \in Channels,
         MarkTopupOrderPaid(o, p)
  PROVE  Recorded(orders'[o])
<1>1. orders[o] \in OrderRows /\ orders \in [Orders -> OrderRows] /\ ChannelOf(p) # None
  BY PaymentsAssumption DEF OrderTypes
<1>2. CASE orders[o].state = "canceled"
  BY <1>1, <1>2 DEF MarkTopupOrderPaid, Remember, Or, Recorded, OrderRows
<1>3. CASE orders[o].state = "done"
  BY <1>1, <1>3 DEF MarkTopupOrderPaid, FillChannel, Or, Recorded, OrderRows
<1>4. CASE orders[o].state = "pending"
  BY <1>1, <1>4 DEF MarkTopupOrderPaid, Recorded, OrderRows
<1>5. QED
  BY <1>2, <1>3, <1>4 DEF MarkTopupOrderPaid

LEMMA SubscriptionRecorded ==
  ASSUME NEW o \in Orders, OrderTypes, NEW method, NEW ref, NEW c \in Channels,
         MarkSubscriptionOrderPaidAndActivate(o, method, ref, c)
  PROVE  Recorded(orders'[o]) \/ ActivationFails(o)
<1>1. orders[o] \in OrderRows /\ orders \in [Orders -> OrderRows] /\ c # None
  BY PaymentsAssumption DEF OrderTypes
<1>2. CASE orders[o].state = "canceled"
  BY <1>1, <1>2
     DEF MarkSubscriptionOrderPaidAndActivate, Remember, Or, Recorded, OrderRows, ActivationFails
<1>3. CASE orders[o].state = "done"
  BY <1>1, <1>3
     DEF MarkSubscriptionOrderPaidAndActivate, FillChannel, Or, Recorded, OrderRows,
         ActivationFails
<1>4. CASE orders[o].state = "pending" /\ PlanOn(o)
  BY <1>1, <1>4
     DEF MarkSubscriptionOrderPaidAndActivate, Or, Recorded, OrderRows, ActivationFails
<1>5. CASE orders[o].state = "deleted"
  BY <1>1, <1>5 DEF MarkSubscriptionOrderPaidAndActivate, Recorded, ActivationFails
<1>6. QED
  BY <1>2, <1>3, <1>4, <1>5 DEF MarkSubscriptionOrderPaidAndActivate, ActivationFails

\* The payment a verified delivery reports is one for its order, in its amount.
LEMMA MarkPaidTouches ==
  ASSUME NEW d \in Payments \X Deliveries, IInv, MarkPaid(d)
  PROVE  Touches(OrderOf(d[1]))
<1> DEFINE p == d[1]
           o == OrderOf(p)
           c == ChannelOf(p)
<1>1. OrdersInv /\ GatewayInv
  BY IInvSplit
<1>2. p \in Payments /\ Started(p) /\ Reported(p) /\ payments[p].exact
  BY <1>1 DEF GatewayInv, HookInv, MarkPaid
<1>3. o \in Orders /\ c \in Channels /\ orders[o].state \notin {"none", "checked"}
      /\ p # None /\ c # None /\ p \in Payments \cup {None} /\ c \in Channels \cup {None}
  BY <1>1, <1>2, PaymentsAssumption DEF OrdersInv, PaymentInv
<1>4. Link(o, p, c)
  BY <1>2, <1>3 DEF Link
<1>5. IF IsTopup(o)
      THEN MarkTopupOrderPaid(o, p) /\ UNCHANGED inserted
      ELSE MarkSubscriptionOrderPaidAndActivate(o, "gateway", p, c) /\ UNCHANGED balance
  BY DEF MarkPaid
<1>6. Touches(o)
  <2>1. CASE IsTopup(o)
    BY <1>1, <1>2, <1>3, <1>4, <1>5, <2>1, TopupTouches
  <2>2. CASE ~IsTopup(o)
    <3>1. MarkSubscriptionOrderPaidAndActivate(o, "gateway", p, c) /\ UNCHANGED balance
      BY <1>5, <2>2
    <3> HIDE DEF p, o, c
    <3>2. "gateway" \in {"webhook", "gateway"}
      OBVIOUS
    <3>3. QED
      BY <1>1, <1>3, <1>4, <2>2, <3>1, <3>2, SubscriptionTouches
  <2>3. QED
    BY <2>1, <2>2
<1>7. QED
  BY <1>6

LEMMA MarkPaidIInv ==
  ASSUME NEW d \in Payments \X Deliveries, IInv, MarkPaid(d)
  PROVE  IInv'
<1> DEFINE p == d[1]
           o == OrderOf(p)
           c == ChannelOf(p)
<1>1. OrdersInv /\ GatewayInv
  BY IInvSplit
<1>2. p \in Payments /\ Started(p) /\ Reported(p) /\ payments[p].exact
  BY <1>1 DEF GatewayInv, HookInv, MarkPaid
<1>3. o \in Orders /\ c \in Channels /\ orders[o].state \notin {"none", "checked"}
      /\ p # None /\ c # None /\ p \in Payments \cup {None} /\ c \in Channels \cup {None}
  BY <1>1, <1>2, PaymentsAssumption DEF OrdersInv, PaymentInv
<1>4. UNCHANGED <<plan, enabled, payments>>
  BY DEF MarkPaid
<1>5. IF IsTopup(o)
      THEN MarkTopupOrderPaid(o, p) /\ UNCHANGED inserted
      ELSE MarkSubscriptionOrderPaidAndActivate(o, "gateway", p, c) /\ UNCHANGED balance
  BY DEF MarkPaid
<1>6. Touches(o)
  BY MarkPaidTouches
<1>7. OrdersInv' /\ \A q \in Payments : Started(q) /\ AckInv(q) => AckInv(q)'
  BY <1>1, <1>3, <1>4, <1>6, TouchesOrdersInv
<1>8. Recorded(orders'[o]) \/ (~IsTopup(o) /\ ActivationFails(o))
  <2>1. OrderTypes
    BY <1>1 DEF OrdersInv
  <2>2. CASE IsTopup(o)
    BY <1>2, <1>3, <1>5, <2>1, <2>2, TopupRecorded
  <2>3. CASE ~IsTopup(o)
    <3>1. MarkSubscriptionOrderPaidAndActivate(o, "gateway", p, c)
      BY <1>5, <2>3
    <3> HIDE DEF p, o, c
    <3>2. QED
      BY <1>3, <2>1, <2>3, <3>1, SubscriptionRecorded
  <2>4. QED
    BY <2>2, <2>3
<1>9. hooks' = [hooks EXCEPT ![d] = "idle"] /\ acked' \in {acked, acked \cup {p}}
  BY <1>1, AnswerMoves DEF MarkPaid
<1>10. acked' = acked \/ (acked' = acked \cup {p} /\ AckInv(p)')
  <2>1. CASE Recorded(orders'[o])
    BY <1>4, <1>9, <2>1 DEF AckInv, ViaStripe
  <2>2. CASE ~IsTopup(o) /\ ActivationFails(o)
    <3>1. AnswerError(d)
      BY <2>2 DEF MarkPaid
    <3>2. CASE ViaStripe(p)
      BY <3>1, <3>2 DEF AnswerError
    <3>3. CASE ~ViaStripe(p)
      BY <1>4, <1>9, <3>3 DEF AckInv, ViaStripe, NoCheckout
    <3>4. QED
      BY <3>2, <3>3
  <2>3. QED
    BY <1>8, <2>1, <2>2
<1>11. QED
  BY <1>2, <1>4, <1>7, <1>9, <1>10, HookStepIInv

LEMMA DeliveryIInv ==
  ASSUME NEW d \in Payments \X Deliveries, IInv,
         Receive(d) \/ VerifyAmount(d) \/ HookFails(d)
  PROVE  IInv'
<1> DEFINE p == d[1]
<1>1. OrdersInv /\ GatewayInv
  BY IInvSplit
<1>2. UNCHANGED <<orders, balance, inserted, plan, enabled, payments>>
  BY DEF Receive, VerifyAmount, HookFails
<1>3. OrdersInv'
  BY <1>1, <1>2 DEF OrdersInv, OrderTypes, RowInv, PaymentInv, NoCheckout, CreditedOnce, PaidBy,
                    PaidRows, OneSubscriptionPerOrder, SettledIsEarned, Earned, Reported,
                    ViaStripe
<1>4. \A q \in Payments : AckInv(q) <=> AckInv(q)'
  BY <1>2 DEF AckInv, ViaStripe, NoCheckout, Recorded
<1>5. p \in Payments /\ HookInv(d)
  BY <1>1 DEF GatewayInv
<1>6. CASE Receive(d)
  <2>1. hooks' = [hooks EXCEPT ![d] = "received"] /\ acked' = acked
        /\ Started(p) /\ Reported(p)
    BY <1>1, <1>6 DEF Receive, Move, OrdersInv, PaymentInv
  <2>2. QED
    BY <1>2, <1>3, <1>4, <2>1, HookStepIInv
<1>7. CASE VerifyAmount(d)
  <2>1. Started(p) /\ Reported(p)
    BY <1>5, <1>7 DEF VerifyAmount, HookInv
  <2>2. CASE orders[OrderOf(p)].state # "deleted" /\ payments[p].exact
    <3>1. hooks' = [hooks EXCEPT ![d] = "verified"] /\ acked' = acked
      BY <1>7, <2>2 DEF VerifyAmount, Move
    <3>2. QED
      BY <1>2, <1>3, <1>4, <2>1, <2>2, <3>1, HookStepIInv
  <2>3. CASE ~(orders[OrderOf(p)].state # "deleted" /\ payments[p].exact)
    <3>1. Answer(d)
      BY <1>7, <2>3 DEF VerifyAmount
    <3>2. hooks' = [hooks EXCEPT ![d] = "idle"] /\ acked' \in {acked, acked \cup {p}}
      BY <1>1, <3>1, AnswerMoves
    <3>3. AckInv(p)
      BY <2>3 DEF AckInv, Recorded
    <3>4. QED
      BY <1>2, <1>3, <1>4, <1>5, <2>1, <3>2, <3>3, HookStepIInv
  <2>4. QED
    BY <2>2, <2>3
<1>8. CASE HookFails(d)
  <2>1. Started(p)
    BY <1>5, <1>8 DEF HookFails, HookInv
  <2>2. hooks' = [hooks EXCEPT ![d] = "idle"] /\ acked' \in {acked, acked \cup {p}}
    BY <1>1, <1>8, AnswerMoves DEF HookFails
  <2>3. acked' = acked \/ (acked' = acked \cup {p} /\ AckInv(p))
    <3>1. CASE ViaStripe(p)
      BY <1>8, <3>1 DEF HookFails, AnswerError
    <3>2. CASE ~ViaStripe(p)
      BY <2>2, <3>2 DEF AckInv
    <3>3. QED
      BY <3>1, <3>2
  <2>4. QED
    BY <1>2, <1>3, <1>4, <1>5, <2>1, <2>2, <2>3, HookStepIInv
<1>9. QED
  BY <1>6, <1>7, <1>8

\* A deletion only empties rows of subscriptions, which no sum counts, no column
\* speaks for and no acknowledgment is about any more.
LEMMA DeletePlanIInv ==
  ASSUME NEW q \in Plans, IInv, DeleteSubscriptionPlan(q)
  PROVE  /\ IInv'
         /\ \A o \in Orders : orders[o].state = "canceled" =>
               orders'[o].state \in {"canceled", "deleted"} /\ inserted'[o] = inserted[o]
<1>1. OrdersInv /\ GatewayInv
  BY IInvSplit
<1>2. UNCHANGED <<balance, inserted, enabled, payments, hooks, acked>>
      /\ plan' = [plan EXCEPT ![q] = "deleted"]
  BY DEF DeleteSubscriptionPlan
<1> DEFINE gone == [NoOrder EXCEPT !.state = "deleted"]
<1>3. /\ gone \in OrderRows /\ gone.state = "deleted" /\ gone.ref = None
      /\ gone.channel = None
  BY DEF OrderRows, NoOrder
<1>4. /\ \A o \in Orders : \/ orders'[o] = orders[o]
                           \/ /\ ~IsTopup(o) /\ orders'[o] = gone
                              /\ orders[o].state \in {"pending", "done", "canceled"}
      /\ \E f : orders' = [o \in Orders |-> f[o]]
  <2> DEFINE row(o) == IF /\ ~IsTopup(o) /\ PlanOf[o] = q
                          /\ orders[o].state \in {"pending", "done", "canceled"}
                       THEN gone ELSE orders[o]
             f == [o \in Orders |-> row(o)]
  <2>1. orders' = f
    BY DEF DeleteSubscriptionPlan
  <2>2. \A o \in Orders : f[o] = row(o)
    OBVIOUS
  <2>3. f = [o \in Orders |-> f[o]]
    OBVIOUS
  <2> HIDE DEF f, gone
  <2>4. QED
    BY <2>1, <2>2, <2>3
<1> HIDE DEF gone
<1>5. OrderTypes'
  BY <1>1, <1>2, <1>3, <1>4 DEF OrdersInv, OrderTypes
<1>6. \A o \in Orders : RowInv(o)'
  BY <1>1, <1>3, <1>4 DEF OrdersInv, RowInv
<1>7. \A p \in Payments : PaymentInv(p)'
  BY <1>1, <1>2, <1>3, <1>4 DEF OrdersInv, PaymentInv, NoCheckout, Reported, ViaStripe
<1>8. CreditedOnce'
  <2>1. ASSUME NEW u \in Users PROVE PaidRows(u)' = PaidRows(u)
    BY <1>3, <1>4 DEF PaidRows
  <2>2. QED
    BY <1>1, <1>2, <2>1 DEF OrdersInv, CreditedOnce, PaidBy
<1>9. OneSubscriptionPerOrder'
  BY <1>1, <1>2, <1>3, <1>4 DEF OrdersInv, OneSubscriptionPerOrder
<1>10. ASSUME NEW o \in Orders PROVE Earned(o)'
  <2>1. Earned(o)
    BY <1>1 DEF OrdersInv, SettledIsEarned
  <2>2. CASE orders'[o] = orders[o]
    BY <1>2, <2>1, <2>2 DEF Earned, NoCheckout, Reported, ViaStripe
  <2>3. CASE orders'[o] = gone
    BY <1>3, <2>3 DEF Earned
  <2>4. QED
    BY <1>4, <2>2, <2>3
<1>11. OrdersInv'
  BY <1>5, <1>6, <1>7, <1>8, <1>9, <1>10 DEF OrdersInv, SettledIsEarned
<1>12. ASSUME NEW p \in acked PROVE AckInv(p)'
  <2>1. p \in Payments /\ AckInv(p) /\ Started(p) /\ PaymentInv(p)
    BY <1>1 DEF GatewayInv, OrdersInv
  <2>2. OrderOf(p) \in Orders
    BY <2>1 DEF PaymentInv
  <2>3. CASE orders'[OrderOf(p)] = orders[OrderOf(p)]
    BY <1>2, <2>1, <2>3 DEF AckInv, ViaStripe, Recorded, NoCheckout
  <2>4. CASE orders'[OrderOf(p)] = gone
    BY <1>2, <1>3, <2>4 DEF AckInv, Recorded
  <2>5. QED
    BY <1>4, <2>2, <2>3, <2>4
<1>13. GatewayInv'
  <2>1. \A d \in Payments \X Deliveries : HookInv(d)'
    BY <1>1, <1>2 DEF GatewayInv, HookInv, NoCheckout, Reported, ViaStripe
  <2>2. \A p \in acked' : AckInv(p)'
    BY <1>2, <1>12
  <2>3. QED
    BY <1>1, <1>2, <2>1, <2>2 DEF GatewayInv, NoCheckout
<1>14. IInv'
  BY <1>11, <1>13, IInvSplit, PTL
<1>15. QED
  BY <1>2, <1>3, <1>4, <1>14

LEMMA SwitchIInv ==
  ASSUME IInv,
         UNCHANGED vars \/ (\E q \in Plans : UpdatePlanStatus(q))
                        \/ (\E c \in Channels : UpdatePaymentChannel(c))
  PROVE  IInv'
<1>1. OrdersInv /\ GatewayInv
  BY IInvSplit
<1>2. UNCHANGED <<orders, balance, inserted, payments, hooks, acked>>
  BY DEF UpdatePlanStatus, UpdatePaymentChannel, vars
<1>3. plan' \in [Plans -> {"on", "off", "deleted"}] /\ enabled' \subseteq Channels
  BY <1>1 DEF UpdatePlanStatus, UpdatePaymentChannel, vars, GatewayInv
<1>4. OrdersInv'
  BY <1>1, <1>2 DEF OrdersInv, OrderTypes, RowInv, PaymentInv, NoCheckout, CreditedOnce, PaidBy,
                    PaidRows, OneSubscriptionPerOrder, SettledIsEarned, Earned, Reported,
                    ViaStripe
<1>5. GatewayInv'
  BY <1>1, <1>2, <1>3 DEF GatewayInv, HookInv, NoCheckout, AckInv, ViaStripe, Recorded, Reported
<1>6. QED
  BY <1>4, <1>5, IInvSplit, PTL

LEMMA NextIInv == IInv /\ [Next]_vars => IInv'
<1> SUFFICES ASSUME IInv, [Next]_vars PROVE IInv'
  OBVIOUS
<1>1. ASSUME NEW o \in Orders, Requested(o) PROVE IInv'
  BY <1>1, RequestedIInv
<1>2. ASSUME NEW p \in Payments,
             Complete(p) \/ Pay(p) \/ \E o \in Orders : StartPayment(p, o)
      PROVE  IInv'
  BY <1>2, PaymentsIInv
<1>3. ASSUME NEW d \in Payments \X Deliveries, Receive(d) \/ VerifyAmount(d) \/ HookFails(d)
      PROVE  IInv'
  BY <1>3, DeliveryIInv
<1>4. ASSUME NEW d \in Payments \X Deliveries, MarkPaid(d) PROVE IInv'
  BY <1>4, MarkPaidIInv
<1>5. ASSUME NEW q \in Plans, DeleteSubscriptionPlan(q) PROVE IInv'
  BY <1>5, DeletePlanIInv
<1>6. QED
  BY <1>1, <1>2, <1>3, <1>4, <1>5, SwitchIInv DEF Next, Requested

-----------------------------------------------------------------------------
(* The theorems.                                                           *)

\* In every reachable state the inductive invariant holds: the tables and the
\* gateways' view of them agree (topup_orders.go, subscription_orders.go,
\* payment_webhooks.go).
THEOREM Inductive == Spec => []IInv
BY InitIInv, NextIInv, PTL DEF Spec

\* MarkTopupOrderPaid credits each paid order once, whatever was delivered twice,
\* at once, late or never acknowledged.
THEOREM CreditsAreExact == Spec => []CreditedOnce
<1>1. IInv => CreditedOnce
  BY DEF IInv
<1>2. QED
  BY <1>1, Inductive, PTL

\* Payments, the operator's callback and approvals insert one subscription for an
\* order between them (MarkSubscriptionOrderPaidAndActivate,
\* ApproveSubscriptionOrderAndDelete).
THEOREM OneSubscription == Spec => []OneSubscriptionPerOrder
<1>1. IInv => OneSubscriptionPerOrder
  BY DEF IInv
<1>2. QED
  BY <1>1, Inductive, PTL

\* No order is settled but by a checkout of its own amount that its gateway reported,
\* paid or not (payment_webhooks.go:127), or by somebody's word, and
\* its payment columns never mix two payments.
THEOREM NothingUnearned == Spec => []SettledIsEarned
<1>1. IInv => SettledIsEarned
  BY DEF IInv
<1>2. QED
  BY <1>1, Inductive, PTL

\* A payment Stripe saw acknowledged is settled, or can be traced for a refund,
\* unless the plan was deleted with its orders.
THEOREM NoPaymentLost == Spec => []AcknowledgedIsRecorded
<1>1. IInv => AcknowledgedIsRecorded
  BY DEF IInv
<1>2. QED
  BY <1>1, Inductive, PTL

\* No step takes an order out of "canceled" but the deletion of its plan.
THEOREM CancellationFinal == Spec => CanceledIsFinal
<1> DEFINE Final == \A o \in Orders : orders[o].state = "canceled" =>
                      /\ orders'[o].state \in {"canceled", "deleted"}
                      /\ inserted'[o] = inserted[o]
<1>1. IInv /\ [Next]_vars => [Final]_vars
  <2> SUFFICES ASSUME IInv, [Next]_vars PROVE [Final]_vars
    OBVIOUS
  <2>1. OrdersInv /\ GatewayInv /\ OrderTypes /\ \A i \in Orders : RowInv(i)
    BY IInvSplit DEF OrdersInv
  <2>2. ASSUME NEW o \in Orders, Touches(o) PROVE Final
    BY <2>1, <2>2, TouchesFinal
  <2>3. ASSUME NEW o \in Orders, Requested(o) PROVE Final
    BY <2>1, <2>2, <2>3, RequestedTouches
  <2>4. ASSUME NEW d \in Payments \X Deliveries, MarkPaid(d) PROVE Final
    <3>1. Touches(OrderOf(d[1])) /\ OrderOf(d[1]) \in Orders
      BY <2>4, <2>1, MarkPaidTouches DEF GatewayInv, HookInv, MarkPaid, OrdersInv, PaymentInv
    <3>2. QED
      BY <2>2, <3>1
  <2>5. ASSUME NEW q \in Plans, DeleteSubscriptionPlan(q) PROVE Final
    BY <2>5, DeletePlanIInv
  <2>6. ASSUME UNCHANGED <<orders, inserted>> PROVE Final
    BY <2>6
  <2> HIDE DEF Final
  <2>7. QED
    BY <2>3, <2>4, <2>5, <2>6
       DEF Next, Requested, StartPayment, Complete, Pay, Receive, VerifyAmount, HookFails,
           UpdatePlanStatus, UpdatePaymentChannel, vars
<1>2. QED
  BY <1>1, Inductive, PTL DEF Spec, CanceledIsFinal

=============================================================================
