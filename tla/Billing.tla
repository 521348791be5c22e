------------------------------- MODULE Billing -------------------------------
(***************************************************************************)
(* The money path of one relay request: reserve, then commit or void, with *)
(* the expiry loop as the safety net behind both.                          *)
(*                                                                         *)
(*   internal/store/usage.go, usage_balance.go, user_balances.go  (tables) *)
(*   internal/store/subscriptions.go                         (plan delete) *)
(*   internal/quota/{policy,hybrid,subscription,free}.go       (providers) *)
(*   internal/api/openai/handler.go                 (the callers, per pc)  *)
(*                                                                         *)
(* A database transaction is one action (SQLite runs on one connection,    *)
(* MySQL reads the rows it changes FOR UPDATE); two statements outside a   *)
(* transaction are two actions.  Money is an integer (micro-USD).          *)
(* Request r writes the usage_events row r: the handlers reserve once.     *)
(***************************************************************************)
EXTENDS Integers, FiniteSums

\* Definitions marked "Mutant of X" are plausible bugs in X; no specification
\* uses them.  They show that the properties below notice such a bug.

CONSTANTS
    NumRequests,     \* how many relay requests arrive
    Users,
    Owner,           \* Owner[r]: the user whose token request r carries
    Subs,            \* ids of user_subscriptions rows
    Sub,             \* Sub[s]: [user, plan, start, end]
    Plans,           \* ids of subscription_plans rows
    PlanLimit,       \* PlanLimit[p][w]: USD limit of window w, 0 = no limit
    Windows,         \* window lengths (the code's 5h, 1d, 7d, 30d)
    Estimates,       \* what a request may be estimated at before it runs
    Charges,         \* what a request may turn out to cost
    Credits,         \* amounts an administrator may add to a balance
    DefaultReserve,  \* defaultReserveUSD, for requests without an estimate
    ReserveTTL,
    Modes,           \* quota providers the feature switch may select
    Deletable,       \* plans an administrator may delete
    Horizon,         \* bound: last value of the clock
    MaxCredited      \* bound: what one user is credited in all

Requests == 1..NumRequests
NoSub == 0           \* subscription_id IS NULL

ASSUME RequestsAssumption == NumRequests \in Nat
ASSUME OwnerAssumption == Owner \in [Requests -> Users]
ASSUME SubsAssumption ==
    /\ Subs \subseteq Nat \ {NoSub}
    /\ Sub \in [Subs -> [user: Users, plan: Plans, start: Nat, end: Nat]]
    /\ Windows \subseteq Nat
    /\ PlanLimit \in [Plans -> [Windows -> Nat]]
ASSUME AmountsAssumption ==
    /\ Estimates \subseteq Nat
    /\ Charges \subseteq Nat
    /\ Credits \subseteq Nat \ {0}
    /\ DefaultReserve \in Nat \ {0}
ASSUME TimeAssumption == ReserveTTL \in Nat /\ Horizon \in Nat
ASSUME AdminAssumption ==
    /\ Modes \subseteq {"normal", "free"}
    /\ Deletable \subseteq Plans
    /\ MaxCredited \in Nat

VARIABLES
    events,    \* the usage_events table
    balance,   \* user_balances.usd
    plans,     \* the subscription_plans that still exist
    mode,      \* the provider feature_disable_billing selects
    now,
    pc,        \* where the handler of each request is
    local,     \* what that handler remembers between two statements
    credited,  \* history: what each user was ever credited
    funding    \* history: who paid when the row was inserted

tables == <<events, balance, plans>>
vars == <<events, balance, plans, mode, now, pc, local, credited, funding>>

EventStates == {"none", "reserved", "committed", "void", "expired"}
Resolved == {"committed", "void", "expired"}
InFlight == {"idle", "chosen", "payg", "open", "committing"}

EventRows == [state: EventStates, sub: Subs \cup {NoSub}, reserved: Nat,
              committed: Nat, time: Nat, expires: Nat]
Notes == [sub: Subs \cup {NoSub}, usd: Nat, expires: Nat]
Payers == {"none", "subscription", "balance", "free"}

NoRow == [state |-> "none", sub |-> NoSub, reserved |-> 0, committed |-> 0,
          time |-> 0, expires |-> 0]
NoNote == [sub |-> NoSub, usd |-> 0, expires |-> 0]

TypeOK ==
    /\ events \in [Requests -> EventRows]
    /\ balance \in [Users -> Nat]
    /\ plans \subseteq Plans
    /\ mode \in Modes
    /\ now \in Nat
    /\ pc \in [Requests -> InFlight \cup {"settled", "refused", "crashed"}]
    /\ local \in [Requests -> Notes]
    /\ credited \in [Users -> Nat]
    /\ funding \in [Requests -> Payers]

Init ==
    /\ events = [r \in Requests |-> NoRow]
    /\ balance = [u \in Users |-> 0]
    /\ plans = Plans
    /\ mode \in Modes
    /\ now = 0
    /\ pc = [r \in Requests |-> "idle"]
    /\ local = [r \in Requests |-> NoNote]
    /\ credited = [u \in Users |-> 0]
    /\ funding = [r \in Requests |-> "none"]

-----------------------------------------------------------------------------
(* Store operations: each is one statement or one transaction.             *)

\* INSERT INTO usage_events ... state='reserved'.
InsertReserved(r, s, usd, expires, payer) ==
    /\ events' = [events EXCEPT ![r] =
                    [state |-> "reserved", sub |-> s, reserved |-> usd,
                     committed |-> 0, time |-> now, expires |-> expires]]
    /\ funding' = [funding EXCEPT ![r] = payer]

\* Mutant of Resolve: the UPDATE forgets AND state='reserved'.
ResolveAnyState(r, state, usd) ==
    events' = [events EXCEPT ![r].state = state, ![r].committed = usd]

\* UPDATE usage_events SET state=?, committed_usd=? WHERE id=? AND state='reserved'.
Resolve(r, state, usd) ==
    events' = IF events[r].state = "reserved"
              THEN [events EXCEPT ![r].state = state, ![r].committed = usd]
              ELSE events

CommitUsage(r, usd) == Resolve(r, "committed", usd) /\ UNCHANGED balance

VoidUsage(r) == Resolve(r, "void", 0) /\ UNCHANGED balance

ReserveUsage(r, s, usd, expires, payer) ==
    InsertReserved(r, s, usd, expires, payer) /\ UNCHANGED balance

ReserveUsageAndDebitBalance(r, usd) ==
    /\ usd > 0
    /\ balance[Owner[r]] >= usd
    /\ balance' = [balance EXCEPT ![Owner[r]] = @ - usd]
    /\ InsertReserved(r, NoSub, usd, now + ReserveTTL, "balance")

\* Mutant of CommitUsageAndRefundBalance: the row records the full charge even
\* when the balance could not cover it (committedEffective is forgotten).
CommitFullCharge(r, usd) ==
    LET e       == events[r]
        u       == Owner[r]
        charge  == IF usd = 0 THEN e.reserved ELSE usd
        reached == IF charge > e.reserved + balance[u]
                   THEN e.reserved + balance[u] ELSE charge
    IN  IF e.sub = NoSub /\ e.state = "reserved"
        THEN /\ Resolve(r, "committed", charge)
             /\ balance' = [balance EXCEPT ![u] = @ + e.reserved - reached]
        ELSE UNCHANGED <<events, balance>>

\* A charge above the reservation is debited as far as the balance reaches;
\* one below it is refunded; 0 stands for the reservation.
CommitUsageAndRefundBalance(r, usd) ==
    LET e       == events[r]
        u       == Owner[r]
        charge  == IF usd = 0 THEN e.reserved ELSE usd
        reached == IF charge > e.reserved + balance[u]
                   THEN e.reserved + balance[u] ELSE charge
    IN  IF e.sub = NoSub /\ e.state = "reserved"
        THEN /\ Resolve(r, "committed", reached)
             /\ balance' = [balance EXCEPT ![u] = @ + e.reserved - reached]
        ELSE UNCHANGED <<events, balance>>

\* Mutant of VoidUsageAndRefundBalance: the refund does not look at the state.
VoidRefundAlways(r) ==
    /\ Resolve(r, "void", 0)
    /\ balance' = IF events[r].sub = NoSub
                  THEN [balance EXCEPT ![Owner[r]] = @ + events[r].reserved]
                  ELSE balance

VoidUsageAndRefundBalance(r) ==
    /\ Resolve(r, "void", 0)
    /\ balance' = IF events[r].sub = NoSub /\ events[r].state = "reserved"
                  THEN [balance EXCEPT ![Owner[r]] = @ + events[r].reserved]
                  ELSE balance

Due(r) == events[r].state = "reserved" /\ events[r].expires < now

\* Mutant of RefundRows: AND subscription_id IS NULL is forgotten.
RefundAnyRow(u) == [r \in Requests |->
    IF Owner[r] = u /\ Due(r) THEN events[r].reserved ELSE 0]

\* What the expiry transaction gives back to u, summed over his due rows.
RefundRows(u) == [r \in Requests |->
    IF Owner[r] = u /\ Due(r) /\ events[r].sub = NoSub THEN events[r].reserved ELSE 0]
Refund(u) == Total(RefundRows(u), NumRequests)

\* Mutants of ExpireReservedUsage: rows expire without their refund; only
\* pay-as-you-go rows expire (the second UPDATE is missing).
ExpireWithoutRefund ==
    /\ events' = [r \in Requests |->
                    IF Due(r)
                    THEN [events[r] EXCEPT !.state = "expired", !.committed = 0]
                    ELSE events[r]]
    /\ UNCHANGED <<balance, plans, mode, now, pc, local, credited, funding>>
ExpirePaygOnly ==
    /\ events' = [r \in Requests |->
                    IF Due(r) /\ events[r].sub = NoSub
                    THEN [events[r] EXCEPT !.state = "expired", !.committed = 0]
                    ELSE events[r]]
    /\ balance' = [u \in Users |-> balance[u] + Refund(u)]
    /\ UNCHANGED <<plans, mode, now, pc, local, credited, funding>>

ExpireReservedUsage ==
    /\ events' = [r \in Requests |->
                    IF Due(r)
                    THEN [events[r] EXCEPT !.state = "expired", !.committed = 0]
                    ELSE events[r]]
    /\ balance' = [u \in Users |-> balance[u] + Refund(u)]
    /\ UNCHANGED <<plans, mode, now, pc, local, credited, funding>>

-----------------------------------------------------------------------------
(* Reserve, as FeatureProvider and HybridProvider run it.                  *)

\* SumCommittedAndReservedUSDBySubscription: what counts against s since `since`.
SubscriptionUsage(s, since) ==
    Total([r \in Requests |->
             IF events[r].sub # s \/ events[r].time < since THEN 0
             ELSE IF events[r].state = "committed" THEN events[r].committed
             ELSE IF events[r].state = "reserved" /\ events[r].expires >= now
             THEN events[r].reserved ELSE 0], NumRequests)

Since(s, w) == IF now - w > Sub[s].start THEN now - w ELSE Sub[s].start

Fits(s, usd) ==
    \A w \in Windows :
        LET limit == PlanLimit[Sub[s].plan][w]
        IN  limit > 0 => SubscriptionUsage(s, Since(s, w)) + usd <= limit

\* ListActiveSubscriptionsWithPlans, and its ORDER BY end_at, id.
ActiveSubs(u) == {s \in Subs : /\ Sub[s].user = u
                               /\ Sub[s].start <= now /\ now < Sub[s].end
                               /\ Sub[s].plan \in plans}
Before(s, t) == Sub[s].end < Sub[t].end \/ (Sub[s].end = Sub[t].end /\ s < t)

FirstFitting(u, usd) ==
    {s \in ActiveSubs(u) :
        Fits(s, usd) /\ \A t \in ActiveSubs(u) : Before(t, s) => ~Fits(t, usd)}

BeforeHorizon == now + ReserveTTL < Horizon

Reserving(r) == pc[r] = "idle" /\ BeforeHorizon

\* The quota check: reads only.  The reservation is inserted by a later statement.
ChooseSubscription(r) ==
    /\ Reserving(r) /\ mode = "normal"
    /\ \E usd \in Estimates, s \in Subs :
        /\ s \in FirstFitting(Owner[r], usd)
        /\ local' = [local EXCEPT ![r] = [sub |-> s, usd |-> usd,
                                          expires |-> now + ReserveTTL]]
    /\ pc' = [pc EXCEPT ![r] = "chosen"]
    /\ UNCHANGED <<tables, mode, now, credited, funding>>

InsertChosen(r) ==
    /\ pc[r] = "chosen"
    /\ ReserveUsage(r, local[r].sub, local[r].usd, local[r].expires, "subscription")
    /\ pc' = [pc EXCEPT ![r] = "open"]
    /\ local' = [local EXCEPT ![r] = NoNote]
    /\ UNCHANGED <<plans, mode, now, credited>>

\* No subscription, or none with room: fall back to the balance, at an estimate
\* of its own (other price multipliers).
FallBackToBalance(r) ==
    /\ Reserving(r) /\ mode = "normal"
    /\ \E usd, payg \in Estimates :
        /\ \A s \in ActiveSubs(Owner[r]) : ~Fits(s, usd)
        /\ local' = [local EXCEPT ![r].usd = IF payg = 0 THEN DefaultReserve ELSE payg]
    /\ pc' = [pc EXCEPT ![r] = "payg"]
    /\ UNCHANGED <<tables, mode, now, credited, funding>>

ReservePayg(r) ==
    /\ pc[r] = "payg" /\ BeforeHorizon
    /\ ReserveUsageAndDebitBalance(r, local[r].usd)
    /\ pc' = [pc EXCEPT ![r] = "open"]
    /\ local' = [local EXCEPT ![r] = NoNote]
    /\ UNCHANGED <<plans, mode, now, credited>>

\* Mutant of ReserveFree: the estimate is written as reserved_usd.
ReserveFreeEstimate(r) ==
    /\ Reserving(r) /\ mode = "free"
    /\ \E usd \in Estimates : ReserveUsage(r, NoSub, usd, now + ReserveTTL, "free")
    /\ pc' = [pc EXCEPT ![r] = "open"]
    /\ UNCHANGED <<plans, mode, now, local, credited>>

ReserveFree(r) ==
    /\ Reserving(r) /\ mode = "free"
    /\ ReserveUsage(r, NoSub, 0, now + ReserveTTL, "free")
    /\ pc' = [pc EXCEPT ![r] = "open"]
    /\ UNCHANGED <<plans, mode, now, local, credited>>

\* Insufficient balance, pay-as-you-go switched off, unpriced model, a failed
\* query: the client gets an error and no row is written.
RefuseReserve(r) ==
    /\ pc[r] \in {"idle", "chosen", "payg"}
    /\ pc' = [pc EXCEPT ![r] = "refused"]
    /\ local' = [local EXCEPT ![r] = NoNote]
    /\ UNCHANGED <<tables, mode, now, credited, funding>>

-----------------------------------------------------------------------------
(* Commit and Void.  Each asks the feature switch again.                   *)

Settle(r) == pc' = [pc EXCEPT ![r] = "settled"]

CommitFree(r) ==
    /\ pc[r] = "open" /\ mode = "free"
    /\ \E usd \in Charges \cup {0} : CommitUsage(r, usd)
    /\ Settle(r)
    /\ UNCHANGED <<plans, mode, now, local, credited, funding>>

\* HybridProvider.Commit reads the row, prices the answer, then writes.
CommitRead(r) ==
    /\ pc[r] = "open" /\ mode = "normal"
    /\ \E usd \in Charges \cup {0} :
        local' = [local EXCEPT ![r] =
                    [sub |-> events[r].sub, expires |-> 0,
                     usd |-> IF usd = 0 THEN events[r].reserved ELSE usd]]
    /\ pc' = [pc EXCEPT ![r] = "committing"]
    /\ UNCHANGED <<tables, mode, now, credited, funding>>

CommitWrite(r) ==
    /\ pc[r] = "committing"
    /\ IF local[r].sub # NoSub
       THEN CommitUsage(r, local[r].usd)
       ELSE CommitUsageAndRefundBalance(r, local[r].usd)
    /\ local' = [local EXCEPT ![r] = NoNote]
    /\ Settle(r)
    /\ UNCHANGED <<plans, mode, now, credited, funding>>

Void(r) ==
    /\ pc[r] = "open"
    /\ IF mode = "free" THEN VoidUsage(r) ELSE VoidUsageAndRefundBalance(r)
    /\ Settle(r)
    /\ UNCHANGED <<plans, mode, now, local, credited, funding>>

\* The handler discards the error of Commit and of Void: unpriced model, timeout
\* of the bookkeeping context, database failure.
BookkeepingFails(r) ==
    /\ pc[r] \in {"open", "committing"}
    /\ local' = [local EXCEPT ![r] = NoNote]
    /\ Settle(r)
    /\ UNCHANGED <<tables, mode, now, credited, funding>>

\* The process dies under the request.
Crash(r) ==
    /\ pc[r] \in InFlight
    /\ pc' = [pc EXCEPT ![r] = "crashed"]
    /\ local' = [local EXCEPT ![r] = NoNote]
    /\ UNCHANGED <<tables, mode, now, credited, funding>>

-----------------------------------------------------------------------------
(* Administration and time.                                                *)

AddUserBalance(u) ==
    /\ \E usd \in Credits :
        /\ credited[u] + usd <= MaxCredited
        /\ balance' = [balance EXCEPT ![u] = @ + usd]
        /\ credited' = [credited EXCEPT ![u] = @ + usd]
    /\ UNCHANGED <<events, plans, mode, now, pc, local, funding>>

\* Deleting a plan sets subscription_id to NULL on every event of its
\* subscriptions, the reserved ones included.
DeleteSubscriptionPlan(p) ==
    /\ p \in plans \cap Deletable
    /\ plans' = plans \ {p}
    /\ events' = [r \in Requests |->
                    IF events[r].sub # NoSub /\ Sub[events[r].sub].plan = p
                    THEN [events[r] EXCEPT !.sub = NoSub] ELSE events[r]]
    /\ UNCHANGED <<balance, mode, now, pc, local, credited, funding>>

SwitchFeature ==
    /\ mode' \in Modes \ {mode}
    /\ UNCHANGED <<tables, now, pc, local, credited, funding>>

Tick ==
    /\ now < Horizon
    /\ now' = now + 1
    /\ UNCHANGED <<tables, mode, pc, local, credited, funding>>

Handler(r) ==
    \/ ChooseSubscription(r) \/ InsertChosen(r)
    \/ FallBackToBalance(r) \/ ReservePayg(r)
    \/ ReserveFree(r) \/ RefuseReserve(r)
    \/ CommitFree(r) \/ CommitRead(r) \/ CommitWrite(r)
    \/ Void(r) \/ BookkeepingFails(r) \/ Crash(r)

Next ==
    \/ \E r \in Requests : Handler(r)
    \/ ExpireReservedUsage
    \/ \E u \in Users : AddUserBalance(u)
    \/ \E p \in Plans : DeleteSubscriptionPlan(p)
    \/ SwitchFeature
    \/ Tick

Spec == Init /\ [][Next]_vars

\* usageCleanupLoop fires on a ticker for as long as any server runs; nothing
\* is assumed of the handlers.
FairSpec == Spec /\ WF_vars(Tick) /\ WF_vars(ExpireReservedUsage)

-----------------------------------------------------------------------------
(* Properties.                                                             *)

\* What a balance has set aside for row r, and what it was charged for it.
Lien(r) == IF funding[r] = "balance" /\ events[r].state = "reserved"
           THEN events[r].reserved ELSE 0
Spent(r) == IF funding[r] = "balance" /\ events[r].state = "committed"
            THEN events[r].committed ELSE 0

LienRows(u) == [r \in Requests |-> IF Owner[r] = u THEN Lien(r) ELSE 0]
LienBy(u) == Total(LienRows(u), NumRequests)
SpentRows(u) == [r \in Requests |-> IF Owner[r] = u THEN Spent(r) ELSE 0]
SpentBy(u) == Total(SpentRows(u), NumRequests)

\* Under normal billing and until a plan is deleted, every credited micro-dollar
\* is in the balance, in an open reservation or in a committed charge, whatever
\* commits, voids, expiries and crashes race (usage_balance.go).
Conservation ==
    (Modes = {"normal"} /\ plans = Plans) =>
        \A u \in Users : balance[u] + LienBy(u) + SpentBy(u) = credited[u]

\* Even when the feature switch moves between reserve and commit, a user never
\* gets back more than was credited: no refund is paid twice, none without a
\* reservation (usage_balance.go, free.go).
WalletBounded ==
    plans = Plans => \A u \in Users : balance[u] + LienBy(u) <= credited[u]

\* What ties a row to the handler that wrote it: nothing is inserted twice, a
\* reservation nobody paid for refunds nothing, and as long as no plan is
\* deleted subscription_id still tells who paid.
RowInv(r) ==
    /\ events[r].state = "none" <=> funding[r] = "none"
    /\ pc[r] \in {"idle", "chosen", "payg"} => events[r].state = "none"
    /\ pc[r] = "chosen" => local[r].sub # NoSub
    /\ funding[r] = "free" => events[r].reserved = 0 /\ Modes # {"normal"}
    /\ plans = Plans =>
        /\ funding[r] = "subscription" <=> events[r].sub # NoSub
        /\ pc[r] = "committing" => local[r].sub = events[r].sub

\* The inductive invariant behind the theorems of BillingProofs.
IInv ==
    /\ TypeOK
    /\ \A r \in Requests : RowInv(r)
    /\ Deletable = {} => plans = Plans
    /\ WalletBounded
    /\ Conservation

\* A row leaves 'reserved' once: a late commit, a void or an expiry that lost
\* the race changes neither state nor amounts (WHERE state='reserved').
ResolvedOnce ==
    [][\A r \in Requests : events[r].state \in Resolved =>
          /\ events'[r].state = events[r].state
          /\ events'[r].committed = events[r].committed
          /\ events'[r].reserved = events[r].reserved]_vars

\* "Only refunds pay-as-you-go reservations" (usage_balance.go:264): a balance
\* grows only by a credit or because a reservation paid from it ends.
RefundsOnlyPayAsYouGo ==
    [][\A u \in Users : balance'[u] > balance[u] =>
          \/ credited'[u] > credited[u]
          \/ \E r \in Requests : /\ Owner[r] = u /\ funding[r] = "balance"
                                 /\ events[r].state = "reserved"
                                 /\ events'[r].state # "reserved"]_vars

\* Seen from the balance, the money path is the Wallet: no commit, void, expiry,
\* crash or race among them moves money in any other way (usage_balance.go).
W == INSTANCE Wallet WITH
        wallet <- balance,
        held   <- [u \in Users |-> LienBy(u)],
        spent  <- [u \in Users |-> SpentBy(u)]
ImplementsWallet == W!Spec

\* "Debits and refunds no balance, reserved_usd is always 0" (free.go:15): the
\* free provider settles no reservation that was debited from a balance.
FreeReservesNothing ==
    [][\A r \in Requests :
          (mode = "free" /\ pc[r] = "open" /\ pc'[r] = "settled"
             /\ events'[r].state # events[r].state /\ funding[r] = "balance")
          => events[r].reserved = 0]_vars

\* Reservations open on one subscription never exceed a limit of its plan: what
\* the reserve-then-settle machine is for (usage.go:1).
ReservationsWithinLimit ==
    \A s \in Subs, w \in Windows :
        LET limit == PlanLimit[Sub[s].plan][w]
            open  == Total([r \in Requests |->
                              IF /\ events[r].sub = s /\ events[r].state = "reserved"
                                 /\ events[r].expires >= now
                                 /\ events[r].time >= Since(s, w)
                              THEN events[r].reserved ELSE 0], NumRequests)
        IN  limit > 0 => open <= limit

\* A reservation whose handler failed, crashed or never answered is released
\* by the expiry loop (app.go usageCleanupLoop).
ReservationsEnd ==
    \A r \in Requests : events[r].state = "reserved" ~> events[r].state # "reserved"

=============================================================================
