---------------------------- MODULE BillingProofs ----------------------------
(***************************************************************************)
(* Billing's safety for any number of requests, users, subscriptions and   *)
(* plans, any amounts and any clock bound: IInv is inductive.              *)
(*                                                                         *)
(* The argument: every handler step is a Moves step on its own row and its *)
(* owner's balance (HandlerMoves) with one of three effects (HandlerEffect)*)
(* from which types, row invariants and the money sums follow.             *)
(***************************************************************************)
EXTENDS Billing, FiniteSumsProofs

USE DEF Requests, NoSub

\* A step on row r alone, and on the balance of its owner.
Moves(r, row, payer, usd) ==
  /\ events' = [events EXCEPT ![r] = row]
  /\ funding' = [funding EXCEPT ![r] = payer]
  /\ balance' = [balance EXCEPT ![Owner[r]] = usd]
  /\ UNCHANGED <<plans, credited>>

Nothing(r, row, payer, usd) ==
  row = events[r] /\ payer = funding[r] /\ usd = balance[Owner[r]]

Inserts(r, row, payer, usd) ==
  /\ events[r].state = "none" /\ row.state = "reserved"
  /\ \/ /\ payer = "balance" /\ row.sub = NoSub
        /\ usd + row.reserved = balance[Owner[r]]
     \/ payer = "subscription" /\ row.sub # NoSub /\ usd = balance[Owner[r]]
     \/ /\ payer = "free" /\ row.sub = NoSub /\ row.reserved = 0
        /\ usd = balance[Owner[r]] /\ Modes # {"normal"}

Resolves(r, row, payer, usd) ==
  /\ events[r].state = "reserved" /\ row.state \in {"committed", "void"}
  /\ row.sub = events[r].sub /\ row.reserved = events[r].reserved
  /\ row.state = "void" => row.committed = 0
  /\ payer = funding[r]
  /\ \/ /\ events[r].sub = NoSub
        /\ usd + row.committed = balance[Owner[r]] + row.reserved
     \/ /\ events[r].sub # NoSub \/ Modes # {"normal"} \/ plans # Plans
        /\ usd = balance[Owner[r]]

Effect(r) ==
  \E row \in EventRows, payer \in Payers, usd \in Nat :
    /\ Moves(r, row, payer, usd)
    /\ \/ Nothing(r, row, payer, usd)
       \/ Inserts(r, row, payer, usd)
       \/ Resolves(r, row, payer, usd)

\* What Resolve does to a reserved row, and to any other.
LEMMA ResolveRow ==
  ASSUME TypeOK, NEW r \in Requests, NEW usd \in Nat, NEW st \in EventStates,
         Resolve(r, st, usd)
  PROVE  \/ /\ events[r].state = "reserved"
            /\ \E row \in EventRows :
                 /\ events' = [events EXCEPT ![r] = row]
                 /\ row.state = st /\ row.committed = usd
                 /\ row.sub = events[r].sub /\ row.reserved = events[r].reserved
         \/ events[r].state # "reserved" /\ events' = events
<1>1. CASE events[r].state = "reserved"
  <2> DEFINE row == [events[r] EXCEPT !.state = st, !.committed = usd]
  <2>1. events[r] \in EventRows
    BY DEF TypeOK
  <2>2. /\ row \in EventRows /\ row.state = st /\ row.committed = usd
        /\ row.sub = events[r].sub /\ row.reserved = events[r].reserved
    BY <2>1 DEF EventRows
  <2>3. events' = [events EXCEPT ![r] = row]
    BY <1>1, <2>1 DEF Resolve, TypeOK, EventRows
  <2> HIDE DEF row
  <2>4. QED
    BY <1>1, <2>2, <2>3
<1>2. CASE events[r].state # "reserved"
  BY <1>2 DEF Resolve
<1>3. QED
  BY <1>1, <1>2

\* What the commit transaction of a pay-as-you-go row does: it charges at most
\* the reservation and the whole balance.
LEMMA CommitRow ==
  ASSUME TypeOK, NEW r \in Requests, NEW usd \in Nat,
         CommitUsageAndRefundBalance(r, usd),
         events[r].sub = NoSub, events[r].state = "reserved"
  PROVE  \E row \in EventRows, b \in Nat :
            /\ events' = [events EXCEPT ![r] = row]
            /\ row.state = "committed"
            /\ row.sub = events[r].sub /\ row.reserved = events[r].reserved
            /\ b + row.committed = balance[Owner[r]] + row.reserved
            /\ balance' = [balance EXCEPT ![Owner[r]] = b]
<1> DEFINE e == events[r]
           u == Owner[r]
           charge == IF usd = 0 THEN e.reserved ELSE usd
           c == IF charge > e.reserved + balance[u] THEN e.reserved + balance[u] ELSE charge
           b == balance[u] + e.reserved - c
<1>1. u \in Users /\ balance[u] \in Nat /\ e.reserved \in Nat
  BY OwnerAssumption DEF TypeOK, EventRows
<1>2. c \in Nat /\ b \in Nat /\ b + c = balance[u] + e.reserved
  BY <1>1
<1>3. Resolve(r, "committed", c)
  BY DEF CommitUsageAndRefundBalance
<1>4. balance' = [balance EXCEPT ![u] = b]
  BY DEF CommitUsageAndRefundBalance
<1> HIDE DEF c, b
<1>5. "committed" \in EventStates
  BY DEF EventStates
<1>6. QED
  BY <1>2, <1>3, <1>4, <1>5, ResolveRow

\* A step that leaves tables and histories alone.
LEMMA NothingEffect ==
  ASSUME TypeOK, NEW r \in Requests,
         UNCHANGED <<events, balance, plans, credited, funding>>
  PROVE  Effect(r)
<1>1. events[r] \in EventRows /\ funding[r] \in Payers /\ balance[Owner[r]] \in Nat
  BY OwnerAssumption DEF TypeOK
<1>2. Moves(r, events[r], funding[r], balance[Owner[r]])
  BY DEF Moves, TypeOK
<1>3. QED
  BY <1>1, <1>2 DEF Effect, Nothing

\* Who pays for a reservation of usd, which leaves the balance at b.
Funded(r, s, usd, payer, b) ==
    \/ payer = "balance" /\ s = NoSub /\ b + usd = balance[Owner[r]]
    \/ payer = "subscription" /\ s # NoSub /\ b = balance[Owner[r]]
    \/ /\ payer = "free" /\ s = NoSub /\ usd = 0 /\ b = balance[Owner[r]]
       /\ Modes # {"normal"}

\* Inserting a row.
LEMMA InsertEffect ==
  ASSUME TypeOK, NEW r \in Requests, events[r].state = "none",
         NEW s \in Subs \cup {NoSub}, NEW usd \in Nat, NEW expires \in Nat,
         NEW payer \in Payers, InsertReserved(r, s, usd, expires, payer),
         NEW b \in Nat, balance' = [balance EXCEPT ![Owner[r]] = b],
         UNCHANGED <<plans, credited>>, Funded(r, s, usd, payer, b)
  PROVE  Effect(r)
<1> DEFINE row == [state |-> "reserved", sub |-> s, reserved |-> usd, committed |-> 0,
                   time |-> now, expires |-> expires]
<1>1. row \in EventRows
  BY DEF TypeOK, EventRows, EventStates
<1>2. row.state = "reserved" /\ row.sub = s /\ row.reserved = usd
  OBVIOUS
<1>3. events' = [events EXCEPT ![r] = row] /\ funding' = [funding EXCEPT ![r] = payer]
  BY DEF InsertReserved
<1> HIDE DEF row
<1>4. Moves(r, row, payer, b)
  BY <1>3 DEF Moves
<1>5. Inserts(r, row, payer, b)
  BY <1>2 DEF Inserts, Funded
<1>6. QED
  BY <1>1, <1>4, <1>5 DEF Effect

\* Resolving a row without touching the balance: right unless the row is a
\* pay-as-you-go reservation and billing is on.
LEMMA ResolveEffect ==
  ASSUME TypeOK, NEW r \in Requests, NEW st \in {"committed", "void"}, NEW usd \in Nat,
         st = "void" => usd = 0,
         Resolve(r, st, usd), UNCHANGED <<balance, plans, credited, funding>>,
         \/ events[r].state # "reserved" \/ events[r].sub # NoSub
         \/ Modes # {"normal"} \/ plans # Plans
  PROVE  Effect(r)
<1>1. st \in EventStates
  BY DEF EventStates
<1>2. CASE events[r].state # "reserved"
  <2>1. events' = events
    BY <1>2 DEF Resolve
  <2>2. QED
    BY <2>1, NothingEffect
<1>3. CASE events[r].state = "reserved"
  <2>1. PICK row \in EventRows :
          /\ events' = [events EXCEPT ![r] = row]
          /\ row.state = st /\ row.committed = usd
          /\ row.sub = events[r].sub /\ row.reserved = events[r].reserved
    BY <1>1, <1>3, ResolveRow
  <2>2. funding[r] \in Payers /\ balance[Owner[r]] \in Nat
    BY OwnerAssumption DEF TypeOK
  <2>3. Moves(r, row, funding[r], balance[Owner[r]])
    BY <2>1 DEF Moves, TypeOK
  <2>4. Resolves(r, row, funding[r], balance[Owner[r]])
    BY <1>3, <2>1 DEF Resolves
  <2>5. QED
    BY <2>2, <2>3, <2>4 DEF Effect
<1>4. QED
  BY <1>2, <1>3

\* The two transactions that settle a pay-as-you-go row.
LEMMA CommitRefundEffect ==
  ASSUME TypeOK, NEW r \in Requests, NEW usd \in Nat,
         CommitUsageAndRefundBalance(r, usd), UNCHANGED <<plans, credited, funding>>
  PROVE  Effect(r)
<1>1. CASE events[r].sub = NoSub /\ events[r].state = "reserved"
  <2>1. PICK row \in EventRows, b \in Nat :
            /\ events' = [events EXCEPT ![r] = row]
            /\ row.state = "committed"
            /\ row.sub = events[r].sub /\ row.reserved = events[r].reserved
            /\ b + row.committed = balance[Owner[r]] + row.reserved
            /\ balance' = [balance EXCEPT ![Owner[r]] = b]
    BY <1>1, CommitRow
  <2>2. Moves(r, row, funding[r], b) /\ funding[r] \in Payers
    BY <2>1 DEF Moves, TypeOK
  <2>3. Resolves(r, row, funding[r], b)
    BY <1>1, <2>1 DEF Resolves
  <2>4. QED
    BY <2>2, <2>3 DEF Effect
<1>2. CASE ~(events[r].sub = NoSub /\ events[r].state = "reserved")
  <2>1. UNCHANGED <<events, balance>>
    BY <1>2 DEF CommitUsageAndRefundBalance
  <2>2. QED
    BY <2>1, NothingEffect
<1>3. QED
  BY <1>1, <1>2

LEMMA VoidRefundEffect ==
  ASSUME TypeOK, NEW r \in Requests,
         VoidUsageAndRefundBalance(r), UNCHANGED <<plans, credited, funding>>
  PROVE  Effect(r)
<1>1. CASE events[r].sub = NoSub /\ events[r].state = "reserved"
  <2> DEFINE b == balance[Owner[r]] + events[r].reserved
  <2>0. "void" \in EventStates /\ 0 \in Nat
    BY DEF EventStates
  <2>1. Resolve(r, "void", 0)
    BY DEF VoidUsageAndRefundBalance
  <2>2. PICK row \in EventRows :
          /\ events' = [events EXCEPT ![r] = row]
          /\ row.state = "void" /\ row.committed = 0
          /\ row.sub = events[r].sub /\ row.reserved = events[r].reserved
    BY <1>1, <2>0, <2>1, ResolveRow
  <2>3. b \in Nat /\ b + 0 = b /\ funding[r] \in Payers
    BY OwnerAssumption DEF TypeOK, EventRows
  <2>4. balance' = [balance EXCEPT ![Owner[r]] = b]
    BY <1>1 DEF VoidUsageAndRefundBalance
  <2> HIDE DEF b
  <2>5. Moves(r, row, funding[r], b)
    BY <2>2, <2>4 DEF Moves, TypeOK
  <2>6. b + row.committed = balance[Owner[r]] + row.reserved
    BY <2>2, <2>3 DEF b
  <2>7. Resolves(r, row, funding[r], b)
    BY <1>1, <2>2, <2>6 DEF Resolves
  <2>8. QED
    BY <2>3, <2>5, <2>7 DEF Effect
<1>2. CASE ~(events[r].sub = NoSub /\ events[r].state = "reserved")
  <2>1. Resolve(r, "void", 0)
    BY DEF VoidUsageAndRefundBalance
  <2>2. UNCHANGED <<balance, plans, credited, funding>>
    BY <1>2 DEF VoidUsageAndRefundBalance
  <2>3. QED
    BY <1>2, <2>1, <2>2, ResolveEffect
<1>3. QED
  BY <1>1, <1>2

\* Every step of a handler has one of the three effects.
LEMMA HandlerEffect ==
  ASSUME TypeOK, NEW r \in Requests, RowInv(r), Handler(r)
  PROVE  Effect(r)
<1>0. /\ Owner[r] \in Users /\ balance[Owner[r]] \in Nat
      /\ now + ReserveTTL \in Nat /\ NoSub \in Subs \cup {NoSub}
      /\ balance = [balance EXCEPT ![Owner[r]] = balance[Owner[r]]]
      /\ local[r].sub \in Subs \cup {NoSub} /\ local[r].usd \in Nat
      /\ local[r].expires \in Nat
  <2>1. Owner[r] \in Users /\ balance[Owner[r]] \in Nat
    BY OwnerAssumption DEF TypeOK
  <2>2. now + ReserveTTL \in Nat
    BY TimeAssumption DEF TypeOK
  <2>3. balance = [balance EXCEPT ![Owner[r]] = balance[Owner[r]]]
    BY <2>1 DEF TypeOK
  <2>4. local[r] \in Notes
    BY DEF TypeOK
  <2>5. QED
    BY <2>1, <2>2, <2>3, <2>4 DEF Notes
<1>1. ASSUME UNCHANGED <<tables, credited, funding>> PROVE Effect(r)
  BY <1>1, NothingEffect DEF tables
<1>2. CASE InsertChosen(r)
  <2>1. /\ InsertReserved(r, local[r].sub, local[r].usd, local[r].expires, "subscription")
        /\ UNCHANGED <<balance, plans, credited>>
        /\ events[r].state = "none" /\ local[r].sub # NoSub
    BY <1>2 DEF InsertChosen, ReserveUsage, RowInv
  <2>2. /\ "subscription" \in Payers
        /\ Funded(r, local[r].sub, local[r].usd, "subscription", balance[Owner[r]])
    BY <2>1 DEF Payers, Funded
  <2>3. QED
    BY <1>0, <2>1, <2>2, InsertEffect
<1>3. CASE ReservePayg(r)
  <2> DEFINE b == balance[Owner[r]] - local[r].usd
  <2>1. /\ InsertReserved(r, NoSub, local[r].usd, now + ReserveTTL, "balance")
        /\ balance[Owner[r]] >= local[r].usd
        /\ balance' = [balance EXCEPT ![Owner[r]] = b]
        /\ UNCHANGED <<plans, credited>>
        /\ events[r].state = "none"
    BY <1>3 DEF ReservePayg, ReserveUsageAndDebitBalance, RowInv
  <2>2. /\ b \in Nat /\ "balance" \in Payers
        /\ Funded(r, NoSub, local[r].usd, "balance", b)
    BY <1>0, <2>1 DEF Payers, Funded
  <2> HIDE DEF b
  <2>3. QED
    BY <1>0, <2>1, <2>2, InsertEffect
<1>4. CASE ReserveFree(r)
  <2>1. /\ InsertReserved(r, NoSub, 0, now + ReserveTTL, "free")
        /\ UNCHANGED <<balance, plans, credited>>
        /\ events[r].state = "none"
    BY <1>4 DEF ReserveFree, ReserveUsage, RowInv, Reserving
  <2>2. /\ "free" \in Payers /\ 0 \in Nat
        /\ Funded(r, NoSub, 0, "free", balance[Owner[r]])
    BY <1>4 DEF ReserveFree, TypeOK, Payers, Funded
  <2>3. QED
    BY <1>0, <2>1, <2>2, InsertEffect
<1>5. CASE CommitFree(r)
  <2>1. PICK usd \in Nat : Resolve(r, "committed", usd) /\ UNCHANGED balance
    BY <1>5, AmountsAssumption DEF CommitFree, CommitUsage
  <2>2. Modes # {"normal"} /\ UNCHANGED <<plans, credited, funding>>
    BY <1>5 DEF CommitFree, TypeOK
  <2>3. QED
    BY <2>1, <2>2, ResolveEffect
<1>6. CASE CommitWrite(r)
  <2>1. UNCHANGED <<plans, credited, funding>> /\ pc[r] = "committing"
    BY <1>6 DEF CommitWrite
  <2>2. CASE local[r].sub # NoSub
    <3>1. Resolve(r, "committed", local[r].usd) /\ UNCHANGED balance
      BY <1>6, <2>2 DEF CommitWrite, CommitUsage
    <3>2. events[r].sub # NoSub \/ plans # Plans
      BY <2>1, <2>2 DEF RowInv
    <3>3. QED
      BY <1>0, <2>1, <3>1, <3>2, ResolveEffect
  <2>3. CASE local[r].sub = NoSub
    <3>1. CommitUsageAndRefundBalance(r, local[r].usd)
      BY <1>6, <2>3 DEF CommitWrite
    <3>2. QED
      BY <1>0, <2>1, <3>1, CommitRefundEffect
  <2>4. QED
    BY <2>2, <2>3
<1>7. CASE Void(r)
  <2>1. UNCHANGED <<plans, credited, funding>>
    BY <1>7 DEF Void
  <2>2. CASE mode = "free"
    <3>1. Resolve(r, "void", 0) /\ UNCHANGED balance /\ Modes # {"normal"} /\ 0 \in Nat
      BY <1>7, <2>2 DEF Void, VoidUsage, TypeOK
    <3>2. QED
      BY <2>1, <3>1, ResolveEffect
  <2>3. CASE mode # "free"
    BY <1>7, <2>1, <2>3, VoidRefundEffect DEF Void
  <2>4. QED
    BY <2>2, <2>3
<1>8. QED
  BY <1>1, <1>2, <1>3, <1>4, <1>5, <1>6, <1>7
  DEF Handler, ChooseSubscription, FallBackToBalance, RefuseReserve, CommitRead,
      BookkeepingFails, Crash

\* What the expiry transaction refunds to one user is a natural number.
LEMMA RefundType ==
  ASSUME TypeOK, NEW u \in Users
  PROVE  RefundRows(u) \in [1..NumRequests -> Nat] /\ Refund(u) \in Nat
<1>1. RefundRows(u) \in [1..NumRequests -> Nat]
  BY DEF TypeOK, RefundRows, EventRows
<1>2. QED
  BY <1>1, RequestsAssumption, TotalNat DEF Refund

\* What is set aside for one user is a natural number.
LEMMA LienType ==
  ASSUME TypeOK, NEW u \in Users
  PROVE  LienRows(u) \in [1..NumRequests -> Nat] /\ LienBy(u) \in Nat
<1>1. \A r \in Requests : Lien(r) \in Nat
  BY DEF TypeOK, Lien, EventRows
<1>2. LienRows(u) \in [1..NumRequests -> Nat]
  BY <1>1 DEF LienRows
<1>3. QED
  BY <1>2, RequestsAssumption, TotalNat DEF LienBy

\* What is charged for one user is a natural number.
LEMMA SpentType ==
  ASSUME TypeOK, NEW u \in Users
  PROVE  SpentRows(u) \in [1..NumRequests -> Nat] /\ SpentBy(u) \in Nat
<1>1. \A r \in Requests : Spent(r) \in Nat
  BY DEF TypeOK, Spent, EventRows
<1>2. SpentRows(u) \in [1..NumRequests -> Nat]
  BY <1>1 DEF SpentRows
<1>3. QED
  BY <1>2, RequestsAssumption, TotalNat DEF SpentBy

-----------------------------------------------------------------------------
(* Types.                                                                  *)

\* What a handler step leaves in pc and local.
LEMMA HandlerControl ==
  ASSUME TypeOK, NEW r \in Requests, Handler(r)
  PROVE  /\ pc' \in [Requests -> InFlight \cup {"settled", "refused", "crashed"}]
         /\ local' \in [Requests -> Notes]
         /\ UNCHANGED <<mode, now>>
         /\ \A q \in Requests \ {r} : pc'[q] = pc[q] /\ local'[q] = local[q]
         /\ pc'[r] # "idle"
         /\ pc'[r] \in {"chosen", "payg"} => pc[r] = "idle" /\ UNCHANGED tables
         /\ pc'[r] = "chosen" => local'[r].sub # NoSub
         /\ pc'[r] = "committing" => local'[r].sub = events[r].sub /\ UNCHANGED tables
<1>0. /\ NoNote \in Notes /\ local[r] \in Notes
      /\ events[r] \in EventRows
      /\ now + ReserveTTL \in Nat
  BY TimeAssumption DEF TypeOK, NoNote, Notes
<1>1. CASE ChooseSubscription(r)
  <2>1. PICK usd \in Estimates, s \in Subs :
          local' = [local EXCEPT ![r] = [sub |-> s, usd |-> usd,
                                         expires |-> now + ReserveTTL]]
    BY <1>1 DEF ChooseSubscription
  <2>2. [sub |-> s, usd |-> usd, expires |-> now + ReserveTTL] \in Notes /\ s # NoSub
    BY <1>0, AmountsAssumption, SubsAssumption DEF Notes
  <2>3. pc[r] = "idle" /\ pc' = [pc EXCEPT ![r] = "chosen"] /\ UNCHANGED <<tables, mode, now>>
    BY <1>1 DEF ChooseSubscription, Reserving
  <2>4. QED
    BY <2>1, <2>2, <2>3 DEF TypeOK, InFlight
<1>2. CASE InsertChosen(r)
  BY <1>0, <1>2 DEF InsertChosen, TypeOK, InFlight
<1>3. CASE FallBackToBalance(r)
  <2>1. PICK payg \in Estimates :
          local' = [local EXCEPT ![r].usd = IF payg = 0 THEN DefaultReserve ELSE payg]
    BY <1>3 DEF FallBackToBalance
  <2>2. (IF payg = 0 THEN DefaultReserve ELSE payg) \in Nat
    BY AmountsAssumption
  <2>3. /\ pc[r] = "idle" /\ pc' = [pc EXCEPT ![r] = "payg"]
        /\ UNCHANGED <<tables, mode, now>>
    BY <1>3 DEF FallBackToBalance, Reserving
  <2> DEFINE usd == IF payg = 0 THEN DefaultReserve ELSE payg
  <2> HIDE DEF usd
  <2>4. local' = [local EXCEPT ![r].usd = usd] /\ usd \in Nat
    BY <2>1, <2>2 DEF usd
  <2>5. local' \in [Requests -> Notes]
    BY <1>0, <2>4 DEF TypeOK, Notes
  <2>6. \A q \in Requests \ {r} : local'[q] = local[q]
    BY <2>4 DEF TypeOK
  <2>7. QED
    BY <2>3, <2>5, <2>6 DEF TypeOK, InFlight
<1>4. CASE ReservePayg(r)
  BY <1>0, <1>4 DEF ReservePayg, TypeOK, InFlight
<1>5. CASE ReserveFree(r)
  BY <1>0, <1>5 DEF ReserveFree, TypeOK, InFlight
<1>6. CASE RefuseReserve(r)
  BY <1>0, <1>6 DEF RefuseReserve, TypeOK
<1>7. CASE CommitFree(r)
  BY <1>0, <1>7 DEF CommitFree, Settle, TypeOK
<1>8. CASE CommitRead(r)
  <2>1. PICK usd \in Charges \cup {0} :
          local' = [local EXCEPT ![r] =
                      [sub |-> events[r].sub, expires |-> 0,
                       usd |-> IF usd = 0 THEN events[r].reserved ELSE usd]]
    BY <1>8 DEF CommitRead
  <2> DEFINE note == [sub |-> events[r].sub, expires |-> 0,
                      usd |-> IF usd = 0 THEN events[r].reserved ELSE usd]
  <2>2. note \in Notes /\ note.sub = events[r].sub
    BY <1>0, AmountsAssumption DEF Notes, EventRows
  <2>3. pc' = [pc EXCEPT ![r] = "committing"] /\ UNCHANGED <<tables, mode, now>>
    BY <1>8 DEF CommitRead
  <2> HIDE DEF note
  <2>4. local' = [local EXCEPT ![r] = note]
    BY <2>1 DEF note
  <2>5. QED
    BY <2>2, <2>3, <2>4 DEF TypeOK, InFlight
<1>9. CASE CommitWrite(r)
  BY <1>0, <1>9 DEF CommitWrite, Settle, TypeOK
<1>10. CASE Void(r)
  BY <1>0, <1>10 DEF Void, Settle, TypeOK
<1>11. CASE BookkeepingFails(r)
  BY <1>0, <1>11 DEF BookkeepingFails, Settle, TypeOK
<1>12. CASE Crash(r)
  BY <1>0, <1>12 DEF Crash, TypeOK
<1>13. QED
  BY <1>1, <1>2, <1>3, <1>4, <1>5, <1>6, <1>7, <1>8, <1>9, <1>10, <1>11, <1>12
  DEF Handler

LEMMA HandlerType ==
  ASSUME TypeOK, NEW r \in Requests, RowInv(r), Handler(r)
  PROVE  TypeOK'
<1>1. PICK row \in EventRows, payer \in Payers, usd \in Nat : Moves(r, row, payer, usd)
  BY HandlerEffect DEF Effect
<1>2. /\ events' \in [Requests -> EventRows] /\ funding' \in [Requests -> Payers]
      /\ balance' \in [Users -> Nat] /\ UNCHANGED <<plans, credited>>
  BY <1>1 DEF Moves, TypeOK
<1>3. QED
  BY <1>2, HandlerControl DEF TypeOK

\* The type invariant survives every step.
LEMMA NextType ==
  ASSUME TypeOK, \A r \in Requests : RowInv(r), [Next]_vars
  PROVE  TypeOK'
<1>1. CASE \E r \in Requests : Handler(r)
  BY <1>1, HandlerType
<1>2. CASE ExpireReservedUsage
  <2>1. \A r \in Requests :
          [events[r] EXCEPT !.state = "expired", !.committed = 0] \in EventRows
    BY DEF TypeOK, EventRows, EventStates
  <2>2. events' \in [Requests -> EventRows]
    BY <1>2, <2>1 DEF ExpireReservedUsage, TypeOK
  <2>3. \A u \in Users : balance[u] + Refund(u) \in Nat
    BY RefundType DEF TypeOK
  <2>4. balance' \in [Users -> Nat]
    BY <1>2, <2>3 DEF ExpireReservedUsage
  <2>5. QED
    BY <1>2, <2>2, <2>4 DEF ExpireReservedUsage, TypeOK
<1>3. ASSUME NEW u \in Users, AddUserBalance(u) PROVE TypeOK'
  BY <1>3, AmountsAssumption DEF AddUserBalance, TypeOK
<1>4. ASSUME NEW p \in Plans, DeleteSubscriptionPlan(p) PROVE TypeOK'
  <2>1. \A r \in Requests : [events[r] EXCEPT !.sub = NoSub] \in EventRows
    BY DEF TypeOK, EventRows
  <2>2. events' \in [Requests -> EventRows]
    BY <1>4, <2>1 DEF DeleteSubscriptionPlan, TypeOK
  <2>3. QED
    BY <1>4, <2>2 DEF DeleteSubscriptionPlan, TypeOK
<1>5. CASE SwitchFeature
  BY <1>5 DEF SwitchFeature, TypeOK, tables
<1>6. CASE Tick
  BY <1>6 DEF Tick, TypeOK, tables
<1>7. CASE UNCHANGED vars
  BY <1>7 DEF vars, TypeOK
<1>8. QED
  BY <1>1, <1>2, <1>3, <1>4, <1>5, <1>6, <1>7 DEF Next

-----------------------------------------------------------------------------
(* Row invariants.                                                         *)

LEMMA HandlerRowInv ==
  ASSUME TypeOK, \A q \in Requests : RowInv(q), NEW r \in Requests, Handler(r)
  PROVE  \A q \in Requests : RowInv(q)'
<1>1. PICK row \in EventRows, payer \in Payers, usd \in Nat :
        /\ Moves(r, row, payer, usd)
        /\ \/ Nothing(r, row, payer, usd)
           \/ Inserts(r, row, payer, usd)
           \/ Resolves(r, row, payer, usd)
  BY HandlerEffect DEF Effect
<1>2. /\ events'[r] = row /\ funding'[r] = payer /\ plans' = plans
      /\ \A q \in Requests \ {r} : events'[q] = events[q] /\ funding'[q] = funding[q]
  BY <1>1 DEF Moves, TypeOK
<1>3. /\ pc' \in [Requests -> InFlight \cup {"settled", "refused", "crashed"}]
      /\ \A q \in Requests \ {r} : pc'[q] = pc[q] /\ local'[q] = local[q]
      /\ pc'[r] # "idle"
      /\ pc'[r] \in {"chosen", "payg"} => pc[r] = "idle" /\ UNCHANGED tables
      /\ pc'[r] = "chosen" => local'[r].sub # NoSub
      /\ pc'[r] = "committing" => local'[r].sub = events[r].sub /\ UNCHANGED tables
  BY HandlerControl
<1>4. ASSUME NEW q \in Requests \ {r} PROVE RowInv(q)'
  BY <1>2, <1>3 DEF RowInv
<1>5. RowInv(r)
  OBVIOUS
<1>6. /\ row.state = "none" <=> payer = "none"
      /\ payer = "free" => row.reserved = 0 /\ Modes # {"normal"}
      /\ plans = Plans => (payer = "subscription" <=> row.sub # NoSub)
  <2>1. CASE Nothing(r, row, payer, usd)
    BY <1>5, <2>1 DEF Nothing, RowInv
  <2>2. CASE Inserts(r, row, payer, usd)
    BY <2>2 DEF Inserts
  <2>3. CASE Resolves(r, row, payer, usd)
    BY <1>5, <2>3 DEF Resolves, RowInv
  <2>4. QED
    BY <1>1, <2>1, <2>2, <2>3
<1>7. RowInv(r)'
  BY <1>2, <1>3, <1>5, <1>6 DEF RowInv, tables
<1>8. QED
  BY <1>4, <1>7

LEMMA NextRowInv ==
  ASSUME TypeOK, \A r \in Requests : RowInv(r), [Next]_vars
  PROVE  \A r \in Requests : RowInv(r)'
<1>1. CASE \E r \in Requests : Handler(r)
  BY <1>1, HandlerRowInv
<1>2. CASE ExpireReservedUsage
  <2>1. ASSUME NEW r \in Requests PROVE RowInv(r)'
    <3>1. /\ events'[r].sub = events[r].sub /\ events'[r].reserved = events[r].reserved
          /\ \/ events'[r].state = events[r].state
             \/ events[r].state = "reserved" /\ events'[r].state = "expired"
      <4>1. events'[r] = IF Due(r)
                         THEN [events[r] EXCEPT !.state = "expired", !.committed = 0]
                         ELSE events[r]
        BY <1>2 DEF ExpireReservedUsage
      <4>2. events[r] \in EventRows
        BY DEF TypeOK
      <4>3. CASE Due(r)
        BY <4>1, <4>2, <4>3 DEF Due, EventRows
      <4>4. CASE ~Due(r)
        BY <4>1, <4>4
      <4>5. QED
        BY <4>3, <4>4
    <3>2. RowInv(r) /\ UNCHANGED <<plans, pc, local, funding>>
      BY <1>2 DEF ExpireReservedUsage
    <3>3. QED
      BY <3>1, <3>2 DEF RowInv
  <2>2. QED
    BY <2>1
<1>3. ASSUME NEW u \in Users, AddUserBalance(u)
      PROVE  \A r \in Requests : RowInv(r)'
  BY <1>3 DEF AddUserBalance, RowInv
<1>4. ASSUME NEW p \in Plans, DeleteSubscriptionPlan(p)
      PROVE  \A r \in Requests : RowInv(r)'
  <2>1. plans' # Plans
    BY <1>4 DEF DeleteSubscriptionPlan
  <2>2. \A r \in Requests : events'[r].state = events[r].state
                            /\ events'[r].reserved = events[r].reserved
    BY <1>4 DEF DeleteSubscriptionPlan, TypeOK, EventRows
  <2>3. UNCHANGED <<pc, local, funding>>
    BY <1>4 DEF DeleteSubscriptionPlan
  <2>4. QED
    BY <2>1, <2>2, <2>3 DEF RowInv
<1>5. CASE SwitchFeature
  BY <1>5 DEF SwitchFeature, RowInv, tables
<1>6. CASE Tick
  BY <1>6 DEF Tick, RowInv, tables
<1>7. CASE UNCHANGED vars
  BY <1>7 DEF vars, RowInv
<1>8. QED
  BY <1>1, <1>2, <1>3, <1>4, <1>5, <1>6, <1>7 DEF Next

-----------------------------------------------------------------------------
(* Money.                                                                  *)

\* One row changing its lien or its charge changes its owner's sum by as much.
LEMMA LienUpdate ==
  ASSUME TypeOK, TypeOK', NEW r \in Requests, NEW u \in Users,
         \A q \in Requests \ {r} : Lien(q)' = Lien(q)
  PROVE  LienBy(u)' = LienBy(u) + (IF Owner[r] = u THEN Lien(r)' - Lien(r) ELSE 0)
<1>1. \A q \in Requests : Lien(q) \in Nat /\ Lien(q)' \in Nat
  BY DEF TypeOK, Lien, EventRows
<1> DEFINE f == LienRows(u)
           g == LienRows(u)'
<1>2. f \in [1..NumRequests -> Int] /\ g \in [1..NumRequests -> Int]
  BY <1>1 DEF LienRows
<1>3. \A i \in 1..NumRequests : i # r => g[i] = f[i]
  BY DEF LienRows
<1>4. /\ f[r] = IF Owner[r] = u THEN Lien(r) ELSE 0
      /\ g[r] = IF Owner[r] = u THEN Lien(r)' ELSE 0
  BY DEF LienRows
<1>5. LienBy(u) = Total(f, NumRequests) /\ LienBy(u)' = Total(g, NumRequests)
  BY DEF LienBy
<1> HIDE DEF f, g
<1>6. Total(g, NumRequests) = Total(f, NumRequests) + (g[r] - f[r])
  BY <1>2, <1>3, RequestsAssumption, TotalUpdate
<1>7. Total(f, NumRequests) \in Int
  BY <1>2, RequestsAssumption, TotalType
<1>8. QED
  BY <1>1, <1>4, <1>5, <1>6, <1>7

LEMMA SpentUpdate ==
  ASSUME TypeOK, TypeOK', NEW r \in Requests, NEW u \in Users,
         \A q \in Requests \ {r} : Spent(q)' = Spent(q)
  PROVE  SpentBy(u)' = SpentBy(u) + (IF Owner[r] = u THEN Spent(r)' - Spent(r) ELSE 0)
<1>1. \A q \in Requests : Spent(q) \in Nat /\ Spent(q)' \in Nat
  BY DEF TypeOK, Spent, EventRows
<1> DEFINE f == SpentRows(u)
           g == SpentRows(u)'
<1>2. f \in [1..NumRequests -> Int] /\ g \in [1..NumRequests -> Int]
  BY <1>1 DEF SpentRows
<1>3. \A i \in 1..NumRequests : i # r => g[i] = f[i]
  BY DEF SpentRows
<1>4. /\ f[r] = IF Owner[r] = u THEN Spent(r) ELSE 0
      /\ g[r] = IF Owner[r] = u THEN Spent(r)' ELSE 0
  BY DEF SpentRows
<1>5. SpentBy(u) = Total(f, NumRequests) /\ SpentBy(u)' = Total(g, NumRequests)
  BY DEF SpentBy
<1> HIDE DEF f, g
<1>6. Total(g, NumRequests) = Total(f, NumRequests) + (g[r] - f[r])
  BY <1>2, <1>3, RequestsAssumption, TotalUpdate
<1>7. Total(f, NumRequests) \in Int
  BY <1>2, RequestsAssumption, TotalType
<1>8. QED
  BY <1>1, <1>4, <1>5, <1>6, <1>7

\* What a handler step does to its owner's money: never a gain, and under normal
\* billing neither gain nor loss.
LEMMA HandlerMoney ==
  ASSUME TypeOK, NEW r \in Requests, RowInv(r), Handler(r)
  PROVE  /\ UNCHANGED <<plans, credited>>
         /\ \A q \in Requests \ {r} : Lien(q)' = Lien(q) /\ Spent(q)' = Spent(q)
         /\ \A u \in Users \ {Owner[r]} : balance'[u] = balance[u]
         /\ plans = Plans =>
              balance'[Owner[r]] + Lien(r)' <= balance[Owner[r]] + Lien(r)
         /\ (Modes = {"normal"} /\ plans = Plans) =>
              /\ balance'[Owner[r]] + Lien(r)' + Spent(r)'
                   = balance[Owner[r]] + Lien(r) + Spent(r)
              /\ Spent(r)' >= Spent(r)
              /\ Lien(r)' <= Lien(r) \/ Spent(r)' = Spent(r)
<1>1. PICK row \in EventRows, payer \in Payers, usd \in Nat :
        /\ Moves(r, row, payer, usd)
        /\ \/ Nothing(r, row, payer, usd)
           \/ Inserts(r, row, payer, usd)
           \/ Resolves(r, row, payer, usd)
  BY HandlerEffect DEF Effect
<1>2. /\ events'[r] = row /\ funding'[r] = payer /\ UNCHANGED <<plans, credited>>
      /\ \A q \in Requests \ {r} : events'[q] = events[q] /\ funding'[q] = funding[q]
  BY <1>1 DEF Moves, TypeOK
<1>3. /\ Owner[r] \in Users /\ balance'[Owner[r]] = usd
      /\ \A u \in Users \ {Owner[r]} : balance'[u] = balance[u]
      /\ balance[Owner[r]] \in Nat
  BY <1>1, OwnerAssumption DEF Moves, TypeOK
<1>4. \A q \in Requests \ {r} : Lien(q)' = Lien(q) /\ Spent(q)' = Spent(q)
  BY <1>2 DEF Lien, Spent
<1>5. /\ Lien(r)' = IF payer = "balance" /\ row.state = "reserved" THEN row.reserved ELSE 0
      /\ Spent(r)' = IF payer = "balance" /\ row.state = "committed" THEN row.committed ELSE 0
  BY <1>2 DEF Lien, Spent
<1>6. row.reserved \in Nat /\ row.committed \in Nat
  BY DEF EventRows
<1>7. events[r].reserved \in Nat /\ events[r].committed \in Nat
  BY DEF TypeOK, EventRows
<1>8. CASE Nothing(r, row, payer, usd)
  <2>1. Lien(r)' = Lien(r) /\ Spent(r)' = Spent(r) /\ usd = balance[Owner[r]]
    BY <1>5, <1>8 DEF Nothing, Lien, Spent
  <2>2. Lien(r) \in Nat /\ Spent(r) \in Nat
    BY <1>7 DEF Lien, Spent
  <2>3. QED
    BY <1>2, <1>3, <1>4, <2>1, <2>2
<1>9. CASE Inserts(r, row, payer, usd)
  <2>1. Lien(r) = 0 /\ Spent(r) = 0 /\ Spent(r)' = 0
    BY <1>5, <1>9 DEF Inserts, Lien, Spent
  <2>2. usd + Lien(r)' = balance[Owner[r]]
    BY <1>3, <1>5, <1>6, <1>9 DEF Inserts
  <2>3. QED
    BY <1>2, <1>3, <1>4, <1>5, <1>6, <2>1, <2>2
<1>10. CASE Resolves(r, row, payer, usd)
  <2>1. /\ events[r].state = "reserved" /\ row.state \in {"committed", "void"}
        /\ row.sub = events[r].sub /\ row.reserved = events[r].reserved
        /\ row.state = "void" => row.committed = 0
        /\ payer = funding[r]
    BY <1>10 DEF Resolves
  <2>2. /\ Spent(r) = 0 /\ Lien(r)' = 0
        /\ Lien(r) = IF payer = "balance" THEN row.reserved ELSE 0
        /\ Spent(r)' = IF payer = "balance" THEN row.committed ELSE 0
    BY <1>5, <1>6, <2>1 DEF Lien, Spent
  <2>3. payer # "none"
    BY <2>1 DEF RowInv
  <2>4. plans = Plans => /\ payer = "subscription" <=> row.sub # NoSub
                         /\ payer = "free" => row.reserved = 0 /\ Modes # {"normal"}
    BY <2>1 DEF RowInv
  <2>5. payer \in {"subscription", "balance", "free"}
    BY <2>3 DEF Payers
  <2>6. CASE row.sub = NoSub /\ usd + row.committed = balance[Owner[r]] + row.reserved
    BY <1>2, <1>3, <1>4, <1>6, <2>2, <2>4, <2>5, <2>6
  <2>7. CASE /\ row.sub # NoSub \/ Modes # {"normal"} \/ plans # Plans
             /\ usd = balance[Owner[r]]
    BY <1>2, <1>3, <1>4, <1>6, <2>2, <2>4, <2>5, <2>7
  <2>8. QED
    BY <1>10, <2>1, <2>6, <2>7 DEF Resolves
<1>11. QED
  BY <1>1, <1>8, <1>9, <1>10

\* Expiry gives back exactly the liens it ends, as long as subscription_id tells
\* which rows were paid from a balance.
LEMMA ExpireMoney ==
  ASSUME TypeOK, TypeOK', \A r \in Requests : RowInv(r), plans = Plans,
         ExpireReservedUsage, NEW u \in Users
  PROVE  LienBy(u) = LienBy(u)' + Refund(u) /\ SpentBy(u)' = SpentBy(u)
<1>1. ASSUME NEW r \in Requests
      PROVE  /\ Lien(r)' \in Nat
             /\ Lien(r) = Lien(r)' + (IF Due(r) /\ events[r].sub = NoSub
                                     THEN events[r].reserved ELSE 0)
             /\ Spent(r)' = Spent(r)
  <2>1. /\ events'[r] = IF Due(r)
                        THEN [events[r] EXCEPT !.state = "expired", !.committed = 0]
                        ELSE events[r]
        /\ funding'[r] = funding[r]
    BY DEF ExpireReservedUsage
  <2>2. /\ events[r] \in EventRows /\ events[r].reserved \in Nat
        /\ events[r].committed \in Nat /\ funding[r] \in Payers
    BY DEF TypeOK, EventRows
  <2>3. CASE Due(r)
    <3>1. events'[r].state = "expired" /\ events[r].state = "reserved"
      BY <2>1, <2>2, <2>3 DEF Due, EventRows
    <3>2. Lien(r)' = 0 /\ Spent(r)' = 0 /\ Spent(r) = 0
      BY <2>1, <3>1 DEF Lien, Spent
    <3>3. Lien(r) = IF events[r].sub = NoSub THEN events[r].reserved ELSE 0
      BY <2>2, <3>1 DEF Lien, RowInv, Payers
    <3>4. QED
      BY <2>2, <2>3, <3>2, <3>3
  <2>4. CASE ~Due(r)
    <3>1. Lien(r)' = Lien(r) /\ Spent(r)' = Spent(r)
      BY <2>1, <2>4 DEF Lien, Spent
    <3>2. Lien(r) \in Nat
      BY <2>2 DEF Lien
    <3>3. QED
      BY <2>4, <3>1, <3>2
  <2>5. QED
    BY <2>3, <2>4
<1> DEFINE f == LienRows(u)'
           g == RefundRows(u)
           h == LienRows(u)
<1>2. /\ f \in [1..NumRequests -> Int] /\ g \in [1..NumRequests -> Int]
      /\ h \in [1..NumRequests -> Int]
  <2>1. g \in [1..NumRequests -> Nat] /\ h \in [1..NumRequests -> Nat]
    BY RefundType, LienType
  <2>2. f \in [1..NumRequests -> Int]
    BY <1>1 DEF LienRows
  <2>3. QED
    BY <2>1, <2>2
<1>3. \A i \in 1..NumRequests : h[i] = f[i] + g[i]
  BY <1>1 DEF LienRows, RefundRows
<1>4. LienBy(u) = LienBy(u)' + Refund(u)
  <2>1. /\ LienBy(u) = Total(h, NumRequests) /\ LienBy(u)' = Total(f, NumRequests)
        /\ Refund(u) = Total(g, NumRequests)
    BY DEF LienBy, Refund
  <2> HIDE DEF f, g, h
  <2>2. Total(h, NumRequests) = Total(f, NumRequests) + Total(g, NumRequests)
    BY <1>2, <1>3, RequestsAssumption, TotalPlus
  <2>3. QED
    BY <2>1, <2>2
<1>5. SpentBy(u)' = SpentBy(u)
  <2>1. SpentRows(u)' = SpentRows(u)
    BY <1>1 DEF SpentRows
  <2>2. QED
    BY <2>1 DEF SpentBy
<1>6. QED
  BY <1>4, <1>5

\* The sums depend on the table and the funding alone.
LEMMA SameSums ==
  ASSUME UNCHANGED <<events, funding>>, NEW u \in Users
  PROVE  LienBy(u)' = LienBy(u) /\ SpentBy(u)' = SpentBy(u)
BY DEF LienBy, LienRows, Lien, SpentBy, SpentRows, Spent

\* No step creates money, and under normal billing none destroys it.
LEMMA NextMoney ==
  ASSUME TypeOK, TypeOK', \A r \in Requests : RowInv(r), WalletBounded, Conservation,
         [Next]_vars
  PROVE  WalletBounded' /\ Conservation'
<1>0. \A u \in Users : /\ balance[u] \in Nat /\ balance'[u] \in Nat
                      /\ LienBy(u) \in Nat /\ SpentBy(u) \in Nat
                      /\ credited[u] \in Nat
  BY LienType, SpentType DEF TypeOK
<1>1. ASSUME NEW r \in Requests, Handler(r) PROVE WalletBounded' /\ Conservation'
  <2>1. /\ UNCHANGED <<plans, credited>>
        /\ \A q \in Requests \ {r} : Lien(q)' = Lien(q) /\ Spent(q)' = Spent(q)
        /\ \A u \in Users \ {Owner[r]} : balance'[u] = balance[u]
        /\ plans = Plans =>
             balance'[Owner[r]] + Lien(r)' <= balance[Owner[r]] + Lien(r)
        /\ (Modes = {"normal"} /\ plans = Plans) =>
              balance'[Owner[r]] + Lien(r)' + Spent(r)'
                = balance[Owner[r]] + Lien(r) + Spent(r)
    BY <1>1, HandlerMoney
  <2>2. /\ Lien(r) \in Nat /\ Lien(r)' \in Nat
        /\ Spent(r) \in Nat /\ Spent(r)' \in Nat
    BY DEF TypeOK, Lien, Spent, EventRows
  <2>3. ASSUME NEW u \in Users
        PROVE  /\ LienBy(u)' = LienBy(u) + (IF Owner[r] = u THEN Lien(r)' - Lien(r) ELSE 0)
               /\ SpentBy(u)' = SpentBy(u) + (IF Owner[r] = u THEN Spent(r)' - Spent(r) ELSE 0)
    BY <2>1, LienUpdate, SpentUpdate
  <2>4. ASSUME NEW u \in Users, plans = Plans
        PROVE  balance'[u] + LienBy(u)' <= credited'[u]
    <3>1. balance[u] + LienBy(u) <= credited[u]
      BY <2>4 DEF WalletBounded
    <3>2. CASE Owner[r] = u
      BY <1>0, <2>1, <2>2, <2>3, <2>4, <3>1, <3>2
    <3>3. CASE Owner[r] # u
      BY <1>0, <2>1, <2>3, <3>1, <3>3
    <3>4. QED
      BY <3>2, <3>3
  <2>5. ASSUME NEW u \in Users, plans = Plans, Modes = {"normal"}
        PROVE  balance'[u] + LienBy(u)' + SpentBy(u)' = credited'[u]
    <3>1. balance[u] + LienBy(u) + SpentBy(u) = credited[u]
      BY <2>5 DEF Conservation
    <3>2. CASE Owner[r] = u
      BY <1>0, <2>1, <2>2, <2>3, <2>5, <3>1, <3>2
    <3>3. CASE Owner[r] # u
      BY <1>0, <2>1, <2>3, <3>1, <3>3
    <3>4. QED
      BY <3>2, <3>3
  <2>6. QED
    BY <2>1, <2>4, <2>5 DEF WalletBounded, Conservation
<1>2. CASE ExpireReservedUsage
  <2>1. /\ UNCHANGED <<plans, credited>>
        /\ \A u \in Users : balance'[u] = balance[u] + Refund(u)
    BY <1>2 DEF ExpireReservedUsage
  <2>2. ASSUME NEW u \in Users, plans = Plans
        PROVE  /\ LienBy(u) = LienBy(u)' + Refund(u) /\ SpentBy(u)' = SpentBy(u)
               /\ Refund(u) \in Nat
    BY <1>2, <2>2, ExpireMoney, RefundType
  <2>3. \A u \in Users : LienBy(u)' \in Nat
    <3>1. ASSUME NEW u \in Users PROVE LienBy(u)' \in Nat
      <4>1. LienRows(u)' \in [1..NumRequests -> Nat]
        BY DEF TypeOK, LienRows, Lien, EventRows
      <4>2. QED
        BY <4>1, RequestsAssumption, TotalNat DEF LienBy
    <3>2. QED
      BY <3>1
  <2>4. QED
    BY <1>0, <2>1, <2>2, <2>3 DEF WalletBounded, Conservation
<1>3. ASSUME NEW w \in Users, AddUserBalance(w) PROVE WalletBounded' /\ Conservation'
  <2>1. PICK usd \in Credits : /\ balance' = [balance EXCEPT ![w] = @ + usd]
                               /\ credited' = [credited EXCEPT ![w] = @ + usd]
    BY <1>3 DEF AddUserBalance
  <2>2. usd \in Nat /\ UNCHANGED <<events, funding, plans>>
    BY <1>3, AmountsAssumption DEF AddUserBalance
  <2>3. \A u \in Users : LienBy(u)' = LienBy(u) /\ SpentBy(u)' = SpentBy(u)
    BY <2>2, SameSums
  <2>4. \A u \in Users :
          /\ balance'[u] = IF u = w THEN balance[u] + usd ELSE balance[u]
          /\ credited'[u] = IF u = w THEN credited[u] + usd ELSE credited[u]
    BY <2>1 DEF TypeOK
  <2>5. \A u \in Users : /\ balance[u] \in Int /\ credited[u] \in Int
                         /\ LienBy(u) \in Int /\ SpentBy(u) \in Int
    BY <1>0
  <2>6. WalletBounded'
    <3>1. ASSUME NEW u \in Users, plans = Plans
          PROVE  balance'[u] + LienBy(u)' <= credited'[u]
      <4>1. balance[u] + LienBy(u) <= credited[u]
        BY <3>1 DEF WalletBounded
      <4>2. QED
        BY <2>2, <2>3, <2>4, <2>5, <4>1
    <3>2. QED
      BY <2>2, <3>1 DEF WalletBounded
  <2>7. Conservation'
    <3>1. ASSUME NEW u \in Users, Modes = {"normal"}, plans = Plans
          PROVE  balance'[u] + LienBy(u)' + SpentBy(u)' = credited'[u]
      <4>1. balance[u] + LienBy(u) + SpentBy(u) = credited[u]
        BY <3>1 DEF Conservation
      <4>2. QED
        BY <2>2, <2>3, <2>4, <2>5, <4>1
    <3>2. QED
      BY <2>2, <3>1 DEF Conservation
  <2>8. QED
    BY <2>6, <2>7
<1>4. ASSUME NEW p \in Plans, DeleteSubscriptionPlan(p)
      PROVE  WalletBounded' /\ Conservation'
  <2>1. plans' # Plans
    BY <1>4 DEF DeleteSubscriptionPlan
  <2>2. QED
    BY <2>1 DEF WalletBounded, Conservation
<1>5. ASSUME UNCHANGED <<events, funding, balance, plans, credited>>
      PROVE  WalletBounded' /\ Conservation'
  <2>1. \A u \in Users : LienBy(u)' = LienBy(u) /\ SpentBy(u)' = SpentBy(u)
    BY <1>5, SameSums
  <2>2. QED
    BY <1>5, <2>1 DEF WalletBounded, Conservation
<1>6. QED
  BY <1>1, <1>2, <1>3, <1>4, <1>5 DEF Next, SwitchFeature, Tick, vars, tables

-----------------------------------------------------------------------------
(* The theorems.                                                           *)

LEMMA InitIInv == Init => IInv
<1> SUFFICES ASSUME Init PROVE IInv
  OBVIOUS
<1>1. TypeOK
  <2>1. NoRow \in EventRows /\ NoNote \in Notes
    BY DEF NoRow, NoNote, EventRows, Notes, EventStates
  <2>2. QED
    BY <2>1 DEF Init, TypeOK, InFlight, Payers
<1>2. \A r \in Requests : RowInv(r)
  BY DEF Init, RowInv, NoRow
<1>3. ASSUME NEW u \in Users PROVE LienBy(u) = 0 /\ SpentBy(u) = 0
  <2>1. /\ LienRows(u) = [i \in 1..NumRequests |-> 0]
        /\ SpentRows(u) = [i \in 1..NumRequests |-> 0]
    BY DEF Init, LienRows, SpentRows, Lien, Spent
  <2>2. QED
    BY <2>1, RequestsAssumption, TotalZero DEF LienBy, SpentBy
<1>4. WalletBounded /\ Conservation
  BY <1>3 DEF WalletBounded, Conservation, Init
<1>5. plans = Plans
  BY DEF Init
<1>6. QED
  BY <1>1, <1>2, <1>4, <1>5 DEF IInv

LEMMA NextIInv == IInv /\ [Next]_vars => IInv'
<1> SUFFICES ASSUME IInv, [Next]_vars PROVE IInv'
  OBVIOUS
<1>0. /\ TypeOK /\ (\A r \in Requests : RowInv(r)) /\ WalletBounded /\ Conservation
      /\ Deletable = {} => plans = Plans
  BY DEF IInv
<1>1. TypeOK'
  BY <1>0, NextType
<1>2. (\A r \in Requests : RowInv(r))'
  BY <1>0, NextRowInv
<1>3. WalletBounded' /\ Conservation'
  BY <1>0, <1>1, NextMoney
<1>4. (Deletable = {} => plans = Plans)'
  <2>1. Deletable = {} => plans' = plans
    <3>1. ASSUME NEW r \in Requests, Handler(r) PROVE plans' = plans
      BY <1>0, <3>1, HandlerMoney
    <3>2. QED
      BY <3>1 DEF Next, ExpireReservedUsage, AddUserBalance, DeleteSubscriptionPlan,
                SwitchFeature, Tick, tables, vars
  <2>2. QED
    BY <1>0, <2>1
<1>5. QED
  BY <1>1, <1>2, <1>3, <1>4 DEF IInv

\* The inductive invariant holds in every reachable state.
THEOREM Inductive == Spec => []IInv
BY InitIInv, NextIInv, PTL DEF Spec

\* Amounts stay natural numbers: no balance is ever overdrawn, no matter how
\* reservations, late commits and expiries interleave (usage_balance.go).
THEOREM TypeCorrect == Spec => []TypeOK
<1>1. IInv => TypeOK
  BY DEF IInv
<1>2. QED
  BY <1>1, Inductive, PTL

\* Money is conserved under normal billing (usage_balance.go).
THEOREM MoneyConserved == Spec => []Conservation
<1>1. IInv => Conservation
  BY DEF IInv
<1>2. QED
  BY <1>1, Inductive, PTL

\* No user ever gets back more than was credited, even when the feature switch
\* moves under open requests (usage_balance.go, free.go).
THEOREM NoMoneyFromNothing == Spec => []WalletBounded
<1>1. IInv => WalletBounded
  BY DEF IInv
<1>2. QED
  BY <1>1, Inductive, PTL

\* A row that left 'reserved' never changes state or amounts again, whatever
\* commit, void or expiry arrives late (WHERE state='reserved').
THEOREM RowsResolvedOnce == Spec => ResolvedOnce
<1> DEFINE Kept(r) == /\ events'[r].state = events[r].state
                      /\ events'[r].committed = events[r].committed
                      /\ events'[r].reserved = events[r].reserved
           Step == \A r \in Requests : events[r].state \in Resolved => Kept(r)
<1>1. IInv /\ [Next]_vars => Step
  <2> SUFFICES ASSUME IInv, [Next]_vars, NEW q \in Requests, events[q].state \in Resolved
               PROVE  Kept(q)
    OBVIOUS
  <2>0. TypeOK /\ events[q] \in EventRows /\ events[q].state \notin {"none", "reserved"}
    BY DEF IInv, TypeOK, Resolved
  <2>1. ASSUME NEW r \in Requests, Handler(r) PROVE Kept(q)
    <3>1. PICK row \in EventRows, payer \in Payers, usd \in Nat :
            /\ Moves(r, row, payer, usd)
            /\ \/ Nothing(r, row, payer, usd)
               \/ Inserts(r, row, payer, usd)
               \/ Resolves(r, row, payer, usd)
      BY <2>0, <2>1, HandlerEffect DEF Effect, IInv
    <3>2. events'[q] = IF q = r THEN row ELSE events[q]
      BY <2>0, <3>1 DEF Moves, TypeOK
    <3>3. QED
      BY <2>0, <3>1, <3>2 DEF Nothing, Inserts, Resolves
  <2>2. CASE ExpireReservedUsage
    BY <2>0, <2>2 DEF ExpireReservedUsage, Due
  <2>3. ASSUME NEW p \in Plans, DeleteSubscriptionPlan(p) PROVE Kept(q)
    <3>1. events'[q] = events[q] \/ events'[q] = [events[q] EXCEPT !.sub = NoSub]
      BY <2>3 DEF DeleteSubscriptionPlan
    <3>2. QED
      BY <2>0, <3>1 DEF EventRows
  <2>4. CASE UNCHANGED events
    BY <2>4
  <2>5. QED
    BY <2>1, <2>2, <2>3, <2>4
    DEF Next, AddUserBalance, SwitchFeature, Tick, tables, vars
<1>2. QED
  BY <1>1, Inductive, PTL DEF Spec, ResolvedOnce

\* While subscription_id tells who paid, a reservation that would be refunded
\* something was debited from a balance.
LEMMA RefundedWasDebited ==
  ASSUME IInv, Deletable = {}, NEW r \in Requests,
         events[r].state = "reserved", events[r].sub = NoSub, events[r].reserved > 0
  PROVE  funding[r] = "balance"
<1>1. RowInv(r) /\ plans = Plans /\ funding[r] \in Payers
  BY DEF IInv, TypeOK
<1>2. QED
  BY <1>1 DEF RowInv, Payers

\* As long as no plan is deleted, expiry, commit and void refund only what was
\* debited (usage_balance.go:264); the deletion of a plan breaks it.
THEOREM OnlyPayAsYouGoRefunded ==
  ASSUME Deletable = {}
  PROVE  Spec => RefundsOnlyPayAsYouGo
<1> DEFINE Justified(u) ==
      \/ credited'[u] > credited[u]
      \/ \E r \in Requests : /\ Owner[r] = u /\ funding[r] = "balance"
                             /\ events[r].state = "reserved"
                             /\ events'[r].state # "reserved"
           Step == \A u \in Users : balance'[u] > balance[u] => Justified(u)
<1>1. IInv /\ [Next]_vars => Step
  <2> SUFFICES ASSUME IInv, [Next]_vars, NEW u \in Users, balance'[u] > balance[u]
               PROVE  Justified(u)
    OBVIOUS
  <2>0. TypeOK /\ balance[u] \in Nat
    BY DEF IInv, TypeOK
  <2>1. ASSUME NEW r \in Requests, Handler(r) PROVE Justified(u)
    <3>1. PICK row \in EventRows, payer \in Payers, usd \in Nat :
            /\ Moves(r, row, payer, usd)
            /\ \/ Nothing(r, row, payer, usd)
               \/ Inserts(r, row, payer, usd)
               \/ Resolves(r, row, payer, usd)
      BY <2>0, <2>1, HandlerEffect DEF Effect, IInv
    <3>2. /\ events'[r] = row
          /\ balance'[u] = IF u = Owner[r] THEN usd ELSE balance[u]
      BY <2>0, <3>1, OwnerAssumption DEF Moves, TypeOK
    <3>3. u = Owner[r] /\ usd > balance[u]
      BY <2>0, <3>2
    <3>4. row.reserved \in Nat /\ row.committed \in Nat
      BY DEF EventRows
    <3>5. Resolves(r, row, payer, usd)
      BY <2>0, <3>1, <3>3, <3>4 DEF Nothing, Inserts
    <3>6. /\ events[r].sub = NoSub /\ events[r].reserved > 0
          /\ events[r].state = "reserved" /\ row.state # "reserved"
      BY <2>0, <3>3, <3>4, <3>5 DEF Resolves
    <3>7. funding[r] = "balance"
      BY <3>6, RefundedWasDebited
    <3>8. QED
      BY <3>2, <3>3, <3>6, <3>7
  <2>2. CASE ExpireReservedUsage
    <3>1. balance'[u] = balance[u] + Refund(u)
      BY <2>2 DEF ExpireReservedUsage
    <3>2. Refund(u) # 0
      BY <2>0, <3>1
    <3>3. PICK r \in Requests : RefundRows(u)[r] # 0
      <4>1. CASE \A r \in Requests : RefundRows(u)[r] = 0
        <5>1. RefundRows(u) = [i \in 1..NumRequests |-> 0]
          BY <4>1 DEF RefundRows
        <5>2. QED
          BY <3>2, <5>1, RequestsAssumption, TotalZero DEF Refund
      <4>2. QED
        BY <4>1
    <3>4. /\ Owner[r] = u /\ Due(r) /\ events[r].sub = NoSub
          /\ events[r].reserved # 0 /\ events[r].reserved \in Nat
      BY <2>0, <3>3 DEF RefundRows, TypeOK, EventRows
    <3>5. events[r].state = "reserved" /\ events'[r].state = "expired"
      BY <2>0, <2>2, <3>4 DEF ExpireReservedUsage, Due, TypeOK, EventRows
    <3>6. funding[r] = "balance"
      BY <3>4, <3>5, RefundedWasDebited
    <3>7. QED
      BY <3>4, <3>5, <3>6
  <2>3. ASSUME NEW w \in Users, AddUserBalance(w) PROVE Justified(u)
    <3>1. PICK usd \in Credits : /\ balance' = [balance EXCEPT ![w] = @ + usd]
                                 /\ credited' = [credited EXCEPT ![w] = @ + usd]
      BY <2>3 DEF AddUserBalance
    <3>2. u = w /\ usd \in Nat \ {0} /\ credited[u] \in Nat
      BY <2>0, <3>1, AmountsAssumption DEF TypeOK
    <3>3. credited'[u] > credited[u]
      BY <2>0, <3>1, <3>2 DEF TypeOK
    <3>4. QED
      BY <3>3
  <2>4. balance' # balance
    BY <2>0
  <2>5. QED
    BY <2>1, <2>2, <2>3, <2>4
    DEF Next, DeleteSubscriptionPlan, SwitchFeature, Tick, tables, vars
<1>2. QED
  BY <1>1, Inductive, PTL DEF Spec, RefundsOnlyPayAsYouGo

-----------------------------------------------------------------------------
(* Billing implements the Wallet.                                          *)

\* What a handler step is to the Wallet: a hold, a charge or nothing.
LEMMA HandlerImplements ==
  ASSUME IInv, TypeOK', Modes = {"normal"}, plans = Plans,
         NEW r \in Requests, Handler(r)
  PROVE  W!Hold(Owner[r]) \/ W!Charge(Owner[r]) \/ UNCHANGED W!vars
<1> DEFINE o == Owner[r]
           held == [u \in Users |-> LienBy(u)]
           spent == [u \in Users |-> SpentBy(u)]
           dl == Lien(r)' - Lien(r)
           ds == Spent(r)' - Spent(r)
<1>0. /\ TypeOK /\ RowInv(r) /\ o \in Users
      /\ balance[o] \in Nat /\ balance'[o] \in Nat
  BY OwnerAssumption DEF IInv, TypeOK
<1>1. /\ \A q \in Requests \ {r} : Lien(q)' = Lien(q) /\ Spent(q)' = Spent(q)
      /\ \A u \in Users \ {o} : balance'[u] = balance[u]
      /\ balance'[o] + Lien(r)' + Spent(r)' = balance[o] + Lien(r) + Spent(r)
      /\ Spent(r)' >= Spent(r)
      /\ Lien(r)' <= Lien(r) \/ Spent(r)' = Spent(r)
  BY <1>0, HandlerMoney
<1>2. /\ Lien(r) \in Nat /\ Lien(r)' \in Nat /\ Spent(r) \in Nat /\ Spent(r)' \in Nat
  BY <1>0 DEF TypeOK, Lien, Spent, EventRows
<1>3. ASSUME NEW u \in Users
      PROVE  /\ LienBy(u)' = LienBy(u) + (IF o = u THEN dl ELSE 0)
             /\ SpentBy(u)' = SpentBy(u) + (IF o = u THEN ds ELSE 0)
             /\ LienBy(u) \in Nat /\ SpentBy(u) \in Nat
  BY <1>0, <1>1, LienUpdate, SpentUpdate, LienType, SpentType
<1>4. dl \in Int /\ ds \in Nat /\ balance'[o] = balance[o] - dl - ds
  BY <1>0, <1>1, <1>2
<1>5. dl <= 0 \/ ds = 0
  BY <1>1, <1>2
<1>6. LienBy(o)' \in Nat
  <2>1. LienRows(o)' \in [1..NumRequests -> Nat]
    BY <1>0 DEF TypeOK, LienRows, Lien, EventRows
  <2>2. QED
    BY <2>1, RequestsAssumption, TotalNat DEF LienBy
<1> HIDE DEF dl, ds
<1>7. /\ balance' = [balance EXCEPT ![o] = @ - dl - ds]
      /\ held' = [held EXCEPT ![o] = @ + dl]
      /\ spent' = [spent EXCEPT ![o] = @ + ds]
  <2>1. balance' = [balance EXCEPT ![o] = @ - dl - ds]
    BY <1>0, <1>1, <1>4 DEF TypeOK
  <2>2. held' = [held EXCEPT ![o] = @ + dl]
    BY <1>0, <1>3, <1>4
  <2>3. spent' = [spent EXCEPT ![o] = @ + ds]
    BY <1>0, <1>3, <1>4
  <2>4. QED
    BY <2>1, <2>2, <2>3
<1>8. held[o] = LienBy(o) /\ held[o] \in Nat /\ held[o] + dl \in Nat
  BY <1>0, <1>3, <1>6
<1> HIDE DEF held, spent
<1>9. CASE dl <= 0
  <2> DEFINE hold == 0 - dl
  <2>1. hold \in 0..held[o] /\ ds \in 0..(hold + balance[o])
    BY <1>0, <1>4, <1>8, <1>9
  <2>2. /\ balance' = [balance EXCEPT ![o] = @ + hold - ds]
        /\ held' = [held EXCEPT ![o] = @ - hold]
        /\ spent' = [spent EXCEPT ![o] = @ + ds]
    <3>1. balance[o] - dl - ds = balance[o] + hold - ds /\ held[o] + dl = held[o] - hold
      BY <1>0, <1>4, <1>8
    <3>2. QED
      BY <1>7, <3>1
  <2> HIDE DEF hold
  <2>3. W!Charge(o)
    BY <2>1, <2>2 DEF W!Charge, held, spent
  <2>4. QED
    BY <2>3
<1>10. CASE dl > 0 /\ ds = 0
  <2>1. dl \in 1..balance[o]
    BY <1>0, <1>4, <1>10
  <2>2. /\ balance' = [balance EXCEPT ![o] = @ - dl]
        /\ held' = [held EXCEPT ![o] = @ + dl]
    <3>1. balance[o] - dl - ds = balance[o] - dl
      BY <1>0, <1>4, <1>10
    <3>2. QED
      BY <1>7, <3>1
  <2>3. spent' = spent
    BY <1>0, <1>3, <1>10 DEF spent
  <2>4. W!Hold(o)
    BY <2>1, <2>2, <2>3 DEF W!Hold, held, spent
  <2>5. QED
    BY <2>4
<1>11. QED
  BY <1>4, <1>5, <1>9, <1>10

\* With billing on and no plan ever deleted, the money path implements the
\* Wallet: nothing but deposits, holds, charges and releases reaches a balance.
THEOREM BillingImplementsWallet ==
  ASSUME Modes = {"normal"}, Deletable = {}
  PROVE  Spec => ImplementsWallet
<1>1. Init => W!Init
  <2> SUFFICES ASSUME Init PROVE W!Init
    OBVIOUS
  <2>1. ASSUME NEW u \in Users PROVE LienBy(u) = 0 /\ SpentBy(u) = 0
    <3>1. /\ LienRows(u) = [i \in 1..NumRequests |-> 0]
          /\ SpentRows(u) = [i \in 1..NumRequests |-> 0]
      BY DEF Init, LienRows, SpentRows, Lien, Spent
    <3>2. QED
      BY <3>1, RequestsAssumption, TotalZero DEF LienBy, SpentBy
  <2>2. QED
    BY <2>1 DEF Init, W!Init
<1>2. IInv /\ [Next]_vars => [W!Next]_W!vars
  <2> SUFFICES ASSUME IInv, [Next]_vars PROVE [W!Next]_W!vars
    OBVIOUS
  <2>0. TypeOK /\ TypeOK' /\ plans = Plans /\ \A r \in Requests : RowInv(r)
    BY NextIInv DEF IInv
  <2>1. ASSUME NEW r \in Requests, Handler(r) PROVE [W!Next]_W!vars
    <3>1. W!Hold(Owner[r]) \/ W!Charge(Owner[r]) \/ UNCHANGED W!vars
      BY <2>0, <2>1, HandlerImplements
    <3>2. Owner[r] \in Users
      BY OwnerAssumption
    <3>3. QED
      BY <3>1, <3>2 DEF W!Next
  <2>2. CASE ExpireReservedUsage
    <3> DEFINE held == [u \in Users |-> LienBy(u)]
    <3>1. \A u \in Users : /\ LienBy(u) = LienBy(u)' + Refund(u)
                          /\ SpentBy(u)' = SpentBy(u)
                          /\ Refund(u) \in Nat /\ LienBy(u) \in Nat
      BY <2>0, <2>2, ExpireMoney, RefundType, LienType
    <3>2. \A u \in Users : LienBy(u)' \in Nat
      <4>1. ASSUME NEW u \in Users PROVE LienBy(u)' \in Nat
        <5>1. LienRows(u)' \in [1..NumRequests -> Nat]
          BY <2>0 DEF TypeOK, LienRows, Lien, EventRows
        <5>2. QED
          BY <5>1, RequestsAssumption, TotalNat DEF LienBy
      <4>2. QED
        BY <4>1
    <3>3. /\ held' \in [Users -> Nat]
          /\ \A u \in Users : held'[u] <= held[u]
      BY <3>1, <3>2
    <3>4. balance' = [u \in Users |-> balance[u] + (held[u] - held'[u])]
      <4>1. balance' = [u \in Users |-> balance[u] + Refund(u)]
        BY <2>2 DEF ExpireReservedUsage
      <4>2. \A u \in Users : Refund(u) = held[u] - held'[u]
        BY <3>1, <3>2
      <4>3. QED
        BY <4>1, <4>2
    <3>5. [u \in Users |-> SpentBy(u)]' = [u \in Users |-> SpentBy(u)]
      BY <3>1
    <3>6. W!Release
      BY <3>3, <3>4, <3>5 DEF W!Release
    <3>7. QED
      BY <3>6 DEF W!Next
  <2>3. ASSUME NEW w \in Users, AddUserBalance(w) PROVE [W!Next]_W!vars
    <3>1. PICK usd \in Credits : balance' = [balance EXCEPT ![w] = @ + usd]
      BY <2>3 DEF AddUserBalance
    <3>2. UNCHANGED <<events, funding>>
      BY <2>3 DEF AddUserBalance
    <3>3. \A u \in Users : LienBy(u)' = LienBy(u) /\ SpentBy(u)' = SpentBy(u)
      BY <3>2, SameSums
    <3>4. W!Deposit(w)
      BY <3>1, <3>3 DEF W!Deposit
    <3>5. QED
      BY <3>4 DEF W!Next
  <2>4. ASSUME UNCHANGED <<events, funding, balance>> PROVE [W!Next]_W!vars
    <3>1. \A u \in Users : LienBy(u)' = LienBy(u) /\ SpentBy(u)' = SpentBy(u)
      BY <2>4, SameSums
    <3>2. QED
      BY <2>4, <3>1 DEF W!vars
  <2>5. \A p \in Plans : ~ DeleteSubscriptionPlan(p)
    BY DEF DeleteSubscriptionPlan
  <2>6. QED
    BY <2>1, <2>2, <2>3, <2>4, <2>5 DEF Next, SwitchFeature, Tick, tables, vars
<1>3. QED
  BY <1>1, <1>2, Inductive, PTL DEF Spec, ImplementsWallet, W!Spec

=============================================================================
