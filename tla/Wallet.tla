------------------------------- MODULE Wallet -------------------------------
(***************************************************************************)
(* What the money path promises its users, without rows, races or clocks:  *)
(* a deposit enters the wallet, a hold sets part of it aside, and what was *)
(* held is later charged or given back.  Billing implements it as long as  *)
(* billing stays on and no plan is deleted.                                *)
(***************************************************************************)
EXTENDS Integers

CONSTANTS Users,
          Credits    \* the amounts that may be deposited

VARIABLES wallet,    \* what the user may still spend
          held,      \* set aside for requests that still run
          spent      \* charged for good

vars == <<wallet, held, spent>>

Init == wallet = [u \in Users |-> 0] /\ held = wallet /\ spent = wallet

Deposit(u) ==
    /\ \E usd \in Credits : wallet' = [wallet EXCEPT ![u] = @ + usd]
    /\ UNCHANGED <<held, spent>>

Hold(u) ==
    /\ \E usd \in 1..wallet[u] :
        /\ wallet' = [wallet EXCEPT ![u] = @ - usd]
        /\ held' = [held EXCEPT ![u] = @ + usd]
    /\ UNCHANGED spent

\* The charge may exceed the hold, but not what the wallet can add to it.
Charge(u) ==
    \E hold \in 0..held[u] : \E usd \in 0..(hold + wallet[u]) :
        /\ wallet' = [wallet EXCEPT ![u] = @ + hold - usd]
        /\ held' = [held EXCEPT ![u] = @ - hold]
        /\ spent' = [spent EXCEPT ![u] = @ + usd]

\* Any part of the holds of any users comes back at once.
Release ==
    /\ held' \in [Users -> Nat]
    /\ \A u \in Users : held'[u] <= held[u]
    /\ wallet' = [u \in Users |-> wallet[u] + (held[u] - held'[u])]
    /\ UNCHANGED spent

Next ==
    \/ \E u \in Users : Deposit(u) \/ Hold(u) \/ Charge(u)
    \/ Release

Spec == Init /\ [][Next]_vars

=============================================================================
