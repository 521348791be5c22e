------------------------------ MODULE MCLedgers ------------------------------
\* Orders with their payments until they are settled, or the totals of usage: they
\* share nothing, and one of them is at work.
EXTENDS MCOrders, Statistics

\* A day before the cutover, the hours on both sides of it, and the hour after it.
MCRanges == {<<0, 4>>, <<2, 6>>, <<4, 6>>}

VARIABLES
    scene,  \* which of the two is at work
    helper  \* the one backfill at work besides the requests

EitherInit ==
    /\ scene \in {"orders", "usage"}
    /\ helper \in IF scene = "usage" THEN {{w} : w \in Workers} ELSE {{}}
    /\ Init /\ RollupsInit
EitherNext ==
    /\ UNCHANGED <<scene, helper>>
    /\ \/ scene = "orders" /\ Next /\ UNCHANGED rollupVars
       \/ scene = "usage" /\ RollupsNext(helper) /\ UNCHANGED vars
EitherSpec ==
    /\ EitherInit /\ [][EitherNext]_<<vars, rollupVars, scene, helper>>
    /\ Fairness

=============================================================================
