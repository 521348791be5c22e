------------------------------ MODULE MCBilling ------------------------------
(* Small instances of Billing for TLC. *)
EXTENDS Billing, TLC

CONSTANTS u1, u2, basic

\* Requests 1 and 2 are of user u1, who subscribes; 3 is of u2, who does not.
MCOwner == [r \in Requests |-> IF r = 3 THEN u2 ELSE u1]
MCSub == 1 :> [user |-> u1, plan |-> basic, start |-> 0, end |-> 2]
MCPlanLimit == basic :> (2 :> 2)

=============================================================================
