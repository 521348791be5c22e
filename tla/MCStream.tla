------------------------------ MODULE MCStream ------------------------------
\* One request alone with its failover, or one stream on its way to a client.
EXTENDS MCRelay, StreamPump

VARIABLE scene

NoOptions == [pings |-> FALSE, idle |-> FALSE, limit |-> FALSE]

EitherInit ==
    /\ scene \in {"request", "stream"}
    /\ Init /\ PumpInit /\ (scene = "request" => opts = NoOptions)
EitherNext ==
    /\ UNCHANGED scene
    /\ \/ scene = "request" /\ Next /\ UNCHANGED pumpVars
       \/ scene = "stream" /\ PumpNext /\ UNCHANGED vars
EitherSpec ==
    /\ EitherInit /\ [][EitherNext]_<<vars, pumpVars, scene>>
    /\ Fairness /\ PumpFairness

=============================================================================
