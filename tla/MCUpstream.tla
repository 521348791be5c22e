------------------------------ MODULE MCUpstream ------------------------------
\* Two requests with their failover, or one Codex account and those who refresh it.
EXTENDS MCRelay, CodexAccounts, TLC

VARIABLE scene

UpstreamInit == scene \in {"requests", "account"} /\ Init /\ CodexInit
UpstreamNext ==
    /\ UNCHANGED scene
    /\ \/ scene = "requests" /\ Next /\ UNCHANGED codexVars
       \/ scene = "account" /\ CodexNext /\ UNCHANGED vars
UpstreamSpec == UpstreamInit /\ [][UpstreamNext]_<<vars, codexVars, scene>>

\* Requests are the same to an account; those of the relay are numbers.
Symmetry == Permutations(Callers)

=============================================================================
