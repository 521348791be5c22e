------------------------------- MODULE Answer -------------------------------
(***************************************************************************)
(* What a client is promised about one request, whatever happens to the    *)
(* upstreams: it gets one answer; upstreams are tried only until it has    *)
(* begun; and what was reserved for it is settled once, charged only if    *)
(* the answer came from an upstream.  Relay implements it.                 *)
(***************************************************************************)
CONSTANT Requests

VARIABLES
    answer,    \* none, an error of the relay's own or an upstream's, relayed
    asked,     \* an upstream is working for the request
    usage      \* none, reserved, committed, void

vars == <<answer, asked, usage>>

Init ==
    /\ answer = [r \in Requests |-> "none"]
    /\ asked = [r \in Requests |-> FALSE]
    /\ usage = [r \in Requests |-> "none"]

Reserve(r) ==
    /\ answer[r] = "none" /\ usage[r] = "none"
    /\ usage' = [usage EXCEPT ![r] = "reserved"]
    /\ UNCHANGED <<answer, asked>>

Refuse(r) ==
    /\ answer[r] = "none" /\ usage[r] = "none"
    /\ answer' = [answer EXCEPT ![r] = "error"]
    /\ UNCHANGED <<asked, usage>>

Ask(r) ==
    /\ answer[r] = "none" /\ usage[r] = "reserved" /\ ~asked[r]
    /\ asked' = [asked EXCEPT ![r] = TRUE]
    /\ UNCHANGED <<answer, usage>>

\* The upstream did not answer, or not in a way the client should see.
Fail(r) ==
    /\ asked[r] /\ answer[r] = "none"
    /\ asked' = [asked EXCEPT ![r] = FALSE]
    /\ UNCHANGED <<answer, usage>>

\* The answer is an error, and nothing is charged.
GiveUp(r) ==
    /\ answer[r] = "none" /\ usage[r] = "reserved"
    /\ answer' = [answer EXCEPT ![r] = "error"]
    /\ asked' = [asked EXCEPT ![r] = FALSE]
    /\ usage' = [usage EXCEPT ![r] = "void"]

Begin(r) ==
    /\ asked[r] /\ answer[r] = "none"
    /\ answer' = [answer EXCEPT ![r] = "relayed"]
    /\ UNCHANGED <<asked, usage>>

End(r) ==
    /\ asked[r] /\ answer[r] = "relayed"
    /\ asked' = [asked EXCEPT ![r] = FALSE]
    /\ \E outcome \in {"committed", "void"} : usage' = [usage EXCEPT ![r] = outcome]
    /\ UNCHANGED answer

Next == \E r \in Requests :
            \/ Reserve(r) \/ Refuse(r) \/ Ask(r) \/ Fail(r)
            \/ GiveUp(r) \/ Begin(r) \/ End(r)

Spec == Init /\ [][Next]_vars

=============================================================================
