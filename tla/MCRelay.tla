------------------------------- MODULE MCRelay -------------------------------
\* Group 1 holds channel 1 and, nested, group 2, which holds channel 2 and, as two
\* administrators at once can arrange it, group 1 again.
EXTENDS Relay

MCChannelOf == [k \in Credentials |-> IF k = "other" THEN 2 ELSE 1]
MCSession == [r \in Requests |-> IF r = 1 THEN CHOOSE s \in Sessions : TRUE ELSE None]
MCMembers == <<{1}, {2}>>
MCSubgroups == <<{2}, {1}>>
MCRank == <<<<1, 0>>, <<0, 0>>>>

\* Two requests, the second with group 2 only; one request alone, with more attempts.
MCMaxAttempts == <<2, 1>>
MCGroupOrder == <<<<1>>, <<2>>>>
MCMaxAttemptsAlone == <<3, 2>>
MCGroupOrderAlone == <<<<1, 2>>>>

=============================================================================
