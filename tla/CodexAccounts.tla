---------------------------- MODULE CodexAccounts -----------------------------
(***************************************************************************)
(* A Codex OAuth account at work: requests and the balance loop refresh    *)
(* its tokens, the issuer takes each refresh token once, and an account    *)
(* that is exhausted rests, by its row and by each instance's memory.      *)
(*                                                                         *)
(*   internal/upstream/executor.go          (buildRequest)                 *)
(*   internal/codexoauth/client.go          (Refresh)                      *)
(*   internal/server/app.go                 (refreshCodexBalance)          *)
(*   internal/scheduler/scheduler.go        (selectCredential, Report)     *)
(*   internal/scheduler/state.go            (SetCredentialCooling)         *)
(*   internal/api/openai/handler.go         (proxyOnce)                    *)
(*   internal/store/upstreams.go            (codex_oauth_accounts)         *)
(*                                                                         *)
(* One account, whose grant no other account shares.  Of a time the model  *)
(* has what it is compared with: whether an access token is `due` to be    *)
(* refreshed, and whether a rest is over; all answers to one exhaustion    *)
(* name one end.  What a poll does with a quota but for its 401 and 403,   *)
(* and bans of the channel (Relay), are left out.                          *)
(***************************************************************************)
EXTENDS Naturals

CONSTANTS
    Instances, \* processes over the one database
    Callers,   \* requests of the data plane
    Pollers,   \* runs of refreshCodexBalance: the loop's and the console's
    MaxTokens, \* refresh tokens issued (a bound)
    MaxCalls   \* requests and polls begun, and tried again (a bound)

NoInstance == "none"
ASSUME CodexAssumption ==
    /\ MaxTokens \in Nat \ {0} /\ MaxCalls \in Nat
    /\ NoInstance \notin Instances /\ Callers \cap Pollers = {}

VARIABLES
    account, \* the row of codex_oauth_accounts
    live,    \* the refresh token the issuer takes, 0 for none
    memory,  \* of each instance: the cooldown of the account in state.go, the 30
             \* seconds of lastRefresh, and the cached list of accounts
    work,    \* where each request and each poll is
    calls,   \* requests and polls begun, and selections tried again
    limits,  \* history of reported limits
    mishap   \* history: what happened to the grant that no throttle prevents

codexVars == <<account, live, memory, work, calls, limits, mishap>>

Parties == Callers \cup Pollers
Rests == {"none", "short", "limit"}
Tokens == 0..MaxTokens
AccountRows == [there: BOOLEAN, on: BOOLEAN, token: Tokens, due: BOOLEAN, rest: Rests]
ListRows == [on: BOOLEAN, rest: Rests]
MemoryRows == [cool: Rests, hold: BOOLEAN, seen: ListRows]
WorkRows == [op: {"idle", "read", "check", "ask", "save", "off", "tire", "send", "rest",
                  "report", "failed", "broken", "quota"},
             on: Instances \cup {NoInstance}, token: Tokens, due: BOOLEAN,
             again: BOOLEAN, rest: Rests]
Idle == [op |-> "idle", on |-> NoInstance, token |-> 0, due |-> FALSE,
         again |-> FALSE, rest |-> "none"]

CodexTypeOK ==
    /\ account \in AccountRows /\ live \in Tokens
    /\ calls \in 0..MaxCalls /\ mishap \in BOOLEAN
    /\ memory \in [Instances -> MemoryRows]
    /\ work \in [Parties -> WorkRows]
    /\ limits \in [owed: SUBSET Instances, sank: SUBSET Instances, freed: BOOLEAN]

Reached(w, op) == work[w].op = op
Goes(w, row) == work' = [work EXCEPT ![w] = row]
GoesTo(w, op) == Goes(w, [work[w] EXCEPT !.op = op])
Leaves(w) == Goes(w, Idle)
\* The request is built; its tokens are out of the way.
Sends(r) == Goes(r, [Idle EXCEPT !.op = "send", !.on = work[r].on])
\* Who may still use the refresh token it has read.
Refreshing(w) == work[w].op \in {"check", "ask", "save", "quota"}
\* The throttle keeps the requests of one instance apart, and nobody else.
Throttled(v, w) == {v, w} \subseteq Callers /\ work[v].on = work[w].on
Overlaps(w) == \E v \in Parties \ {w} : Refreshing(v) /\ ~Throttled(v, w)

-----------------------------------------------------------------------------
(* selectCredential, for an account alone at its endpoint.                 *)

\* The account as a list has it: on, off or gone, resting.
InList == [on |-> account.there /\ account.on, rest |-> account.rest]
\* Without a binding the row must let it, as the cached list has it.
Offered(i) ==
    LET seen == memory[i].seen
    IN  memory[i].cool = "none" /\ seen.on /\ seen.rest = "none"
Enters(w, i) ==
    /\ Reached(w, "idle") /\ calls < MaxCalls /\ calls' = calls + 1
    /\ Goes(w, [Idle EXCEPT !.op = "read", !.on = i])
    /\ UNCHANGED <<account, live, memory, limits, mishap>>
\* A bound session asks only whether the credential is cooling in memory.
Select(r, i, bound) ==
    /\ IF bound THEN memory[i].cool = "none" ELSE Offered(i)
    /\ Enters(r, i)
\* The list of accounts runs out, or is purged, and is read anew.
ListAccounts(i) ==
    /\ memory' = [memory EXCEPT ![i].seen = InList]
    /\ UNCHANGED <<account, live, work, calls, limits, mishap>>

-----------------------------------------------------------------------------
(* buildRequest.                                                           *)

\* The row is read whatever its status; without it exec.Do fails.
ReadSecret(r) ==
    /\ Reached(r, "read")
    /\ \/ GoesTo(r, "broken") /\ UNCHANGED mishap
       \/ account.there /\ ~account.due /\ Sends(r) /\ UNCHANGED mishap
       \/ /\ account.there /\ account.due
          /\ Goes(r, [work[r] EXCEPT !.op = "check", !.token = account.token, !.due = TRUE])
          /\ mishap' = (mishap \/ Overlaps(r))
    /\ UNCHANGED <<account, live, memory, limits, calls>>

\* A shouldAttemptRefresh without the 30 seconds.
AttemptAlways(r) ==
    /\ Reached(r, "check") /\ GoesTo(r, "ask")
    /\ memory' = [memory EXCEPT ![work[r].on].hold = TRUE]
    /\ UNCHANGED <<account, live, limits, mishap, calls>>

\* Who may not refresh sends the access token it has, and so does who fails to.
ShouldAttemptRefresh(r) ==
    LET i == work[r].on
    IN  /\ Reached(r, "check")
        /\ IF memory[i].hold THEN Sends(r) /\ UNCHANGED memory
           ELSE GoesTo(r, "ask") /\ memory' = [memory EXCEPT ![i].hold = TRUE]
        /\ UNCHANGED <<account, live, limits, mishap, calls>>

\* Where a refresh without tokens leaves its caller.
Asked(p) == IF work[p].again THEN Leaves(p) ELSE GoesTo(p, "quota")
Denied(w, op) == IF w \in Callers THEN GoesTo(w, op) ELSE Asked(w)
\* The issuer may give the same refresh token again.
Renewed == {live, live + 1} \cap Tokens
Refreshed(w) ==
    /\ Reached(w, "ask") /\ work[w].token = live
    /\ live' \in Renewed
    /\ Goes(w, [work[w] EXCEPT !.op = "save", !.token = live'])
    /\ UNCHANGED <<account, memory, limits, mishap, calls>>
\* A token spent is an invalid grant, or refused under another name.
Rejected(w) ==
    /\ Reached(w, "ask") /\ work[w].token # live
    /\ Denied(w, "off") \/ Denied(w, "tire")
    /\ UNCHANGED <<account, live, memory, limits, mishap, calls>>
\* No answer: the issuer may have given the token all the same.  Some errors are
\* tried up to three times; a canceled context leaves no trace.
NoAnswer(w) ==
    /\ Reached(w, "ask")
    /\ live' \in IF work[w].token = live THEN Renewed ELSE {live}
    /\ mishap' = (mishap \/ live' # live)
    /\ UNCHANGED work \/ Denied(w, "tire") \/ (w \in Callers /\ Sends(w))
    /\ UNCHANGED <<account, memory, limits, calls>>

\* What an UPDATE of the row leaves; its error is dropped, that of a canceled
\* context too.
Updated(row) == {account, IF account.there THEN row ELSE account}
RowFreed == [limits EXCEPT !.freed = @ \/ (account.rest = "limit" /\ account'.rest # "limit")]
\* UpdateCodexOAuthAccountTokens also ends a rest.  Without expires_in the former
\* expiry stays.
SaveTokens(w) ==
    LET row(due) == [account EXCEPT !.token = work[w].token, !.due = due, !.rest = "none"]
    IN  /\ Reached(w, "save")
        /\ account' \in Updated(row(FALSE)) \cup Updated(row(work[w].due))
        /\ mishap' = (mishap \/ account'.token # work[w].token)
        /\ limits' = RowFreed
        /\ IF w \in Callers THEN Sends(w) ELSE Asked(w)
        /\ UNCHANGED <<live, memory, calls>>

\* recordCodexOAuthRefreshFailure: an invalid grant ends the account, another
\* failure rests it for two minutes, however long it was to rest.
TurnOff(r) ==
    /\ Reached(r, "off") /\ Sends(r)
    /\ account' \in Updated([account EXCEPT !.on = FALSE])
    /\ UNCHANGED <<live, memory, limits, mishap, calls>>
Tire(r) ==
    /\ Reached(r, "tire") /\ Sends(r)
    /\ account' \in Updated([account EXCEPT !.rest = "short"])
    /\ limits' = RowFreed
    /\ UNCHANGED <<live, memory, mishap, calls>>

-----------------------------------------------------------------------------
(* proxyOnce, and Report.                                                  *)

\* A usage limit is told with its end; any other failure may be retriable.
Answered(r) ==
    /\ Reached(r, "send")
    /\ \/ Leaves(r) \/ GoesTo(r, "failed") \/ GoesTo(r, "broken")
       \/ Goes(r, [work[r] EXCEPT !.op = "rest", !.rest = "limit"])
    /\ UNCHANGED <<account, live, memory, limits, mishap, calls>>
\* SetCodexOAuthAccountCooldown; by then the end may have passed.
SetCooldown(r) ==
    /\ Reached(r, "rest") /\ GoesTo(r, "report")
    /\ account' \in Updated([account EXCEPT !.rest = work[r].rest])
    /\ limits' = [limits EXCEPT !.freed = account'.rest # "limit"]
    /\ UNCHANGED <<live, memory, mishap, calls>>

\* A Report that forgets CooldownUntil.
ReportBase(r) ==
    /\ Reached(r, "report") /\ Leaves(r)
    /\ memory' = [memory EXCEPT ![work[r].on].cool = "short"]
    /\ limits' = [limits EXCEPT !.owed = @ \cup {work[r].on}, !.sank = @ \ {work[r].on}]
    /\ UNCHANGED <<account, live, mishap, calls>>

\* SetCredentialCooling overwrites.
Cools(i, rest) ==
    /\ memory' = [memory EXCEPT ![i].cool = rest]
    /\ limits' = IF rest = "limit" THEN [limits EXCEPT !.owed = @ \cup {i}, !.sank = @ \ {i}]
                 ELSE IF memory[i].cool = "limit" THEN [limits EXCEPT !.sank = @ \cup {i}]
                 ELSE limits
\* Until the limit's end, or a base cooldown if that is over; and after a failure
\* the base cooldown.  When exec.Do failed the same selection may be tried again.
ReportExhausted(r) ==
    /\ Reached(r, "report") /\ Leaves(r)
    /\ Cools(work[r].on, IF work[r].rest = "limit" THEN "limit" ELSE "short")
    /\ UNCHANGED <<account, live, mishap, calls>>
ReportFailure(r) ==
    /\ work[r].op \in {"failed", "broken"} /\ Cools(work[r].on, "short")
    /\ \/ Leaves(r) /\ UNCHANGED calls
       \/ Reached(r, "broken") /\ calls < MaxCalls /\ GoesTo(r, "read") /\ calls' = calls + 1
    /\ UNCHANGED <<account, live, mishap>>

-----------------------------------------------------------------------------
(* refreshCodexBalance.                                                    *)

PollReads(p) ==
    /\ Reached(p, "read")
    /\ \/ Leaves(p) /\ UNCHANGED mishap
       \/ /\ account.there
          /\ Goes(p, [work[p] EXCEPT !.op = IF account.due THEN "ask" ELSE "quota",
                                     !.token = account.token, !.due = account.due])
          /\ mishap' = (mishap \/ Overlaps(p))
    /\ UNCHANGED <<account, live, memory, limits, calls>>
\* 401 and 403 make it refresh once more, with the token it has by now.
FetchQuota(p) ==
    /\ Reached(p, "quota")
    /\ \/ Leaves(p)
       \/ ~work[p].again /\ Goes(p, [work[p] EXCEPT !.op = "ask", !.again = TRUE])
    /\ UNCHANGED <<account, live, memory, limits, mishap, calls>>

-----------------------------------------------------------------------------
\* An administrator deletes the account.
DeleteAccount ==
    /\ account.there
    /\ account' = [account EXCEPT !.there = FALSE, !.rest = "none"]
    /\ UNCHANGED <<live, memory, work, limits, mishap, calls>>
\* The owner, at the issuer, takes the grant back.
Revoked ==
    /\ live' = 0 /\ mishap' = TRUE
    /\ UNCHANGED <<account, memory, work, limits, calls>>
\* Time: the access token comes within five minutes of its end, 30 seconds pass
\* after a refresh began, a short rest is over, a limit ends.
TokenAges ==
    /\ ~account.due /\ account' = [account EXCEPT !.due = TRUE]
    /\ UNCHANGED <<live, memory, work, limits, mishap, calls>>
HoldLapses(i) ==
    /\ memory[i].hold /\ memory' = [memory EXCEPT ![i].hold = FALSE]
    /\ mishap' = (mishap \/ \E r \in Callers : work[r].on = i /\ Refreshing(r))
    /\ UNCHANGED <<account, live, work, limits, calls>>
CooldownEnds(i) ==
    /\ memory[i].cool = "short" /\ memory' = [memory EXCEPT ![i].cool = "none"]
    /\ UNCHANGED <<account, live, work, limits, mishap, calls>>
RestEnds ==
    /\ account.rest = "short" /\ account' = [account EXCEPT !.rest = "none"]
    /\ UNCHANGED <<live, memory, work, limits, mishap, calls>>
Over(rest) == IF rest = "limit" THEN "none" ELSE rest
LimitEnds ==
    /\ account' = [account EXCEPT !.rest = Over(@)]
    /\ memory' = [i \in Instances |->
                    [memory[i] EXCEPT !.cool = Over(@), !.seen.rest = Over(@)]]
    /\ work' = [w \in Parties |-> [work[w] EXCEPT !.rest = Over(@)]]
    /\ limits' = [owed |-> {}, sank |-> {}, freed |-> FALSE]
    /\ UNCHANGED <<live, mishap, calls>>
Forgotten == [cool |-> "none", hold |-> FALSE, seen |-> InList]
Restarted(i) ==
    /\ memory' = [memory EXCEPT ![i] = Forgotten]
    /\ work' = [w \in Parties |-> IF work[w].on = i THEN Idle ELSE work[w]]
    /\ limits' = [limits EXCEPT !.sank = @ \cup ({i} \cap limits.owed)]
    /\ mishap' = (mishap \/ \E w \in Parties : work[w].on = i /\ Reached(w, "save"))
    /\ UNCHANGED <<account, live, calls>>

CodexInit ==
    /\ account = [there |-> TRUE, on |-> TRUE, token |-> 1, due |-> FALSE, rest |-> "none"]
    /\ live = 1 /\ calls = 0 /\ mishap = FALSE
    /\ memory = [i \in Instances |-> Forgotten]
    /\ work = [w \in Parties |-> Idle]
    /\ limits = [owed |-> {}, sank |-> {}, freed |-> FALSE]
Call(r) ==
    \/ \E i \in Instances, bound \in BOOLEAN : Select(r, i, bound)
    \/ ReadSecret(r) \/ ShouldAttemptRefresh(r) \/ TurnOff(r) \/ Tire(r)
    \/ Answered(r) \/ SetCooldown(r) \/ ReportExhausted(r) \/ ReportFailure(r)
Poll(p) == (\E i \in Instances : Enters(p, i)) \/ PollReads(p) \/ FetchQuota(p)
Refresh(w) == Refreshed(w) \/ Rejected(w) \/ NoAnswer(w) \/ SaveTokens(w)
Elapse ==
    \/ TokenAges \/ RestEnds \/ LimitEnds
    \/ \E i \in Instances : HoldLapses(i) \/ CooldownEnds(i)
CodexNext ==
    \/ \E r \in Callers : Call(r)
    \/ \E p \in Pollers : Poll(p)
    \/ \E w \in Parties : Refresh(w)
    \/ \E i \in Instances : ListAccounts(i) \/ Restarted(i)
    \/ DeleteAccount \/ Revoked \/ Elapse

-----------------------------------------------------------------------------
\* The account stays in use with a refresh token its issuer takes, as long as
\* polls and other instances refresh at other times, a refresh takes less than the
\* throttle, its answer arrives and is stored, and the owner takes nothing back
\* (shouldAttemptRefresh, UpdateCodexOAuthAccountTokens).
GrantsKept ==
    account.there /\ ~mishap =>
        /\ account.on
        /\ \/ account.token = live
           \/ \E w \in Parties : Reached(w, "save") /\ work[w].token = live

\* An account whose limit an instance has reported is offered there again before
\* the limit's end only if both copies of it fell: another request's later failure
\* shortened, or a restart forgot, that in memory, and that of the row was not
\* written, ended by a refresh, or is not in the list yet (SetCredentialCooling,
\* setCodexCredentialCooldown).
LimitsHold ==
    \A i \in limits.owed :
        /\ memory[i].cool = "none" => i \in limits.sank
        /\ Offered(i) /\ account.there => limits.freed \/ memory[i].seen.rest # account.rest

=============================================================================
