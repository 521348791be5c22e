-------------------------------- MODULE Relay --------------------------------
(***************************************************************************)
(* The failover loop of a relayed request, over the shared scheduler.      *)
(*                                                                         *)
(*   internal/api/openai/handler.go         (proxyJSON, tryWithSelection,  *)
(*                                           proxyOnce)                    *)
(*   internal/scheduler/group_router.go     (GroupRouter.Next)             *)
(*   internal/scheduler/scheduler.go        (SelectWithConstraints)        *)
(*   internal/upstream/executor.go          (Do)                           *)
(*                                                                         *)
(* Each request is a goroutine.  It is interrupted between choosing a      *)
(* credential, sending, the upstream's answer, and the end of the answer;  *)
(* meanwhile others use the scheduler and its client may leave.            *)
(***************************************************************************)
EXTENDS Scheduler, Sequences, FiniteSums

CONSTANTS
    Requests,
    Session,         \* Session[r]: the request's route key, None without one
    NumGroups,       \* channel groups are numbered
    Members,         \* Members[g]: the channels in g
    Subgroups,       \* Subgroups[g]: the groups in g
    Rank,            \* Rank[g][c]: promotion, then priority, of c in g
    MaxAttempts,     \* MaxAttempts[g], five where the group says none
    GroupOrder,      \* GroupOrder[r]: AllowGroupOrder, the groups it may use
    Retries,         \* attempts with one selection: two, one for chat and messages
    MaxSelections    \* absoluteMaxAttempts

Groups == 1..NumGroups
Ordered(r) == {GroupOrder[r][i] : i \in DOMAIN GroupOrder[r]}

ASSUME GroupsAssumption ==
    /\ NumGroups \in Nat
    /\ Members \in [Groups -> SUBSET Channels]
    /\ Subgroups \in [Groups -> SUBSET Groups]
    /\ Rank \in [Groups -> [Channels -> Int]]
    /\ MaxAttempts \in [Groups -> Nat \ {0}]
    /\ GroupOrder \in [Requests -> Seq(Groups)]
ASSUME RequestsAssumption ==
    /\ Session \in [Requests -> Sessions \cup {None}]
    /\ Retries \in Nat \ {0}
    /\ MaxSelections \in Nat

VARIABLES
    req,       \* each request's goroutine, with its GroupRouter
    gone,      \* the requests whose client has left
    answer,    \* what has been written to the client
    usage      \* the state of the request's reservation

vars == <<schedVars, req, gone, answer, usage>>

Places == {"new", "routing", "sending", "waiting", "streaming", "copying", "done"}
Goroutines == [pc: Places,
               key: Credentials \cup {None},   \* the selection in use
               tries: Nat,                     \* failed attempts with it
               selections: Nat,                \* turns of the loop
               used: [Groups -> Nat],          \* attemptsUsed
               excluded: SUBSET Channels,      \* excludedChannels
               last: Nat,                      \* lastSelectedChannelID
               run: Nat]                       \* lastSelectedStreak
Fresh == [pc |-> "new", key |-> None, tries |-> 0, selections |-> 0,
          used |-> [g \in Groups |-> 0], excluded |-> {}, last |-> 0, run |-> 0]
Finished == [Fresh EXCEPT !.pc = "done"]

TypeOK ==
    /\ SchedTypeOK
    /\ req \in [Requests -> Goroutines]
    /\ gone \subseteq Requests
    /\ answer \in [Requests -> {"none", "error", "relayed"}]
    /\ usage \in [Requests -> {"none", "reserved", "committed", "void"}]

Init ==
    /\ SchedInit
    /\ req = [r \in Requests |-> Fresh]
    /\ gone = {}
    /\ answer = [r \in Requests |-> "none"]
    /\ usage = [r \in Requests |-> "none"]

-----------------------------------------------------------------------------
(* What GroupRouter.Next looks at, and in which order.                     *)

\* A group takes part until it has used up its attempts.
Open(r, g) == req[r].used[g] < MaxAttempts[g]

\* The groups collectCandidates visits from g: it follows open groups and turns
\* back where it has been.
Closed(r, V) == \A a \in V : \A b \in Subgroups[a] : Open(r, b) => b \in V
Visited(r, g) ==
    {h \in Groups : /\ Open(r, g)
                    /\ \A V \in SUBSET Groups : g \in V /\ Closed(r, V) => h \in V}

\* The visited groups that offer channel c at its best rank there.
Sources(r, g, c) ==
    LET offering == {h \in Visited(r, g) : c \in Members[h]}
    IN  {h \in offering : \A h2 \in offering : Rank[h2][c] <= Rank[h][c]}

Candidates(r, g) ==
    UNION {Members[h] : h \in Visited(r, g)} \ req[r].excluded

\* A channel that was selected twice in a row comes last.
MaxConsecutiveSameChannel == 2
\* Mutant: off by one.
DeferredLate(r, c) == c = req[r].last /\ req[r].run > MaxConsecutiveSameChannel
Deferred(r, c) == c = req[r].last /\ req[r].run >= MaxConsecutiveSameChannel

\* sortCandidates: smaller keys are tried first.
SortKey(r, g, c) ==
    <<IF Deferred(r, c) THEN 1 ELSE 0,
      IF c \in probe \cup Expired THEN 0 ELSE 1,
      -Rank[CHOOSE h \in Sources(r, g, c) : TRUE][c],
      fails[c],
      -c>>
Less(a, b) ==
    \E i \in DOMAIN a : a[i] < b[i] /\ \A j \in 1..(i - 1) : a[j] = b[j]

\* The channels one call of Next may try, with the place in GroupOrder of the
\* group that offers them.
Offers(r) ==
    {o \in (DOMAIN GroupOrder[r]) \X Channels : o[2] \in Candidates(r, GroupOrder[r][o[1]])}
Earlier(r, o1, o2) ==
    \/ o1[1] < o2[1]
    \/ /\ o1[1] = o2[1]
       /\ Less(SortKey(r, GroupOrder[r][o1[1]], o1[2]), SortKey(r, GroupOrder[r][o2[1]], o2[2]))

\* SelectWithConstraints, required to use the offered channel.  Only the first
\* call sees the session's binding: it is used there or cleared.
First(r, o) == \A o2 \in Offers(r) : ~Earlier(r, o2, o)
Keys(r, o) ==
    IF Session[r] # None /\ First(r, o) /\ Honoured(Session[r], o[2])
    THEN {binding[Session[r]]}
    ELSE Eligible(o[2])

\* Next gives up when no offer has a usable key, and when it cannot read its
\* tables because the client has left; the loop when it has turned too often.
MayRoute(r) == r \notin gone /\ req[r].selections < MaxSelections
Selected(r, o) ==
    /\ Keys(r, o) # {}
    /\ \A o2 \in Offers(r) : Earlier(r, o2, o) => Keys(r, o2) = {}

\* Bindings after the calls of SelectWithConstraints have ended with k.
Rebound(r, k) ==
    IF Session[r] = None THEN binding ELSE [binding EXCEPT ![Session[r]] = k]

-----------------------------------------------------------------------------
(* The goroutine of a request.                                             *)

clients == <<gone, answer, usage>>

\* What the sending of an error does: it is the answer, the reservation is
\* voided, the goroutine ends.
AnswerError(r) ==
    /\ req' = [req EXCEPT ![r] = Finished]
    /\ answer' = [answer EXCEPT ![r] = "error"]
    /\ usage' = [usage EXCEPT ![r] = "void"]
    /\ UNCHANGED gone

\* The quota provider grants a reservation or refuses (module Billing).  The two
\* paths under /v1/responses that reserve nothing are left out.
Reserve(r) ==
    /\ req[r].pc = "new"
    /\ req' = [req EXCEPT ![r].pc = "routing"]
    /\ usage' = [usage EXCEPT ![r] = "reserved"]
    /\ UNCHANGED <<schedVars, gone, answer>>
RefuseReserve(r) ==
    /\ req[r].pc = "new"
    /\ req' = [req EXCEPT ![r] = Finished]
    /\ answer' = [answer EXCEPT ![r] = "error"]
    /\ UNCHANGED <<schedVars, gone, usage>>

\* Mutant: an attempt is booked only on the group that the channel came from.
RouteBooksSource(r, o, h, k) ==
    LET e == req[r]  c == o[2] IN
    /\ e.pc = "routing" /\ MayRoute(r)
    /\ Selected(r, o) /\ k \in Keys(r, o) /\ h \in Sources(r, GroupOrder[r][o[1]], c)
    /\ SweepExpiredChannelBans
    /\ binding' = Rebound(r, k)
    /\ req' = [req EXCEPT ![r] =
         [e EXCEPT !.pc = "sending", !.key = k, !.selections = e.selections + 1,
                   !.used = [e.used EXCEPT ![h] = e.used[h] + 1],
                   !.last = c,
                   !.run = IF c = e.last THEN e.run + 1 ELSE 1]]
    /\ UNCHANGED <<streak, fails, cooling, creds, now, clients>>

\* An attempt is booked on the group that was asked and, if it is another, on
\* the group that the channel came from.
Route(r, o, h, k) ==
    LET e == req[r]  g == GroupOrder[r][o[1]]  c == o[2] IN
    /\ e.pc = "routing" /\ MayRoute(r)
    /\ Selected(r, o) /\ k \in Keys(r, o) /\ h \in Sources(r, g, c)
    /\ SweepExpiredChannelBans
    /\ binding' = Rebound(r, k)
    /\ req' = [req EXCEPT ![r] =
         [e EXCEPT !.pc = "sending", !.key = k,
                   !.selections = e.selections + 1,
                   !.used = [a \in Groups |-> IF a \in {g, h} THEN e.used[a] + 1 ELSE e.used[a]],
                   !.excluded = e.excluded \cup {o2[2] : o2 \in {x \in Offers(r) : Earlier(r, x, o)}},
                   !.last = c,
                   !.run = IF c = e.last THEN e.run + 1 ELSE 1]]
    /\ UNCHANGED <<streak, fails, cooling, creds, now, clients>>

\* 502, upstream unavailable.
RouteFails(r) ==
    /\ req[r].pc = "routing"
    /\ MayRoute(r) => \A o \in Offers(r) : Keys(r, o) = {}
    /\ IF MayRoute(r) /\ Offers(r) # {}
       THEN SweepExpiredChannelBans /\ binding' = Rebound(r, None)
       ELSE UNCHANGED <<until, probe, binding>>
    /\ AnswerError(r)
    /\ UNCHANGED <<streak, fails, cooling, creds, now>>

\* The body cannot be rewritten for the selected channel.
RewriteFails(r) ==
    /\ req[r].pc = "sending" /\ req[r].tries = 0
    /\ AnswerError(r)
    /\ UNCHANGED schedVars

\* exec.Do reads the credential's secret and sends.
Send(r) ==
    /\ req[r].pc = "sending" /\ req[r].key \in creds /\ r \notin gone
    /\ req' = [req EXCEPT ![r].pc = "waiting"]
    /\ UNCHANGED <<schedVars, clients>>

\* Back to the loop, without a selection.
Failover(r) ==
    req' = [req EXCEPT ![r] = [@ EXCEPT !.pc = "routing", !.key = None, !.tries = 0]]

\* Mutant: a client that has left is not blamed on the channel, but retried.
DoFailsQuietly(r) ==
    /\ req[r].pc \in {"sending", "waiting"}
    /\ IF r \in gone
       THEN /\ req' = [req EXCEPT ![r].pc = "sending", ![r].tries = 1]
            /\ UNCHANGED schedVars
       ELSE /\ ReportRetriable(req[r].key, "network")
            /\ req' = [req EXCEPT ![r] = [@ EXCEPT !.pc = "routing", !.key = None]]
            /\ UNCHANGED binding
    /\ UNCHANGED clients

\* exec.Do returns an error: no such credential, no connection, no answer, or
\* the client has left.  They are all one to the handler.
DoFails(r) ==
    /\ req[r].pc \in {"sending", "waiting"}
    /\ ReportRetriable(req[r].key, "network")
    /\ IF req[r].tries + 1 < Retries
       THEN req' = [req EXCEPT ![r].pc = "sending", ![r].tries = @ + 1]
       ELSE Failover(r)
    /\ UNCHANGED <<binding, clients>>

\* The upstream answers with a status that another one might not have.
RetriableStatus(r) ==
    /\ req[r].pc = "waiting"
    /\ \E f \in Answers : ReportRetriable(req[r].key, f)
    /\ Failover(r)
    /\ UNCHANGED <<binding, clients>>

\* Any other status is passed on.
FatalStatus(r) ==
    /\ req[r].pc = "waiting"
    /\ ReportFatal(req[r].key)
    /\ AnswerError(r)
    /\ UNCHANGED binding

\* The upstream answers 2xx: the header is written, and nothing may be retried.
Respond(r) ==
    /\ req[r].pc = "waiting"
    /\ \E place \in {"streaming", "copying"} : req' = [req EXCEPT ![r].pc = place]
    /\ answer' = [answer EXCEPT ![r] = "relayed"]
    /\ UNCHANGED <<schedVars, gone, usage>>

\* touchBindingFromRouteKey: the answer may name a session.
TouchBinding(r) ==
    \/ UNCHANGED binding
    \/ \E s \in Sessions : binding' = [binding EXCEPT ![s] = req[r].key]

End(r, outcome) ==
    /\ req' = [req EXCEPT ![r] = Finished]
    /\ usage' = [usage EXCEPT ![r] = outcome]
    /\ UNCHANGED <<gone, answer>>

\* Mutant: a broken stream fails over.
StreamFailsOver(r) ==
    /\ req[r].pc = "streaming"
    /\ \/ /\ ReportSuccess(req[r].key)
          /\ TouchBinding(r)
          /\ End(r, "committed")
       \/ /\ ReportRetriable(req[r].key, "broken")
          /\ Failover(r)
          /\ UNCHANGED <<binding, clients>>

\* A stream is charged however it ends.  That the client left counts for the
\* channel; a broken stream and an event too large count against it.
StreamEnds(r) ==
    /\ req[r].pc = "streaming"
    /\ \/ ReportSuccess(req[r].key)
       \/ ReportRetriable(req[r].key, "broken")
       \/ ReportFatal(req[r].key)
    /\ TouchBinding(r)
    /\ End(r, "committed")

CopyEnds(r) ==
    /\ req[r].pc = "copying"
    /\ ReportSuccess(req[r].key)
    /\ TouchBinding(r)
    /\ End(r, "committed")

\* The upstream or the client breaks off.
CopyFails(r) ==
    /\ req[r].pc = "copying"
    /\ ReportFatal(req[r].key)
    /\ End(r, "void")
    /\ UNCHANGED binding

Handler(r) ==
    \/ Reserve(r) \/ RefuseReserve(r)
    \/ \E o \in Offers(r) : \E h \in Groups, k \in Credentials : Route(r, o, h, k)
    \/ RouteFails(r) \/ RewriteFails(r)
    \/ Send(r) \/ DoFails(r) \/ RetriableStatus(r) \/ FatalStatus(r) \/ Respond(r)
    \/ StreamEnds(r) \/ CopyEnds(r) \/ CopyFails(r)

\* The client leaves while its request is being served.
Disconnect(r) ==
    /\ req[r].pc # "done" /\ r \notin gone
    /\ gone' = gone \cup {r}
    /\ UNCHANGED <<schedVars, req, answer, usage>>

Next ==
    \/ \E r \in Requests : Handler(r) \/ Disconnect(r)
    \/ Background /\ UNCHANGED <<req, clients>>

\* While the client is there, how long a request takes is up to the upstream.
\* Once it has left, the canceled context ends whatever the goroutine waits for.
Fairness == \A r \in Requests : WF_vars(r \in gone /\ Handler(r))

Spec == Init /\ [][Next]_vars /\ Fairness

-----------------------------------------------------------------------------
(* What must hold.                                                         *)

\* The attempts that the groups in GroupOrder[r] allow together.
Allowed(r, f) == Total([g \in Groups |-> IF g \in Ordered(r) THEN f[g] ELSE 0], NumGroups)

\* Failover ends: a request never makes more turns than the attempts its ordered
\* groups allow, with at most Retries attempts each (handler.go:431).
AttemptsBounded ==
    \A r \in Requests : /\ req[r].selections <= Allowed(r, MaxAttempts)
                        /\ req[r].tries < Retries

\* A ban ends before its time only when it is lifted with its streak, by a
\* success or an administrator, and after its time only into a probe: reports
\* of requests that overlap never shorten it (state.go:479).
BansEndProperly ==
    [][\A c \in Channels : until'[c] < until[c] =>
         /\ until'[c] = 0
         /\ \/ streak'[c] = 0 /\ c \notin probe'
            \/ c \in Expired /\ c \in probe']_vars

\* A request that turns to one channel for a third time in a row has given up
\* every other channel of the groups it books the turn on (group_router.go:287).
SwitchesAfterTwo ==
    [][\A r \in Requests : \A i \in DOMAIN GroupOrder[r] :
         /\ req'[r].run > MaxConsecutiveSameChannel
         /\ req'[r].selections > req[r].selections
         /\ req'[r].used[GroupOrder[r][i]] > req[r].used[GroupOrder[r][i]]
         => Candidates(r, GroupOrder[r][i]) \subseteq req'[r].excluded \cup {req'[r].last}]_vars

\* Every request is answered once, is not retried once its answer has begun, and
\* is settled once, by what its client got (handler.go:560).
A == INSTANCE Answer
       WITH asked <- [r \in Requests |-> req[r].pc \in {"waiting", "streaming", "copying"}]
ImplementsAnswer == A!Spec

\* A client that leaves takes its request with it: the goroutine ends and the
\* reservation is settled, whatever the upstream does (handler.go:427).
ClientGoneEnds == \A r \in Requests : r \in gone ~> req[r].pc = "done"

\* The first failure of a key that no longer exists leaves its channel to the other
\* keys: "no immediate ban for failures of the credential layer, let other keys or
\* accounts of the channel take over first" (scheduler.go:779).  The code violates
\* it: a missing key is reported as a network error (handler.go:499).
KeyFailuresDoNotBan ==
    [][\A r \in Requests :
         LET k == req[r].key IN
         req[r].pc = "sending" /\ k \notin creds /\ req'[r] # req[r] =>
           (streak[ChannelOf[k]] = 0 => until'[ChannelOf[k]] = until[ChannelOf[k]])]_vars

-----------------------------------------------------------------------------
(* The invariant behind them.                                              *)

\* A ban has a streak behind it, so the next failure prolongs it instead of
\* lifting it; and it ends within MaxBan.
BanInv ==
    \A c \in Channels : until[c] # 0 => streak[c] >= 1 /\ until[c] <= now + MaxBan

\* Every turn of the loop is booked on an ordered group.
LoopInv(r) ==
    /\ \A g \in Groups : req[r].used[g] <= MaxAttempts[g]
    /\ req[r].selections <= Allowed(r, req[r].used)
    /\ req[r].tries < Retries

\* Where a goroutine is, and what its client and its reservation have seen.
PlaceInv(r) ==
    /\ req[r].pc \in {"sending", "waiting", "streaming", "copying"} => req[r].key # None
    /\ req[r].pc = "new" => answer[r] = "none" /\ usage[r] = "none"
    /\ req[r].pc \in {"routing", "sending", "waiting"} =>
         answer[r] = "none" /\ usage[r] = "reserved"
    /\ req[r].pc \in {"streaming", "copying"} => answer[r] = "relayed" /\ usage[r] = "reserved"
    /\ req[r].pc = "done" => answer[r] # "none" /\ usage[r] # "reserved"

\* What holds in every state: types, bans backed by streaks, turns backed by
\* attempts, and answers and reservations as the goroutine's place says.
IInv == TypeOK /\ BanInv /\ \A r \in Requests : LoopInv(r) /\ PlaceInv(r)

=============================================================================
