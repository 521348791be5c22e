------------------------------- MODULE Rollups -------------------------------
(***************************************************************************)
(* Usage events are added to hourly and daily totals, by the request or by *)
(* a backfill, and deleted when they are old.                              *)
(*                                                                         *)
(*   internal/store/usage_rollups.go, usage.go, sqlite_usage_rollups.go    *)
(*   internal/server/app.go                           (usageRetentionLoop) *)
(*   cmd/realms-rollup-backfill/main.go                         (the tool) *)
(*                                                                         *)
(* A slot of time is a second as the rows hold it, and hours and days are  *)
(* that many of them.  Of an event's numbers only its cost is kept, one    *)
(* unit when it is committed, so a total is a count of requests and of     *)
(* units.                                                                  *)
(***************************************************************************)
EXTENDS Naturals, FiniteSets, FiniteSetsExt

CONSTANTS
    MaxEvents,     \* usage events ever (a bound)
    MaxSlot,       \* last slot (a bound)
    Arrivals,      \* slots in which requests come (a bound)
    SlotsPerHour, HoursPerDay,
    Payers, Upstreams, Priced, \* users, channels, models
    Shards,        \* REALMS_USAGE_ROLLUP_SHARDS; 0: no sharding
    Cutover,       \* REALMS_USAGE_ROLLUP_SHARDS_CUTOVER_AT, a slot
    BackfillBatch, MaxBackfill, DeleteBatch

Unset == "unset"
ASSUME RollupsAssumption ==
    /\ MaxEvents \in Nat /\ MaxSlot \in Nat
    /\ IsFiniteSet(Payers) /\ IsFiniteSet(Upstreams) /\ IsFiniteSet(Priced)
    /\ Payers # {} /\ Priced # {} /\ Unset \notin Upstreams
    /\ SlotsPerHour \in Nat \ {0} /\ HoursPerDay \in Nat \ {0}
    /\ Arrivals \subseteq 0..MaxSlot /\ Shards \in Nat /\ Cutover \in Nat
    /\ BackfillBatch \in Nat \ {0} /\ MaxBackfill \in Nat \ {0} /\ DeleteBatch \in Nat \ {0}

Events == 1..MaxEvents
Slots == 0..MaxSlot
HourOf(s) == s \div SlotsPerHour
DayOf(s) == HourOf(s) \div HoursPerDay
Hours == {HourOf(s) : s \in Slots}
Days == {DayOf(s) : s \in Slots}
ShardNos == IF Shards = 0 THEN {0} ELSE 0..(Shards - 1)
\* Who backfills: the retention loop, and the tool an operator runs.
Workers == {"retention", "tool"}

VARIABLES
    schema,  \* whether the tables of totals exist
    rows,    \* usage_events
    serving, \* what the handler of each event has still to do
    totals,  \* the six tables of totals
    cutoff,  \* first slot that retention keeps: SQLite deletes the second of the bound too
    worker   \* where the two backfills are
rollupVars == <<schema, rows, serving, totals, cutoff, worker>>

RowStates == {"none", "reserved", "committed", "void", "expired"}
EventRows == [state: RowStates, at: Slots, user: Payers, model: Priced,
              channel: Upstreams \cup {Unset}, rolled: BOOLEAN, gone: BOOLEAN]
Cells == [n: 0..MaxEvents, usd: 0..MaxEvents]
Zero == [n |-> 0, usd |-> 0]
Resting == [op |-> "idle", ids |-> {}, found |-> 0, rounds |-> 0]

RollupsTypeOK ==
    /\ schema \in {"old", "rollups"}
    /\ rows \in [Events -> EventRows]
    /\ serving \in [Events -> {"run", "rollup", "done"}]
    /\ totals \in [globalHour: [Hours -> Cells], globalHourSharded: [Hours \X ShardNos -> Cells],
                   channelHour: [Hours \X Upstreams -> Cells],
                   channelHourSharded: [Hours \X Upstreams \X ShardNos -> Cells],
                   userDay: [Days \X Payers -> Cells], modelDay: [Days \X Priced -> Cells]]
    /\ cutoff \in 0..(MaxSlot + 1)
    /\ worker \in [Workers -> [op: {"idle", "select", "apply", "delete"}, ids: SUBSET Events,
                               found: 0..BackfillBatch, rounds: 0..MaxBackfill]]
RollupsInit ==
    /\ schema = "old" /\ cutoff = 0
    /\ rows = [e \in Events |-> [state |-> "none", at |-> 0, user |-> CHOOSE u \in Payers : TRUE,
                model |-> CHOOSE m \in Priced : TRUE, channel |-> Unset,
                rolled |-> FALSE, gone |-> FALSE]]
    /\ serving = [e \in Events |-> "done"]
    /\ totals = [globalHour |-> [h \in Hours |-> Zero],
                 globalHourSharded |-> [x \in Hours \X ShardNos |-> Zero],
                 channelHour |-> [x \in Hours \X Upstreams |-> Zero],
                 channelHourSharded |-> [x \in Hours \X Upstreams \X ShardNos |-> Zero],
                 userDay |-> [x \in Days \X Payers |-> Zero],
                 modelDay |-> [x \in Days \X Priced |-> Zero]]
    /\ worker = [w \in Workers |-> Resting]

-----------------------------------------------------------------------------
(* An event and its request.                                               *)

Reserve(e, s, u, m) ==
    /\ rows[e].state = "none" /\ \A d \in 1..(e - 1) : rows[d].state # "none" /\ s >= cutoff
    /\ rows' = [rows EXCEPT ![e] = [@ EXCEPT !.state = "reserved", !.at = s, !.user = u, !.model = m]]
    /\ serving' = [serving EXCEPT ![e] = "run"]
    /\ UNCHANGED <<schema, totals, cutoff, worker>>
CommitUsage(e, c) ==
    /\ serving[e] = "run" /\ rows[e].state = "reserved"
    /\ rows' = [rows EXCEPT ![e].state = "committed", ![e].channel = c]
    /\ UNCHANGED <<schema, serving, totals, cutoff, worker>>
VoidUsage(e) ==
    /\ serving[e] = "run" /\ rows[e].state = "reserved"
    /\ rows' = [rows EXCEPT ![e].state = "void"]
    /\ UNCHANGED <<schema, serving, totals, cutoff, worker>>
ExpireReserved(e) ==
    /\ rows[e].state = "reserved"
    /\ rows' = [rows EXCEPT ![e].state = "expired"]
    /\ UNCHANGED <<schema, serving, totals, cutoff, worker>>
\* FinalizeUsageEvent, whatever has become of the reservation; the channel may
\* be one that failed.  The row may be gone by now.
Finalize(e, c) ==
    /\ serving[e] = "run" /\ serving' = [serving EXCEPT ![e] = "rollup"]
    /\ rows[e].state = "committed" => c = rows[e].channel
    /\ rows' = IF rows[e].gone THEN rows ELSE [rows EXCEPT ![e].channel = c]
    /\ UNCHANGED <<schema, totals, cutoff, worker>>

-----------------------------------------------------------------------------
(* The totals.  Each table has an upsert of its own.                       *)

More(cell, e) ==
    [n |-> cell.n + 1, usd |-> cell.usd + IF rows[e].state = "committed" THEN 1 ELSE 0]
H(e) == HourOf(rows[e].at)
D(e) == DayOf(rows[e].at)
ShardOf(e) == e % Shards
AddGlobalHour(t, e) == [t EXCEPT !.globalHour[H(e)] = More(@, e)]
AddGlobalHourSharded(t, e) == [t EXCEPT !.globalHourSharded[<<H(e), ShardOf(e)>>] = More(@, e)]
AddChannelHour(t, e) ==
    IF rows[e].channel = Unset THEN t
    ELSE [t EXCEPT !.channelHour[<<H(e), rows[e].channel>>] = More(@, e)]
AddChannelHourSharded(t, e) ==
    IF rows[e].channel = Unset THEN t
    ELSE [t EXCEPT !.channelHourSharded[<<H(e), rows[e].channel, ShardOf(e)>>] = More(@, e)]
AddUserDay(t, e) == [t EXCEPT !.userDay[<<D(e), rows[e].user>>] = More(@, e)]
AddModelDay(t, e) == [t EXCEPT !.modelDay[<<D(e), rows[e].model>>] = More(@, e)]

Sharded(e) == Shards > 0 /\ rows[e].at >= Cutover
Added(e) ==
    LET byHour == IF Sharded(e) THEN AddChannelHourSharded(AddGlobalHourSharded(totals, e), e)
                  ELSE AddChannelHour(AddGlobalHour(totals, e), e)
    IN  AddModelDay(AddUserDay(byHour, e), e)

\* applyUsageRollupsIfAvailable: one transaction marks the event and adds it.
ApplyRollups(e) ==
    IF schema = "old" \/ rows[e].gone \/ rows[e].rolled THEN UNCHANGED <<rows, totals>>
    ELSE rows' = [rows EXCEPT ![e].rolled = TRUE] /\ totals' = Added(e)

RollUp(e) ==
    /\ serving[e] = "rollup" /\ serving' = [serving EXCEPT ![e] = "done"]
    /\ ApplyRollups(e)
    /\ UNCHANGED <<schema, cutoff, worker>>
\* The transaction fails, or the process ends: the backfill is left with it.
RequestEnds(e) ==
    /\ serving[e] # "done" /\ serving' = [serving EXCEPT ![e] = "done"]
    /\ UNCHANGED <<schema, rows, totals, cutoff, worker>>

\* ensureSQLiteUsageRollups, and migrations 0061 and 0063, when the program starts.
EnsureRollups ==
    /\ schema = "old" /\ schema' = "rollups"
    /\ serving' = [e \in Events |-> "done"] /\ worker' = [w \in Workers |-> Resting]
    /\ UNCHANGED <<rows, totals, cutoff>>

-----------------------------------------------------------------------------
(* The two backfills, and retention.                                       *)

Before(w) == IF w = "retention" THEN cutoff ELSE MaxSlot + 1
Missed(w) == {e \in Events : /\ rows[e].state \notin {"none", "reserved"} /\ ~rows[e].gone
                             /\ ~rows[e].rolled /\ rows[e].at < Before(w)}
FirstOf(S, n) == {e \in S : Cardinality({d \in S : d < e}) < n}
Turns(w, op) == worker' = [worker EXCEPT ![w].op = op]

\* usageRetentionLoop wakes up, the operator starts the tool.
Starts(w) ==
    /\ schema = "rollups" /\ worker[w].op = "idle"
    /\ w = "retention" => cutoff > 0
    /\ worker' = [worker EXCEPT ![w] = [Resting EXCEPT !.op = "select"]]
    /\ UNCHANGED <<schema, rows, serving, totals, cutoff>>
\* BackfillUsageRollupsBefore reads its ids, then adds them one by one.
SelectMissed(w) ==
    LET ids == FirstOf(Missed(w), BackfillBatch)
    IN  /\ worker[w].op = "select"
        /\ worker' = [worker EXCEPT ![w] = [op |-> "apply", ids |-> ids, found |-> Cardinality(ids),
                        rounds |-> IF w = "retention" THEN @.rounds + 1 ELSE @.rounds]]
        /\ UNCHANGED <<schema, rows, serving, totals, cutoff>>
ApplyNext(w) ==
    /\ worker[w].op = "apply" /\ worker[w].ids # {}
    /\ worker' = [worker EXCEPT ![w].ids = @ \ {Min(@)}]
    /\ ApplyRollups(Min(worker[w].ids))
    /\ UNCHANGED <<schema, serving, cutoff>>
\* After a short batch, an error or ten rounds retention deletes, come what may.
BatchEnds(w) ==
    /\ worker[w].op = "apply" /\ worker[w].ids = {}
    /\ IF worker[w].found = BackfillBatch /\ (w = "tool" \/ worker[w].rounds < MaxBackfill)
       THEN Turns(w, "select")
       ELSE worker' = [worker EXCEPT ![w] = IF w = "tool" THEN Resting
                                            ELSE [Resting EXCEPT !.op = "delete"]]
    /\ UNCHANGED <<schema, rows, serving, totals, cutoff>>
BatchFails(w) ==
    /\ worker[w].op # "idle"
    /\ worker' = [worker EXCEPT ![w] = IF w = "tool" \/ @.op = "delete" THEN Resting
                                       ELSE [Resting EXCEPT !.op = "delete"]]
    /\ UNCHANGED <<schema, rows, serving, totals, cutoff>>

Old == {e \in Events : rows[e].state \notin {"none", "reserved"} /\ ~rows[e].gone /\ rows[e].at < cutoff}
Deletable == {e \in Old : rows[e].rolled}

\* DeleteUsageEventsBefore, batch after batch while they are full.
DeleteOld ==
    LET ids == FirstOf(Deletable, DeleteBatch)
    IN  /\ worker["retention"].op = "delete"
        /\ rows' = [e \in Events |-> IF e \in ids THEN [rows[e] EXCEPT !.gone = TRUE] ELSE rows[e]]
        /\ IF Cardinality(ids) < DeleteBatch THEN worker' = [worker EXCEPT !["retention"] = Resting]
           ELSE UNCHANGED worker
        /\ UNCHANGED <<schema, serving, totals, cutoff>>
\* The clock, by the hour, as a tick of retention reads it: retention is days,
\* which no reservation lasts.
HourPasses ==
    /\ worker["retention"].op = "idle" /\ cutoff + SlotsPerHour <= MaxSlot + 1 /\ cutoff' = cutoff + SlotsPerHour
    /\ \A e \in Events : rows[e].state = "reserved" => rows[e].at >= cutoff'
    /\ UNCHANGED <<schema, rows, serving, totals, worker>>

RollupsNext(ws) ==
    \/ \E e \in Events :
        \/ \E s \in Arrivals, u \in Payers, m \in Priced : Reserve(e, s, u, m)
        \/ \E c \in Upstreams : CommitUsage(e, c)
        \/ \E c \in Upstreams \cup {Unset} : Finalize(e, c)
        \/ VoidUsage(e) \/ ExpireReserved(e) \/ RollUp(e) \/ RequestEnds(e)
    \/ EnsureRollups
    \/ \E w \in ws : Starts(w) \/ SelectMissed(w) \/ ApplyNext(w) \/ BatchEnds(w) \/ BatchFails(w)
    \/ DeleteOld \/ HourPasses

=============================================================================
