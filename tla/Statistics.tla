------------------------------ MODULE Statistics ------------------------------
(***************************************************************************)
(* What the pages of statistics read: the totals, where a range is an hour *)
(* or more and the tables exist, and else the usage events themselves.     *)
(*                                                                         *)
(*   internal/store/usage.go, usage_rollup_shards_helpers.go               *)
(*                                                                         *)
(* A range is from one slot to another; which of its two ends it holds     *)
(* depends on the database.  Only costs and counts are kept.               *)
(***************************************************************************)
EXTENDS Rollups, Functions

CONSTANT Ranges  \* pairs of slots somebody asks the pages for (a bound)
\* No range ends later: every event is an hour old or more by then.
LastEnd == MaxSlot + SlotsPerHour
ASSUME RangesAssumption == Ranges \subseteq Slots \X (1..LastEnd)

Databases == {"sqlite", "mysql"}
\* x >= from AND x < to, of a column of times.  SQLite compares texts: a stored time
\* ends with its seconds, hour or day, a bound goes on with its zone, so that of
\* two equal times the stored one is the lesser.
Within(db, from, x, to) ==
    IF db = "sqlite" THEN from < x /\ x <= to ELSE from <= x /\ x < to

\* shouldUseUsageRollups
UseRollups(since, until) == until - since >= SlotsPerHour /\ schema = "rollups"

\* A Segments that decides by where the range begins.
SegmentsByStart(since, until) ==
    {[from |-> since, to |-> until, sharded |-> Shards > 0 /\ since >= Cutover]}

\* Where to read [since, until): plain totals, and sharded ones from the cutover on.
Segments(since, until) ==
    IF Shards = 0 \/ until <= Cutover THEN {[from |-> since, to |-> until, sharded |-> FALSE]}
    ELSE IF since >= Cutover THEN {[from |-> since, to |-> until, sharded |-> TRUE]}
    ELSE {[from |-> since, to |-> Cutover, sharded |-> FALSE],
          [from |-> Cutover, to |-> until, sharded |-> TRUE]}

\* bucket_start >= from AND bucket_start < to
In(db, seg, h) == Within(db, seg.from, h * SlotsPerHour, seg.to)
SegmentsOf(db, since, until, h) == {seg \in Segments(since, until) : In(db, seg, h)}
Read(db, since, until) == {x \in Segments(since, until) \X Hours : In(db, x[1], x[2])}
Add(x, y) == [n |-> x.n + y.n, usd |-> x.usd + y.usd]
Plus(f) == FoldFunction(Add, Zero, f)
CellOf(S) == [n |-> Cardinality(S), usd |-> Cardinality({e \in S : rows[e].state = "committed"})]
\* time >= since AND time < until
Listed(db, since, until) ==
    {e \in Events : /\ rows[e].state # "none" /\ ~rows[e].gone
                    /\ Within(db, since, rows[e].at, until)}

GlobalCell(seg, h) ==
    IF seg.sharded THEN Plus([i \in ShardNos |-> totals.globalHourSharded[<<h, i>>]])
    ELSE totals.globalHour[h]
ChannelCell(seg, h, c) ==
    IF seg.sharded THEN Plus([i \in ShardNos |-> totals.channelHourSharded[<<h, c, i>>]])
    ELSE totals.channelHour[<<h, c>>]

\* GetGlobalUsageStatsRange; its cost is also the committed part of
\* SumCommittedAndReservedUSDAllRange.
GlobalTotal(db, since, until) ==
    IF UseRollups(since, until)
    THEN Plus([x \in Read(db, since, until) |-> GlobalCell(x[1], x[2])])
    ELSE CellOf(Listed(db, since, until))
\* GetGlobalUsageTimeSeriesRange, hour by hour: a row per hour that has one.
GlobalSeries(db, since, until) ==
    [h \in Hours |->
        IF UseRollups(since, until)
        THEN Plus([seg \in SegmentsOf(db, since, until, h) |-> GlobalCell(seg, h)])
        ELSE CellOf({e \in Listed(db, since, until) : H(e) = h})]
\* GetChannelUsageTimeSeriesRange
ChannelSeries(db, c, since, until) ==
    [h \in Hours |->
        IF UseRollups(since, until)
        THEN Plus([seg \in SegmentsOf(db, since, until, h) |-> ChannelCell(seg, h, c)])
        ELSE CellOf({e \in Listed(db, since, until) : H(e) = h /\ rows[e].channel = c})]

\* GetUsageStatsByChannelRange
ChannelTotals(db, since, until) ==
    [c \in Upstreams |->
        IF UseRollups(since, until)
        THEN Plus([x \in Read(db, since, until) |-> ChannelCell(x[1], x[2], c)])
        ELSE CellOf({e \in Listed(db, since, until) : rows[e].channel = c})]

\* ListUsageTopUsers: the days the range touches, day >= sinceDay AND day < untilDay.
DayStarts(d) == d * HoursPerDay * SlotsPerHour
DayAligned(s) == s % (HoursPerDay * SlotsPerHour) = 0
UntilDay(until) == IF DayAligned(until) THEN until ELSE DayStarts(DayOf(until) + 1)
UserDays(db, since, until) ==
    {d \in Days : Within(db, DayStarts(DayOf(since)), DayStarts(d), UntilDay(until))}
UserTotal(db, u, since, until) ==
    IF UseRollups(since, until)
    THEN Plus([d \in UserDays(db, since, until) |-> totals.userDay[<<d, u>>]])
    ELSE CellOf({e \in Listed(db, since, until) : rows[e].user = u})

\* What a user sees of his own requests is always read from the events:
\* GetUsageStatsByModelRange, GetUserUsageTimeSeriesRange by hour,
\* GetUsageTokenStatsByUserRange (its count), and since a moment for all users
\* GetGlobalUsageStats.
OwnOf(db, u, since, until) == {e \in Listed(db, since, until) : rows[e].user = u}
OwnModels(db, u, since, until) ==
    [m \in Priced |-> CellOf({e \in OwnOf(db, u, since, until) : rows[e].model = m})]
OwnSeries(db, u, since, until) ==
    [h \in Hours |-> CellOf({e \in OwnOf(db, u, since, until) : H(e) = h})]
OwnRequests(db, u, since, until) == Cardinality(OwnOf(db, u, since, until))
GlobalSince(db, since) == CellOf(Listed(db, since, LastEnd))

-----------------------------------------------------------------------------
(* Properties.                                                             *)

\* Every event is in the totals at most once, whether its request or a backfill
\* put it there, at the hour, day, user, model and channel it belongs to, and
\* none is deleted before (applyUsageRollupsIfAvailable, DeleteUsageEventsBefore).
\* An event rolled up before it was finalized may lack its channel if it cost nothing.
TotalsCountOnce == schema = "rollups" =>
    LET R == {e \in Events : rows[e].rolled}
    IN  /\ \A e \in Events : rows[e].gone => rows[e].rolled
        /\ \A h \in Hours :
            LET at == {e \in R : H(e) = h}
            IN  /\ Plus([b \in BOOLEAN |-> GlobalCell([sharded |-> b], h)]) = CellOf(at)
                /\ \A c \in Upstreams :
                    LET cell == Plus([b \in BOOLEAN |-> ChannelCell([sharded |-> b], h, c)])
                        of == CellOf({e \in at : rows[e].channel = c})
                    IN  cell.usd = of.usd /\ cell.n <= of.n
        /\ \A d \in Days :
            /\ \A u \in Payers :
                totals.userDay[<<d, u>>] = CellOf({e \in R : D(e) = d /\ rows[e].user = u})
            /\ \A m \in Priced :
                totals.modelDay[<<d, m>>] = CellOf({e \in R : D(e) = d /\ rows[e].model = m})

\* Every event of the range is in the totals and none was deleted.
Untouched(since, until) ==
    \A e \in Events : rows[e].state # "none" /\ since <= rows[e].at /\ rows[e].at < until =>
        rows[e].rolled /\ ~rows[e].gone

HourAligned(s) == s % SlotsPerHour = 0
\* The hours and the days of the totals that a range shows.  An hour counts by its
\* beginning; on SQLite that of the cutover is never shown: it is beyond the end of the
\* sharded range and the plain one finds nothing there.
HourShown(db, since, h, until) ==
    /\ Within(db, since, h * SlotsPerHour, until)
    /\ db = "sqlite" /\ Shards > 0 => h * SlotsPerHour # Cutover
DayShown(db, since, d, until) == Within(db, since, DayStarts(d), until)
RolledIn(since, until) == {e \in Events : rows[e].rolled /\ since <= rows[e].at /\ rows[e].at < until}

\* What the pages show of one range.
AgreeOn(db, since, until) ==
    LET all == GlobalTotal(db, since, until)
        byChannel == ChannelTotals(db, since, until)
        users == Plus([u \in Payers |-> UserTotal(db, u, since, until)])
        listed == CellOf(Listed(db, since, until))
    IN  /\ all = CellOf({e \in Events :
                            rows[e].rolled /\ HourShown(db, since, H(e), until)})
        /\ Plus(GlobalSeries(db, since, until)) = all
        /\ Plus(byChannel).usd = all.usd
        /\ \A c \in Upstreams : byChannel[c] = Plus(ChannelSeries(db, c, since, until))
        /\ DayAligned(since) /\ DayAligned(until) =>
            users = CellOf({e \in Events :
                                rows[e].rolled /\ DayShown(db, since, D(e), until)})
        /\ Plus([x \in Payers \X Priced |-> OwnModels(db, x[1], since, until)[x[2]]]) = listed
        /\ Plus([x \in Payers \X Hours |-> OwnSeries(db, x[1], since, until)[x[2]]]) = listed
        /\ \A u \in Payers :
            OwnRequests(db, u, since, until) = Plus(OwnSeries(db, u, since, until)).n
        /\ db = "mysql" =>
            /\ all = CellOf(RolledIn(since, until))
            /\ DayAligned(since) /\ DayAligned(until) => users = all
            /\ Untouched(since, until) => listed = all
            /\ Untouched(since, until) /\ until = LastEnd => GlobalSince(db, since) = all

\* What the pages show agrees, over any range of whole hours and of days, on both
\* databases and on both sides of the cutover: the total is that of the events counted in
\* the hours shown, deleted or not, the hours of the series add up to it and so do the
\* channels' costs; what the users used is that of the days shown; and each page of a
\* user's own adds up to the events listed.  On MySQL these are the hours, days and
\* events of the range, so that all of it agrees, as long as the range is settled and
\* retention has not come to it.  It needs the cutover to be at a full hour.
PagesAgree ==
    HourAligned(Cutover) /\ schema = "rollups" =>
    \A db \in Databases, r \in Ranges :
        HourAligned(r[1]) /\ HourAligned(r[2]) /\ r[1] < r[2] => AgreeOn(db, r[1], r[2])

\* The totals count once and the pages agree, with the types
\* (applyUsageRollupsIfAvailable, DeleteUsageEventsBefore, the statistics pages).
PagesCountOnce == RollupsTypeOK /\ TotalsCountOnce /\ PagesAgree

=============================================================================
