------------------------------ MODULE Pointers -------------------------------
(***************************************************************************)
(* Routing by the pointer of a channel group: each instance copies the row *)
(* at most once a second, starts at the pinned channel, and writes the row *)
(* back when a request goes on to another.                                 *)
(*                                                                         *)
(*   internal/scheduler/scheduler.go   (groupPointerSync, PersistLast)     *)
(*   internal/scheduler/group_router.go   (nextFromGroup)                  *)
(*   internal/store/channel_group_pointers.go                              *)
(*                                                                         *)
(* One group: nothing is shared between the pointers of two.  Which        *)
(* channels are candidates of a request, and which of them the scheduler   *)
(* refuses (bans, cooldowns, the channel tried twice in a row), may be any *)
(* and differs from request to request; so does the order of the ring.     *)
(***************************************************************************)
EXTENDS Naturals

CONSTANTS
    Servers,  \* instances over the one database
    Members,  \* channels of the group's tree
    Routers,  \* requests of the data plane, each in its nextFromGroup
    MaxPins   \* writes of administrators (a bound)

None == "none"
ASSUME PointersAssumption == MaxPins \in Nat /\ None \notin Members \cup Servers

VARIABLES
    row,     \* channel_group_pointers
    copies,  \* groupPointerSync of each instance; `fresh` for a second
    written, \* groupPointerPersistLast of each instance
    route,   \* where each request is
    pins     \* writes of administrators so far

pointerVars == <<row, copies, written, route, pins>>

PointerRows == [channel: Members \cup {None}, pinned: BOOLEAN]
NoPointer == [channel |-> None, pinned |-> FALSE]
RouteRows == [op: {"idle", "read", "store", "note", "ring", "rotate", "try", "touch",
                "upsert", "write", "remember"},
           then: {"idle", "ring", "rotate", "try", "touch"}, on: Servers \cup {None},
           chosen: Members \cup {None}, rec: PointerRows]
NoRoute == [op |-> "idle", then |-> "idle", on |-> None, chosen |-> None, rec |-> NoPointer]

PointersTypeOK ==
    /\ row \in PointerRows /\ pins \in 0..MaxPins
    /\ copies \in [Servers -> [rec: PointerRows, fresh: BOOLEAN]]
    /\ written \in [Servers -> PointerRows]
    /\ route \in [Routers -> RouteRows]

Routing(r, op) == route[r].op = op
Proceeds(r, w) == route' = [route EXCEPT ![r] = IF w.op = "idle" THEN NoRoute ELSE w]

-----------------------------------------------------------------------------
(* maybeSyncChannelGroupPointerFromStore.                                  *)

\* A copy less than a second old is used, and so is one that another request is
\* about to replace; otherwise the request marks the copy and reads.
Sync(r, w, then) ==
    LET copy == copies[w.on]  v == [w EXCEPT !.rec = copy.rec, !.then = then]
    IN  IF copy.fresh THEN UNCHANGED copies /\ Proceeds(r, [v EXCEPT !.op = then])
        ELSE copies' = [copies EXCEPT ![w.on].fresh = TRUE] /\ Proceeds(r, [v EXCEPT !.op = "read"])

ReadPointerRow(r) ==
    /\ Routing(r, "read") /\ Proceeds(r, [route[r] EXCEPT !.op = "store", !.rec = row])
    /\ UNCHANGED <<row, copies, written>>

\* A ReadFails that answers with no record.
ReadFailsEmpty(r) ==
    /\ Routing(r, "read") /\ Proceeds(r, [route[r] EXCEPT !.op = route[r].then, !.rec = NoPointer])
    /\ UNCHANGED <<row, copies, written>>

\* The copy stays marked and is used as it was.
ReadFails(r) ==
    /\ Routing(r, "read") /\ Proceeds(r, [route[r] EXCEPT !.op = route[r].then])
    /\ UNCHANGED <<row, copies, written>>
StoreCopy(r) ==
    LET w == route[r]
    IN  /\ Routing(r, "store") /\ Proceeds(r, [w EXCEPT !.op = "note"])
        /\ copies' = [copies EXCEPT ![w.on] = [rec |-> w.rec, fresh |-> TRUE]]
        /\ UNCHANGED <<row, written>>
NoteWritten(r) ==
    LET w == route[r]
    IN  /\ Routing(r, "note") /\ Proceeds(r, [w EXCEPT !.op = w.then])
        /\ written' = [written EXCEPT ![w.on] = w.rec]
        /\ UNCHANGED <<row, copies>>

-----------------------------------------------------------------------------
(* upsertChannelGroupPointer: `rec` is what the request writes.            *)

\* What is thought written already is not written; otherwise it is thought so
\* before it is.
Upsert(r) ==
    LET w == route[r]
    IN  /\ Routing(r, "upsert")
        /\ IF w.rec = written[w.on]
           THEN UNCHANGED written /\ Proceeds(r, [w EXCEPT !.op = w.then])
           ELSE /\ written' = [written EXCEPT ![w.on] = w.rec]
                /\ Proceeds(r, [w EXCEPT !.op = "write"])
        /\ UNCHANGED <<row, copies>>
\* The error is dropped, that of a write cut off at 500 ms too.
WriteRow(r) ==
    LET w == route[r]
    IN  /\ Routing(r, "write") /\ Proceeds(r, [w EXCEPT !.op = "remember"])
        /\ row' \in {row, w.rec}
        /\ UNCHANGED <<copies, written>>
Remember(r) ==
    LET w == route[r]
    IN  /\ Routing(r, "remember") /\ Proceeds(r, [w EXCEPT !.op = w.then])
        /\ copies' = [copies EXCEPT ![w.on] = [rec |-> w.rec, fresh |-> TRUE]]
        /\ UNCHANGED <<row, written>>

-----------------------------------------------------------------------------
(* nextFromGroup.                                                          *)

NextFromGroup(r, i) ==
    /\ Routing(r, "idle") /\ Sync(r, [NoRoute EXCEPT !.on = i], "ring")
    /\ UNCHANGED <<row, written>>

MovesTo(r, c, then) ==
    Proceeds(r, [route[r] EXCEPT !.op = "upsert", !.then = then, !.rec.channel = c])
\* A pinned pointer to a channel that is no candidate of this request is moved
\* to the first of its ring, for all requests; without a channel the ring is
\* followed from its first, and nothing moves.
StartRing(r) ==
    LET w == route[r]
    IN  /\ Routing(r, "ring")
        /\ \/ w.rec.pinned /\ \E c \in Members :
                IF w.rec.channel = None THEN Proceeds(r, [w EXCEPT !.op = "rotate", !.rec.channel = c])
                ELSE c # w.rec.channel /\ MovesTo(r, c, "rotate")
           \/ w.rec.pinned /\ w.rec.channel # None /\ Proceeds(r, [w EXCEPT !.op = "rotate"])
           \/ ~w.rec.pinned /\ Proceeds(r, [w EXCEPT !.op = "try"])
        /\ UNCHANGED <<row, copies, written>>
\* From a banned channel to the next that is not, if there is one.
Rotate(r) ==
    LET w == route[r]
    IN  /\ Routing(r, "rotate")
        /\ \/ \E c \in Members \ {w.rec.channel} : MovesTo(r, c, "try")
           \/ Proceeds(r, [w EXCEPT !.op = "try"])
        /\ UNCHANGED <<row, copies, written>>
\* Along the ring, or without a pin by priority: the first that is not refused,
\* or none.
Try(r) ==
    /\ Routing(r, "try")
    /\ \/ \E c \in Members : Sync(r, [route[r] EXCEPT !.chosen = c], "touch")
       \/ Proceeds(r, NoRoute) /\ UNCHANGED copies
    /\ UNCHANGED <<row, written>>
\* touchChannelGroupPointer, with the pin as the copy has it.
Touch(r) ==
    LET w == route[r]
    IN  /\ Routing(r, "touch")
        /\ IF w.rec.channel = w.chosen THEN Proceeds(r, NoRoute) ELSE MovesTo(r, w.chosen, "idle")
        /\ UNCHANGED <<row, copies, written>>

-----------------------------------------------------------------------------
\* adminUpsertChannelGroupPointerHandler writes the row and no copy; clearing
\* the pointer unpins it.
Pin(c, pinned) ==
    /\ pins < MaxPins /\ pins' = pins + 1
    /\ row' = [channel |-> c, pinned |-> pinned /\ c # None]
    /\ UNCHANGED <<copies, written, route>>
\* A second passes.
Age(i) ==
    /\ copies[i].fresh /\ copies' = [copies EXCEPT ![i].fresh = FALSE]
    /\ UNCHANGED <<row, written, route, pins>>
Restarts(i) ==
    /\ copies' = [copies EXCEPT ![i] = [rec |-> NoPointer, fresh |-> FALSE]]
    /\ written' = [written EXCEPT ![i] = NoPointer]
    /\ route' = [r \in Routers |-> IF route[r].on = i THEN NoRoute ELSE route[r]]
    /\ UNCHANGED <<row, pins>>

PointersInit ==
    /\ row = NoPointer /\ pins = 0
    /\ copies = [i \in Servers |-> [rec |-> NoPointer, fresh |-> FALSE]]
    /\ written = [i \in Servers |-> NoPointer]
    /\ route = [r \in Routers |-> NoRoute]
RouteStep(r) ==
    \/ \E i \in Servers : NextFromGroup(r, i)
    \/ ReadPointerRow(r) \/ ReadFails(r) \/ StoreCopy(r) \/ NoteWritten(r)
    \/ Upsert(r) \/ WriteRow(r) \/ Remember(r)
    \/ StartRing(r) \/ Rotate(r) \/ Try(r) \/ Touch(r)
PointersNext ==
    \/ \E r \in Routers : RouteStep(r) /\ UNCHANGED pins
    \/ \E i \in Servers : Age(i) \/ Restarts(i)
    \/ \E c \in Members \cup {None}, p \in BOOLEAN : Pin(c, p)

-----------------------------------------------------------------------------
\* What every instance and every request takes for the pin is what the row says.
Agreed ==
    /\ \A i \in Servers : copies[i].rec.pinned = row.pinned
    /\ \A r \in Routers : ~Routing(r, "idle") => route[r].rec.pinned = row.pinned

\* A pin, or its absence, that all have seen stands whatever the requests do
\* together, with failing reads and writes and moves of the pointer, until an
\* administrator writes or an instance starts anew (touchChannelGroupPointer).
PinsStand ==
    [][Agreed => Agreed' \/ pins' # pins \/ \E i \in Servers : Restarts(i)]_pointerVars

=============================================================================
