----------------------------- MODULE StreamPump -----------------------------
(***************************************************************************)
(* PumpSSE (internal/upstream/stream_pump.go): one upstream stream on its  *)
(* way to one client.  A goroutine reads lines into a bounded channel, a   *)
(* second one writes pings, and the caller's goroutine collects lines into *)
(* events and writes those.  They share the client's connection under a    *)
(* lock, and stopCh, the request's context and the end of the body tell    *)
(* each other when it is over.                                             *)
(*                                                                         *)
(* A line is a line of data or the blank line after an event.  Events that *)
(* TransformData replaces, and other kinds of lines, are left out.         *)
(***************************************************************************)
EXTENDS Naturals, Sequences, FiniteSets

CONSTANTS
    Buffer,   \* capacity of lineCh
    MaxLines, \* lines an upstream sends (a bound)
    MaxPings  \* ticks of the ping's ticker (a bound)

ASSUME BufferAssumption == Buffer \in Nat \ {0} /\ MaxLines \in Nat /\ MaxPings \in Nat

VARIABLES
    opts,     \* what the pump was called with
    upstream, \* the stream: open, or how it ended
    client,   \* reads, is stuck, has left, or has left and a write has failed
    canceled, \* the request's context is done
    stopped,  \* stopCh and the upstream's body are closed
    reader,   \* where the reading goroutine is; once it is over, its error
    queue,    \* lineCh
    ping,     \* where the pinging goroutine is
    ticks,    \* pings begun
    lock,     \* who holds writeMu
    timer,    \* the idle timer
    pump,     \* the caller: where it is, its event buffer, its result
    feed,     \* history: lines read from the upstream
    out,      \* history: what was written to the client
    told      \* history: lines of data OnData was given

world == <<opts, upstream, client, canceled>>
pumpVars == <<opts, upstream, client, canceled, stopped, reader, queue, ping, ticks, lock, timer,
          pump, feed, out, told>>

Lines == {"data", "blank"}
Endings == {"eof", "broken", "too long"}
Over == Endings \cup {"closed", "stopped", "canceled"}
Classes == {"none", "", "client_disconnect", "stream_read_error", "stream_event_too_large",
            "stream_idle_timeout"}
\* How many of the first n of s are in S.
CountOf(S, s, n) == Cardinality({i \in 1..n : s[i] \in S})
DataIn(s) == CountOf({"data"}, s, Len(s))
\* How many lines are among the first n writes; if the n-th is one, its place.
Place(n) == CountOf(Lines, out, n)
Forwarded == Place(Len(out))
Gone == client \in {"left", "dead"}
Returned == pump.at = "returned"

PumpTypeOK ==
    /\ opts \in [pings: BOOLEAN, idle: BOOLEAN, limit: BOOLEAN]
    /\ upstream \in Endings \cup {"open"} /\ client \in {"reads", "stuck", "left", "dead"}
    /\ canceled \in BOOLEAN /\ stopped \in BOOLEAN
    /\ reader \in Over \cup {"read", "send"}
    /\ queue \in Seq(Lines) /\ Len(queue) <= Buffer
    /\ ping \in {"rest", "lock", "write", "stop", "over"} /\ ticks \in 0..MaxPings
    /\ lock \in {"free", "pump", "ping"} /\ timer \in {"off", "running", "fired"}
    /\ pump \in [at: {"select", "lock", "write", "wait", "returned"}, class: Classes,
                 last: BOOLEAN, event: Seq(Lines)]
    /\ feed \in Seq(Lines) /\ Len(feed) <= MaxLines /\ told \in 0..MaxLines
    /\ out \in Seq(Lines \cup {"ping"})

PumpInit ==
    /\ opts \in [pings: BOOLEAN, idle: BOOLEAN, limit: BOOLEAN]
    /\ client = "reads" /\ canceled = FALSE /\ upstream = "open" /\ stopped = FALSE
    /\ reader = "read" /\ queue = <<>>
    /\ ping = (IF opts.pings THEN "rest" ELSE "over") /\ ticks = 0 /\ lock = "free"
    /\ timer = (IF opts.idle THEN "running" ELSE "off")
    /\ pump = [at |-> "select", class |-> "none", last |-> FALSE, event |-> <<>>]
    /\ feed = <<>> /\ out = <<>> /\ told = 0

-----------------------------------------------------------------------------
(* The world.  net/http cancels the context when the connection breaks or  *)
(* a write to it fails.                                                    *)

UpstreamEnds ==
    /\ upstream = "open"
    /\ upstream' \in {"eof", "broken"} \cup IF opts.limit THEN {"too long"} ELSE {}
    /\ UNCHANGED <<opts, client, canceled, stopped, reader, queue, ping, ticks, lock, timer,
                   pump, feed, out, told>>
ClientStalls ==
    /\ client = "reads" /\ client' = "stuck"
    /\ UNCHANGED <<opts, upstream, canceled, stopped, reader, queue, ping, ticks, lock, timer,
                   pump, feed, out, told>>
ClientLeaves ==
    /\ client \in {"reads", "stuck"} /\ client' = "left"
    /\ UNCHANGED <<opts, upstream, canceled, stopped, reader, queue, ping, ticks, lock, timer,
                   pump, feed, out, told>>
Cancel ==
    /\ Gone /\ ~canceled /\ canceled' = TRUE
    /\ UNCHANGED <<opts, upstream, client, stopped, reader, queue, ping, ticks, lock, timer,
                   pump, feed, out, told>>
\* What is written after the client left may still fit the buffers below.
Wrote(what) == client \in {"reads", "left"} /\ out' = Append(out, what) /\ UNCHANGED world
WriteFails ==
    /\ Gone /\ client' = "dead" /\ canceled' = TRUE /\ UNCHANGED <<opts, upstream, out>>

-----------------------------------------------------------------------------
(* The reading goroutine.                                                  *)

Reads(to) == reader = "read" /\ reader' = to
ReadLine ==
    /\ Reads("send") /\ Len(feed) < MaxLines /\ \E l \in Lines : feed' = Append(feed, l)
    /\ UNCHANGED <<world, stopped, queue, ping, ticks, lock, timer, pump, out, told>>
ReadEnds ==
    /\ upstream # "open" /\ Reads(upstream)
    /\ UNCHANGED <<world, stopped, queue, ping, ticks, lock, timer, pump, feed, out, told>>
\* The body was closed, or its request canceled.
ReadBreaks ==
    /\ \/ stopped /\ Reads("closed")
       \/ canceled /\ Reads("canceled")
    /\ UNCHANGED <<world, stopped, queue, ping, ticks, lock, timer, pump, feed, out, told>>

SendLine ==
    /\ reader = "send" /\ reader' = "read"
    /\ Len(queue) < Buffer /\ queue' = Append(queue, feed[Len(feed)])
    /\ UNCHANGED <<world, stopped, ping, ticks, lock, timer, pump, feed, out, told>>
\* Mutant: a reader with a full channel looks at the context only.
SendStopsLate ==
    /\ reader = "send" /\ canceled /\ reader' = "canceled"
    /\ UNCHANGED <<world, stopped, queue, ping, ticks, lock, timer, pump, feed, out, told>>
SendStops ==
    /\ reader = "send"
    /\ \/ stopped /\ reader' = "stopped"
       \/ canceled /\ reader' = "canceled"
    /\ UNCHANGED <<world, stopped, queue, ping, ticks, lock, timer, pump, feed, out, told>>

-----------------------------------------------------------------------------
(* The pinging goroutine.                                                  *)

PingTick ==
    /\ ping = "rest" /\ ping' = "lock" /\ ticks < MaxPings /\ ticks' = ticks + 1
    /\ UNCHANGED <<world, stopped, reader, queue, lock, timer, pump, feed, out, told>>
\* Mutant: pings are written without the lock.
PingLocksNothing ==
    /\ ping = "lock" /\ ping' = "write"
    /\ UNCHANGED <<world, stopped, reader, queue, ticks, lock, timer, pump, feed, out, told>>
PingLocks ==
    /\ ping = "lock" /\ ping' = "write" /\ lock = "free" /\ lock' = "ping"
    /\ UNCHANGED <<world, stopped, reader, queue, ticks, timer, pump, feed, out, told>>
PingWrites ==
    /\ ping = "write" /\ lock' = "free"
    /\ \/ Wrote("ping") /\ ping' = "rest"
       \/ WriteFails /\ ping' = "stop"
    /\ UNCHANGED <<stopped, reader, queue, ticks, timer, pump, feed, told>>
PingStops ==
    /\ \/ ping = "stop" /\ stopped' = TRUE
       \/ ping = "rest" /\ (stopped \/ canceled) /\ UNCHANGED stopped
    /\ ping' = "over"
    /\ UNCHANGED <<world, reader, queue, ticks, lock, timer, pump, feed, out, told>>

-----------------------------------------------------------------------------
(* The caller's goroutine: one select after the other.                     *)

Selects == pump.at = "select"
\* It is over: stop(), then wg.Wait().
Finish(class) == stopped' = TRUE /\ pump' = [pump EXCEPT !.at = "wait", !.class = class]
\* Only an event with data makes OnData speak.
Flush(event, last) ==
    /\ pump' = [pump EXCEPT !.at = "lock", !.event = event, !.last = last]
    /\ told' = told + DataIn(event)

ContextDone ==
    /\ Selects /\ canceled /\ Finish("client_disconnect")
    /\ UNCHANGED <<world, reader, queue, ping, ticks, lock, timer, feed, out, told>>
TakeLine ==
    /\ Selects /\ queue # <<>> /\ queue' = Tail(queue)
    /\ timer' = (IF opts.idle THEN "running" ELSE "off")
    /\ LET event == Append(pump.event, Head(queue))
       IN  IF Head(queue) = "blank" THEN Flush(event, FALSE)
           ELSE pump' = [pump EXCEPT !.event = event] /\ UNCHANGED told
    /\ UNCHANGED <<world, stopped, reader, ping, ticks, lock, feed, out>>

\* What the reader's error says.  Alone, a mutant: the context is not asked.
ErrorClassOfReader ==
    CASE reader = "too long" -> "stream_event_too_large"
      [] reader = "canceled" -> "client_disconnect"
      [] reader = "stopped" -> ""
      [] OTHER -> "stream_read_error"
\* Why the lines are over, if not because the stream is.
ErrorClass ==
    IF reader # "too long" /\ canceled THEN "client_disconnect" ELSE ErrorClassOfReader
LinesOver ==
    /\ Selects /\ queue = <<>> /\ reader \in Over
    /\ IF reader = "eof" /\ pump.event # <<>>
         THEN Flush(pump.event, TRUE) /\ UNCHANGED stopped
         ELSE Finish(IF reader = "eof" THEN "" ELSE ErrorClass) /\ UNCHANGED told
    /\ UNCHANGED <<world, reader, queue, ping, ticks, lock, timer, feed, out>>

\* IdleTimeout has passed since the timer was last set: since the last line was
\* taken, which may have been before others came.
TimerFires ==
    /\ timer = "running" /\ ~Returned
    /\ timer' = "fired"
    /\ UNCHANGED <<world, stopped, reader, queue, ping, ticks, lock, pump, feed, out, told>>
GiveUp ==
    /\ Selects /\ timer = "fired" /\ Finish("stream_idle_timeout")
    /\ UNCHANGED <<world, reader, queue, ping, ticks, lock, timer, feed, out, told>>
\* A ping has failed.
SeeStopped ==
    /\ Selects /\ stopped /\ Finish("")
    /\ UNCHANGED <<world, reader, queue, ping, ticks, lock, timer, feed, out, told>>

Lock ==
    /\ pump.at = "lock" /\ pump' = [pump EXCEPT !.at = "write"]
    /\ lock = "free" /\ lock' = "pump"
    /\ UNCHANGED <<world, stopped, reader, queue, ping, ticks, timer, feed, out, told>>
WriteLine ==
    /\ pump.at = "write" /\ pump.event # <<>>
    /\ \/ /\ Wrote(Head(pump.event)) /\ UNCHANGED <<lock, stopped>>
          /\ pump' = [pump EXCEPT !.event = Tail(pump.event)]
       \/ WriteFails /\ lock' = "free" /\ Finish("client_disconnect")
    /\ UNCHANGED <<reader, queue, ping, ticks, timer, feed, told>>
Flushed ==
    /\ pump.at = "write" /\ pump.event = <<>> /\ lock' = "free"
    /\ IF pump.last THEN Finish("")
       ELSE pump' = [pump EXCEPT !.at = "select"] /\ UNCHANGED stopped
    /\ UNCHANGED <<world, reader, queue, ping, ticks, timer, feed, out, told>>

\* wg.Wait: both goroutines are over.
Return ==
    /\ pump.at = "wait" /\ pump' = [pump EXCEPT !.at = "returned"]
    /\ reader \in Over /\ ping = "over"
    /\ UNCHANGED <<world, stopped, reader, queue, ping, ticks, lock, timer, feed, out, told>>

-----------------------------------------------------------------------------
ReaderRuns == ReadEnds \/ ReadBreaks \/ SendLine \/ SendStops
PingRuns == PingLocks \/ PingWrites \/ PingStops
PumpRuns ==
    \/ ContextDone \/ TakeLine \/ LinesOver \/ GiveUp \/ SeeStopped
    \/ Lock \/ WriteLine \/ Flushed \/ Return
\* The handler goes on with the result.
HandlerGoesOn == Returned /\ UNCHANGED pumpVars

PumpNext ==
    \/ UpstreamEnds \/ ClientStalls \/ ClientLeaves \/ Cancel \/ ReadLine
    \/ PingTick \/ TimerFires \/ ReaderRuns \/ PingRuns \/ PumpRuns \/ HandlerGoesOn

\* Goroutines that can run do, and net/http notices that a connection is gone.
PumpFairness ==
    /\ WF_pumpVars(ReaderRuns) /\ WF_pumpVars(PingRuns) /\ WF_pumpVars(PumpRuns)
    /\ WF_pumpVars(Cancel)

-----------------------------------------------------------------------------
\* No ping lies within an event: a client that joins lines of data until a blank
\* one would take the ping's own blank line for the event's end.  Only the event
\* that the stream broke off in may be followed by one (writeMu in flushEvent).
WholeEvents ==
    \A i \in 2..Len(out) : out[i] = "ping" /\ out[i - 1] = "data" =>
        \A j \in i..Len(out) : out[j] = "ping"

\* The client gets the upstream's lines in their order, and a stream that is
\* reported to have ended well, to a client who stayed, was forwarded and read for
\* its usage to the last line, the unfinished event included (PumpSSE, nil error).
CleanIsWhole ==
    /\ \A i \in DOMAIN out : out[i] \in Lines =>
        Place(i) \in DOMAIN feed /\ out[i] = feed[Place(i)]
    /\ Returned /\ pump.class = "" /\ ~Gone =>
        upstream = "eof" /\ Forwarded = Len(feed) /\ told = DataIn(feed)

\* A result that is held against the channel (proxyOnce reports it as a failure) is
\* the upstream's doing: no client who leaves, and no goroutine that stops another,
\* makes the channel look broken.
BlameFits ==
    /\ pump.class = "stream_read_error" => upstream = "broken"
    /\ pump.class = "stream_event_too_large" => upstream = "too long" /\ opts.limit
    /\ pump.class = "stream_idle_timeout" => opts.idle

\* Nobody is left behind who writes to the client or reads the body (wg.Wait).
NobodyLeft == Returned => stopped /\ reader \in Over /\ ping = "over" /\ lock = "free"

\* A client gets the stream in one piece, and after the pump's return nothing more
\* (PumpSSE).
StreamInv == PumpTypeOK /\ WholeEvents /\ CleanIsWhole /\ NobodyLeft

\* Whoever stops first, the pump returns with all its goroutines: when the client
\* has left, even one who had not been reading, and when the upstream's stream has
\* ended, unless the client neither reads nor leaves.
PumpReturns ==
    /\ Gone ~> Returned
    /\ upstream # "open" ~> Returned \/ client = "stuck"

=============================================================================
