-------------------------------- MODULE PassageProofs -------------------------------
(***************************************************************************)
(* What passes between a client and an upstream: the body a channel is     *)
(* sent, and the stream that comes back.                                   *)
(*                                                                         *)
(* StreamPump: a client gets the stream in one piece, and a channel is     *)
(* blamed for what its upstream did, for any capacity of the channel of    *)
(* lines, any stream and any number of pings.  Every line read is written, *)
(* collected or queued, in that order (Chain), so what was told of is the  *)
(* data of a beginning of the stream (Tells).  Who writes holds the lock,  *)
(* and lets it go only between events (EventsClose, LockFits).  While the  *)
(* pump works only a failed ping closes the body, so a reader who was      *)
(* stopped meets a canceled request, and no class of the upstream's is     *)
(* returned for it (EndsFit).                                              *)
(*                                                                         *)
(* Shaping: no channel is sent what it denies (but for the new name of a   *)
(* limit it refused) or, but for one kind of chats, what another added,    *)
(* for any bodies, settings and tries.  What is left of a body after       *)
(* policy and lists holds none of the fields denied, overrides bring only  *)
(* fields they name (OperationsStay, by induction over them), a limit put  *)
(* right was one that the override had brought (NormalizeIs), and a        *)
(* refusal adds one name at most (PostedIs).  The attempts share a body    *)
(* that only a channel which Spoils it changes (ShInv).                    *)
(***************************************************************************)
EXTENDS StreamPump, Shaping, FiniteSumsProofs, FiniteSetTheorems

StreamSpec == PumpInit /\ [][PumpNext]_pumpVars

Writing == pump.at \in {"lock", "write"}
Working == pump.at \in {"select", "lock", "write"}
\* Lines read, but for the one in the reader's hand, are written, collected or queued,
\* in their order; a reader who was stopped may have dropped one.
Chain ==
    LET n == Forwarded
        e == Len(pump.event)
        q == Len(queue)
    IN  /\ n + e + q <= Len(feed)
        /\ reader = "send" => n + e + q + 1 = Len(feed)
        /\ reader \in Endings \cup {"read"} => n + e + q = Len(feed)
        /\ \A i \in 1..e : pump.event[i] = feed[n + i]
        /\ \A i \in 1..q : queue[i] = feed[n + e + i]
InOrder ==
    \A i \in DOMAIN out : out[i] \in Lines => Place(i) \in DOMAIN feed /\ out[i] = feed[Place(i)]
\* OnData was given the data of the lines written, and of those about to be.
Tells ==
    \/ pump.at # "select" /\ told = CountOf({"data"}, feed, Forwarded + Len(pump.event))
    \/ ~Writing /\ told = CountOf({"data"}, feed, Forwarded)
\* While the pump works events are whole, and between them no ping is in the way.
EventsClose ==
    /\ Writing /\ ~pump.last =>
        IF pump.event # <<>> THEN pump.event[Len(pump.event)] = "blank"
        ELSE out # <<>> /\ out[Len(out)] = "blank"
    /\ pump.at \in {"select", "lock"} /\ out # <<>> => out[Len(out)] # "data"
    /\ Working => \A i \in 2..Len(out) : ~(out[i] = "ping" /\ out[i - 1] = "data")
    /\ pump.at = "lock" => pump.event # <<>>
LockFits == (lock = "pump" <=> pump.at = "write") /\ (lock = "ping" <=> ping = "write")
\* What has ended, and who knows.
EndsFit ==
    /\ reader \in Endings => upstream = reader
    /\ reader \in {"closed", "stopped"} => stopped
    /\ reader = "canceled" => canceled
    /\ upstream = "too long" => opts.limit
    /\ timer # "off" => opts.idle
    /\ canceled => Gone
    /\ ping = "stop" => canceled
    /\ stopped /\ Working => canceled
    /\ pump.class = "none" <=> Working
    /\ ~Working => stopped
    /\ Writing /\ pump.last => reader = "eof" /\ queue = <<>>
    /\ Returned => reader \in Over /\ ping = "over"
ClassFits ==
    /\ pump.class = "" => Gone \/
        (reader = "eof" /\ Forwarded = Len(feed) /\ told = DataIn(feed))
    /\ BlameFits
PumpInv ==
    /\ PumpTypeOK /\ WholeEvents /\ Chain /\ InOrder /\ Tells /\ EventsClose
    /\ LockFits /\ EndsFit /\ ClassFits

\* Counting goes up by one line.
LEMMA CountStep ==
  ASSUME NEW S, NEW s, NEW n \in Nat
  PROVE  /\ CountOf(S, s, n) \in Nat
         /\ CountOf(S, s, n + 1) = CountOf(S, s, n) + (IF s[n + 1] \in S THEN 1 ELSE 0)
<1> DEFINE A == {i \in 1..n : s[i] \in S}
           B == {i \in 1..(n + 1) : s[i] \in S}
<1>1. IsFiniteSet(1..n)
  BY FS_Interval
<1>2. IsFiniteSet(A) /\ Cardinality(A) \in Nat
  BY <1>1, FS_Subset, FS_CardinalityType
<1>3. n + 1 \notin A
  OBVIOUS
<1>4. 1..(n + 1) = 1..n \cup {n + 1}
  OBVIOUS
<1>5. CASE s[n + 1] \in S
  <2>1. B = A \cup {n + 1}
    BY <1>4, <1>5
  <2>2. Cardinality(B) = Cardinality(A) + 1
    BY <2>1, <1>2, <1>3, FS_AddElement
  <2>3. QED
    BY <2>2, <1>2, <1>5 DEF CountOf
<1>6. CASE s[n + 1] \notin S
  <2>1. B = A
    BY <1>4, <1>6
  <2>2. CountOf(S, s, n + 1) = CountOf(S, s, n)
    BY <2>1, Zenon DEF CountOf
  <2>3. CountOf(S, s, n) \in Nat
    BY <1>2 DEF CountOf
  <2>4. QED
    BY <2>2, <2>3, <1>6
<1>7. QED
  BY <1>5, <1>6

LEMMA CountZero == ASSUME NEW S, NEW s PROVE CountOf(S, s, 0) = 0
<1>1. {i \in 1..0 : s[i] \in S} = {}
  OBVIOUS
<1>2. QED
  BY <1>1, FS_EmptySet DEF CountOf

LEMMA CountBounded ==
  ASSUME NEW S, NEW s, NEW n \in Nat
  PROVE  CountOf(S, s, n) \in 0..n
<1>1. IsFiniteSet(1..n) /\ Cardinality(1..n) = n
  BY FS_Interval
<1>2. {i \in 1..n : s[i] \in S} \in SUBSET (1..n)
  OBVIOUS
<1>3. Cardinality({i \in 1..n : s[i] \in S}) <= n
  BY <1>1, <1>2, FS_Subset
<1>4. CountOf(S, s, n) \in Nat /\ CountOf(S, s, n) <= n
  BY <1>3, CountStep DEF CountOf
<1>5. QED
  BY <1>4

\* What follows does not matter.
LEMMA CountSame ==
  ASSUME NEW S, NEW s, NEW t, NEW n, \A i \in 1..n : s[i] = t[i]
  PROVE  CountOf(S, s, n) = CountOf(S, t, n)
<1>1. {i \in 1..n : s[i] \in S} = {i \in 1..n : t[i] \in S}
  OBVIOUS
<1>2. QED
  BY <1>1 DEF CountOf

\* The lines of a part are counted where they stand.
LEMMA CountPart ==
  ASSUME NEW S, NEW s, NEW n \in Nat, NEW p, NEW m \in Nat,
         \A i \in 1..m : p[i] = s[n + i]
  PROVE  CountOf(S, s, n + m) = CountOf(S, s, n) + CountOf(S, p, m)
<1> DEFINE T == {k \in Nat : k <= m =>
                    CountOf(S, s, n + k) = CountOf(S, s, n) + CountOf(S, p, k)}
<1>1. 0 \in T
  BY CountZero, CountStep
<1>2. ASSUME NEW k \in Nat, k \in T PROVE k + 1 \in T
  <2>1. SUFFICES ASSUME k + 1 <= m
                 PROVE  CountOf(S, s, n + (k + 1)) = CountOf(S, s, n) + CountOf(S, p, k + 1)
    BY DEF T
  <2>2. CountOf(S, s, n + k) = CountOf(S, s, n) + CountOf(S, p, k)
    BY <1>2, <2>1 DEF T
  <2>3. k + 1 \in 1..m /\ n + (k + 1) = (n + k) + 1
    BY <2>1
  <2>4. p[k + 1] = s[(n + k) + 1]
    BY <2>3
  <2>5. CountOf(S, p, k + 1) = CountOf(S, p, k) + (IF p[k + 1] \in S THEN 1 ELSE 0)
    BY CountStep
  <2>6. CountOf(S, s, (n + k) + 1)
          = CountOf(S, s, n + k) + (IF s[(n + k) + 1] \in S THEN 1 ELSE 0)
    BY CountStep
  <2>7. CountOf(S, s, n) \in Nat /\ CountOf(S, p, k) \in Nat
    BY CountStep
  <2>8. QED
    BY <2>2, <2>3, <2>4, <2>5, <2>6, <2>7
<1>3. T = Nat
  <2>1. T \subseteq Nat
    OBVIOUS
  <2> HIDE DEF T
  <2>2. QED
    BY <1>1, <1>2, <2>1, SetInduction
<1>4. QED
  BY <1>3

\* What a write does to the counts of lines written.
LEMMA WriteCounts ==
  ASSUME PumpTypeOK, NEW what \in Lines \cup {"ping"}, out' = Append(out, what)
  PROVE  /\ out' \in Seq(Lines \cup {"ping"}) /\ Len(out') = Len(out) + 1
         /\ \A i \in 1..Len(out) : out'[i] = out[i] /\ Place(i)' = Place(i)
         /\ out'[Len(out) + 1] = what
         /\ \A i \in Nat : i = Len(out) + 1 => Place(i)' = Forwarded'
         /\ Forwarded' = Forwarded + (IF what \in Lines THEN 1 ELSE 0)
<1>1. out \in Seq(Lines \cup {"ping"}) /\ Len(out) \in Nat
  BY DEF PumpTypeOK
<1>2. SUFFICES ASSUME NEW t, t \in Seq(Lines \cup {"ping"}), Len(t) = Len(out) + 1,
                      \A i \in 1..Len(out) : t[i] = out[i], t[Len(out) + 1] = what
               PROVE  /\ \A i \in 1..Len(out) : CountOf(Lines, t, i) = CountOf(Lines, out, i)
                      /\ CountOf(Lines, t, Len(t)) = CountOf(Lines, out, Len(out))
                                                + (IF what \in Lines THEN 1 ELSE 0)
  <2>1. /\ out' \in Seq(Lines \cup {"ping"}) /\ Len(out') = Len(out) + 1
        /\ \A i \in 1..Len(out) : out'[i] = out[i]
        /\ out'[Len(out) + 1] = what
    BY <1>1
  <2>2. /\ \A i \in 1..Len(out) : CountOf(Lines, out', i) = CountOf(Lines, out, i)
        /\ CountOf(Lines, out', Len(out')) = CountOf(Lines, out, Len(out))
                                           + (IF what \in Lines THEN 1 ELSE 0)
    BY <2>1, <1>2, Zenon
  <2>3. QED
    BY <2>1, <2>2, Zenon DEF Place, Forwarded
<1>3. ASSUME NEW i \in 1..Len(out) PROVE CountOf(Lines, t, i) = CountOf(Lines, out, i)
  <2>1. \A j \in 1..i : t[j] = out[j]
    BY <1>1, <1>2
  <2>2. QED
    BY <2>1, CountSame
<1>4. CountOf(Lines, t, Len(out) + 1)
        = CountOf(Lines, out, Len(out)) + (IF t[Len(out) + 1] \in Lines THEN 1 ELSE 0)
  <2>1. CountOf(Lines, t, Len(out)) = CountOf(Lines, out, Len(out))
    BY <1>2, CountSame
  <2>2. CountOf(Lines, t, Len(out) + 1)
          = CountOf(Lines, t, Len(out)) + (IF t[Len(out) + 1] \in Lines THEN 1 ELSE 0)
    BY <1>1, CountStep
  <2>3. QED
    BY <2>1, <2>2
<1>5. QED
  BY <1>2, <1>3, <1>4, Zenon

LEMMA Counts ==
  ASSUME PumpTypeOK
  PROVE  /\ Forwarded \in Nat /\ Len(pump.event) \in Nat /\ Len(queue) \in Nat
         /\ Len(feed) \in Nat /\ Len(out) \in Nat
<1>1. out \in Seq(Lines \cup {"ping"}) /\ Len(out) \in Nat
  BY DEF PumpTypeOK
<1>2. Forwarded \in Nat
  BY <1>1, CountStep DEF Forwarded, Place
<1>3. QED
  BY <1>1, <1>2 DEF PumpTypeOK

\* A step that touches no line, and does not turn the reader back to work.
Still ==
    /\ UNCHANGED <<feed, out, queue>> /\ pump'.event = pump.event
    /\ reader' \in {reader, "closed", "stopped", "canceled"}

LEMMA ChainStill ==
  ASSUME PumpTypeOK, Chain, Still
  PROVE  Chain'
<1>1. Forwarded' = Forwarded
  BY DEF Forwarded, Place, Still
<1>2. reader' \in Endings \cup {"read", "send"} => reader' = reader
  BY DEF Still, Endings
<1>3. QED
  BY <1>1, <1>2 DEF Chain, Still, Endings

\* The steps that touch no line.
LEMMA StillSteps ==
  ASSUME PumpTypeOK,
         \/ UpstreamEnds \/ ClientStalls \/ ClientLeaves \/ Cancel \/ ReadBreaks \/ SendStops
         \/ PingTick \/ TimerFires \/ PingLocks \/ PingStops \/ ContextDone \/ LinesOver
         \/ GiveUp \/ SeeStopped \/ Lock \/ Flushed \/ Return \/ UNCHANGED pumpVars
  PROVE  Still
<1>1. pump \in [at: {"select", "lock", "write", "wait", "returned"}, class: Classes,
                last: BOOLEAN, event: Seq(Lines)]
  BY DEF PumpTypeOK
<1>2. /\ \A c : Finish(c) => pump'.event = pump.event
      /\ \A l : Flush(pump.event, l) => pump'.event = pump.event
  BY <1>1 DEF Finish, Flush
<1>3. CASE UpstreamEnds \/ ClientStalls \/ ClientLeaves \/ Cancel \/ UNCHANGED pumpVars
  BY <1>3 DEF UpstreamEnds, ClientStalls, ClientLeaves, Cancel, pumpVars, Still
<1>4. CASE ReadBreaks \/ SendStops \/ PingTick \/ TimerFires \/ PingLocks \/ PingStops
  BY <1>4 DEF ReadBreaks, Reads, SendStops, PingTick, TimerFires, PingLocks, PingStops, Still
<1>5. CASE ContextDone \/ LinesOver \/ GiveUp \/ SeeStopped
  BY <1>5, <1>2, Zenon DEF ContextDone, LinesOver, GiveUp, SeeStopped, Still
<1>6. CASE Lock \/ Flushed \/ Return
  <2>1. pump'.event = pump.event
    BY <1>6, <1>1, <1>2 DEF Lock, Flushed, Return
  <2>2. QED
    BY <1>6, <2>1 DEF Lock, Flushed, Return, Still
<1>7. QED
  BY <1>3, <1>4, <1>5, <1>6

LEMMA ChainKept ==
  ASSUME PumpTypeOK, Chain, PumpNext
  PROVE  Chain'
<1> USE DEF Lines
<1>1. /\ Forwarded \in Nat /\ Len(pump.event) \in Nat /\ Len(queue) \in Nat
      /\ Len(feed) \in Nat
  BY Counts
<1>2. /\ queue \in Seq(Lines) /\ feed \in Seq(Lines) /\ pump.event \in Seq(Lines)
      /\ pump \in [at: {"select", "lock", "write", "wait", "returned"}, class: Classes,
                   last: BOOLEAN, event: Seq(Lines)]
  BY DEF PumpTypeOK
<1>3. UNCHANGED out => Forwarded' = Forwarded
  BY DEF Forwarded, Place
<1>4. CASE ReadLine
  <2>1. PICK l \in Lines : feed' = Append(feed, l)
    BY <1>4 DEF ReadLine
  <2>2. Len(feed') = Len(feed) + 1 /\ \A i \in 1..Len(feed) : feed'[i] = feed[i]
    BY <2>1, <1>2
  <2>3. /\ Forwarded' = Forwarded /\ pump' = pump /\ queue' = queue
        /\ reader = "read" /\ reader' = "send"
    BY <1>4, <1>3 DEF ReadLine, Reads
  <2>4. Forwarded + Len(pump.event) + Len(queue) = Len(feed)
    BY <2>3 DEF Chain
  <2>5. \A i \in 1..Len(pump.event) : pump.event[i] = feed'[Forwarded + i]
    <3>1. SUFFICES ASSUME NEW i \in 1..Len(pump.event)
                   PROVE  pump.event[i] = feed'[Forwarded + i]
      OBVIOUS
    <3>2. pump.event[i] = feed[Forwarded + i]
      BY DEF Chain
    <3>3. Forwarded + i \in 1..Len(feed)
      BY <2>4, <1>1
    <3>4. QED
      BY <3>2, <3>3, <2>2
  <2>6. \A i \in 1..Len(queue) : queue[i] = feed'[Forwarded + Len(pump.event) + i]
    <3>1. SUFFICES ASSUME NEW i \in 1..Len(queue)
                   PROVE  queue[i] = feed'[Forwarded + Len(pump.event) + i]
      OBVIOUS
    <3>2. queue[i] = feed[Forwarded + Len(pump.event) + i]
      BY DEF Chain
    <3>3. Forwarded + Len(pump.event) + i \in 1..Len(feed)
      BY <2>4, <1>1
    <3>4. QED
      BY <3>2, <3>3, <2>2
  <2>7. QED
    BY <2>2, <2>3, <2>4, <2>5, <2>6, <1>1 DEF Chain, Endings
<1>5. CASE ReadEnds
  BY <1>5, <1>3 DEF ReadEnds, Reads, Chain, PumpTypeOK, Endings
<1>6. CASE SendLine
  <2>1. Len(queue') = Len(queue) + 1 /\ queue'[Len(queue) + 1] = feed[Len(feed)]
        /\ \A i \in 1..Len(queue) : queue'[i] = queue[i]
    <3>1. Forwarded + Len(pump.event) + Len(queue) + 1 = Len(feed)
      BY <1>6 DEF Chain, SendLine
    <3>2. feed[Len(feed)] \in Lines
      BY <3>1, <1>1, <1>2
    <3>3. QED
      BY <1>6, <3>2, <1>2 DEF SendLine
  <2>2. Forwarded' = Forwarded /\ pump' = pump /\ feed' = feed /\ reader' = "read"
        /\ reader = "send"
    BY <1>6, <1>3 DEF SendLine
  <2>3. Forwarded + Len(pump.event) + Len(queue) + 1 = Len(feed)
    BY <2>2 DEF Chain
  <2>4. \A i \in 1..Len(queue') : queue'[i] = feed[Forwarded + Len(pump.event) + i]
    BY <2>1, <2>3, <1>1 DEF Chain
  <2>5. \A i \in 1..Len(pump.event) : pump.event[i] = feed[Forwarded + i]
    BY DEF Chain
  <2>6. Forwarded + Len(pump.event) + Len(queue') = Len(feed)
    BY <2>1, <2>3, <1>1
  <2>7. QED
    <3>1. Forwarded' + Len(pump'.event) + Len(queue') = Len(feed')
      BY <2>2, <2>6
    <3>2. reader' # "send"
      BY <2>2
    <3>3. Forwarded' + Len(pump'.event) + Len(queue') <= Len(feed')
      BY <3>1, <2>2, <1>1
    <3>4. QED
      BY <3>1, <3>2, <3>3, <2>2, <2>4, <2>5 DEF Chain
<1>7. CASE TakeLine
  <2> DEFINE event == Append(pump.event, Head(queue))
  <2>1. queue # <<>> /\ Len(queue) > 0 /\ Head(queue) \in Lines /\ Head(queue) = queue[1]
    BY <1>7, <1>2 DEF TakeLine
  <2>2. pump'.event = event
    BY <1>7, <1>2 DEF TakeLine, Flush
  <2>3. Len(event) = Len(pump.event) + 1 /\ event[Len(pump.event) + 1] = queue[1]
        /\ \A i \in 1..Len(pump.event) : event[i] = pump.event[i]
    BY <2>1, <1>2
  <2>4. queue' = Tail(queue) /\ Len(queue') = Len(queue) - 1
        /\ \A i \in 1..Len(queue') : queue'[i] = queue[i + 1]
    BY <1>7, <2>1, <1>2 DEF TakeLine
  <2>5. Forwarded' = Forwarded /\ feed' = feed /\ reader' = reader
    BY <1>7, <1>3 DEF TakeLine
  <2> HIDE DEF event
  <2>6. \A i \in 1..Len(event) : event[i] = feed[Forwarded + i]
    <3>1. event[Len(pump.event) + 1] = feed[Forwarded + Len(pump.event) + 1]
      BY <2>3, <2>1, <1>1 DEF Chain
    <3>2. \A i \in 1..Len(pump.event) : event[i] = feed[Forwarded + i]
      BY <2>3 DEF Chain
    <3>3. Forwarded + Len(pump.event) + 1 = Forwarded + (Len(pump.event) + 1)
      BY <1>1
    <3>4. \A i \in 1..Len(event) : i \in 1..Len(pump.event) \/ i = Len(pump.event) + 1
      BY <2>3, <1>1
    <3>5. QED
      BY <3>1, <3>2, <3>3, <3>4
  <2>7. \A i \in 1..Len(queue') : queue'[i] = feed[Forwarded + Len(event) + i]
    <3>1. SUFFICES ASSUME NEW i \in 1..Len(queue')
                   PROVE  queue'[i] = feed[Forwarded + Len(event) + i]
      OBVIOUS
    <3>2. i + 1 \in 1..Len(queue)
      BY <2>4, <1>1
    <3>3. queue[i + 1] = feed[Forwarded + Len(pump.event) + (i + 1)]
      BY <3>2 DEF Chain
    <3>4. Forwarded + Len(pump.event) + (i + 1) = Forwarded + Len(event) + i
      <4>1. i \in Nat
        OBVIOUS
      <4>2. PICK b, c : b = Len(pump.event) /\ c = Len(event)
        OBVIOUS
      <4>3. b \in Nat /\ c = b + 1
        BY <2>3, <4>2, <1>1
      <4>4. Forwarded + b + (i + 1) = Forwarded + c + i
        BY <4>1, <4>3, <1>1
      <4>5. QED
        BY <4>2, <4>4
    <3>5. QED
      BY <3>3, <3>4, <2>4
  <2>8. Forwarded + Len(event) + Len(queue') = Forwarded + Len(pump.event) + Len(queue)
    <3>1. Len(event) = Len(pump.event) + 1
      BY <2>3
    <3>2. Len(queue') = Len(queue) - 1
      BY <2>4
    <3>3. QED
      BY <3>1, <3>2, <1>1
  <2>9. QED
    BY <2>2, <2>5, <2>6, <2>7, <2>8 DEF Chain
<1>8. CASE PingWrites
  <2>1. Forwarded' = Forwarded
    <3>1. CASE Wrote("ping")
      BY <3>1, <1>1, WriteCounts DEF Wrote
    <3>2. CASE WriteFails
      BY <3>2, <1>3 DEF WriteFails
    <3>3. QED
      BY <1>8, <3>1, <3>2 DEF PingWrites
  <2>2. UNCHANGED <<reader, queue, pump, feed>>
    BY <1>8 DEF PingWrites
  <2>3. QED
    BY <2>1, <2>2 DEF Chain
<1>9. CASE WriteLine
  <2>1. CASE Wrote(Head(pump.event)) /\ pump' = [pump EXCEPT !.event = Tail(pump.event)]
    <3>1. /\ pump.event # <<>> /\ Len(pump.event) > 0 /\ Head(pump.event) \in Lines
          /\ Head(pump.event) = pump.event[1]
      BY <1>9, <1>2 DEF WriteLine
    <3>2. Forwarded' = Forwarded + 1
      BY <2>1, <3>1, <1>1, WriteCounts DEF Wrote
    <3>3. pump'.event = Tail(pump.event)
      BY <2>1, <1>2
    <3>4. Len(pump'.event) = Len(pump.event) - 1
          /\ \A i \in 1..Len(pump'.event) : pump'.event[i] = pump.event[i + 1]
      BY <3>1, <3>3, <1>2
    <3>5. UNCHANGED <<reader, queue, feed>>
      BY <1>9 DEF WriteLine
    <3>6. \A i \in 1..Len(pump'.event) : pump'.event[i] = feed[Forwarded' + i]
      <4>1. SUFFICES ASSUME NEW i \in 1..Len(pump'.event)
                     PROVE  pump'.event[i] = feed[Forwarded' + i]
        OBVIOUS
      <4>2. i + 1 \in 1..Len(pump.event)
        BY <3>4, <1>1
      <4>3. pump.event[i + 1] = feed[Forwarded + (i + 1)]
        BY <4>2 DEF Chain
      <4>4. Forwarded + (i + 1) = Forwarded' + i
        BY <3>2, <1>1
      <4>5. QED
        BY <4>3, <4>4, <3>4
    <3>7. Forwarded' + Len(pump'.event) = Forwarded + Len(pump.event)
      <4>1. PICK b, c : b = Len(pump.event) /\ c = Len(pump'.event)
        OBVIOUS
      <4>2. b \in Nat /\ c = b - 1
        BY <3>4, <4>1, <1>1
      <4>3. Forwarded' + c = Forwarded + b
        BY <3>2, <4>2, <1>1
      <4>4. QED
        BY <4>1, <4>3
    <3>8. QED
      BY <3>5, <3>6, <3>7 DEF Chain
  <2>2. CASE WriteFails /\ Finish("client_disconnect")
    <3>1. Still
      BY <1>9, <2>2, <1>2 DEF WriteLine, WriteFails, Finish, Still
    <3>2. QED
      BY <3>1, ChainStill
  <2>3. QED
    BY <1>9, <2>1, <2>2 DEF WriteLine
<1>10. QED
  BY <1>4, <1>5, <1>6, <1>7, <1>8, <1>9, StillSteps, ChainStill
     DEF PumpNext, ReaderRuns, PingRuns, PumpRuns, HandlerGoesOn

LEMMA InOrderKept ==
  ASSUME PumpTypeOK, Chain, InOrder, PumpNext
  PROVE  InOrder'
<1>1. out \in Seq(Lines \cup {"ping"}) /\ feed \in Seq(Lines) /\ pump.event \in Seq(Lines)
  BY DEF PumpTypeOK
<1>2. /\ Forwarded \in Nat /\ Len(pump.event) \in Nat /\ Len(queue) \in Nat
      /\ Len(feed) \in Nat /\ Len(out) \in Nat
  BY Counts
<1>3. CASE UNCHANGED <<out, feed>>
  BY <1>3 DEF InOrder, Place
<1>4. CASE ReadLine
  <2>1. PICK l \in Lines : feed' = Append(feed, l)
    BY <1>4 DEF ReadLine
  <2>2. \A i \in DOMAIN feed : i \in DOMAIN feed' /\ feed'[i] = feed[i]
    BY <2>1, <1>1
  <2>3. UNCHANGED out
    BY <1>4 DEF ReadLine
  <2>4. QED
    BY <2>2, <2>3 DEF InOrder, Place
<1>5. CASE UNCHANGED feed /\ Wrote("ping")
  <2>1. /\ out' \in Seq(Lines \cup {"ping"}) /\ Len(out') = Len(out) + 1
        /\ \A i \in 1..Len(out) : out'[i] = out[i] /\ Place(i)' = Place(i)
        /\ out'[Len(out) + 1] = "ping"
    BY <1>5, WriteCounts DEF Wrote
  <2>2. SUFFICES ASSUME NEW i \in DOMAIN out', out'[i] \in Lines
                 PROVE  Place(i)' \in DOMAIN feed /\ out'[i] = feed[Place(i)']
    BY <1>5 DEF InOrder
  <2>3. i \in 1..Len(out) /\ i \in DOMAIN out
    BY <2>1, <2>2, <1>1, <1>2 DEF Lines
  <2>4. QED
    BY <2>1, <2>2, <2>3 DEF InOrder
<1>6. CASE WriteLine /\ Wrote(Head(pump.event))
  <2>1. /\ pump.event # <<>> /\ Len(pump.event) > 0 /\ Head(pump.event) \in Lines
        /\ Head(pump.event) = pump.event[1] /\ UNCHANGED feed
    BY <1>6, <1>1 DEF WriteLine
  <2>2. /\ out' \in Seq(Lines \cup {"ping"}) /\ Len(out') = Len(out) + 1
        /\ \A i \in 1..Len(out) : out'[i] = out[i] /\ Place(i)' = Place(i)
        /\ out'[Len(out) + 1] = Head(pump.event)
        /\ \A i \in Nat : i = Len(out) + 1 => Place(i)' = Forwarded'
        /\ Forwarded' = Forwarded + 1
    BY <1>6, <2>1, WriteCounts DEF Wrote
  <2>3. SUFFICES ASSUME NEW i \in DOMAIN out', out'[i] \in Lines
                 PROVE  Place(i)' \in DOMAIN feed /\ out'[i] = feed[Place(i)']
    BY <2>1 DEF InOrder
  <2>4. (i \in 1..Len(out) /\ i \in DOMAIN out) \/ i = Len(out) + 1
    BY <2>2, <1>1, <1>2
  <2>5. CASE i \in 1..Len(out) /\ i \in DOMAIN out
    BY <2>2, <2>3, <2>5 DEF InOrder
  <2>6. CASE i = Len(out) + 1
    <3>1. Place(i)' = Forwarded + 1
      BY <2>2, <2>6, <1>2
    <3>2. Forwarded + 1 \in 1..Len(feed)
      BY <2>1, <1>2 DEF Chain
    <3>3. pump.event[1] = feed[Forwarded + 1]
      BY <2>1, <1>2 DEF Chain
    <3>4. Forwarded + 1 \in DOMAIN feed
      BY <3>2, <1>1
    <3>5. QED
      BY <3>1, <3>3, <3>4, <2>1, <2>2, <2>6
  <2>7. QED
    BY <2>4, <2>5, <2>6
<1>7. PumpNext => \/ UNCHANGED <<out, feed>>
                  \/ ReadLine
                  \/ UNCHANGED feed /\ Wrote("ping")
                  \/ WriteLine /\ Wrote(Head(pump.event))
  <2>1. PingWrites => UNCHANGED <<out, feed>> \/ (UNCHANGED feed /\ Wrote("ping"))
    BY DEF PingWrites, WriteFails
  <2>2. WriteLine => UNCHANGED <<out, feed>> \/ (WriteLine /\ Wrote(Head(pump.event)))
    BY DEF WriteLine, WriteFails
  <2>3. SendLine \/ TakeLine \/ ReadEnds => UNCHANGED <<out, feed>>
    BY DEF SendLine, TakeLine, ReadEnds
  <2>4. Still => UNCHANGED <<out, feed>>
    BY DEF Still
  <2>5. QED
    BY <2>1, <2>2, <2>3, <2>4, StillSteps
       DEF PumpNext, ReaderRuns, PingRuns, PumpRuns, HandlerGoesOn
<1>8. QED
  BY <1>3, <1>4, <1>5, <1>6, <1>7

\* What the two ways on from a select do to the pump's record.
LEMMA PumpMoves ==
  ASSUME PumpTypeOK
  PROVE  /\ \A c : Finish(c) =>
              /\ pump'.at = "wait" /\ pump'.class = c /\ pump'.last = pump.last
              /\ pump'.event = pump.event /\ stopped'
         /\ \A e, l : Flush(e, l) =>
              /\ pump'.at = "lock" /\ pump'.class = pump.class /\ pump'.last = l
              /\ pump'.event = e /\ told' = told + DataIn(e)
<1>1. pump \in [at: {"select", "lock", "write", "wait", "returned"}, class: Classes,
                last: BOOLEAN, event: Seq(Lines)]
  BY DEF PumpTypeOK
<1>2. QED
  BY <1>1 DEF Finish, Flush

\* A step that touches no line and tells nothing, nor turns the caller back.
LEMMA TellsStill ==
  ASSUME Tells, UNCHANGED <<told, feed>>, Forwarded' = Forwarded, pump'.event = pump.event,
         pump.at # "select" => pump'.at # "select", ~Writing => ~Writing'
  PROVE  Tells'
BY DEF Tells

\* The event that is told of is the one whose lines come next.
LEMMA TellsEvent ==
  ASSUME PumpTypeOK, Tells, Selects, Chain', UNCHANGED <<feed, out>>,
         NEW e, e \in Seq(Lines), NEW l, Flush(e, l)
  PROVE  Tells'
<1>1. Forwarded \in Nat /\ Forwarded' = Forwarded /\ Len(e) \in Nat
  BY Counts DEF Forwarded, Place
<1>2. pump'.at = "lock" /\ pump'.event = e /\ told' = told + DataIn(e)
  BY PumpMoves
<1>3. \A i \in 1..Len(e) : e[i] = feed[Forwarded + i]
  BY <1>1, <1>2 DEF Chain
<1>4. CountOf({"data"}, feed, Forwarded + Len(e)) = CountOf({"data"}, feed, Forwarded) + DataIn(e)
  BY <1>1, <1>3, CountPart DEF DataIn
<1>5. told = CountOf({"data"}, feed, Forwarded)
  BY DEF Tells, Selects
<1>6. QED
  BY <1>1, <1>2, <1>4, <1>5 DEF Tells

LEMMA TellsKept ==
  ASSUME PumpTypeOK, Chain, Tells, PumpNext, Chain'
  PROVE  Tells'
<1>1. out \in Seq(Lines \cup {"ping"}) /\ feed \in Seq(Lines) /\ pump.event \in Seq(Lines)
      /\ queue \in Seq(Lines)
  BY DEF PumpTypeOK
<1>2. /\ Forwarded \in Nat /\ Len(pump.event) \in Nat /\ Len(queue) \in Nat
      /\ Len(feed) \in Nat /\ Len(out) \in Nat
  BY Counts
<1>3. UNCHANGED out => Forwarded' = Forwarded
  BY DEF Forwarded, Place
<1>4. pump \in [at: {"select", "lock", "write", "wait", "returned"}, class: Classes,
                last: BOOLEAN, event: Seq(Lines)]
  BY DEF PumpTypeOK
<1>5. CASE \/ UpstreamEnds \/ ClientStalls \/ ClientLeaves \/ Cancel \/ ReadEnds \/ ReadBreaks
           \/ SendLine \/ SendStops \/ UNCHANGED pumpVars
  <2>1. UNCHANGED <<told, feed, pump, out>>
    BY <1>5 DEF UpstreamEnds, ClientStalls, ClientLeaves, Cancel, ReadEnds, ReadBreaks,
                SendLine, SendStops, pumpVars
  <2>2. QED
    BY <2>1, <1>3 DEF Tells, Writing
<1>6. CASE PingTick \/ TimerFires \/ PingLocks \/ PingStops
  <2>1. UNCHANGED <<told, feed, pump, out>>
    BY <1>6 DEF PingTick, TimerFires, PingLocks, PingStops
  <2>2. QED
    BY <2>1, <1>3 DEF Tells, Writing
<1>7. CASE ReadLine
  <2>1. PICK l \in Lines : feed' = Append(feed, l)
    BY <1>7 DEF ReadLine
  <2>2. \A i \in 1..Len(feed) : feed'[i] = feed[i]
    BY <2>1, <1>1
  <2>3. UNCHANGED <<told, pump, out>> /\ Forwarded' = Forwarded
    BY <1>7, <1>3 DEF ReadLine
  <2>4. Forwarded \in 0..Len(feed) /\ Forwarded + Len(pump.event) \in 0..Len(feed)
    BY <1>2 DEF Chain
  <2>5. \A k \in 0..Len(feed) : CountOf({"data"}, feed', k) = CountOf({"data"}, feed, k)
    <3>1. SUFFICES ASSUME NEW k \in 0..Len(feed)
                   PROVE  CountOf({"data"}, feed', k) = CountOf({"data"}, feed, k)
      OBVIOUS
    <3>2. \A i \in 1..k : feed'[i] = feed[i]
      BY <2>2, <1>2
    <3>3. QED
      BY <3>2, CountSame
  <2>6. /\ CountOf({"data"}, feed', Forwarded) = CountOf({"data"}, feed, Forwarded)
        /\ CountOf({"data"}, feed', Forwarded + Len(pump.event))
             = CountOf({"data"}, feed, Forwarded + Len(pump.event))
    BY <2>4, <2>5
  <2>7. QED
    BY <2>3, <2>6 DEF Tells, Writing
<1>8. CASE PingWrites
  <2>1. Forwarded' = Forwarded
    <3>1. CASE Wrote("ping")
      BY <3>1, <1>2, WriteCounts DEF Wrote, Lines
    <3>2. CASE WriteFails
      BY <3>2, <1>3 DEF WriteFails
    <3>3. QED
      BY <1>8, <3>1, <3>2 DEF PingWrites
  <2>2. UNCHANGED <<told, feed, pump>>
    BY <1>8 DEF PingWrites
  <2>3. QED
    BY <2>1, <2>2 DEF Tells, Writing
<1>9. CASE ContextDone \/ GiveUp \/ SeeStopped
  <2>1. pump'.at = "wait" /\ pump'.event = pump.event /\ UNCHANGED <<told, feed, out>>
    BY <1>9, PumpMoves DEF ContextDone, GiveUp, SeeStopped
  <2>2. QED
    BY <2>1, <1>3, TellsStill DEF Writing
<1>10. CASE TakeLine
  <2>1. queue # <<>> /\ Head(queue) \in Lines /\ Selects /\ UNCHANGED <<feed, out>>
    BY <1>10, <1>1 DEF TakeLine
  <2>2. Append(pump.event, Head(queue)) \in Seq(Lines)
    BY <2>1, <1>1
  <2>3. CASE Flush(Append(pump.event, Head(queue)), FALSE)
    BY <2>1, <2>2, <2>3, TellsEvent
  <2>4. CASE pump' = [pump EXCEPT !.event = Append(pump.event, Head(queue))] /\ UNCHANGED told
    <3>1. pump'.at = "select"
      BY <2>1, <2>4, <1>4 DEF Selects
    <3>2. told = CountOf({"data"}, feed, Forwarded)
      BY <2>1 DEF Tells, Selects
    <3>3. QED
      BY <3>1, <3>2, <2>1, <2>4, <1>3 DEF Tells, Writing
  <2>5. QED
    BY <1>10, <2>3, <2>4 DEF TakeLine
<1>11. CASE LinesOver
  <2>1. Selects /\ UNCHANGED <<feed, out>>
    BY <1>11 DEF LinesOver
  <2>2. CASE Flush(pump.event, TRUE)
    BY <2>1, <2>2, <1>1, TellsEvent
  <2>3. CASE (\E c : Finish(c)) /\ UNCHANGED told
    <3>1. pump'.at = "wait" /\ pump'.event = pump.event
      BY <2>3, PumpMoves
    <3>2. QED
      BY <3>1, <2>1, <2>3, <1>3, TellsStill DEF Writing
  <2>4. QED
    BY <1>11, <2>2, <2>3 DEF LinesOver
<1>12. CASE Lock \/ Return
  <2>1. /\ pump'.event = pump.event /\ UNCHANGED <<told, feed, out>>
        /\ \/ pump.at = "lock" /\ pump'.at = "write"
           \/ pump.at = "wait" /\ pump'.at = "returned"
    <3>1. CASE Lock
      BY <3>1, <1>4 DEF Lock
    <3>2. CASE Return
      BY <3>2, <1>4 DEF Return
    <3>3. QED
      BY <1>12, <3>1, <3>2
  <2>2. QED
    BY <2>1, <1>3, TellsStill DEF Writing
<1>13. CASE WriteLine
  <2>1. pump.at = "write" /\ UNCHANGED <<told, feed>>
    BY <1>13 DEF WriteLine
  <2>2. told = CountOf({"data"}, feed, Forwarded + Len(pump.event))
    BY <2>1 DEF Tells, Writing
  <2>3. CASE Wrote(Head(pump.event)) /\ pump' = [pump EXCEPT !.event = Tail(pump.event)]
    <3>1. pump.event # <<>> /\ Head(pump.event) \in Lines
      BY <1>13, <1>1 DEF WriteLine
    <3>2. Forwarded' = Forwarded + 1
      BY <2>3, <3>1, <1>2, WriteCounts DEF Wrote
    <3>3. pump'.event = Tail(pump.event) /\ pump'.at = "write"
      BY <2>1, <2>3, <1>4
    <3>4. PICK b, c : b = Len(pump.event) /\ c = Len(pump'.event)
      OBVIOUS
    <3>5. b \in Nat /\ c = b - 1
      BY <3>1, <3>3, <3>4, <1>1, <1>2
    <3>6. Forwarded' + c = Forwarded + b
      BY <3>2, <3>5, <1>2
    <3>7. QED
      BY <3>3, <3>4, <3>6, <2>1, <2>2 DEF Tells
  <2>4. CASE WriteFails /\ Finish("client_disconnect")
    <3>1. pump'.at = "wait" /\ pump'.event = pump.event /\ UNCHANGED out
      BY <2>4, PumpMoves DEF WriteFails
    <3>2. QED
      BY <3>1, <2>1, <1>3, TellsStill DEF Writing
  <2>5. QED
    BY <1>13, <2>3, <2>4 DEF WriteLine
<1>14. CASE Flushed
  <2>1. pump.at = "write" /\ pump.event = <<>> /\ UNCHANGED <<told, feed, out>>
    BY <1>14 DEF Flushed
  <2>2. CASE Finish("")
    <3>1. pump'.at = "wait" /\ pump'.event = pump.event
      BY <2>2, PumpMoves
    <3>2. QED
      BY <3>1, <2>1, <1>3, TellsStill DEF Writing
  <2>3. CASE pump' = [pump EXCEPT !.at = "select"]
    <3>1. pump'.at = "select"
      BY <2>3, <1>4
    <3>2. Forwarded + Len(pump.event) = Forwarded
      BY <2>1, <1>2
    <3>3. told = CountOf({"data"}, feed, Forwarded)
      BY <3>2, <2>1 DEF Tells, Writing
    <3>4. QED
      BY <3>1, <3>3, <2>1, <1>3 DEF Tells, Writing
  <2>4. QED
    BY <1>14, <2>2, <2>3 DEF Flushed
<1>15. QED
  BY <1>5, <1>6, <1>7, <1>8, <1>9, <1>10, <1>11, <1>12, <1>13, <1>14
     DEF PumpNext, ReaderRuns, PingRuns, PumpRuns, HandlerGoesOn

LEMMA LockKept ==
  ASSUME PumpTypeOK, LockFits, PumpNext
  PROVE  LockFits'
<1>1. /\ pump \in [at: {"select", "lock", "write", "wait", "returned"}, class: Classes,
                   last: BOOLEAN, event: Seq(Lines)]
      /\ lock \in {"free", "pump", "ping"}
      /\ ping \in {"rest", "lock", "write", "stop", "over"}
  BY DEF PumpTypeOK
<1>2. CASE UNCHANGED <<lock, ping>> /\ pump'.at = pump.at
  BY <1>2 DEF LockFits
<1>3. CASE \/ UpstreamEnds \/ ClientStalls \/ ClientLeaves \/ Cancel \/ UNCHANGED pumpVars
  BY <1>2, <1>3 DEF UpstreamEnds, ClientStalls, ClientLeaves, Cancel, pumpVars
<1>4. CASE ReadLine \/ ReadEnds \/ ReadBreaks \/ SendLine \/ SendStops \/ TimerFires
  BY <1>2, <1>4 DEF ReadLine, ReadEnds, ReadBreaks, SendLine, SendStops, TimerFires
<1>5. CASE PingTick \/ PingLocks \/ PingStops \/ PingWrites
  <2>1. pump' = pump
    BY <1>5 DEF PingTick, PingLocks, PingStops, PingWrites
  <2>2. CASE PingTick
    BY <2>1, <2>2 DEF LockFits, PingTick
  <2>3. CASE PingLocks
    BY <2>1, <2>3 DEF LockFits, PingLocks
  <2>4. CASE PingStops
    BY <2>1, <2>4 DEF LockFits, PingStops
  <2>5. CASE PingWrites
    BY <2>1, <2>5 DEF LockFits, PingWrites
  <2>6. QED
    BY <1>5, <2>2, <2>3, <2>4, <2>5
<1>6. CASE ContextDone \/ TakeLine \/ LinesOver \/ GiveUp \/ SeeStopped
  <2>1. pump.at = "select" /\ UNCHANGED <<lock, ping>>
    BY <1>6 DEF ContextDone, TakeLine, LinesOver, GiveUp, SeeStopped, Selects
  <2>2. \/ \E c : Finish(c)
        \/ \E e, l : Flush(e, l)
        \/ \E e : pump' = [pump EXCEPT !.event = e]
    BY <1>6 DEF ContextDone, TakeLine, LinesOver, GiveUp, SeeStopped
  <2>3. pump'.at # "write"
    BY <2>1, <2>2, <1>1, PumpMoves
  <2>4. QED
    BY <2>1, <2>3 DEF LockFits
<1>7. CASE Lock
  BY <1>7, <1>1 DEF Lock, LockFits
<1>8. CASE WriteLine
  <2>1. pump.at = "write" /\ ping' = ping
    BY <1>8 DEF WriteLine
  <2>2. CASE lock' = lock /\ pump' = [pump EXCEPT !.event = Tail(pump.event)]
    <3>1. pump'.at = pump.at
      BY <2>2, <1>1
    <3>2. QED
      BY <2>1, <2>2, <3>1, <1>2
  <2>3. CASE lock' = "free" /\ Finish("client_disconnect")
    <3>1. pump'.at = "wait"
      BY <2>3, PumpMoves
    <3>2. QED
      BY <3>1, <2>1, <2>3 DEF LockFits
  <2>4. QED
    BY <1>8, <2>2, <2>3 DEF WriteLine
<1>9. CASE Flushed
  <2>1. pump.at = "write" /\ ping' = ping /\ lock' = "free"
    BY <1>9 DEF Flushed
  <2>2. Finish("") \/ pump' = [pump EXCEPT !.at = "select"]
    BY <1>9 DEF Flushed
  <2>3. pump'.at # "write"
    BY <2>2, <1>1, PumpMoves
  <2>4. QED
    BY <2>1, <2>3 DEF LockFits
<1>10. CASE Return
  BY <1>10, <1>1 DEF Return, LockFits
<1>11. QED
  BY <1>3, <1>4, <1>5, <1>6, <1>7, <1>8, <1>9, <1>10
     DEF PumpNext, ReaderRuns, PingRuns, PumpRuns, HandlerGoesOn

LEMMA EndsKept ==
  ASSUME PumpTypeOK, EndsFit, PumpNext
  PROVE  EndsFit'
<1>1. /\ pump \in [at: {"select", "lock", "write", "wait", "returned"}, class: Classes,
                   last: BOOLEAN, event: Seq(Lines)]
      /\ pump.last \in BOOLEAN /\ stopped \in BOOLEAN /\ canceled \in BOOLEAN
      /\ reader \in Over \cup {"read", "send"}
      /\ upstream \in Endings \cup {"open"} /\ client \in {"reads", "stuck", "left", "dead"}
      /\ ping \in {"rest", "lock", "write", "stop", "over"}
      /\ timer \in {"off", "running", "fired"}
  BY DEF PumpTypeOK
<1> USE DEF Endings, Over, Gone, Working, Writing, Returned
<1>2. CASE UpstreamEnds
  <2>1. upstream' = "too long" => opts.limit
    BY <1>2 DEF UpstreamEnds
  <2>2. QED
    BY <1>2, <2>1, <1>1 DEF UpstreamEnds, EndsFit
<1>3. CASE ClientStalls \/ ClientLeaves \/ Cancel
  <2>1. CASE ClientStalls
    BY <2>1, <1>1 DEF ClientStalls, EndsFit
  <2>2. CASE ClientLeaves
    BY <2>2, <1>1 DEF ClientLeaves, EndsFit
  <2>3. CASE Cancel
    BY <2>3, <1>1 DEF Cancel, EndsFit
  <2>4. QED
    BY <1>3, <2>1, <2>2, <2>3
<1>4. CASE ReadLine
  BY <1>4, <1>1 DEF ReadLine, Reads, world, EndsFit
<1>5. CASE ReadEnds \/ ReadBreaks
  <2>1. CASE ReadEnds
    BY <2>1, <1>1 DEF ReadEnds, Reads, world, EndsFit
  <2>2. CASE ReadBreaks
    BY <2>2, <1>1 DEF ReadBreaks, Reads, world, EndsFit
  <2>3. QED
    BY <1>5, <2>1, <2>2
<1>6. CASE SendLine \/ SendStops
  <2>1. CASE SendLine
    BY <2>1, <1>1 DEF SendLine, world, EndsFit
  <2>2. CASE SendStops
    BY <2>2, <1>1 DEF SendStops, world, EndsFit
  <2>3. QED
    BY <1>6, <2>1, <2>2
<1>7. CASE PingTick \/ PingLocks \/ TimerFires
  <2>1. CASE PingTick
    BY <2>1, <1>1 DEF PingTick, world, EndsFit
  <2>2. CASE PingLocks
    BY <2>2, <1>1 DEF PingLocks, world, EndsFit
  <2>3. CASE TimerFires
    BY <2>3, <1>1 DEF TimerFires, world, EndsFit
  <2>4. QED
    BY <1>7, <2>1, <2>2, <2>3
<1>8. CASE PingWrites
  <2>1. /\ UNCHANGED <<stopped, reader, queue, timer, pump, opts, upstream>>
        /\ \/ UNCHANGED <<client, canceled>> /\ ping' = "rest"
           \/ client' = "dead" /\ canceled' = TRUE /\ ping' = "stop"
        /\ ping = "write"
    BY <1>8 DEF PingWrites, Wrote, WriteFails, world
  <2>2. CASE UNCHANGED <<client, canceled>> /\ ping' = "rest"
    BY <2>1, <2>2, <1>1 DEF EndsFit
  <2>3. CASE client' = "dead" /\ canceled' = TRUE /\ ping' = "stop"
    BY <2>1, <2>3, <1>1 DEF EndsFit
  <2>4. QED
    BY <2>1, <2>2, <2>3
<1>9. CASE PingStops
  BY <1>9, <1>1 DEF PingStops, world, EndsFit
<1>10. CASE ContextDone \/ GiveUp \/ SeeStopped
  <2>1. /\ UNCHANGED <<opts, upstream, client, canceled, reader, queue, ping, timer>>
        /\ \E c \in Classes \ {"none"} : Finish(c)
    BY <1>10 DEF ContextDone, GiveUp, SeeStopped, world, Classes
  <2>2. pump'.at = "wait" /\ pump'.class # "none" /\ stopped'
    BY <2>1, PumpMoves
  <2>3. QED
    BY <2>1, <2>2, <1>1 DEF EndsFit
<1>11. CASE TakeLine
  <2>1. /\ UNCHANGED <<opts, upstream, client, canceled, reader, ping, stopped>>
        /\ timer' = (IF opts.idle THEN "running" ELSE "off") /\ pump.at = "select"
    BY <1>11 DEF TakeLine, world, Selects
  <2>2. \/ \E e : Flush(e, FALSE)
        \/ \E e : pump' = [pump EXCEPT !.event = e]
    BY <1>11 DEF TakeLine
  <2>3. CASE \E e : Flush(e, FALSE)
    <3>1. pump'.class = pump.class /\ pump'.at = "lock" /\ ~pump'.last
      BY <2>3, <1>1 DEF Flush
    <3>2. QED
      BY <2>1, <3>1, <1>1 DEF EndsFit
  <2>4. CASE \E e : pump' = [pump EXCEPT !.event = e]
    <3>1. pump'.class = pump.class /\ pump'.at = "select"
      BY <2>1, <2>4, <1>1
    <3>2. QED
      BY <2>1, <3>1, <1>1 DEF EndsFit
  <2>5. QED
    BY <2>2, <2>3, <2>4
<1>12. CASE LinesOver
  <2>1. /\ UNCHANGED <<opts, upstream, client, canceled, reader, ping, queue, timer>>
        /\ pump.at = "select" /\ queue = <<>>
    BY <1>12 DEF LinesOver, world, Selects
  <2>2. CASE Flush(pump.event, TRUE) /\ UNCHANGED stopped /\ reader = "eof"
    <3>1. pump'.class = pump.class /\ pump'.at = "lock" /\ pump'.last
      BY <2>2, PumpMoves
    <3>2. QED
      BY <2>1, <2>2, <3>1, <1>1 DEF EndsFit
  <2>3. CASE Finish(IF reader = "eof" THEN "" ELSE ErrorClass)
    <3>1. (IF reader = "eof" THEN "" ELSE ErrorClass) # "none"
      BY DEF ErrorClass, ErrorClassOfReader
    <3>2. pump'.class # "none" /\ pump'.at = "wait" /\ stopped'
      <4>1. PICK c : c # "none" /\ Finish(c)
        BY <2>3, <3>1
      <4>2. QED
        BY <4>1, PumpMoves
    <3>3. QED
      BY <2>1, <3>2, <1>1 DEF EndsFit
  <2>4. QED
    BY <1>12, <2>2, <2>3 DEF LinesOver
<1>13. CASE Lock
  <2>1. /\ pump'.at = "write" /\ pump.at = "lock" /\ pump'.class = pump.class
        /\ pump'.last = pump.last
    BY <1>13, <1>1 DEF Lock
  <2>2. QED
    BY <1>13, <2>1, <1>1 DEF Lock, world, EndsFit
<1>14. CASE WriteLine
  <2>1. pump.at = "write" /\ UNCHANGED <<opts, upstream, reader, queue, ping, timer>>
    BY <1>14 DEF WriteLine, Wrote, WriteFails, world
  <2>2. CASE /\ UNCHANGED <<client, canceled, stopped>>
             /\ pump' = [pump EXCEPT !.event = Tail(pump.event)]
    <3>1. pump'.at = pump.at /\ pump'.class = pump.class /\ pump'.last = pump.last
      BY <2>2, <1>1
    <3>2. QED
      BY <2>1, <2>2, <3>1, <1>1 DEF EndsFit
  <2>3. CASE client' = "dead" /\ canceled' = TRUE /\ Finish("client_disconnect")
    <3>1. pump'.class = "client_disconnect" /\ pump'.at = "wait" /\ stopped'
      BY <2>3, PumpMoves
    <3>2. QED
      BY <2>1, <2>3, <3>1, <1>1 DEF EndsFit
  <2>4. QED
    BY <1>14, <2>2, <2>3 DEF WriteLine, Wrote, WriteFails, world
<1>15. CASE Flushed
  <2>1. /\ UNCHANGED <<opts, upstream, client, canceled, reader, queue, ping, timer>>
        /\ pump.at = "write"
    BY <1>15 DEF Flushed, world
  <2>2. CASE Finish("")
    <3>1. pump'.class = "" /\ pump'.at = "wait" /\ stopped'
      BY <2>2, PumpMoves
    <3>2. QED
      BY <2>1, <3>1, <1>1 DEF EndsFit
  <2>3. CASE pump' = [pump EXCEPT !.at = "select"] /\ UNCHANGED stopped
    <3>1. pump'.class = pump.class /\ pump'.at = "select"
      BY <2>3, <1>1
    <3>2. QED
      BY <2>1, <2>3, <3>1, <1>1 DEF EndsFit
  <2>4. QED
    BY <1>15, <2>2, <2>3 DEF Flushed
<1>16. CASE Return
  <2>1. /\ pump'.at = "returned" /\ pump.at = "wait" /\ pump'.class = pump.class
    BY <1>16, <1>1 DEF Return
  <2>2. QED
    BY <1>16, <2>1, <1>1 DEF Return, world, EndsFit
<1>17. CASE UNCHANGED pumpVars
  BY <1>17 DEF pumpVars, EndsFit
<1>18. QED
  BY <1>2, <1>3, <1>4, <1>5, <1>6, <1>7, <1>8, <1>9, <1>10, <1>11, <1>12, <1>13, <1>14,
     <1>15, <1>16, <1>17 DEF PumpNext, ReaderRuns, PingRuns, PumpRuns, HandlerGoesOn

LEMMA EventsKept ==
  ASSUME PumpTypeOK, EventsClose, LockFits, WholeEvents, EndsFit, PumpNext
  PROVE  EventsClose' /\ WholeEvents'
<1>1. /\ pump \in [at: {"select", "lock", "write", "wait", "returned"}, class: Classes,
                   last: BOOLEAN, event: Seq(Lines)]
      /\ pump.event \in Seq(Lines) /\ pump.last \in BOOLEAN /\ queue \in Seq(Lines)
      /\ out \in Seq(Lines \cup {"ping"}) /\ Len(out) \in Nat /\ Len(pump.event) \in Nat
  BY DEF PumpTypeOK
<1> USE DEF Writing, Working
<1>2. UNCHANGED out => WholeEvents'
  BY DEF WholeEvents
<1>3. CASE UNCHANGED <<out, pump>>
  BY <1>2, <1>3 DEF EventsClose
<1>4. CASE UNCHANGED out /\ pump'.at \in {"wait", "returned"}
  BY <1>2, <1>4 DEF EventsClose
<1>5. CASE PingWrites /\ Wrote("ping")
  <2>1. /\ pump' = pump /\ pump.at # "write"
    BY <1>5 DEF PingWrites, LockFits
  <2>2. /\ Len(out') = Len(out) + 1 /\ out'[Len(out) + 1] = "ping"
        /\ \A i \in 1..Len(out) : out'[i] = out[i]
    BY <1>5, WriteCounts DEF Wrote
  <2>3. out' # <<>> /\ out'[Len(out')] = "ping"
    BY <2>2, <1>1
  <2>4. Working => \A i \in 2..Len(out') : ~(out'[i] = "ping" /\ out'[i - 1] = "data")
    <3>1. SUFFICES ASSUME Working, NEW i \in 2..Len(out')
                   PROVE  ~(out'[i] = "ping" /\ out'[i - 1] = "data")
      OBVIOUS
    <3>2. CASE i = Len(out) + 1
      <4>1. Len(out) >= 1 /\ i - 1 = Len(out) /\ i - 1 \in 1..Len(out)
        BY <3>2, <2>2, <1>1
      <4>2. out # <<>> /\ pump.at \in {"select", "lock"}
        BY <3>1, <2>1, <4>1
      <4>3. out[Len(out)] # "data"
        BY <4>2 DEF EventsClose
      <4>4. QED
        BY <4>1, <4>3, <2>2
    <3>3. CASE i # Len(out) + 1
      <4>1. i \in 2..Len(out) /\ i \in 1..Len(out) /\ i - 1 \in 1..Len(out)
        BY <3>3, <2>2, <1>1
      <4>2. QED
        BY <4>1, <3>1, <2>2 DEF EventsClose
    <3>4. QED
      BY <3>2, <3>3
  <2>5. EventsClose'
    BY <2>1, <2>3, <2>4 DEF EventsClose
  <2>6. WholeEvents'
    <3>1. SUFFICES ASSUME NEW i \in 2..Len(out'), out'[i] = "ping", out'[i - 1] = "data",
                          NEW j \in i..Len(out')
                   PROVE  out'[j] = "ping"
      BY DEF WholeEvents
    <3>2. CASE j = Len(out) + 1
      BY <3>2, <2>2
    <3>3. CASE j # Len(out) + 1
      <4>1. /\ i \in 2..Len(out) /\ j \in i..Len(out) /\ i \in 1..Len(out)
            /\ i - 1 \in 1..Len(out) /\ j \in 1..Len(out)
        <5>1. PICK k, m : k = Len(out) /\ m = Len(out')
          OBVIOUS
        <5>2. k \in Nat /\ m = k + 1 /\ i \in 2..m /\ j \in i..m /\ j # k + 1
          BY <5>1, <3>1, <3>3, <2>2, <1>1
        <5>3. i \in Nat /\ j \in Nat /\ i >= 2 /\ j >= i /\ j <= k
          BY <5>2
        <5>4. QED
          BY <5>1, <5>2, <5>3
      <4>2. out[i] = "ping" /\ out[i - 1] = "data" /\ out'[j] = out[j]
        BY <4>1, <3>1, <2>2
      <4>3. QED
        BY <4>1, <4>2 DEF WholeEvents
    <3>4. QED
      BY <3>2, <3>3
  <2>7. QED
    BY <2>5, <2>6
<1>6. CASE TakeLine
  <2> DEFINE event == Append(pump.event, Head(queue))
  <2>1. Selects /\ queue # <<>> /\ Head(queue) \in Lines /\ UNCHANGED out
    BY <1>6, <1>1 DEF TakeLine
  <2>2. event # <<>> /\ event[Len(event)] = Head(queue)
    <3>1. event \in Seq(Lines) /\ Len(event) = Len(pump.event) + 1
          /\ event[Len(pump.event) + 1] = Head(queue)
      BY <2>1, <1>1
    <3> HIDE DEF event
    <3>2. event # <<>>
      BY <3>1, <1>1
    <3>3. QED
      BY <3>1, <3>2
  <2> HIDE DEF event
  <2>3. CASE Head(queue) = "blank" /\ Flush(event, FALSE)
    <3>1. pump'.at = "lock" /\ pump'.event = event /\ pump.at = "select"
      BY <2>1, <2>3, PumpMoves DEF Selects
    <3>2. QED
      BY <2>1, <2>2, <2>3, <3>1, <1>2 DEF EventsClose
  <2>4. CASE pump' = [pump EXCEPT !.event = event]
    <3>1. pump'.at = "select" /\ pump.at = "select"
      BY <2>1, <2>4, <1>1 DEF Selects
    <3>2. QED
      BY <2>1, <3>1, <1>2 DEF EventsClose
  <2>5. QED
    BY <1>6, <2>3, <2>4 DEF TakeLine, event
<1>7. CASE LinesOver
  <2>1. Selects /\ UNCHANGED out
    BY <1>7 DEF LinesOver
  <2>2. CASE Flush(pump.event, TRUE) /\ pump.event # <<>>
    <3>1. /\ pump'.at = "lock" /\ pump'.event = pump.event /\ pump.at = "select"
          /\ pump'.last = TRUE
      BY <2>1, <2>2, PumpMoves DEF Selects
    <3>2. QED
      BY <2>1, <2>2, <3>1, <1>2 DEF EventsClose
  <2>3. CASE \E c : Finish(c)
    BY <2>1, <2>3, <1>4, PumpMoves
  <2>4. QED
    BY <1>7, <2>2, <2>3 DEF LinesOver
<1>8. CASE Lock
  <2>1. /\ pump.at = "lock" /\ pump'.at = "write" /\ pump'.event = pump.event
        /\ pump'.last = pump.last /\ UNCHANGED out
    BY <1>8, <1>1 DEF Lock
  <2>2. QED
    BY <2>1, <1>2 DEF EventsClose
<1>9. CASE WriteLine /\ Wrote(Head(pump.event)) /\ pump' = [pump EXCEPT !.event = Tail(pump.event)]
  <2>1. /\ pump.at = "write" /\ pump.event # <<>> /\ Len(pump.event) > 0
        /\ Head(pump.event) \in Lines /\ Head(pump.event) = pump.event[1]
    BY <1>9, <1>1 DEF WriteLine
  <2>2. /\ Len(out') = Len(out) + 1 /\ out'[Len(out) + 1] = Head(pump.event)
        /\ \A i \in 1..Len(out) : out'[i] = out[i]
    BY <1>9, <2>1, WriteCounts DEF Wrote
  <2>3. /\ pump'.at = "write" /\ pump'.event = Tail(pump.event) /\ pump'.last = pump.last
    BY <1>9, <2>1, <1>1
  <2>4. \A i \in 2..Len(out') : ~(out'[i] = "ping" /\ out'[i - 1] = "data")
    <3>1. SUFFICES ASSUME NEW i \in 2..Len(out')
                   PROVE  ~(out'[i] = "ping" /\ out'[i - 1] = "data")
      OBVIOUS
    <3>2. CASE i = Len(out) + 1
      BY <3>2, <2>1, <2>2 DEF Lines
    <3>3. CASE i # Len(out) + 1
      <4>1. i \in 2..Len(out) /\ i \in 1..Len(out) /\ i - 1 \in 1..Len(out)
        BY <3>3, <2>2, <1>1
      <4>2. QED
        BY <4>1, <2>1, <2>2 DEF EventsClose
    <3>4. QED
      BY <3>2, <3>3
  <2>5. WholeEvents'
    BY <2>4 DEF WholeEvents
  <2>6. ~pump.last => IF pump'.event # <<>> THEN pump'.event[Len(pump'.event)] = "blank"
                      ELSE out' # <<>> /\ out'[Len(out')] = "blank"
    <3>1. SUFFICES ASSUME ~pump.last
                   PROVE  IF pump'.event # <<>> THEN pump'.event[Len(pump'.event)] = "blank"
                          ELSE out' # <<>> /\ out'[Len(out')] = "blank"
      OBVIOUS
    <3>2. pump.event[Len(pump.event)] = "blank"
      BY <3>1, <2>1 DEF EventsClose
    <3>3. CASE pump'.event # <<>>
      BY <3>2, <3>3, <2>1, <2>3, <1>1
    <3>4. CASE pump'.event = <<>>
      <4>1. Len(pump.event) = 1
        <5>1. Tail(pump.event) = <<>> /\ Len(Tail(pump.event)) = Len(pump.event) - 1
          BY <3>4, <2>1, <2>3, <1>1
        <5>2. Len(pump.event) - 1 = 0
          BY <5>1
        <5>3. QED
          BY <5>2, <1>1
      <4>2. QED
        BY <4>1, <3>2, <3>4, <2>1, <2>2, <1>1
    <3>5. QED
      BY <3>3, <3>4
  <2>7. EventsClose'
    BY <2>3, <2>4, <2>6 DEF EventsClose
  <2>8. QED
    BY <2>5, <2>7
<1>10. CASE Flushed
  <2>1. pump.at = "write" /\ pump.event = <<>> /\ UNCHANGED out
    BY <1>10 DEF Flushed
  <2>2. CASE Finish("")
    BY <2>1, <2>2, <1>4, PumpMoves
  <2>3. CASE ~pump.last /\ pump' = [pump EXCEPT !.at = "select"]
    <3>1. pump'.at = "select"
      BY <2>3, <1>1
    <3>2. out # <<>> /\ out[Len(out)] = "blank"
      BY <2>1, <2>3 DEF EventsClose
    <3>3. QED
      BY <3>1, <3>2, <2>1, <1>2 DEF EventsClose
  <2>4. QED
    BY <1>10, <2>2, <2>3 DEF Flushed
<1>11. PumpNext => \/ UNCHANGED <<out, pump>>
                   \/ UNCHANGED out /\ pump'.at \in {"wait", "returned"}
                   \/ PingWrites /\ Wrote("ping")
                   \/ TakeLine \/ LinesOver \/ Lock
                   \/ /\ WriteLine /\ Wrote(Head(pump.event))
                      /\ pump' = [pump EXCEPT !.event = Tail(pump.event)]
                   \/ Flushed
  <2>1. CASE \/ UpstreamEnds \/ ClientStalls \/ ClientLeaves \/ Cancel \/ UNCHANGED pumpVars
             \/ ReadLine \/ ReadEnds \/ ReadBreaks \/ SendLine \/ SendStops
    <3>1. UNCHANGED <<out, pump>>
      BY <2>1 DEF UpstreamEnds, ClientStalls, ClientLeaves, Cancel, pumpVars, ReadLine, ReadEnds,
                  ReadBreaks, SendLine, SendStops
    <3>2. QED
      BY <3>1
  <2>2. CASE PingTick \/ TimerFires \/ PingLocks \/ PingStops
    <3>1. UNCHANGED <<out, pump>>
      BY <2>2 DEF PingTick, TimerFires, PingLocks, PingStops
    <3>2. QED
      BY <3>1
  <2>3. CASE PingWrites
    BY <2>3 DEF PingWrites, WriteFails
  <2>4. CASE ContextDone \/ GiveUp \/ SeeStopped
    <3>1. UNCHANGED out /\ \E c : Finish(c)
      BY <2>4 DEF ContextDone, GiveUp, SeeStopped
    <3>2. QED
      BY <3>1, PumpMoves
  <2>5. CASE WriteLine
    BY <2>5, PumpMoves DEF WriteLine, WriteFails
  <2>6. CASE Return
    <3>1. UNCHANGED out /\ pump'.at = "returned"
      BY <2>6, <1>1 DEF Return
    <3>2. QED
      BY <3>1
  <2>7. QED
    BY <2>1, <2>2, <2>3, <2>4, <2>5, <2>6
       DEF PumpNext, ReaderRuns, PingRuns, PumpRuns, HandlerGoesOn
<1>12. QED
  BY <1>3, <1>4, <1>5, <1>6, <1>7, <1>8, <1>9, <1>10, <1>11

\* Who has left is gone, what has ended has ended, and options are options.
LEMMA WorldGoesOn ==
  ASSUME PumpNext
  PROVE  /\ Gone => Gone'
         /\ upstream # "open" => upstream' = upstream
         /\ UNCHANGED opts
<1>1. CASE UpstreamEnds \/ ClientStalls \/ ClientLeaves \/ Cancel \/ UNCHANGED pumpVars
  BY <1>1 DEF UpstreamEnds, ClientStalls, ClientLeaves, Cancel, pumpVars, Gone
<1>2. CASE PingWrites \/ WriteLine
  BY <1>2 DEF PingWrites, WriteLine, Wrote, WriteFails, world, Gone
<1>3. CASE \/ ReadLine \/ ReadEnds \/ ReadBreaks \/ SendLine \/ SendStops \/ PingTick
           \/ TimerFires \/ PingLocks \/ PingStops
  BY <1>3 DEF ReadLine, ReadEnds, ReadBreaks, SendLine, SendStops, PingTick, TimerFires,
              PingLocks, PingStops, world, Gone
<1>4. CASE \/ ContextDone \/ TakeLine \/ LinesOver \/ GiveUp \/ SeeStopped \/ Lock
           \/ Flushed \/ Return
  BY <1>4 DEF ContextDone, TakeLine, LinesOver, GiveUp, SeeStopped, Lock, Flushed, Return,
              world, Gone
<1>5. QED
  BY <1>1, <1>2, <1>3, <1>4 DEF PumpNext, ReaderRuns, PingRuns, PumpRuns, HandlerGoesOn

LEMMA ClassKept ==
  ASSUME PumpTypeOK, Chain, Tells, EndsFit, ClassFits, PumpNext
  PROVE  ClassFits'
<1>1. /\ pump \in [at: {"select", "lock", "write", "wait", "returned"}, class: Classes,
                   last: BOOLEAN, event: Seq(Lines)]
      /\ queue \in Seq(Lines) /\ feed \in Seq(Lines)
      /\ reader \in Over \cup {"read", "send"}
      /\ upstream \in Endings \cup {"open"} /\ client \in {"reads", "stuck", "left", "dead"}
  BY DEF PumpTypeOK
<1>2. /\ Forwarded \in Nat /\ Len(pump.event) \in Nat /\ Len(queue) \in Nat
      /\ Len(feed) \in Nat /\ Len(out) \in Nat
  BY Counts
<1>3. UNCHANGED out => Forwarded' = Forwarded
  BY DEF Forwarded, Place
<1>4. /\ Gone => Gone'
      /\ upstream # "open" => upstream' = upstream
      /\ UNCHANGED opts
  BY WorldGoesOn
\* While the class stays, so does what it stands for.
<1>5. CASE /\ pump'.class = pump.class
           /\ pump.class = "" => UNCHANGED <<reader, feed, told>> /\ Forwarded' = Forwarded
  <2>1. pump'.class = "" => Gone' \/ (reader' = "eof" /\ Forwarded' = Len(feed')
                                        /\ told' = DataIn(feed'))
    BY <1>4, <1>5 DEF ClassFits, DataIn
  <2>2. BlameFits'
    BY <1>4, <1>5 DEF ClassFits, BlameFits
  <2>3. QED
    BY <2>1, <2>2 DEF ClassFits
<1>6. pump.class = "" => pump.at \in {"wait", "returned"}
  BY <1>1 DEF EndsFit, Working
<1>7. CASE \/ UpstreamEnds \/ ClientStalls \/ ClientLeaves \/ Cancel \/ UNCHANGED pumpVars
           \/ PingTick \/ TimerFires \/ PingLocks \/ PingStops
  <2>1. UNCHANGED <<reader, feed, told, pump, out>>
    BY <1>7 DEF UpstreamEnds, ClientStalls, ClientLeaves, Cancel, pumpVars, PingTick, TimerFires,
                PingLocks, PingStops
  <2>2. QED
    BY <2>1, <1>3, <1>5
<1>8. CASE ReadLine \/ ReadEnds \/ ReadBreaks \/ SendLine \/ SendStops
  <2>1. UNCHANGED <<pump, told, out, client>> /\ reader \in {"read", "send"}
    BY <1>8 DEF ReadLine, ReadEnds, ReadBreaks, SendLine, SendStops, Reads, world
  <2>2. pump'.class = "" => Gone'
    BY <2>1, <1>4 DEF ClassFits
  <2>3. BlameFits'
    BY <2>1, <1>4 DEF ClassFits, BlameFits
  <2>4. QED
    BY <2>2, <2>3 DEF ClassFits
<1>9. CASE PingWrites
  <2>1. Forwarded' = Forwarded
    <3>1. CASE Wrote("ping")
      BY <3>1, <1>2, WriteCounts DEF Wrote, Lines
    <3>2. CASE WriteFails
      BY <3>2, <1>3 DEF WriteFails
    <3>3. QED
      BY <1>9, <3>1, <3>2 DEF PingWrites
  <2>2. UNCHANGED <<reader, told, feed, pump>>
    BY <1>9 DEF PingWrites
  <2>3. QED
    BY <2>1, <2>2, <1>5
<1>10. CASE ContextDone
  <2>1. pump'.class = "client_disconnect"
    BY <1>10, PumpMoves DEF ContextDone
  <2>2. QED
    BY <2>1 DEF ClassFits, BlameFits
<1>11. CASE GiveUp
  <2>1. pump'.class = "stream_idle_timeout" /\ timer = "fired"
    BY <1>11, PumpMoves DEF GiveUp
  <2>2. opts.idle
    BY <2>1 DEF EndsFit
  <2>3. QED
    BY <2>1, <2>2, <1>4 DEF ClassFits, BlameFits
<1>12. CASE SeeStopped
  <2>1. pump'.class = "" /\ stopped /\ Selects
    BY <1>12, PumpMoves DEF SeeStopped
  <2>2. Gone'
    BY <2>1, <1>4 DEF EndsFit, Working, Selects
  <2>3. QED
    BY <2>1, <2>2 DEF ClassFits, BlameFits
<1>13. CASE TakeLine
  <2>1. Selects
    BY <1>13 DEF TakeLine
  <2>2. \/ \E e : Flush(e, FALSE)
        \/ \E e : pump' = [pump EXCEPT !.event = e]
    BY <1>13 DEF TakeLine
  <2>3. pump'.class = pump.class
    BY <2>2, <1>1 DEF Flush
  <2>4. pump.class # ""
    BY <2>1, <1>6 DEF Selects
  <2>5. QED
    BY <2>3, <2>4, <1>5
<1>14. CASE LinesOver
  <2>1. /\ Selects /\ queue = <<>> /\ reader \in Over
        /\ UNCHANGED <<opts, upstream, client, canceled, reader, feed, out>>
    BY <1>14 DEF LinesOver, world
  <2>2. Forwarded' = Forwarded
    BY <2>1, <1>3
  <2>3. CASE Flush(pump.event, TRUE)
    <3>1. pump'.class = pump.class
      BY <2>3, <1>1 DEF Flush
    <3>2. pump.class # ""
      BY <2>1, <1>6 DEF Selects
    <3>3. QED
      BY <3>1, <3>2, <1>5
  <2>4. CASE reader = "eof" /\ pump.event = <<>> /\ Finish("") /\ UNCHANGED told
    <3>1. pump'.class = ""
      BY <2>4, PumpMoves
    <3>2. Forwarded = Len(feed)
      <4>1. Len(pump.event) = 0 /\ Len(queue) = 0
        BY <2>1, <2>4
      <4>2. Forwarded + Len(pump.event) + Len(queue) = Len(feed)
        BY <2>4 DEF Chain, Endings
      <4>3. QED
        BY <4>1, <4>2, <1>2
    <3>3. told = DataIn(feed)
      BY <3>2, <2>1 DEF Tells, DataIn, Selects
    <3>4. told' = DataIn(feed')
      BY <3>3, <2>1, <2>4
    <3>5. QED
      BY <3>1, <3>2, <3>4, <2>1, <2>2, <2>4 DEF ClassFits, BlameFits
  <2>5. CASE reader # "eof" /\ Finish(ErrorClass)
    <3>1. pump'.class = ErrorClass
      BY <2>5, PumpMoves
    <3>2. stopped => canceled
      BY <2>1 DEF EndsFit, Working, Selects
    <3>3. ErrorClass # ""
      BY <3>2, <2>1, <2>5 DEF ErrorClass, ErrorClassOfReader, EndsFit, Over, Endings
    <3>4. ErrorClass = "stream_read_error" => upstream = "broken"
      BY <3>2, <2>1, <2>5 DEF ErrorClass, ErrorClassOfReader, EndsFit, Over, Endings
    <3>5. ErrorClass = "stream_event_too_large" => upstream = "too long" /\ opts.limit
      BY <2>1, <2>5 DEF ErrorClass, ErrorClassOfReader, EndsFit, Over, Endings
    <3>6. ErrorClass # "stream_idle_timeout"
      BY DEF ErrorClass, ErrorClassOfReader
    <3>7. QED
      BY <3>1, <3>3, <3>4, <3>5, <3>6, <2>1 DEF ClassFits, BlameFits
  <2>6. QED
    BY <1>14, <2>3, <2>4, <2>5 DEF LinesOver
<1>15. CASE Lock
  <2>1. pump'.class = pump.class /\ pump.class # ""
    BY <1>15, <1>1, <1>6 DEF Lock
  <2>2. QED
    BY <2>1, <1>5
<1>16. CASE WriteLine
  <2>1. pump.class # ""
    BY <1>16, <1>6 DEF WriteLine
  <2>2. CASE pump' = [pump EXCEPT !.event = Tail(pump.event)]
    <3>1. pump'.class = pump.class
      BY <2>2, <1>1
    <3>2. QED
      BY <3>1, <2>1, <1>5
  <2>3. CASE Finish("client_disconnect")
    <3>1. pump'.class = "client_disconnect"
      BY <2>3, PumpMoves
    <3>2. QED
      BY <3>1 DEF ClassFits, BlameFits
  <2>4. QED
    BY <1>16, <2>2, <2>3 DEF WriteLine
<1>17. CASE Flushed
  <2>1. /\ pump.at = "write" /\ pump.event = <<>>
        /\ UNCHANGED <<opts, upstream, client, reader, feed, out, told>>
    BY <1>17 DEF Flushed, world
  <2>2. CASE pump.last /\ Finish("")
    <3>1. pump'.class = "" /\ reader = "eof" /\ queue = <<>>
      BY <2>1, <2>2, PumpMoves DEF EndsFit, Writing
    <3>2. Len(pump.event) = 0 /\ Len(queue) = 0
      BY <3>1, <2>1
    <3>3. Forwarded + Len(pump.event) + Len(queue) = Len(feed)
      BY <3>1 DEF Chain, Endings
    <3>4. Forwarded = Len(feed) /\ Forwarded + Len(pump.event) = Len(feed)
      BY <3>2, <3>3, <1>2
    <3>5. told = DataIn(feed)
      BY <3>4, <2>1 DEF Tells, DataIn, Writing
    <3>6. told' = DataIn(feed') /\ Forwarded' = Len(feed')
      BY <3>4, <3>5, <2>1, <1>3
    <3>7. QED
      BY <3>1, <3>6, <2>1 DEF ClassFits, BlameFits
  <2>3. CASE pump' = [pump EXCEPT !.at = "select"]
    <3>1. pump'.class = pump.class /\ pump.class # ""
      BY <2>1, <2>3, <1>1, <1>6
    <3>2. QED
      BY <3>1, <1>5
  <2>4. QED
    BY <1>17, <2>2, <2>3 DEF Flushed
<1>18. CASE Return
  <2>1. pump'.class = pump.class /\ UNCHANGED <<reader, feed, told, out>>
    BY <1>18, <1>1 DEF Return
  <2>2. QED
    BY <2>1, <1>3, <1>5
<1>19. QED
  BY <1>7, <1>8, <1>9, <1>10, <1>11, <1>12, <1>13, <1>14, <1>15, <1>16, <1>17, <1>18
     DEF PumpNext, ReaderRuns, PingRuns, PumpRuns, HandlerGoesOn

LEMMA TypesKept ==
  ASSUME PumpTypeOK, Chain, PumpNext, Chain', Tells'
  PROVE  PumpTypeOK'
<1>1. /\ pump \in [at: {"select", "lock", "write", "wait", "returned"}, class: Classes,
                   last: BOOLEAN, event: Seq(Lines)]
      /\ pump.event \in Seq(Lines)
      /\ queue \in Seq(Lines) /\ Len(queue) <= Buffer
      /\ feed \in Seq(Lines) /\ Len(feed) <= MaxLines
      /\ out \in Seq(Lines \cup {"ping"})
  BY DEF PumpTypeOK
<1>2. /\ Forwarded \in Nat /\ Len(pump.event) \in Nat /\ Len(queue) \in Nat
      /\ Len(feed) \in Nat /\ Len(out) \in Nat
  BY Counts
<1>3. Buffer \in Nat /\ MaxLines \in Nat
  BY BufferAssumption
<1>4. /\ opts' \in [pings: BOOLEAN, idle: BOOLEAN, limit: BOOLEAN]
      /\ upstream' \in Endings \cup {"open"} /\ client' \in {"reads", "stuck", "left", "dead"}
      /\ canceled' \in BOOLEAN
  <2>1. CASE UpstreamEnds \/ ClientStalls \/ ClientLeaves \/ Cancel \/ UNCHANGED pumpVars
    BY <2>1 DEF UpstreamEnds, ClientStalls, ClientLeaves, Cancel, pumpVars, PumpTypeOK, Endings
  <2>2. CASE PingWrites \/ WriteLine
    BY <2>2 DEF PingWrites, WriteLine, Wrote, WriteFails, world, PumpTypeOK
  <2>3. CASE \/ ReadLine \/ ReadEnds \/ ReadBreaks \/ SendLine \/ SendStops \/ PingTick
             \/ TimerFires \/ PingLocks \/ PingStops
    BY <2>3 DEF ReadLine, ReadEnds, ReadBreaks, SendLine, SendStops, PingTick, TimerFires,
                PingLocks, PingStops, world, PumpTypeOK
  <2>4. CASE \/ ContextDone \/ TakeLine \/ LinesOver \/ GiveUp \/ SeeStopped \/ Lock
             \/ Flushed \/ Return
    BY <2>4 DEF ContextDone, TakeLine, LinesOver, GiveUp, SeeStopped, Lock, Flushed, Return,
                world, PumpTypeOK
  <2>5. QED
    BY <2>1, <2>2, <2>3, <2>4 DEF PumpNext, ReaderRuns, PingRuns, PumpRuns, HandlerGoesOn
<1>5. /\ reader' \in Over \cup {"read", "send"} /\ ticks' \in 0..MaxPings
      /\ ping' \in {"rest", "lock", "write", "stop", "over"}
      /\ timer' \in {"off", "running", "fired"}
  <2> USE DEF Over, Endings
  <2>1. CASE UpstreamEnds \/ ClientStalls \/ ClientLeaves \/ Cancel \/ UNCHANGED pumpVars
    BY <2>1 DEF UpstreamEnds, ClientStalls, ClientLeaves, Cancel, pumpVars, PumpTypeOK
  <2>2. CASE WriteLine
    BY <2>2 DEF WriteLine, PumpTypeOK
  <2>3. CASE ReadLine \/ ReadEnds \/ ReadBreaks \/ SendLine \/ SendStops
    BY <2>3 DEF ReadLine, ReadEnds, ReadBreaks, SendLine, SendStops, Reads, PumpTypeOK
  <2>4. CASE PingTick \/ TimerFires \/ PingLocks \/ PingStops \/ PingWrites
    <3>1. CASE PingTick
      <4>1. ticks \in 0..MaxPings /\ ticks < MaxPings /\ ticks' = ticks + 1 /\ MaxPings \in Nat
        BY <3>1, BufferAssumption DEF PingTick, PumpTypeOK
      <4>2. ticks' \in 0..MaxPings
        BY <4>1
      <4>3. QED
        BY <3>1, <4>2 DEF PingTick, PumpTypeOK
    <3>2. CASE TimerFires \/ PingLocks
      BY <3>2 DEF TimerFires, PingLocks, PumpTypeOK
    <3>3. CASE PingStops \/ PingWrites
      BY <3>3 DEF PingStops, PingWrites, PumpTypeOK
    <3>4. QED
      BY <2>4, <3>1, <3>2, <3>3
  <2>5. CASE \/ ContextDone \/ TakeLine \/ LinesOver \/ GiveUp \/ SeeStopped \/ Lock
             \/ Flushed \/ Return
    BY <2>5 DEF ContextDone, TakeLine, LinesOver, GiveUp, SeeStopped, Lock, Flushed, Return,
                PumpTypeOK
  <2>6. QED
    BY <2>1, <2>2, <2>3, <2>4, <2>5 DEF PumpNext, ReaderRuns, PingRuns, PumpRuns, HandlerGoesOn
<1>6. /\ stopped' \in BOOLEAN /\ lock' \in {"free", "pump", "ping"}
      /\ pump' \in [at: {"select", "lock", "write", "wait", "returned"}, class: Classes,
                    last: BOOLEAN, event: Seq(Lines)]
  <2>1. \A c \in Classes : Finish(c) => /\ stopped' \in BOOLEAN
          /\ pump' \in [at: {"select", "lock", "write", "wait", "returned"}, class: Classes,
                        last: BOOLEAN, event: Seq(Lines)]
    BY <1>1 DEF Finish
  <2>2. \A e \in Seq(Lines) : \A l \in BOOLEAN : Flush(e, l) =>
          pump' \in [at: {"select", "lock", "write", "wait", "returned"}, class: Classes,
                     last: BOOLEAN, event: Seq(Lines)]
    BY <1>1 DEF Flush
  <2>3. stopped \in BOOLEAN /\ lock \in {"free", "pump", "ping"}
    BY DEF PumpTypeOK
  <2>4. CASE UpstreamEnds \/ ClientStalls \/ ClientLeaves \/ Cancel \/ UNCHANGED pumpVars
    BY <2>3, <2>4, <1>1 DEF UpstreamEnds, ClientStalls, ClientLeaves, Cancel, pumpVars
  <2>5. CASE ReadLine \/ ReadEnds \/ ReadBreaks \/ SendLine \/ SendStops
    BY <2>3, <2>5, <1>1 DEF ReadLine, ReadEnds, ReadBreaks, SendLine, SendStops
  <2>6. CASE PingTick \/ TimerFires \/ PingLocks \/ PingStops \/ PingWrites
    BY <2>3, <2>6, <1>1 DEF PingTick, TimerFires, PingLocks, PingStops, PingWrites
  <2>7. CASE ContextDone \/ GiveUp \/ SeeStopped
    <3>1. lock' = lock /\ \E c \in Classes : Finish(c)
      BY <2>7 DEF ContextDone, GiveUp, SeeStopped, Classes
    <3>2. QED
      BY <3>1, <2>1, <2>3
  <2>8. CASE TakeLine
    <3>1. UNCHANGED <<lock, stopped>> /\ Append(pump.event, Head(queue)) \in Seq(Lines)
      BY <2>8, <1>1 DEF TakeLine
    <3>2. \/ Flush(Append(pump.event, Head(queue)), FALSE)
          \/ pump' = [pump EXCEPT !.event = Append(pump.event, Head(queue))]
      BY <2>8 DEF TakeLine
    <3>3. FALSE \in BOOLEAN
      OBVIOUS
    <3>4. CASE Flush(Append(pump.event, Head(queue)), FALSE)
      BY <3>1, <3>3, <3>4, <2>2, <2>3
    <3>5. CASE pump' = [pump EXCEPT !.event = Append(pump.event, Head(queue))]
      BY <3>1, <3>5, <2>3, <1>1
    <3>6. QED
      BY <3>2, <3>4, <3>5
  <2>9. CASE LinesOver
    <3>1. lock' = lock
      BY <2>9 DEF LinesOver
    <3>2. (IF reader = "eof" THEN "" ELSE ErrorClass) \in Classes
      BY DEF ErrorClass, ErrorClassOfReader, Classes
    <3>3. CASE Flush(pump.event, TRUE) /\ UNCHANGED stopped
      <4>1. TRUE \in BOOLEAN
        OBVIOUS
      <4>2. QED
        BY <3>1, <3>3, <4>1, <2>2, <2>3, <1>1
    <3>4. CASE Finish(IF reader = "eof" THEN "" ELSE ErrorClass)
      <4>1. PICK c \in Classes : Finish(c)
        BY <3>2, <3>4
      <4>2. QED
        BY <3>1, <4>1, <2>1, <2>3
    <3>5. QED
      BY <2>9, <3>3, <3>4 DEF LinesOver
  <2>10. CASE Lock \/ Return
    BY <2>10, <2>3, <1>1 DEF Lock, Return
  <2>11. CASE WriteLine
    <3>1. CASE UNCHANGED <<lock, stopped>> /\ pump' = [pump EXCEPT !.event = Tail(pump.event)]
      <4>1. Tail(pump.event) \in Seq(Lines)
        BY <2>11, <1>1 DEF WriteLine
      <4>2. QED
        BY <3>1, <4>1, <2>3, <1>1
    <3>2. CASE lock' = "free" /\ Finish("client_disconnect")
      <4>1. "client_disconnect" \in Classes
        BY DEF Classes
      <4>2. QED
        BY <3>2, <4>1, <2>1
    <3>3. QED
      BY <2>11, <3>1, <3>2 DEF WriteLine
  <2>12. CASE Flushed
    <3>1. "" \in Classes
      BY DEF Classes
    <3>2. CASE Finish("")
      BY <2>12, <3>1, <3>2, <2>1 DEF Flushed
    <3>3. CASE pump' = [pump EXCEPT !.at = "select"] /\ UNCHANGED stopped
      BY <2>12, <3>3, <2>3, <1>1 DEF Flushed
    <3>4. QED
      BY <2>12, <3>2, <3>3 DEF Flushed
  <2>13. QED
    BY <2>4, <2>5, <2>6, <2>7, <2>8, <2>9, <2>10, <2>11, <2>12
       DEF PumpNext, ReaderRuns, PingRuns, PumpRuns, HandlerGoesOn
<1>7. /\ queue' \in Seq(Lines) /\ Len(queue') <= Buffer
      /\ feed' \in Seq(Lines) /\ Len(feed') <= MaxLines
      /\ out' \in Seq(Lines \cup {"ping"})
  <2>1. CASE ReadLine
    <3>1. UNCHANGED <<queue, out>> /\ Len(feed) < MaxLines
      BY <2>1 DEF ReadLine
    <3>2. PICK l \in Lines : feed' = Append(feed, l)
      BY <2>1 DEF ReadLine
    <3>3. feed' \in Seq(Lines) /\ Len(feed') = Len(feed) + 1
      BY <3>2, <1>1
    <3>4. Len(feed') <= MaxLines
      BY <3>1, <3>3, <1>2, <1>3
    <3>5. QED
      BY <3>1, <3>3, <3>4, <1>1
  <2>2. CASE SendLine
    <3>1. UNCHANGED <<feed, out>> /\ Len(queue) < Buffer /\ queue' = Append(queue, feed[Len(feed)])
      BY <2>2 DEF SendLine
    <3>2. Forwarded + Len(pump.event) + Len(queue) + 1 = Len(feed)
      BY <2>2 DEF SendLine, Chain
    <3>3. feed[Len(feed)] \in Lines
      BY <3>2, <1>1, <1>2
    <3>4. queue' \in Seq(Lines) /\ Len(queue') = Len(queue) + 1
      BY <3>1, <3>3, <1>1
    <3>5. Len(queue') <= Buffer
      BY <3>1, <3>4, <1>2, <1>3
    <3>6. QED
      BY <3>1, <3>4, <3>5, <1>1
  <2>3. CASE TakeLine
    <3>1. UNCHANGED <<feed, out>> /\ queue # <<>> /\ queue' = Tail(queue)
      BY <2>3 DEF TakeLine
    <3>2. queue' \in Seq(Lines) /\ Len(queue') = Len(queue) - 1
      BY <3>1, <1>1
    <3>3. Len(queue') <= Buffer
      BY <3>2, <1>1, <1>2, <1>3
    <3>4. QED
      BY <3>1, <3>2, <3>3, <1>1
  <2>4. CASE PingWrites
    <3>1. UNCHANGED <<queue, feed>>
      BY <2>4 DEF PingWrites
    <3>2. CASE Wrote("ping")
      BY <3>1, <3>2, <1>1, WriteCounts DEF Wrote
    <3>3. CASE WriteFails
      BY <3>1, <3>3, <1>1 DEF WriteFails
    <3>4. QED
      BY <2>4, <3>2, <3>3 DEF PingWrites
  <2>5. CASE WriteLine
    <3>1. UNCHANGED <<queue, feed>> /\ Head(pump.event) \in Lines
      BY <2>5, <1>1 DEF WriteLine
    <3>2. CASE Wrote(Head(pump.event))
      BY <3>1, <3>2, <1>1, WriteCounts DEF Wrote
    <3>3. CASE WriteFails
      BY <3>1, <3>3, <1>1 DEF WriteFails
    <3>4. QED
      BY <2>5, <3>2, <3>3 DEF WriteLine
  <2>6. CASE ReadEnds
    BY <2>6, <1>1 DEF ReadEnds
  <2>7. CASE Still
    BY <2>7, <1>1 DEF Still
  <2>8. QED
    BY <2>1, <2>2, <2>3, <2>4, <2>5, <2>6, <2>7, StillSteps
       DEF PumpNext, ReaderRuns, PingRuns, PumpRuns, HandlerGoesOn
<1>8. told' \in 0..MaxLines
  <2>1. Forwarded' \in Nat /\ Len(pump'.event) \in Nat /\ Len(feed') \in Nat /\ Len(queue') \in Nat
    <3>1. pump'.event \in Seq(Lines)
      BY <1>6
    <3>2. CountOf(Lines, out', Len(out')) \in Nat
      BY <1>7, CountStep
    <3>3. QED
      BY <3>1, <3>2, <1>7 DEF Forwarded, Place
  <2>2. PICK k \in Nat : k <= Len(feed') /\ told' = CountOf({"data"}, feed', k)
    <3>1. Forwarded' <= Len(feed') /\ Forwarded' + Len(pump'.event) <= Len(feed')
      BY <2>1 DEF Chain
    <3>2. Forwarded' + Len(pump'.event) \in Nat
      BY <2>1
    <3>3. QED
      BY <2>1, <3>1, <3>2 DEF Tells
  <2>3. told' \in 0..k
    BY <2>2, CountBounded
  <2>4. QED
    BY <2>1, <2>2, <2>3, <1>3, <1>7
<1>9. QED
  BY <1>4, <1>5, <1>6, <1>7, <1>8 DEF PumpTypeOK

LEMMA PumpBegins == PumpInit => PumpInv
<1> SUFFICES ASSUME PumpInit PROVE PumpInv
  OBVIOUS
<1>1. /\ out = <<>> /\ feed = <<>> /\ queue = <<>> /\ told = 0 /\ reader = "read"
      /\ pump = [at |-> "select", class |-> "none", last |-> FALSE, event |-> <<>>]
  BY DEF PumpInit
<1>2. /\ Len(out) = 0 /\ Len(feed) = 0 /\ Len(queue) = 0 /\ Len(pump.event) = 0
      /\ pump.at = "select" /\ pump.class = "none" /\ pump.last = FALSE /\ pump.event = <<>>
  BY <1>1
<1>3. Forwarded = 0
  BY <1>2, CountZero DEF Forwarded, Place
<1>4. PumpTypeOK
  <2>1. /\ pump \in [at: {"select", "lock", "write", "wait", "returned"}, class: Classes,
                     last: BOOLEAN, event: Seq(Lines)]
    BY <1>1 DEF Classes
  <2>2. 0 \in 0..MaxLines /\ 0 \in 0..MaxPings /\ 0 <= Buffer
    BY BufferAssumption
  <2>3. /\ opts \in [pings: BOOLEAN, idle: BOOLEAN, limit: BOOLEAN]
        /\ upstream \in Endings \cup {"open"} /\ client \in {"reads", "stuck", "left", "dead"}
        /\ canceled \in BOOLEAN /\ stopped \in BOOLEAN
        /\ reader \in Over \cup {"read", "send"}
        /\ ping \in {"rest", "lock", "write", "stop", "over"}
        /\ lock \in {"free", "pump", "ping"} /\ timer \in {"off", "running", "fired"}
    BY DEF PumpInit
  <2>4. queue \in Seq(Lines) /\ feed \in Seq(Lines) /\ out \in Seq(Lines \cup {"ping"})
    BY DEF PumpInit
  <2>5. ticks \in 0..MaxPings /\ told \in 0..MaxLines /\ Len(queue) <= Buffer
        /\ Len(feed) <= MaxLines
    BY <1>2, <2>2, BufferAssumption DEF PumpInit
  <2>6. QED
    BY <2>1, <2>3, <2>4, <2>5 DEF PumpTypeOK
<1>5. WholeEvents /\ Chain /\ InOrder /\ EventsClose
  BY <1>1, <1>2, <1>3 DEF WholeEvents, Chain, InOrder, EventsClose, Writing, Working
<1>6. Tells
  BY <1>1, <1>2, <1>3, CountZero DEF Tells, Writing
<1>7. LockFits /\ EndsFit /\ ClassFits
  BY <1>1, <1>2 DEF PumpInit, LockFits, EndsFit, ClassFits, BlameFits, Endings, Working, Writing,
                    Returned
<1>8. QED
  BY <1>4, <1>5, <1>6, <1>7 DEF PumpInv

LEMMA PumpGoesOn == PumpInv /\ [PumpNext]_pumpVars => PumpInv'
<1>1. SUFFICES ASSUME PumpInv, PumpNext PROVE PumpInv'
  <2>1. SUFFICES ASSUME PumpInv, UNCHANGED pumpVars PROVE PumpInv'
    OBVIOUS
  <2> USE <2>1 DEF pumpVars, PumpInv
  <2>2. PumpTypeOK' /\ WholeEvents'
    BY DEF PumpTypeOK, WholeEvents
  <2>3. Forwarded' = Forwarded /\ InOrder'
    BY DEF Forwarded, Place, InOrder
  <2>4. Chain' /\ Tells'
    BY <2>3 DEF Chain, Tells, Writing
  <2>5. EventsClose' /\ LockFits' /\ EndsFit'
    <3>1. EventsClose'
      BY DEF EventsClose, Writing, Working
    <3>2. LockFits'
      BY DEF LockFits
    <3>3. EndsFit'
      BY DEF EndsFit, Writing, Working, Returned, Gone
    <3>4. QED
      BY <3>1, <3>2, <3>3
  <2>6. ClassFits'
    BY <2>3 DEF ClassFits, BlameFits, DataIn, Gone
  <2>7. QED
    BY <2>2, <2>3, <2>4, <2>5, <2>6
<1>2. Chain' /\ InOrder'
  BY <1>1, ChainKept, InOrderKept DEF PumpInv
<1>3. Tells'
  BY <1>1, <1>2, TellsKept DEF PumpInv
<1>4. PumpTypeOK'
  BY <1>1, <1>2, <1>3, TypesKept DEF PumpInv
<1>5. EventsClose' /\ WholeEvents' /\ LockFits' /\ EndsFit' /\ ClassFits'
  BY <1>1, EventsKept, LockKept, EndsKept, ClassKept DEF PumpInv
<1>6. QED
  BY <1>2, <1>3, <1>4, <1>5 DEF PumpInv

\* What the pump knows of its lines when it returns is what a client may rely on.
LEMMA PumpPromises == PumpInv => StreamInv /\ BlameFits
<1> SUFFICES ASSUME PumpInv PROVE StreamInv /\ BlameFits
  OBVIOUS
<1>1. CleanIsWhole
  <2>1. ASSUME Returned, pump.class = "", ~Gone
        PROVE  upstream = "eof" /\ Forwarded = Len(feed) /\ told = DataIn(feed)
    BY <2>1 DEF PumpInv, ClassFits, EndsFit, Endings
  <2>2. QED
    BY <2>1 DEF PumpInv, InOrder, CleanIsWhole
<1>2. NobodyLeft
  BY DEF PumpInv, PumpTypeOK, EndsFit, LockFits, NobodyLeft, Returned, Working
<1>3. QED
  BY <1>1, <1>2 DEF PumpInv, ClassFits, StreamInv

\* The inductive invariant of a stream on its way (PumpSSE).
THEOREM StreamInductive == StreamSpec => []PumpInv
BY PumpBegins, PumpGoesOn, PTL DEF StreamSpec

\* A client gets the stream in one piece, in order and with whole events, and once
\* the pump has returned nobody writes or reads: for any capacity, any stream and any
\* number of pings, whoever stops first (PumpSSE).
THEOREM StreamsArriveWhole == StreamSpec => []StreamInv
BY StreamInductive, PumpPromises, PTL

\* What is held against a channel was the upstream's doing (proxyOnce).
THEOREM BlameIsEarned == StreamSpec => []BlameFits
BY StreamInductive, PumpPromises, PTL

-----------------------------------------------------------------------------
(* The body a channel is sent.                                             *)

ShapeSpec == ShapeInit /\ [][ShapeNext]_shapeVars

-----------------------------------------------------------------------------
(* Edits of a body.                                                        *)

LEMMA AbsentIs == Absent \in Values /\ \A n \in Nat : Text(n) \in Values /\ Num(n) \in Values
BY DEF Absent, Text, Num, Values

LEMMA LimitsAreFields ==
  Limits \subseteq Fields /\ "max_tokens" \in Limits /\ "max_completion_tokens" \in Limits
BY DEF Limits, Fields

LEMMA PutIs ==
  ASSUME NEW b \in BodyRows, NEW f \in Fields, NEW x \in Values
  PROVE  /\ Put(b, f, x) \in BodyRows
         /\ Put(b, f, x).ok = b.ok /\ Put(b, f, x).prompts = b.prompts /\ Put(b, f, x).model = b.model
         /\ \A g \in Fields : Put(b, f, x).fields[g] = IF g = f THEN x ELSE b.fields[g]
BY DEF Put, BodyRows

LEMMA WithoutIs ==
  ASSUME NEW b \in BodyRows, NEW fs
  PROVE  /\ Without(b, fs) \in BodyRows
         /\ Without(b, fs).ok = b.ok /\ Without(b, fs).prompts = b.prompts /\ Without(b, fs).model = b.model
         /\ \A g \in Fields : Without(b, fs).fields[g] = IF g \in fs THEN Absent ELSE b.fields[g]
<1> DEFINE m == [f \in Fields |-> IF f \in fs THEN Absent ELSE b.fields[f]]
<1>1. m \in [Fields -> Values]
  BY AbsentIs DEF BodyRows
<1>2. Without(b, fs) = [b EXCEPT !.fields = m]
  BY DEF Without
<1>3. \A g \in Fields : m[g] = IF g \in fs THEN Absent ELSE b.fields[g]
  OBVIOUS
<1> HIDE DEF m
<1>4. QED
  BY <1>1, <1>2, <1>3 DEF BodyRows

LEMMA OnlyIs ==
  ASSUME NEW b \in BodyRows, NEW fs
  PROVE  /\ Only(b, fs) \in BodyRows
         /\ Only(b, fs).ok = b.ok /\ Only(b, fs).prompts = b.prompts /\ Only(b, fs).model = b.model
         /\ \A g \in Fields : Only(b, fs).fields[g] = IF g \in fs THEN b.fields[g] ELSE Absent
BY WithoutIs DEF Only

LEMMA FailsIs ==
  ASSUME NEW b \in BodyRows
  PROVE  /\ Fails(b) \in BodyRows /\ ~Fails(b).ok
         /\ Fails(b).prompts = b.prompts /\ Fails(b).fields = b.fields
BY DEF Fails, BodyRows

LEMMA MovedIs ==
  ASSUME NEW b \in BodyRows, NEW from \in Fields, NEW to \in Fields
  PROVE  /\ Moved(b, from, to) \in BodyRows
         /\ Moved(b, from, to).ok = b.ok /\ Moved(b, from, to).prompts = b.prompts
         /\ Moved(b, from, to).model = b.model
         /\ \A g \in Fields \ {to} : Moved(b, from, to).fields[g] \in {b.fields[g], Absent}
<1>1. b.fields[from] \in Values
  BY DEF BodyRows
<1>2. QED
  BY <1>1, PutIs, WithoutIs DEF Moved

\* A limit that is there takes the name it has in the order, and is alone.
LEMMA FirstLimitIs ==
  ASSUME NEW b \in BodyRows, NEW order, DOMAIN order \subseteq Nat,
         \A i \in DOMAIN order : order[i].from \in Limits /\ order[i].to \in Limits
  PROVE  /\ FirstLimit(b, order) \in BodyRows
         /\ FirstLimit(b, order).ok = b.ok /\ FirstLimit(b, order).prompts = b.prompts
         /\ \/ FirstLimit(b, order) = b /\ \A i \in DOMAIN order : ~Has(b, order[i].from)
            \/ \E i \in DOMAIN order :
                /\ Has(b, order[i].from)
                /\ \A g \in Fields : FirstLimit(b, order).fields[g] =
                    IF g = order[i].to THEN b.fields[order[i].from]
                    ELSE IF g \in Limits THEN Absent ELSE b.fields[g]
<1> DEFINE is == {i \in DOMAIN order : Has(b, order[i].from)}
           n == CHOOSE i \in is : \A j \in is : i <= j
<1>1. CASE is = {}
  BY <1>1 DEF FirstLimit
<1>2. CASE is # {}
  <2>1. is \subseteq Nat
    OBVIOUS
  <2>2. n \in is
    <3> HIDE DEF is
    <3>1. \E i \in is : \A j \in is : i <= j
      BY <1>2, <2>1, LeastElement
    <3>2. QED
      BY <3>1
  <2>3. FirstLimit(b, order) = Put(Without(b, Limits), order[n].to, b.fields[order[n].from])
    BY <1>2 DEF FirstLimit
  <2> HIDE DEF n
  <2>4. n \in DOMAIN order /\ Has(b, order[n].from) /\ order[n].from \in Fields /\ order[n].to \in Fields
    BY <2>2, LimitsAreFields
  <2>5. b.fields[order[n].from] \in Values
    BY <2>4 DEF BodyRows
  <2> HIDE DEF is
  <2> DEFINE w == Without(b, Limits)
             to == order[n].to
             x == b.fields[order[n].from]
             p == Put(w, to, x)
  <2>6. /\ w \in BodyRows /\ w.ok = b.ok /\ w.prompts = b.prompts
        /\ \A g \in Fields : w.fields[g] = IF g \in Limits THEN Absent ELSE b.fields[g]
    BY WithoutIs
  <2> HIDE DEF w
  <2>7. to \in Fields /\ x \in Values
    BY <2>4, <2>5
  <2>8. FirstLimit(b, order) = p
    BY <2>3 DEF w
  <2> HIDE DEF to, x
  <2>9. /\ p \in BodyRows /\ p.ok = w.ok /\ p.prompts = w.prompts
        /\ \A g \in Fields : p.fields[g] = IF g = to THEN x ELSE w.fields[g]
    BY <2>6, <2>7, PutIs
  <2> HIDE DEF p
  <2>10. /\ p.ok = b.ok /\ p.prompts = b.prompts
         /\ \A g \in Fields : p.fields[g] =
             IF g = to THEN x ELSE IF g \in Limits THEN Absent ELSE b.fields[g]
    BY <2>6, <2>9
  <2>11. QED
    BY <2>4, <2>8, <2>9, <2>10 DEF to, x
<1>3. QED
  BY <1>1, <1>2

Lone(b) == \A f \in Limits \ {"max_tokens"} : ~Has(b, f)

LEMMA StreamOptionsIs ==
  ASSUME NEW b \in BodyRows
  PROVE  StreamOptions(b) \in BodyRows /\ StreamOptions(b).prompts = b.prompts
<1>1. "stream_options" \in Fields /\ Text(1) \in Values
  BY AbsentIs DEF Fields
<1>2. QED
  BY <1>1, PutIs, WithoutIs DEF StreamOptions

\* A client's body as it is read; that of messages has one limit, under its name.
LEMMA SanitizeIs ==
  ASSUME NEW api \in AllAPIs, NEW b \in BodyRows
  PROVE  /\ Sanitize(api, b) \in BodyRows /\ Sanitize(api, b).prompts = b.prompts
         /\ api = "messages" => Lone(Sanitize(api, b))
<1> DEFINE c == Only(b, Keeps(api))
<1>1. c \in BodyRows /\ c.prompts = b.prompts
  BY OnlyIs
<1> HIDE DEF c
<1>2. CASE api = "messages"
  <2> DEFINE order == LimitOrder("messages")
             d == FirstLimit(c, order)
  <2>1. order = <<[from |-> "max_tokens", to |-> "max_tokens"],
                  [from |-> "max_output_tokens", to |-> "max_tokens"],
                  [from |-> "max_completion_tokens", to |-> "max_tokens"]>>
    BY DEF LimitOrder, As
  <2>2. /\ DOMAIN order = 1..3 /\ \A i \in 1..3 : order[i].from \in Limits /\ order[i].to = "max_tokens"
        /\ \A f \in Limits : \E i \in 1..3 : order[i].from = f
    BY <2>1 DEF Limits
  <2> HIDE DEF order
  <2>3. /\ d \in BodyRows /\ d.prompts = c.prompts
        /\ \/ d = c /\ \A i \in 1..3 : ~Has(c, order[i].from)
           \/ \E i \in 1..3 : \A g \in Fields : d.fields[g] =
                    IF g = order[i].to THEN c.fields[order[i].from]
                    ELSE IF g \in Limits THEN Absent ELSE c.fields[g]
    BY <1>1, <2>2, FirstLimitIs, LimitsAreFields
  <2>4. Lone(d)
    BY <2>2, <2>3, LimitsAreFields DEF Lone, Has
  <2>5. Sanitize(api, b) = IF Has(d, "max_tokens") THEN d ELSE Fails(d)
    BY <1>2 DEF Sanitize, SanitizeMessages, c, order
  <2> HIDE DEF d
  <2>6. Fails(d) \in BodyRows /\ Fails(d).prompts = d.prompts /\ Lone(Fails(d))
    BY <2>3, <2>4, FailsIs DEF Lone, Has
  <2>7. QED
    BY <1>1, <2>3, <2>4, <2>5, <2>6
<1>3. CASE api = "chat"
  <2> DEFINE order == LimitOrder("chat")
  <2>1. order = <<[from |-> "max_completion_tokens", to |-> "max_completion_tokens"],
                  [from |-> "max_tokens", to |-> "max_tokens"],
                  [from |-> "max_output_tokens", to |-> "max_tokens"]>>
    BY DEF LimitOrder, As
  <2>2. DOMAIN order = 1..3 /\ \A i \in 1..3 : order[i].from \in Limits /\ order[i].to \in Limits
    BY <2>1 DEF Limits
  <2> HIDE DEF order
  <2>3. Sanitize(api, b) = StreamOptions(FirstLimit(c, order))
    BY <1>3 DEF Sanitize, SanitizeChat, c, order
  <2>4. FirstLimit(c, order) \in BodyRows /\ FirstLimit(c, order).prompts = c.prompts
    BY <1>1, <2>2, FirstLimitIs
  <2> HIDE DEF c
  <2>5. QED
    BY <1>1, <1>3, <2>3, <2>4, StreamOptionsIs
<1>4. CASE api = "responses"
  BY <1>4 DEF Sanitize, SanitizeResponses
<1>5. CASE api \in {"gemini", "gemini_embed"}
  BY <1>1, <1>5 DEF Sanitize, SanitizeGemini, c
<1>6. QED
  BY <1>2, <1>3, <1>4, <1>5 DEF AllAPIs

LEMMA BoundIs ==
  ASSUME NEW b \in BodyRows, NEW s \in Settings
  PROVE  Bound(b, s) \in BodyRows /\ Bound(b, s).fields = b.fields
BY SettingsAssumption DEF Bound, BodyRows

LEMMA WithPromptIs ==
  ASSUME NEW b \in BodyRows, NEW s \in Settings
  PROVE  /\ WithPrompt(b, s) \in BodyRows /\ WithPrompt(b, s).fields = b.fields
         /\ s.over /\ b.prompts # <<>> => WithPrompt(b, s).prompts # <<>>
<1>1. s.prompt \in STRING /\ b.prompts \in Seq(STRING)
  BY SettingsAssumption DEF BodyRows
<1>2. <<s.prompt>> \in Seq(STRING) /\ <<s.prompt>> \o b.prompts \in Seq(STRING)
      /\ <<s.prompt>> \o b.prompts # <<>>
  BY <1>1
<1>3. QED
  BY <1>2 DEF WithPrompt, BodyRows

LEMMA SplitSuffixIs ==
  ASSUME NEW b \in BodyRows, NEW s, NEW original
  PROVE  SplitSuffix(b, s, original) \in BodyRows
<1> DEFINE m == [b EXCEPT !.model.effort = 0]
<1>1. m \in BodyRows /\ Text(b.model.effort) \in Values /\ "reasoning_effort" \in Fields
  BY DEF BodyRows, Models, Text, Values, Fields
<1> HIDE DEF m
<1>2. Put(m, "reasoning_effort", Text(b.model.effort)) \in BodyRows
  BY <1>1, PutIs
<1>3. QED
  BY <1>2 DEF SplitSuffix, m

LEMMA ModelRulesIs ==
  ASSUME NEW b \in BodyRows
  PROVE  ModelRules(b) \in BodyRows
<1> DEFINE c == IF b.model.family \in {"o", "gpt-5"} /\ Has(b, "max_tokens")
                     /\ ~Has(b, "max_completion_tokens")
                THEN Moved(b, "max_tokens", "max_completion_tokens") ELSE b
           d == IF b.model.family \in {"o", "gpt-5"} THEN Without(c, {"temperature"}) ELSE c
<1>1. c \in BodyRows
  BY MovedIs, LimitsAreFields
<1> HIDE DEF c
<1>2. d \in BodyRows
  BY <1>1, WithoutIs
<1>3. ModelRules(b) = IF b.model.family = "o" /\ b.prompts # <<>> THEN [d EXCEPT !.dev = TRUE] ELSE d
  BY DEF ModelRules, c
<1> HIDE DEF d
<1>4. [d EXCEPT !.dev = TRUE] \in BodyRows
  BY <1>2 DEF BodyRows
<1>5. QED
  BY <1>2, <1>3, <1>4

\* What policy and lists deny is not there when they are through.
LEMMA ListsDeny ==
  ASSUME NEW b \in BodyRows, NEW s \in Settings
  PROVE  /\ BodyFilters(RequestPolicy(b, s), s) \in BodyRows
         /\ \A f \in Fields : f \in Denied(s) \/ ~Has(b, f) => ~Has(BodyFilters(RequestPolicy(b, s), s), f)
<1> DEFINE c == RequestPolicy(b, s)
           d == IF s.white = {} THEN c ELSE Only(c, s.white)
<1>1. /\ c \in BodyRows
      /\ \A g \in Fields : c.fields[g] = IF g \in PolicyDenies(s) THEN Absent ELSE b.fields[g]
  BY WithoutIs DEF RequestPolicy
<1> HIDE DEF c
<1>2. /\ d \in BodyRows
      /\ \A g \in Fields : d.fields[g] = IF s.white = {} \/ g \in s.white THEN c.fields[g] ELSE Absent
  BY <1>1, OnlyIs
<1>3. BodyFilters(c, s) = Without(d, s.black)
  BY DEF BodyFilters
<1> HIDE DEF d
<1>4. /\ BodyFilters(c, s) \in BodyRows
      /\ \A g \in Fields : BodyFilters(c, s).fields[g] = IF g \in s.black THEN Absent ELSE d.fields[g]
  BY <1>2, <1>3, WithoutIs
<1>5. QED
  BY <1>1, <1>2, <1>4 DEF Denied, Has, c

LEMMA ShapeIs ==
  ASSUME NEW api \in AllAPIs, NEW b \in BodyRows, NEW s \in Settings, NEW original
  PROVE  /\ Shape(api, b, s, original) \in BodyRows
         /\ \A f \in Denied(s) \cap Fields : ~Has(Shape(api, b, s, original), f)
         /\ api = "messages" /\ Lone(b) => Lone(Shape(api, b, s, original))
<1> DEFINE c == WithPrompt(Bound(b, s), s)
           d == SplitSuffix(c, s, original)
<1>1. /\ Bound(b, s) \in BodyRows /\ Bound(b, s).fields = b.fields
      /\ c \in BodyRows /\ c.fields = b.fields
  BY BoundIs, WithPromptIs
<1>2. d \in BodyRows /\ ModelRules(d) \in BodyRows
  BY <1>1, SplitSuffixIs, ModelRulesIs
<1>3. PICK e \in {Bound(b, s), c, d, ModelRules(d)} :
        /\ Shape(api, b, s, original) = BodyFilters(RequestPolicy(e, s), s)
        /\ api = "messages" => e = c
  BY DEF Shape, ShapeResponses, ShapeChat, ShapeMessages, ShapeGemini, AllAPIs
<1>4. e \in BodyRows /\ (api = "messages" => e.fields = b.fields)
  BY <1>1, <1>2, <1>3
<1> HIDE DEF c, d
<1>5. api = "messages" /\ Lone(b) => Lone(e)
  BY <1>4 DEF Lone, Has
<1>6. QED
  BY <1>3, <1>4, <1>5, ListsDeny, LimitsAreFields DEF Lone


-----------------------------------------------------------------------------
(* Overrides of a channel: what they can bring.                            *)

\* An edit brings nothing but what it names.
LEMMA EditIs ==
  ASSUME NEW b \in BodyRows, NEW o \in Overrides, o.mode \in {"move", "copy"} => o.from \in Fields
  PROVE  /\ Edit(b, o) \in BodyRows
         /\ \A f \in Fields \ {o.path} : ~Has(b, f) => ~Has(Edit(b, o), f)
<1>1. /\ o.path \in Fields /\ o.value \in Values
      /\ \A g \in Fields : b.fields[g] \in Values
  BY DEF Overrides, BodyRows
<1>2. Fails(b) \in BodyRows /\ Fails(b).fields = b.fields
  BY FailsIs
<1>3. ASSUME NEW x \in Values
       PROVE  /\ Put(b, o.path, x) \in BodyRows
              /\ \A f \in Fields \ {o.path} : ~Has(b, f) => ~Has(Put(b, o.path, x), f)
  <2>1. /\ Put(b, o.path, x) \in BodyRows
        /\ \A g \in Fields : Put(b, o.path, x).fields[g] = IF g = o.path THEN x ELSE b.fields[g]
    BY <1>1, PutIs
  <2>2. QED
    BY <2>1 DEF Has
<1>4. CASE o.mode = "delete"
  BY <1>4, WithoutIs DEF Edit, Has
<1>5. CASE o.mode = "set"
  BY <1>1, <1>5, <1>3 DEF Edit
<1>6. CASE o.mode = "move"
  <2>1. /\ Moved(b, o.from, o.path) \in BodyRows
        /\ \A g \in Fields \ {o.path} : Moved(b, o.from, o.path).fields[g] \in {b.fields[g], Absent}
    BY <1>1, <1>6, MovedIs
  <2>2. Edit(b, o) \in {Moved(b, o.from, o.path), Fails(b)}
    BY <1>6 DEF Edit
  <2>3. QED
    BY <1>2, <2>1, <2>2 DEF Has
<1>7. CASE o.mode = "copy"
  <2>1. b.fields[o.from] \in Values
    BY <1>1, <1>7
  <2>2. Edit(b, o) \in {Put(b, o.path, b.fields[o.from]), Fails(b)}
    BY <1>7 DEF Edit
  <2>3. QED
    BY <1>2, <1>3, <2>1, <2>2 DEF Has
<1>8. CASE o.mode = "edit"
  <2>1. o.value \in Values
    BY <1>1, <1>8
  <2>2. Edit(b, o) \in {Put(b, o.path, o.value), Fails(b)}
    BY <1>8 DEF Edit
  <2>3. QED
    BY <1>2, <1>3, <2>1, <2>2 DEF Has
<1>9. CASE o.mode \notin {"delete", "set", "move", "copy", "edit"}
  BY <1>2, <1>9 DEF Edit, Has
<1>10. QED
  BY <1>4, <1>5, <1>6, <1>7, <1>8, <1>9

\* A set of bodies that every operation stays in holds what all of them make.
LEMMA OperationsStay ==
  ASSUME NEW R, NEW b \in R, NEW ops, Len(ops) \in Nat,
         \A x \in R : \A i \in 1..Len(ops) : Operation(x, ops[i]) \in R
  PROVE  Operations(b, ops) \in R
<1> DEFINE N == Len(ops)
           P(s) == s = [i \in 0..N |-> IF i = 0 THEN b ELSE Operation(s[i - 1], ops[i])]
           Good(n, s) == \A i \in 0..n : s[i] = IF i = 0 THEN b ELSE Operation(s[i - 1], ops[i])
           T == {n \in Nat : n <= N => \E s \in [0..n -> R] : Good(n, s)}
<1>1. 0 \in T
  <2>1. [i \in 0..0 |-> b] \in [0..0 -> R] /\ Good(0, [i \in 0..0 |-> b])
    OBVIOUS
  <2>2. QED
    BY <2>1
<1>2. ASSUME NEW n \in Nat, n \in T PROVE n + 1 \in T
  <2>1. SUFFICES ASSUME n + 1 <= N
                 PROVE  \E s \in [0..(n + 1) -> R] : Good(n + 1, s)
    <3>1. n + 1 \in Nat
      OBVIOUS
    <3>2. QED
      BY <3>1, Zenon DEF T
  <2>2. n <= N
    BY <2>1
  <2>3. PICK s \in [0..n -> R] : Good(n, s)
    BY <1>2, <2>2, Zenon DEF T
  <2> DEFINE t == [i \in 0..(n + 1) |-> IF i = n + 1 THEN Operation(s[n], ops[n + 1]) ELSE s[i]]
  <2>4. s[n] \in R /\ Operation(s[n], ops[n + 1]) \in R
    BY <2>1
  <2>5. t \in [0..(n + 1) -> R]
    BY <2>4
  <2>6. ASSUME NEW i \in 0..(n + 1)
        PROVE  t[i] = IF i = 0 THEN b ELSE Operation(t[i - 1], ops[i])
    <3>1. CASE i = n + 1
      <4>1. i - 1 = n /\ i - 1 \in 0..(n + 1) /\ i - 1 # n + 1 /\ i # 0
        BY <3>1
      <4>2. QED
        BY <3>1, <4>1
    <3>2. CASE i # n + 1
      <4>1. i \in 0..n
        BY <3>2
      <4>2. s[i] = IF i = 0 THEN b ELSE Operation(s[i - 1], ops[i])
        BY <4>1, <2>3
      <4>3. i # 0 => i - 1 \in 0..(n + 1) /\ i - 1 # n + 1
        BY <4>1
      <4>4. QED
        BY <4>1, <4>2, <4>3, <3>2
    <3>3. QED
      BY <3>1, <3>2
  <2>7. QED
    BY <2>5, <2>6
<1>3. T = Nat
  <2>1. T \subseteq Nat
    BY DEF T
  <2> HIDE DEF T
  <2>2. QED
    BY <1>1, <1>2, <2>1, SetInduction
<1>4. PICK s \in [0..N -> R] : Good(N, s)
  <2>1. N \in T
    BY <1>3
  <2>2. N <= N
    OBVIOUS
  <2> HIDE DEF Good
  <2>3. QED
    BY <2>1, <2>2, Zenon DEF T
<1>5. P(s)
  BY <1>4
<1>6. Steps(b, ops) = CHOOSE t : P(t)
  BY DEF Steps
<1>7. P(Steps(b, ops))
  BY <1>5, <1>6
<1>8. ASSUME NEW t, P(t)
      PROVE  t[N] \in R
  <2> DEFINE U == {n \in Nat : n <= N => t[n] \in R}
  <2>1. t[0] = b /\ \A i \in 1..N : t[i] = Operation(t[i - 1], ops[i])
    BY <1>8
  <2> HIDE DEF P
  <2>2. 0 \in U
    BY <2>1
  <2>3. ASSUME NEW n \in Nat, n \in U PROVE n + 1 \in U
    <3>1. n + 1 <= N => t[n] \in R /\ n + 1 \in 1..N /\ (n + 1) - 1 = n
      BY <2>3
    <3>2. n + 1 <= N => t[n + 1] = Operation(t[n], ops[n + 1])
      BY <2>1, <3>1
    <3>3. n + 1 <= N => t[n + 1] \in R
      BY <3>1, <3>2
    <3>4. QED
      BY <3>3
  <2>4. U = Nat
    <3>1. U \subseteq Nat
      OBVIOUS
    <3> HIDE DEF U
    <3>2. QED
      BY <2>2, <2>3, <3>1, SetInduction
  <2>5. QED
    BY <2>4
<1>9. QED
  <2> HIDE DEF P
  <2>1. QED
    BY <1>7, <1>8 DEF Operations

\* What an override names: the paths of its operations, or the fields it sets.
Named(p) ==
  IF Parses(p.ops) THEN {p.ops[i].path : i \in DOMAIN p.ops} ELSE DOMAIN p.sets \cup {"operations"}

LEMMA ParamOverrideIs ==
  ASSUME NEW b \in BodyRows, NEW s \in Settings
  PROVE  /\ ParamOverride(b, s) \in BodyRows
         /\ \A f \in Fields \ Named(s.param) : ~Has(b, f) => ~Has(ParamOverride(b, s), f)
<1> DEFINE p == s.param
<1>1. /\ DOMAIN p.sets \subseteq Fields /\ \A f \in DOMAIN p.sets : p.sets[f] \in Values
      /\ p.ops \in Seq(Overrides)
      /\ \A i \in DOMAIN p.ops : p.ops[i].mode \in {"move", "copy"} => p.ops[i].from \in Fields
  BY SettingsAssumption
<1> HIDE DEF p
<1>2. CASE Parses(p.ops)
  <2> DEFINE ops == p.ops
             R == {x \in BodyRows : \A f \in Fields \ Named(p) : ~Has(b, f) => ~Has(x, f)}
  <2>1. ops \in Seq(Overrides) /\ Len(ops) \in Nat /\ DOMAIN ops = 1..Len(ops)
    BY <1>1
  <2>2. ASSUME NEW x \in R, NEW i \in 1..Len(ops)
        PROVE  Operation(x, ops[i]) \in R
    <3> DEFINE o == ops[i]
    <3>1. o \in Overrides /\ (o.mode \in {"move", "copy"} => o.from \in Fields) /\ o.path \in Named(p)
      BY <1>1, <1>2, <2>1 DEF Named
    <3> HIDE DEF o
    <3>2. x \in BodyRows /\ Fails(x) \in BodyRows /\ Fails(x).fields = x.fields
      BY FailsIs
    <3>3. /\ Edit(x, o) \in BodyRows
          /\ \A f \in Fields \ {o.path} : ~Has(x, f) => ~Has(Edit(x, o), f)
      BY <3>1, <3>2, EditIs
    <3>4. Operation(x, o) \in {x, Fails(x), Edit(x, o)}
      BY DEF Operation
    <3>5. \A f \in Fields \ Named(p) : ~Has(b, f) => ~Has(Operation(x, o), f)
      <4>1. \A f \in Fields \ Named(p) : ~Has(b, f) => ~Has(x, f) /\ f # o.path
        BY <3>1
      <4>2. QED
        BY <3>2, <3>3, <3>4, <4>1 DEF Has
    <3>6. QED
      BY <3>2, <3>3, <3>4, <3>5 DEF o
  <2>3. b \in R
    OBVIOUS
  <2> HIDE DEF R, ops
  <2>4. Operations(b, ops) \in R
    BY <2>1, <2>2, <2>3, OperationsStay
  <2>5. QED
    BY <1>2, <2>4 DEF R, ops, p, ParamOverride
<1>3. CASE ~Parses(p.ops)
  <2> DEFINE m == [f \in Fields |->
        IF f \in DOMAIN p.sets THEN p.sets[f]
        ELSE IF f = "operations" /\ p.ops # <<>> THEN Text(0) ELSE b.fields[f]]
  <2>1. Text(0) \in Values
    BY AbsentIs
  <2>2. m \in [Fields -> Values]
    BY <1>1, <2>1 DEF BodyRows
  <2>3. \A f \in Fields \ Named(p) : m[f] = b.fields[f]
    BY <1>3 DEF Named
  <2>4. ParamOverride(b, s) = [b EXCEPT !.fields = m]
    BY <1>3 DEF ParamOverride, SetFields, p
  <2> HIDE DEF m
  <2>5. QED
    BY <2>2, <2>3, <2>4 DEF BodyRows, Has, p
<1>4. QED
  BY <1>2, <1>3

\* Putting the limits right brings back the one limit only where there was one.
LEMMA NormalizeIs ==
  ASSUME NEW b \in BodyRows
  PROVE  /\ NormalizeMaxTokens(b) \in BodyRows
         /\ \A f \in Fields : ~Has(b, f) /\ Has(NormalizeMaxTokens(b), f) =>
                f = "max_tokens" /\ \E g \in Limits : Has(b, g)
<1> DEFINE order == <<As("max_output_tokens", "max_tokens"),
                      As("max_completion_tokens", "max_tokens"), As("max_tokens", "max_tokens")>>
           c == FirstLimit(b, order)
<1>1. order = <<[from |-> "max_output_tokens", to |-> "max_tokens"],
                [from |-> "max_completion_tokens", to |-> "max_tokens"],
                [from |-> "max_tokens", to |-> "max_tokens"]>>
  BY DEF As
<1> HIDE DEF order
<1>2. DOMAIN order = 1..3 /\ \A i \in 1..3 : order[i].from \in Limits /\ order[i].to = "max_tokens"
  BY <1>1 DEF Limits
<1>3. /\ c \in BodyRows
      /\ \/ c = b
         \/ \E i \in 1..3 :
                /\ Has(b, order[i].from)
                /\ \A g \in Fields : c.fields[g] =
                    IF g = order[i].to THEN b.fields[order[i].from]
                    ELSE IF g \in Limits THEN Absent ELSE b.fields[g]
  BY <1>2, FirstLimitIs, LimitsAreFields
<1>4. c = NormalizeMaxTokens(b)
  BY DEF NormalizeMaxTokens, order
<1> HIDE DEF c
<1>5. CASE c = b
  BY <1>4, <1>5
<1>6. CASE c # b
  <2>1. PICK i \in 1..3 :
                /\ Has(b, order[i].from)
                /\ \A g \in Fields : c.fields[g] =
                    IF g = order[i].to THEN b.fields[order[i].from]
                    ELSE IF g \in Limits THEN Absent ELSE b.fields[g]
    BY <1>3, <1>6
  <2>2. order[i].from \in Limits /\ order[i].to = "max_tokens"
    BY <1>2
  <2>3. QED
    BY <1>3, <1>4, <2>1, <2>2 DEF Has
<1>7. QED
  BY <1>5, <1>6

-----------------------------------------------------------------------------
(* What a channel is sent.                                                 *)

\* Of a body as it is read, what a channel denies is not sent on, unless the channel's
\* override brings it.
LEMMA RewriteIs ==
  ASSUME NEW api \in AllAPIs, NEW b \in BodyRows, NEW raw \in BodyRows, NEW s \in Settings,
         api = "messages" => Lone(b)
  PROVE  /\ Rewrite(api, b, raw, s) \in BodyRows
         /\ ~Passes(api, s) =>
                \A f \in Denied(s) \ Brings(api, s.param) : ~Has(Rewrite(api, b, raw, s), f)
<1> DEFINE d == Shape(api, b, s, raw.model)
           c == ParamOverride(d, s)
<1>1. /\ d \in BodyRows /\ \A f \in Denied(s) \cap Fields : ~Has(d, f)
      /\ api = "messages" => Lone(d)
  BY ShapeIs
<1> HIDE DEF d
<1>2. /\ c \in BodyRows
      /\ \A f \in Fields \ Named(s.param) : ~Has(d, f) => ~Has(c, f)
  BY <1>1, ParamOverrideIs
<1> HIDE DEF c
<1>3. /\ NormalizeMaxTokens(c) \in BodyRows
      /\ \A f \in Fields : ~Has(c, f) /\ Has(NormalizeMaxTokens(c), f) =>
            f = "max_tokens" /\ \E g \in Limits : Has(c, g)
  BY <1>2, NormalizeIs
<1>4. CASE Passes(api, s)
  BY <1>4 DEF Rewrite
<1>5. CASE ~Passes(api, s)
  <2>1. Rewrite(api, b, raw, s) = IF api = "messages" /\ c.ok THEN NormalizeMaxTokens(c) ELSE c
    BY <1>5 DEF Rewrite, c, d
  <2>2. Denied(s) \subseteq Fields
    BY SettingsAssumption DEF Denied, PolicyDenies, Fields
  <2>3. Brings(api, s.param) = IF api = "messages" /\ Named(s.param) \cap Limits # {}
                               THEN Named(s.param) \cup Limits ELSE Named(s.param)
    BY DEF Brings, Named
  <2>4. ASSUME NEW f \in Denied(s) \ Brings(api, s.param)
        PROVE  ~Has(c, f)
    BY <1>1, <1>2, <2>2, <2>3, <2>4
  <2>5. ASSUME NEW f \in Denied(s) \ Brings(api, s.param), api = "messages",
               Has(NormalizeMaxTokens(c), f)
        PROVE  FALSE
    <3>1. PICK g \in Limits : f = "max_tokens" /\ Has(c, g)
      BY <1>3, <2>2, <2>4, <2>5
    <3>2. f \in Limits /\ g \in Fields
      BY <3>1, LimitsAreFields
    <3>3. Named(s.param) \cap Limits = {}
      BY <2>3, <2>5, <3>2
    <3>4. Has(d, g)
      BY <1>2, <3>1, <3>2, <3>3
    <3>5. g = "max_tokens"
      BY <1>1, <2>5, <3>1, <3>4 DEF Lone
    <3>6. QED
      BY <2>4, <2>5, <3>1, <3>5
  <2>6. QED
    BY <1>2, <1>3, <2>1, <2>4, <2>5, <1>5
<1>6. QED
  BY <1>4, <1>5

\* What the attempts share changes only when a channel spoils it.
LEMMA SharedIs ==
  ASSUME NEW api \in AllAPIs, NEW b \in BodyRows, NEW s \in Settings
  PROVE  /\ SharedAfter(api, b, s) \in BodyRows
         /\ SharedAfter(api, b, s).fields = b.fields
         /\ b.prompts = <<>> => SharedAfter(api, b, s) = b
         /\ ~(api = "chat" /\ s.over /\ ~s.through /\ s.prompt # "") => SharedAfter(api, b, s) = b
BY WithPromptIs DEF SharedAfter, WithPrompt, Passes

LEMMA CompatibleIs ==
  ASSUME NEW b \in BodyRows, NEW f \in Refusable
  PROVE  /\ Compatible(b, f) \in BodyRows
         /\ \A g \in Fields : ~Has(b, g) /\ Has(Compatible(b, f), g) =>
                f \in Limits /\ g = OtherName(f)
<1> DEFINE c == Without(b, {f})
           d == Put(c, OtherName(f), b.fields[f])
<1>1. f \in Fields /\ OtherName(f) \in Fields /\ b.fields[f] \in Values
  BY DEF Refusable, Limits, Fields, OtherName, BodyRows
<1>2. /\ c \in BodyRows
      /\ \A g \in Fields : c.fields[g] = IF g \in {f} THEN Absent ELSE b.fields[g]
  BY WithoutIs
<1>3. Compatible(b, f) = c \/ (f \in Limits /\ Compatible(b, f) = d)
  BY DEF Compatible
<1> HIDE DEF c
<1>4. /\ d \in BodyRows
      /\ \A g \in Fields : d.fields[g] = IF g = OtherName(f) THEN b.fields[f] ELSE c.fields[g]
  BY <1>1, <1>2, PutIs
<1> HIDE DEF d
<1>5. QED
  BY <1>2, <1>3, <1>4 DEF Has

\* What the executor posts after a refusal holds one new field at most: the other name
\* of the limit that was refused.
LEMMA PostedIs ==
  ASSUME NEW b \in BodyRows, NEW f \in Refusable \cup {""}
  PROVE  /\ Posted(b, f) \in BodyRows
         /\ \A g \in Fields : ~Has(b, g) /\ Has(Posted(b, f), g) =>
                f \in Limits /\ g = OtherName(f)
<1>1. f = "" => Posted(b, f) = b
  BY DEF Posted
<1>2. f # "" => f \in Refusable /\ Posted(b, f) = Compatible(b, f)
  BY DEF Posted
<1>3. QED
  BY <1>1, <1>2, CompatibleIs

-----------------------------------------------------------------------------
(* The invariant.                                                          *)

\* What was sent to c, of a body p as it was read, or as a chat was left by a channel
\* tried before; and if c refused a field of it, what the executor made of that.
SentFrom(p, j) ==
  /\ tried[j] = sent.to /\ p \in BodyRows
  /\ sent.body = Posted(Rewrite(request.api, p, request.raw, SettingsOf(sent.to)), sent.refused)
  /\ request.api = "messages" => Lone(p)
  /\ (\A i \in 1..(j - 1) : ~Spoils(tried[i])) => p = Sanitize(request.api, request.raw)

PayloadKept ==
  /\ (\A i \in 1..Len(tried) : ~Spoils(tried[i])) => payload = Sanitize(request.api, request.raw)
  /\ request.raw.prompts = <<>> => payload.prompts = <<>>
  /\ request.api = "messages" => Lone(payload)

ShInv == ShapeTypeOK /\ PayloadKept /\ (Sent => \E j \in 1..Len(tried) : \E p : SentFrom(p, j))

LEMMA ShInitInv == ShapeInit => ShInv
<1>1. SUFFICES ASSUME ShapeInit PROVE ShInv
  OBVIOUS
<1>2. PICK api \in APIs, b \in Bodies, set \in [Routes -> Settings] :
        /\ request = [api |-> api, raw |-> b, set |-> set]
        /\ payload = Sanitize(api, b)
        /\ sent = [body |-> b, to |-> "", refused |-> "", ended |-> ~Sanitize(api, b).ok]
  BY <1>1 DEF ShapeInit
<1>3. api \in AllAPIs /\ b \in BodyRows /\ tried = <<>>
  BY <1>1, APIsAssumption, BodiesAssumption DEF ShapeInit
<1>4. /\ Sanitize(api, b) \in BodyRows /\ Sanitize(api, b).prompts = b.prompts
      /\ api = "messages" => Lone(Sanitize(api, b))
  BY <1>3, SanitizeIs
<1>5. ShapeTypeOK
  <2>1. (~Sanitize(api, b).ok) \in BOOLEAN
    OBVIOUS
  <2>2. <<>> \in Seq(Routes) /\ Len(<<>>) = 0 /\ 0 <= MaxTries
    BY TriesAssumption
  <2>3. QED
    BY <1>2, <1>3, <1>4, <2>1, <2>2 DEF ShapeTypeOK
<1>6. PayloadKept /\ ~Sent
  BY <1>2, <1>4 DEF PayloadKept, Sent
<1>7. QED
  BY <1>5, <1>6 DEF ShInv

LEMMA ShAttemptInv ==
  ASSUME ShInv, NEW c \in Routes, Attempt(c)
  PROVE  ShInv'
<1> DEFINE api == request.api
           raw == request.raw
           s == request.set[c]
           body == Rewrite(api, payload, raw, s)
<1>1. /\ api \in APIs /\ raw \in Bodies /\ request.set \in [Routes -> Settings]
      /\ payload \in BodyRows
      /\ sent \in [body: BodyRows, to: Routes \cup {""}, refused: Refusable \cup {""}, ended: BOOLEAN]
      /\ tried \in Seq(Routes) /\ Len(tried) <= MaxTries
  BY DEF ShInv, ShapeTypeOK
<1>2. api \in AllAPIs /\ raw \in BodyRows /\ s \in Settings
  BY <1>1, APIsAssumption, BodiesAssumption
<1>3. PayloadKept
  BY DEF ShInv
<1>4. /\ Len(tried) < MaxTries /\ tried' = Append(tried, c) /\ payload' = SharedAfter(api, payload, s)
      /\ request' = request
      /\ \/ body.ok /\ sent' = [body |-> body, to |-> c, refused |-> "", ended |-> FALSE]
         \/ sent' = [sent EXCEPT !.ended = api \notin {"gemini", "gemini_embed"}]
  BY DEF Attempt
<1>5. body \in BodyRows
  BY <1>1, <1>2, <1>3, RewriteIs DEF PayloadKept
<1>6. /\ payload' \in BodyRows /\ payload'.fields = payload.fields
      /\ payload.prompts = <<>> => payload' = payload
      /\ ~(api = "chat" /\ s.over /\ ~s.through /\ s.prompt # "") => payload' = payload
  <2> HIDE DEF api, s
  <2>1. /\ SharedAfter(api, payload, s) \in BodyRows
        /\ SharedAfter(api, payload, s).fields = payload.fields
        /\ payload.prompts = <<>> => SharedAfter(api, payload, s) = payload
        /\ ~(api = "chat" /\ s.over /\ ~s.through /\ s.prompt # "") => SharedAfter(api, payload, s) = payload
    <3>1. payload \in BodyRows /\ api \in AllAPIs /\ s \in Settings
      BY <1>1, <1>2
    <3>2. QED
      BY <3>1, SharedIs, Zenon
  <2>2. QED
    BY <1>4, <2>1
<1> HIDE DEF body
<1>7. /\ tried' \in Seq(Routes) /\ Len(tried') = Len(tried) + 1 /\ tried'[Len(tried) + 1] = c
      /\ Len(tried) \in Nat /\ \A i \in 1..Len(tried) : tried'[i] = tried[i]
  <2>1. /\ Append(tried, c) \in Seq(Routes) /\ Len(Append(tried, c)) = Len(tried) + 1
        /\ Append(tried, c)[Len(tried) + 1] = c
        /\ Len(tried) \in Nat /\ \A i \in 1..Len(tried) : Append(tried, c)[i] = tried[i]
    <3>1. tried \in Seq(Routes)
      BY <1>1
    <3>2. QED
      BY <3>1
  <2>2. tried' = Append(tried, c)
    BY <1>4
  <2>3. QED
    BY <2>1, <2>2
<1>8. ShapeTypeOK'
  <2>1. sent' \in [body: BodyRows, to: Routes \cup {""}, refused: Refusable \cup {""}, ended: BOOLEAN]
    <3>1. CASE sent' = [body |-> body, to |-> c, refused |-> "", ended |-> FALSE]
      BY <1>5, <3>1
    <3>2. CASE sent' = [sent EXCEPT !.ended = api \notin {"gemini", "gemini_embed"}]
      <4>1. (api \notin {"gemini", "gemini_embed"}) \in BOOLEAN
        OBVIOUS
      <4> HIDE DEF api
      <4>2. QED
        BY <1>1, <3>2, <4>1
    <3>3. QED
      BY <1>4, <3>1, <3>2
  <2>2. Len(tried') <= MaxTries
    <3>1. Len(tried) < MaxTries /\ Len(tried) \in Nat /\ MaxTries \in Nat /\ Len(tried') = Len(tried) + 1
      BY <1>4, <1>7, TriesAssumption
    <3>2. QED
      BY <3>1
  <2>3. QED
    BY <1>1, <1>4, <1>6, <1>7, <2>1, <2>2 DEF ShapeTypeOK
<1>9. \A r : Spoils(r)' <=> Spoils(r)
  BY <1>4 DEF Spoils, SettingsOf
<1>10. \A i \in 1..Len(tried) : Spoils(tried[i])' <=> Spoils(tried[i])
  BY <1>4, <1>7 DEF Spoils, SettingsOf
<1>11. ASSUME \A i \in 1..Len(tried) : ~Spoils(tried[i])
       PROVE  payload = Sanitize(api, raw)
  BY <1>3, <1>11 DEF PayloadKept
<1>12. PayloadKept'
  <2>1. ASSUME \A i \in 1..Len(tried') : ~Spoils(tried[i])'
        PROVE  payload' = Sanitize(api, raw)
    <3>1. \A i \in 1..Len(tried) : ~Spoils(tried[i])
      BY <1>7, <1>10, <2>1
    <3>2. ~Spoils(c)
      <4>1. Len(tried) + 1 \in 1..Len(tried')
        BY <1>7
      <4>2. QED
        BY <1>4, <1>7, <2>1, <4>1 DEF Spoils, SettingsOf
    <3>3. payload' = payload
      BY <1>3, <1>6, <3>2 DEF Spoils, SettingsOf, PayloadKept
    <3>4. QED
      BY <1>11, <3>1, <3>3
  <2>2. raw.prompts = <<>> => payload'.prompts = <<>>
    BY <1>3, <1>6 DEF PayloadKept
  <2>3. api = "messages" => Lone(payload)'
    BY <1>3, <1>6 DEF PayloadKept, Lone, Has
  <2>4. QED
    BY <1>4, <2>1, <2>2, <2>3 DEF PayloadKept
<1>13. Sent' => \E j \in 1..Len(tried') : \E p : SentFrom(p, j)'
  <2>1. CASE sent' = [body |-> body, to |-> c, refused |-> "", ended |-> FALSE]
    <3>1. PICK n : n = Len(tried) + 1
      OBVIOUS
    <3>2. n \in 1..Len(tried') /\ n - 1 = Len(tried) /\ tried'[n] = c
      BY <1>7, <3>1
    <3>3. sent'.to = c /\ sent'.body = Posted(body, sent'.refused)
      BY <2>1 DEF Posted
    <3>4. (\A i \in 1..Len(tried) : ~Spoils(tried[i])') => payload = Sanitize(api, raw)
      BY <1>10, <1>11
    <3>5. PICK p : p = payload
      OBVIOUS
    <3>6. p \in BodyRows /\ body = Rewrite(api, p, raw, s) /\ (api = "messages" => Lone(p))
      BY <1>1, <1>3, <3>5 DEF PayloadKept, body
    <3>7. SentFrom(p, n)'
      BY <1>4, <3>3, <3>4, <3>5, <3>6, <3>2 DEF SentFrom, SettingsOf
    <3>8. QED
      BY <3>7, <3>2
  <2>2. CASE sent' = [sent EXCEPT !.ended = api \notin {"gemini", "gemini_embed"}]
    <3>1. sent'.to = sent.to /\ sent'.body = sent.body /\ sent'.refused = sent.refused
      BY <1>1, <2>2
    <3>2. SUFFICES ASSUME Sent PROVE \E j \in 1..Len(tried') : \E p : SentFrom(p, j)'
      BY <3>1 DEF Sent
    <3>3. PICK j \in 1..Len(tried), p \in BodyRows : SentFrom(p, j)
      BY <3>2 DEF ShInv, SentFrom
    <3>4. j \in 1..Len(tried') /\ \A i \in 1..(j - 1) : i \in 1..Len(tried)
      BY <1>7
    <3>5. (\A i \in 1..(j - 1) : ~Spoils(tried[i])') => p = Sanitize(api, raw)
      BY <1>10, <3>3, <3>4 DEF SentFrom
    <3>6. SentFrom(p, j)'
      BY <1>4, <1>7, <3>1, <3>3, <3>5 DEF SentFrom, SettingsOf
    <3>7. QED
      BY <3>4, <3>6
  <2>3. QED
    BY <1>4, <2>1, <2>2
<1>14. QED
  BY <1>8, <1>12, <1>13 DEF ShInv

LEMMA ShRefuseInv ==
  ASSUME ShInv, NEW f \in Refusable, Refuse(f)
  PROVE  ShInv'
<1>1. /\ UNCHANGED <<request, payload, tried>> /\ sent.refused = ""
      /\ sent' = [sent EXCEPT !.body = Compatible(@, f), !.refused = f]
  BY DEF Refuse
<1>2. /\ ShapeTypeOK /\ sent.body \in BodyRows
      /\ sent \in [body: BodyRows, to: Routes \cup {""}, refused: Refusable \cup {""}, ended: BOOLEAN]
  BY DEF ShInv, ShapeTypeOK
<1>3. f # "" /\ Posted(sent.body, f) \in BodyRows
  BY <1>2, PostedIs DEF Refusable, Limits
<1>4. /\ sent'.to = sent.to /\ sent'.refused = f /\ sent'.body = Posted(sent.body, f)
      /\ sent' \in [body: BodyRows, to: Routes \cup {""}, refused: Refusable \cup {""}, ended: BOOLEAN]
  BY <1>1, <1>2, <1>3 DEF Posted
<1>5. ShapeTypeOK' /\ PayloadKept'
  BY <1>1, <1>2, <1>4 DEF ShInv, ShapeTypeOK, PayloadKept, Spoils, SettingsOf, Lone, Has
<1>6. ASSUME Sent'
      PROVE  \E j \in 1..Len(tried') : \E p : SentFrom(p, j)'
  <2>1. PICK j \in 1..Len(tried), p \in BodyRows : SentFrom(p, j)
    BY <1>4, <1>6 DEF ShInv, Sent, SentFrom
  <2>2. sent.body = Rewrite(request.api, p, request.raw, SettingsOf(sent.to))
    BY <1>1, <2>1 DEF SentFrom, Posted
  <2>3. SentFrom(p, j)'
    BY <1>1, <1>4, <2>1, <2>2 DEF SentFrom, SettingsOf, Spoils
  <2>4. QED
    BY <1>1, <2>3
<1>7. QED
  BY <1>5, <1>6 DEF ShInv

\* The body the attempts share is the client's as it was read until a channel spoils it,
\* and what a channel was sent was made of the body as shared then, renamed once more
\* where the channel refused a limit or the options of a stream (rewriteBody, Executor.Do).
THEOREM ShapeInductive == ShapeSpec => []ShInv
<1>1. ShapeInit => ShInv
  BY ShInitInv
<1>2. ASSUME ShInv, [ShapeNext]_shapeVars PROVE ShInv'
  <2>1. CASE ShapeNext
    BY <1>2, <2>1, ShAttemptInv, ShRefuseInv DEF ShapeNext
  <2>2. CASE UNCHANGED shapeVars
    BY <1>2, <2>2 DEF ShInv, ShapeTypeOK, PayloadKept, Sent, SentFrom, Spoils, SettingsOf,
        Lone, Has, shapeVars
  <2>3. QED
    BY <1>2, <2>1, <2>2
<1>3. QED
  BY <1>1, <1>2, PTL DEF ShapeSpec

\* For any endpoints, bodies, settings, channels and number of tries: each upstream is
\* sent the client's request as its own channel shapes it, without what earlier ones
\* added unless one of them spoilt the chat, and without what its lists deny, but for
\* the other name of a limit it refused, which the executor puts there unasked.
THEOREM BodiesAreShaped == ShapeSpec => []BodiesShaped
<1>1. ASSUME ShInv PROVE BodiesShaped
  <2>1. SUFFICES ASSUME Sent PROVE ShapeTypeOK /\ ShapedFresh /\ DeniedStaysOut
    BY DEF BodiesShaped
  <2>2. PICK j \in 1..Len(tried), p \in BodyRows : SentFrom(p, j)
    BY <1>1, <2>1 DEF ShInv, SentFrom
  <2>3. /\ ShapeTypeOK /\ request.api \in AllAPIs /\ request.raw \in BodyRows
        /\ tried \in Seq(Routes) /\ Len(tried) \in Nat /\ sent.to \in Routes
        /\ SettingsOf(sent.to) \in Settings
    <3>1. /\ ShapeTypeOK /\ request.api \in AllAPIs /\ request.raw \in BodyRows
          /\ tried \in Seq(Routes) /\ request.set \in [Routes -> Settings]
      BY <1>1, APIsAssumption, BodiesAssumption DEF ShInv, ShapeTypeOK
    <3>2. sent.to \in Routes
      BY <2>1, <3>1 DEF ShapeTypeOK, Sent
    <3>3. QED
      BY <3>1, <3>2 DEF SettingsOf
  <2>4. ShapedFresh
    <3>1. SUFFICES ASSUME \A i \in DOMAIN tried : i < Len(tried) => ~Spoils(tried[i])
                   PROVE  sent.body = Posted(
                            Rewrite(request.api, Sanitize(request.api, request.raw),
                                    request.raw, SettingsOf(sent.to)), sent.refused)
      BY DEF ShapedFresh
    <3>2. \A i \in 1..(j - 1) : i \in DOMAIN tried /\ i < Len(tried)
      BY <2>3
    <3>3. QED
      BY <2>2, <3>1, <3>2 DEF SentFrom
  <2>5. DeniedStaysOut
    <3> DEFINE set == SettingsOf(sent.to)
               body == Rewrite(request.api, p, request.raw, set)
    <3>1. /\ body \in BodyRows /\ sent.body = Posted(body, sent.refused)
          /\ ~Passes(request.api, set) =>
                \A f \in Denied(set) \ Brings(request.api, set.param) : ~Has(body, f)
      BY <2>2, <2>3, RewriteIs DEF SentFrom
    <3>2. Denied(set) \subseteq Fields
      BY <2>3, SettingsAssumption DEF Denied, PolicyDenies, Fields
    <3>3. sent.refused \in Refusable \cup {""}
      BY <2>3 DEF ShapeTypeOK
    <3> HIDE DEF body
    <3>4. \A f \in Fields : ~Has(body, f) /\ Has(sent.body, f) =>
            sent.refused \in Limits /\ f = OtherName(sent.refused)
      BY <3>1, <3>3, PostedIs
    <3>5. ASSUME ~Passes(request.api, set), NEW f \in Denied(set) \ Brings(request.api, set.param),
                 Has(sent.body, f)
          PROVE  sent.refused \in Limits /\ f = OtherName(sent.refused)
      BY <3>1, <3>2, <3>4, <3>5
    <3>6. QED
      BY <3>5 DEF DeniedStaysOut
  <2>6. QED
    BY <2>3, <2>4, <2>5
<1>2. ShInv => BodiesShaped
  BY <1>1
<1>3. QED
  BY <1>2, ShapeInductive, PTL

=============================================================================
