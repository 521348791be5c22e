----------------------------- MODULE RelayProofs -----------------------------
(***************************************************************************)
(* The safety of Relay for any number of requests, channels, credentials   *)
(* and groups, nested in any way: IInv is inductive, and from it follow    *)
(* that failover ends, that bans end properly, and that Relay implements   *)
(* Answer.                                                                 *)
(*                                                                         *)
(* The argument has two independent halves.  Of the scheduler's state only *)
(* bans and streaks matter, and every operation keeps a ban backed by a    *)
(* streak (SchedStep).  A request's own step changes its goroutine, its    *)
(* answer and its reservation in one of the ways of Walks; what Relay      *)
(* promises about requests follows from Walks alone.                       *)
(***************************************************************************)
EXTENDS Relay, FiniteSumsProofs

SchedInv == SchedTypeOK /\ BanInv

\* What a step of the scheduler's state may do to the bans.
ProperEnd(c) ==
    until'[c] < until[c] =>
         /\ until'[c] = 0
         /\ \/ streak'[c] = 0 /\ c \notin probe'
            \/ c \in Expired /\ c \in probe'
SchedStep == SchedInv' /\ \A c \in Channels : ProperEnd(c)

BindingOK == binding \in [Sessions -> Credentials \cup {None}]

-----------------------------------------------------------------------------
(* The operations of the scheduler.                                        *)

LEMMA CooldownNat == ASSUME NEW f \in Failures PROVE Cooldown(f) \in Nat
BY CooldownAssumption DEF Cooldown, Failures, Answers

\* A ban that starts or is prolonged ends in the future, within MaxBan, and not
\* before the ban it prolongs.
LEMMA ProlongedBounds ==
  ASSUME SchedInv, NEW c \in Channels, NEW n \in 1..MaxStreak, NEW f \in Failures
  PROVE  /\ Prolonged(c, n, f) \in Nat
         /\ Prolonged(c, n, f) <= now + MaxBan
         /\ Prolonged(c, n, f) >= until[c]
<1> DEFINE d == Cooldown(f) * n
           u == until[c]
<1>1. d \in Nat
  <2>1. Cooldown(f) \in Nat /\ n \in Nat
    BY CooldownNat, CooldownAssumption
  <2>2. QED
    BY <2>1
<1>2. now \in Nat /\ MaxBan \in Nat /\ u \in Nat /\ u <= now + MaxBan
  BY CooldownAssumption DEF SchedInv, SchedTypeOK, BanInv
<1>3. Prolonged(c, n, f) = LET start == IF u > now THEN u ELSE now
                               end == start + d
                           IN  IF end > now + MaxBan THEN now + MaxBan ELSE end
  BY DEF Prolonged
<1> HIDE DEF d, u
<1>4. /\ Prolonged(c, n, f) \in Nat
      /\ Prolonged(c, n, f) <= now + MaxBan
      /\ Prolonged(c, n, f) >= u
  BY <1>1, <1>2, <1>3
<1>5. QED
  BY <1>4 DEF u

LEMMA BanStep ==
  ASSUME SchedInv, NEW c \in Channels, NEW f \in Failures, Ban(c, f)
  PROVE  /\ streak' \in [Channels -> 0..MaxStreak] /\ until' \in [Channels -> Nat]
         /\ \A d \in Channels :
              /\ until'[d] >= until[d]
              /\ until'[d] # 0 => streak'[d] >= 1 /\ until'[d] <= now + MaxBan
<1> DEFINE n == IF streak[c] < MaxStreak THEN streak[c] + 1 ELSE MaxStreak
           u == IF n < 2 /\ f \notin Immediate THEN 0 ELSE Prolonged(c, n, f)
<1>1. streak' = [streak EXCEPT ![c] = n] /\ until' = [until EXCEPT ![c] = u]
  BY DEF Ban
<1>2. /\ streak \in [Channels -> 0..MaxStreak] /\ until \in [Channels -> Nat] /\ now \in Nat
      /\ MaxStreak \in Nat /\ MaxStreak >= 2 /\ MaxBan \in Nat
  BY CooldownAssumption DEF SchedInv, SchedTypeOK
<1>3. \A d \in Channels : until[d] # 0 => streak[d] >= 1 /\ until[d] <= now + MaxBan
  BY DEF SchedInv, BanInv
<1>4. n \in 1..MaxStreak /\ (n < 2 => streak[c] = 0)
  BY <1>2
<1>5. Prolonged(c, n, f) \in Nat /\ Prolonged(c, n, f) <= now + MaxBan
      /\ Prolonged(c, n, f) >= until[c]
  BY <1>4, ProlongedBounds
<1>6. u \in Nat /\ u <= now + MaxBan /\ u >= until[c]
  BY <1>2, <1>3, <1>4, <1>5
<1> HIDE DEF n, u
<1>7. QED
  BY <1>1, <1>2, <1>3, <1>4, <1>6

\* The three outcomes that Report knows.
LEMMA ReportSteps ==
  ASSUME SchedInv, NEW k \in Credentials, BindingOK',
         \/ ReportSuccess(k) \/ ReportFatal(k)
         \/ \E f \in Failures : ReportRetriable(k, f)
  PROVE  SchedStep
<1> DEFINE c == ChannelOf[k]
<1>1. c \in Channels
  BY ChannelsAssumption
<1>2. /\ until \in [Channels -> Nat] /\ streak \in [Channels -> 0..MaxStreak]
      /\ probe \subseteq Channels /\ fails \in [Channels -> Nat]
      /\ cooling \in [Credentials -> Nat] /\ creds \subseteq Credentials
      /\ now \in Nat \ {0} /\ MaxStreak \in Nat /\ MaxBan \in Nat
  BY CooldownAssumption DEF SchedInv, SchedTypeOK
<1>3. \A d \in Channels : until[d] # 0 => streak[d] >= 1 /\ until[d] <= now + MaxBan
  BY DEF SchedInv, BanInv
<1>4. CASE ReportSuccess(k)
  <2>1. /\ until' = [until EXCEPT ![c] = 0] /\ streak' = [streak EXCEPT ![c] = 0]
        /\ probe' = probe \ {c} /\ fails' = [fails EXCEPT ![c] = 0]
        /\ UNCHANGED <<cooling, creds, now>>
    BY <1>4 DEF ReportSuccess
  <2> HIDE DEF c
  <2>2. SchedTypeOK'
    BY <1>1, <1>2, <2>1 DEF SchedTypeOK, BindingOK
  <2>3. BanInv'
    BY <1>1, <1>2, <1>3, <2>1 DEF BanInv
  <2>4. \A d \in Channels : ProperEnd(d)
    BY <1>1, <1>2, <2>1 DEF ProperEnd
  <2>5. QED
    BY <2>2, <2>3, <2>4 DEF SchedStep, SchedInv
<1>5. CASE ReportFatal(k)
  <2>1. /\ UNCHANGED <<until, streak, cooling, creds, now>>
        /\ probe' = probe \ {c} /\ fails' = [fails EXCEPT ![c] = @ + 1]
    BY <1>5 DEF ReportFatal
  <2> HIDE DEF c
  <2>2. SchedTypeOK'
    BY <1>1, <1>2, <2>1 DEF SchedTypeOK, BindingOK
  <2>3. BanInv'
    BY <1>3, <2>1 DEF BanInv
  <2>4. \A d \in Channels : ProperEnd(d)
    BY <1>2, <2>1 DEF ProperEnd
  <2>5. QED
    BY <2>2, <2>3, <2>4 DEF SchedStep, SchedInv
<1>6. ASSUME NEW f \in Failures, ReportRetriable(k, f) PROVE SchedStep
  <2>1. /\ probe' = probe \ {c} /\ fails' = [fails EXCEPT ![c] = @ + 1]
        /\ cooling' = [cooling EXCEPT ![k] = now + Cooldown(f)]
        /\ creds' = creds /\ now' = now
        /\ Ban(c, f) \/ UNCHANGED <<until, streak>>
    BY <1>6 DEF ReportRetriable
  <2> HIDE DEF c
  <2>2. /\ streak' \in [Channels -> 0..MaxStreak] /\ until' \in [Channels -> Nat]
        /\ \A d \in Channels :
             /\ until'[d] >= until[d]
             /\ until'[d] # 0 => streak'[d] >= 1 /\ until'[d] <= now + MaxBan
    <3>1. CASE Ban(c, f)
      BY <1>1, <3>1, BanStep
    <3>2. CASE UNCHANGED <<until, streak>>
      BY <1>2, <1>3, <3>2
    <3>3. QED
      BY <2>1, <3>1, <3>2
  <2>3. now + Cooldown(f) \in Nat
    BY <1>2, CooldownNat
  <2>4. SchedTypeOK'
    <3> DEFINE t == now + Cooldown(f)
    <3>1. cooling' = [cooling EXCEPT ![k] = t] /\ t \in Nat
      BY <2>1, <2>3
    <3> HIDE DEF t
    <3>2. cooling' \in [Credentials -> Nat]
      BY <1>2, <3>1
    <3>3. fails' \in [Channels -> Nat]
      BY <1>1, <1>2, <2>1
    <3>4. QED
      BY <1>2, <2>1, <2>2, <3>2, <3>3 DEF SchedTypeOK, BindingOK
  <2>5. BanInv'
    BY <2>1, <2>2 DEF BanInv
  <2>6. \A d \in Channels : ProperEnd(d)
    BY <1>2, <2>2 DEF ProperEnd
  <2>7. QED
    BY <2>4, <2>5, <2>6 DEF SchedStep, SchedInv
<1>7. QED
  BY <1>4, <1>5, <1>6

\* Expired bans turn into probes.
LEMMA SweepStep ==
  ASSUME SchedInv, BindingOK', SweepExpiredChannelBans,
         UNCHANGED <<streak, fails, cooling, creds, now>>
  PROVE  SchedStep
<1>1. /\ until' = [c \in Channels |-> IF c \in Expired THEN 0 ELSE until[c]]
      /\ probe' = probe \cup Expired
  BY DEF SweepExpiredChannelBans
<1>2. Expired \subseteq Channels
  BY DEF Expired
<1>3. SchedTypeOK'
  BY <1>1, <1>2 DEF SchedInv, SchedTypeOK, BindingOK
<1>4. BanInv'
  BY <1>1 DEF SchedInv, BanInv
<1>5. \A d \in Channels : ProperEnd(d)
  BY <1>1 DEF SchedInv, SchedTypeOK, ProperEnd
<1>6. QED
  BY <1>3, <1>4, <1>5 DEF SchedStep, SchedInv

\* Steps that leave bans and streaks alone.
LEMMA IdleStep ==
  ASSUME SchedInv, UNCHANGED <<until, streak, probe, fails, cooling>>, BindingOK',
         creds' \subseteq Credentials, now' \in Nat, now' >= now
  PROVE  SchedStep
<1>1. SchedTypeOK'
  BY DEF SchedInv, SchedTypeOK, BindingOK
<1>2. BanInv'
  BY CooldownAssumption DEF SchedInv, SchedTypeOK, BanInv
<1>3. \A d \in Channels : ProperEnd(d)
  BY DEF SchedInv, SchedTypeOK, ProperEnd
<1>4. QED
  BY <1>1, <1>2, <1>3 DEF SchedStep, SchedInv

LEMMA BackgroundStep ==
  ASSUME SchedInv, Background PROVE SchedStep
<1>1. SchedTypeOK /\ BanInv /\ BindingOK
  BY DEF SchedInv, SchedTypeOK, BindingOK
<1>2. CASE Sweep
  BY <1>1, <1>2, SweepStep DEF Sweep, BindingOK
<1>3. CASE Tick
  BY <1>1, <1>3, IdleStep DEF Tick, BindingOK, SchedTypeOK
<1>4. ASSUME NEW s \in Sessions, ExpireBinding(s) PROVE SchedStep
  BY <1>1, <1>4, IdleStep DEF ExpireBinding, BindingOK, SchedTypeOK
<1>5. ASSUME NEW c \in Channels, ClearChannelBan(c) \/ RuntimeChannelStats(c) PROVE SchedStep
  <2>1. /\ until' = [until EXCEPT ![c] = 0] /\ streak' = [streak EXCEPT ![c] = 0]
        /\ \/ probe' = probe \ {c}
           \/ probe' = probe \cup {c} /\ c \in Expired
        /\ UNCHANGED <<fails, cooling, binding, creds, now>>
    BY <1>5 DEF ClearChannelBan, RuntimeChannelStats
  <2>2. SchedTypeOK'
    BY <1>1, <2>1, CooldownAssumption DEF SchedTypeOK
  <2>3. BanInv'
    BY <1>1, <2>1 DEF BanInv, SchedTypeOK
  <2>4. \A d \in Channels : ProperEnd(d)
    BY <1>1, <2>1 DEF SchedTypeOK, ProperEnd
  <2>5. QED
    BY <2>2, <2>3, <2>4 DEF SchedStep, SchedInv
<1>6. ASSUME NEW k \in Deletable, DeleteCredential(k) PROVE SchedStep
  BY <1>1, <1>6, IdleStep DEF DeleteCredential, BindingOK, SchedTypeOK
<1>7. QED
  BY <1>2, <1>3, <1>4, <1>5, <1>6 DEF Background

-----------------------------------------------------------------------------
(* The attempts a request has left.                                        *)

LEMMA TotalMonotone ==
  ASSUME NEW N \in Nat, NEW f \in [1..N -> Nat], NEW g \in [1..N -> Nat],
         \A i \in 1..N : f[i] <= g[i]
  PROVE  Total(f, N) <= Total(g, N)
<1> DEFINE d == [i \in 1..N |-> g[i] - f[i]]
<1>1. d \in [1..N -> Nat] /\ d \in [1..N -> Int]
  OBVIOUS
<1>2. f \in [1..N -> Int] /\ g \in [1..N -> Int]
  OBVIOUS
<1>3. \A i \in 1..N : g[i] = f[i] + d[i]
  OBVIOUS
<1> HIDE DEF d
<1>4. Total(g, N) = Total(f, N) + Total(d, N)
  BY <1>1, <1>2, <1>3, TotalPlus
<1>5. Total(d, N) \in Nat /\ Total(f, N) \in Nat
  BY <1>1, TotalNat
<1>6. QED
  BY <1>4, <1>5

\* A sum grows when no entry shrinks and one grows.
LEMMA TotalGrows ==
  ASSUME NEW N \in Nat, NEW f \in [1..N -> Nat], NEW g \in [1..N -> Nat],
         \A i \in 1..N : f[i] <= g[i],
         NEW k \in 1..N, f[k] + 1 <= g[k]
  PROVE  Total(f, N) + 1 <= Total(g, N)
<1> DEFINE m == [f EXCEPT ![k] = f[k] + 1]
<1>1. m \in [1..N -> Nat] /\ (\A i \in 1..N : m[i] <= g[i]) /\ m[k] = f[k] + 1
  OBVIOUS
<1>2. /\ f \in [1..N -> Int] /\ m \in [1..N -> Int]
      /\ \A i \in 1..N : i # k => m[i] = f[i]
  OBVIOUS
<1> HIDE DEF m
<1>3. Total(m, N) = Total(f, N) + (m[k] - f[k])
  BY <1>2, TotalUpdate
<1>4. Total(m, N) <= Total(g, N)
  BY <1>1, TotalMonotone
<1>5. Total(f, N) \in Int /\ f[k] \in Int
  BY <1>2, TotalType
<1>6. QED
  BY <1>1, <1>3, <1>4, <1>5

Ledgers == [Groups -> Nat]

LEMMA AllowedMonotone ==
  ASSUME NEW r \in Requests, NEW f \in Ledgers, NEW g \in Ledgers,
         \A a \in Groups : f[a] <= g[a]
  PROVE  Allowed(r, f) <= Allowed(r, g) /\ Allowed(r, f) \in Nat /\ Allowed(r, g) \in Nat
<1> DEFINE F == [a \in Groups |-> IF a \in Ordered(r) THEN f[a] ELSE 0]
           G == [a \in Groups |-> IF a \in Ordered(r) THEN g[a] ELSE 0]
<1>1. F \in [1..NumGroups -> Nat] /\ G \in [1..NumGroups -> Nat] /\ NumGroups \in Nat
  BY GroupsAssumption DEF Ledgers, Groups
<1>2. \A i \in 1..NumGroups : F[i] <= G[i]
  BY DEF Ledgers, Groups
<1>3. Allowed(r, f) = Total(F, NumGroups) /\ Allowed(r, g) = Total(G, NumGroups)
  BY DEF Allowed
<1> HIDE DEF F, G
<1>4. QED
  BY <1>1, <1>2, <1>3, TotalMonotone, TotalNat

LEMMA AllowedGrows ==
  ASSUME NEW r \in Requests, NEW f \in Ledgers, NEW g \in Ledgers,
         \A a \in Groups : f[a] <= g[a],
         NEW k \in Groups, k \in Ordered(r), f[k] + 1 <= g[k]
  PROVE  Allowed(r, f) + 1 <= Allowed(r, g)
<1> DEFINE F == [a \in Groups |-> IF a \in Ordered(r) THEN f[a] ELSE 0]
           G == [a \in Groups |-> IF a \in Ordered(r) THEN g[a] ELSE 0]
<1>1. F \in [1..NumGroups -> Nat] /\ G \in [1..NumGroups -> Nat] /\ NumGroups \in Nat
  BY GroupsAssumption DEF Ledgers, Groups
<1>2. \A i \in 1..NumGroups : F[i] <= G[i]
  BY DEF Ledgers, Groups
<1>3. Allowed(r, f) = Total(F, NumGroups) /\ Allowed(r, g) = Total(G, NumGroups)
  BY DEF Allowed
<1>4. k \in 1..NumGroups /\ F[k] + 1 <= G[k]
  BY DEF Groups
<1> HIDE DEF F, G
<1>5. QED
  BY <1>1, <1>2, <1>3, <1>4, TotalGrows

LEMMA AllowedZero ==
  ASSUME NEW r \in Requests
  PROVE  Allowed(r, [a \in Groups |-> 0]) = 0
<1> DEFINE z == [a \in Groups |-> 0]
<1>1. [a \in Groups |-> IF a \in Ordered(r) THEN z[a] ELSE 0] = z
  OBVIOUS
<1>2. Allowed(r, z) = Total([i \in 1..NumGroups |-> 0], NumGroups)
  BY <1>1 DEF Allowed, Groups
<1>3. QED
  BY <1>2, GroupsAssumption, TotalZero

-----------------------------------------------------------------------------
(* The ways a request's own step changes its row.                          *)

LoopOf(r, g) ==
  /\ \A a \in Groups : g.used[a] <= MaxAttempts[a]
  /\ g.selections <= Allowed(r, g.used)
  /\ g.tries < Retries

PlaceOf(g, a, u) ==
  /\ g.pc \in {"sending", "waiting", "streaming", "copying"} => g.key # None
  /\ g.pc = "new" => a = "none" /\ u = "none"
  /\ g.pc \in {"routing", "sending", "waiting"} => a = "none" /\ u = "reserved"
  /\ g.pc \in {"streaming", "copying"} => a = "relayed" /\ u = "reserved"
  /\ g.pc = "done" => a # "none" /\ u # "reserved"

AnswerStates == {"none", "error", "relayed"}
UsageStates == {"none", "reserved", "committed", "void"}

RequestsOK ==
  /\ req \in [Requests -> Goroutines] /\ gone \subseteq Requests
  /\ answer \in [Requests -> AnswerStates] /\ usage \in [Requests -> UsageStates]
RequestsInv ==
  RequestsOK /\ \A r \in Requests : LoopOf(r, req[r]) /\ PlaceOf(req[r], answer[r], usage[r])

Row(r, g, a, u) ==
  /\ req' = [req EXCEPT ![r] = g] /\ answer' = [answer EXCEPT ![r] = a]
  /\ usage' = [usage EXCEPT ![r] = u] /\ gone' = gone

Kept(e, g) == g.used = e.used /\ g.selections = e.selections /\ g.tries < Retries
Same(r, a, u) == a = answer[r] /\ u = usage[r]

\* The attempt is booked on an ordered group and perhaps a second one, both open.
Booked(r, e, g) ==
  \E i \in DOMAIN GroupOrder[r], h \in Groups :
    LET k == GroupOrder[r][i] IN
    /\ k \in Groups /\ Open(r, k) /\ Open(r, h)
    /\ g.used = [a \in Groups |-> IF a \in {k, h} THEN e.used[a] + 1 ELSE e.used[a]]
    /\ g.selections = e.selections + 1 /\ g.tries = e.tries

Starts(r, e, g, a, u) ==
  /\ e.pc = "new" /\ g.pc = "routing" /\ Kept(e, g) /\ a = answer[r] /\ u = "reserved"
Refuses(r, e, g, a, u) ==
  /\ e.pc = "new" /\ g = Finished /\ a = "error" /\ u = usage[r]
Routes(r, e, g, a, u) ==
  /\ e.pc = "routing" /\ g.pc = "sending" /\ g.key # None
  /\ Booked(r, e, g) /\ Same(r, a, u)
GivesUp(r, e, g, a, u) ==
  /\ e.pc \in {"routing", "sending", "waiting"} /\ g = Finished /\ a = "error" /\ u = "void"
Sends(r, e, g, a, u) ==
  /\ e.pc = "sending" /\ g.pc = "waiting" /\ g.key = e.key /\ Kept(e, g) /\ Same(r, a, u)
FallsBack(r, e, g, a, u) ==
  /\ e.pc \in {"sending", "waiting"} /\ g.pc \in {"sending", "routing"}
  /\ g.pc = "sending" => g.key = e.key
  /\ Kept(e, g) /\ Same(r, a, u)
Begins(r, e, g, a, u) ==
  /\ e.pc = "waiting" /\ g.pc \in {"streaming", "copying"} /\ g.key = e.key
  /\ Kept(e, g) /\ a = "relayed" /\ u = usage[r]
Ends(r, e, g, a, u) ==
  /\ e.pc \in {"streaming", "copying"} /\ g = Finished
  /\ a = answer[r] /\ u \in {"committed", "void"}

Walks(r, e, g, a, u) ==
  \/ Starts(r, e, g, a, u) \/ Refuses(r, e, g, a, u) \/ Routes(r, e, g, a, u)
  \/ GivesUp(r, e, g, a, u) \/ Sends(r, e, g, a, u) \/ FallsBack(r, e, g, a, u)
  \/ Begins(r, e, g, a, u) \/ Ends(r, e, g, a, u)

Step(r) ==
  \E g \in Goroutines, a \in AnswerStates, u \in UsageStates :
    Row(r, g, a, u) /\ Walks(r, req[r], g, a, u)

LEMMA IInvSplit == IInv <=> SchedInv /\ RequestsInv
BY DEF IInv, TypeOK, SchedInv, RequestsInv, RequestsOK, AnswerStates, UsageStates,
       LoopInv, LoopOf, PlaceInv, PlaceOf

LEMMA FinishedOK ==
  /\ Finished \in Goroutines /\ Finished.pc = "done" /\ Finished.tries = 0
  /\ Finished.selections = 0 /\ Finished.used = [a \in Groups |-> 0]
  /\ Finished.run = 0
  /\ Fresh \in Goroutines /\ Fresh.pc = "new" /\ Fresh.tries = 0
  /\ Fresh.selections = 0 /\ Fresh.used = [a \in Groups |-> 0]
BY DEF Finished, Fresh, Goroutines, Places

\* A goroutine that has not attempted anything is within its bounds.
LEMMA IdleLoop ==
  ASSUME NEW r \in Requests, NEW g, g.used = [a \in Groups |-> 0], g.selections = 0, g.tries = 0
  PROVE  LoopOf(r, g)
<1>1. \A a \in Groups : g.used[a] <= MaxAttempts[a]
  BY GroupsAssumption
<1>2. g.selections <= Allowed(r, g.used)
  BY AllowedZero
<1>3. g.tries < Retries
  BY RequestsAssumption
<1>4. QED
  BY <1>1, <1>2, <1>3 DEF LoopOf

LEMMA BookedLoop ==
  ASSUME NEW r \in Requests, RequestsInv, NEW g \in Goroutines, Booked(r, req[r], g)
  PROVE  LoopOf(r, g)
<1> DEFINE e == req[r]
<1>1. e \in Goroutines /\ LoopOf(r, e)
  BY DEF RequestsInv, RequestsOK
<1>2. PICK i \in DOMAIN GroupOrder[r], h \in Groups :
         LET k == GroupOrder[r][i] IN
         /\ k \in Groups /\ Open(r, k) /\ Open(r, h)
         /\ g.used = [a \in Groups |-> IF a \in {k, h} THEN e.used[a] + 1 ELSE e.used[a]]
         /\ g.selections = e.selections + 1 /\ g.tries = e.tries
  BY DEF Booked
<1> DEFINE k == GroupOrder[r][i]
           f == e.used
           f2 == g.used
<1>3. k \in Ordered(r) /\ k \in Groups
  BY <1>2 DEF Ordered
<1>4. f \in Ledgers /\ f2 \in Ledgers /\ e.selections \in Nat /\ g.selections \in Nat
  BY <1>1 DEF Goroutines, Ledgers
<1>5. f[k] < MaxAttempts[k] /\ f[h] < MaxAttempts[h]
  BY <1>2 DEF Open
<1>6. /\ \A a \in Groups : f[a] <= MaxAttempts[a]
      /\ e.selections <= Allowed(r, f) /\ e.tries < Retries
  BY <1>1 DEF LoopOf
<1>7. f2 = [a \in Groups |-> IF a \in {k, h} THEN f[a] + 1 ELSE f[a]]
      /\ g.selections = e.selections + 1 /\ g.tries = e.tries
  BY <1>2
<1> HIDE DEF e, f, f2, k
<1>8. ASSUME NEW a \in Groups PROVE f2[a] <= MaxAttempts[a] /\ f[a] <= f2[a]
  <2>1. f[a] \in Nat /\ MaxAttempts[a] \in Nat /\ f[a] <= MaxAttempts[a]
    BY <1>4, <1>6, GroupsAssumption DEF Ledgers
  <2>2. CASE a \in {k, h}
    <3>1. f[a] < MaxAttempts[a] /\ f2[a] = f[a] + 1
      BY <1>5, <1>7, <2>2
    <3>2. QED
      BY <2>1, <3>1
  <2>3. CASE a \notin {k, h}
    <3>1. f2[a] = f[a]
      BY <1>7, <2>3
    <3>2. QED
      BY <2>1, <3>1
  <2>4. QED
    BY <2>2, <2>3
<1>9. f[k] + 1 <= f2[k]
  BY <1>3, <1>4, <1>7 DEF Ledgers
<1>10. Allowed(r, f) + 1 <= Allowed(r, f2)
  BY <1>3, <1>4, <1>8, <1>9, AllowedGrows
<1>11. Allowed(r, f) \in Nat /\ Allowed(r, f2) \in Nat
  BY <1>4, <1>8, AllowedMonotone
<1>12. g.selections <= Allowed(r, f2)
  BY <1>4, <1>6, <1>7, <1>10, <1>11
<1>13. QED
  BY <1>6, <1>7, <1>8, <1>12 DEF LoopOf, f2

LEMMA WalksInv ==
  ASSUME NEW r \in Requests, RequestsInv,
         NEW g \in Goroutines, NEW a \in AnswerStates, NEW u \in UsageStates,
         Walks(r, req[r], g, a, u)
  PROVE  LoopOf(r, g) /\ PlaceOf(g, a, u)
<1> DEFINE e == req[r]
<1>1. e \in Goroutines /\ LoopOf(r, e) /\ PlaceOf(e, answer[r], usage[r])
  BY DEF RequestsInv, RequestsOK
<1>2. Walks(r, e, g, a, u)
  OBVIOUS
<1>3. Booked(r, e, g) => LoopOf(r, g)
  BY BookedLoop
<1> HIDE DEF e
<1>4. Kept(e, g) => LoopOf(r, g)
  BY <1>1 DEF Kept, LoopOf
<1>5. g = Finished => LoopOf(r, g) /\ g.pc = "done"
  BY FinishedOK, IdleLoop
<1>6. CASE Starts(r, e, g, a, u)
  BY <1>1, <1>4, <1>6 DEF Starts, PlaceOf
<1>7. CASE Refuses(r, e, g, a, u)
  BY <1>1, <1>5, <1>7 DEF Refuses, PlaceOf
<1>8. CASE Routes(r, e, g, a, u)
  BY <1>1, <1>3, <1>8 DEF Routes, Same, PlaceOf
<1>9. CASE GivesUp(r, e, g, a, u)
  BY <1>5, <1>9 DEF GivesUp, PlaceOf
<1>10. CASE Sends(r, e, g, a, u)
  BY <1>1, <1>4, <1>10 DEF Sends, Same, PlaceOf
<1>11. CASE FallsBack(r, e, g, a, u)
  BY <1>1, <1>4, <1>11 DEF FallsBack, Same, PlaceOf
<1>12. CASE Begins(r, e, g, a, u)
  BY <1>1, <1>4, <1>12 DEF Begins, PlaceOf
<1>13. CASE Ends(r, e, g, a, u)
  BY <1>1, <1>5, <1>13 DEF Ends, PlaceOf
<1>14. QED
  BY <1>2, <1>6, <1>7, <1>8, <1>9, <1>10, <1>11, <1>12, <1>13 DEF Walks

LEMMA StepInv ==
  ASSUME NEW r \in Requests, RequestsInv, Step(r)
  PROVE  RequestsInv'
<1>1. PICK g \in Goroutines, a \in AnswerStates, u \in UsageStates :
         Row(r, g, a, u) /\ Walks(r, req[r], g, a, u)
  BY DEF Step
<1>2. LoopOf(r, g) /\ PlaceOf(g, a, u)
  BY <1>1, WalksInv
<1>3. RequestsOK'
  BY <1>1 DEF RequestsInv, RequestsOK, Row
<1>4. ASSUME NEW q \in Requests
      PROVE  LoopOf(q, req'[q]) /\ PlaceOf(req'[q], answer'[q], usage'[q])
  <2>1. LoopOf(q, req[q]) /\ PlaceOf(req[q], answer[q], usage[q])
    BY DEF RequestsInv
  <2>2. CASE q = r
    <3>1. req'[q] = g /\ answer'[q] = a /\ usage'[q] = u
      BY <1>1, <2>2 DEF RequestsInv, RequestsOK, Row
    <3>2. QED
      BY <1>2, <2>2, <3>1
  <2>3. CASE q # r
    <3>1. req'[q] = req[q] /\ answer'[q] = answer[q] /\ usage'[q] = usage[q]
      BY <1>1, <2>3 DEF RequestsInv, RequestsOK, Row
    <3>2. QED
      BY <2>1, <3>1
  <2>4. QED
    BY <2>2, <2>3
<1>5. QED
  BY <1>3, <1>4 DEF RequestsInv, LoopOf, PlaceOf, Allowed

-----------------------------------------------------------------------------
(* The actions of Handler are such steps.                                  *)

\* The groups that offer a channel are open, and so is the one that was asked.
LEMMA VisitedOpen ==
  ASSUME NEW r \in Requests, NEW g \in Groups, NEW h \in Visited(r, g)
  PROVE  Open(r, g) /\ Open(r, h)
<1> DEFINE V == {a \in Groups : a = g \/ Open(r, a)}
<1>1. Open(r, g)
  BY DEF Visited
<1>2. V \in SUBSET Groups /\ g \in V
  OBVIOUS
<1>3. Closed(r, V)
  BY GroupsAssumption DEF Closed
<1>4. h \in V
  BY <1>2, <1>3 DEF Visited
<1>5. QED
  BY <1>1, <1>4

LEMMA RouteStep ==
  ASSUME NEW r \in Requests, RequestsInv, NEW o \in Offers(r), NEW h \in Groups,
         NEW k \in Credentials, Route(r, o, h, k)
  PROVE  Step(r)
<1> DEFINE e == req[r]
           c == o[2]
           q == GroupOrder[r][o[1]]
           used == [a \in Groups |-> IF a \in {q, h} THEN e.used[a] + 1 ELSE e.used[a]]
           out == e.excluded \cup {o2[2] : o2 \in {x \in Offers(r) : Earlier(r, x, o)}}
           run == IF c = e.last THEN e.run + 1 ELSE 1
           g == [e EXCEPT !.pc = "sending", !.key = k, !.selections = e.selections + 1,
                          !.used = used, !.excluded = out, !.last = c, !.run = run]
<1>1. e \in Goroutines /\ e.pc = "routing"
  BY DEF RequestsInv, RequestsOK, Route
<1>2. Offers(r) \subseteq (DOMAIN GroupOrder[r]) \X Channels
  BY DEF Offers
<1>3. o[1] \in DOMAIN GroupOrder[r] /\ c \in Channels /\ q \in Groups
  BY <1>2, GroupsAssumption
<1>4. h \in Visited(r, q)
  BY DEF Route, Sources
<1>5. Open(r, q) /\ Open(r, h)
  BY <1>3, <1>4, VisitedOpen
<1>6. g \in Goroutines
  <2>1. used \in [Groups -> Nat]
    BY <1>1 DEF Goroutines
  <2>2. out \subseteq Channels
    BY <1>1, <1>2 DEF Goroutines
  <2>3. run \in Nat /\ e.selections + 1 \in Nat
    BY <1>1 DEF Goroutines
  <2>4. c \in Nat
    BY <1>3, ChannelsAssumption
  <2> HIDE DEF used, out, run, c, e, q
  <2>5. QED
    BY <1>1, <2>1, <2>2, <2>3, <2>4 DEF Goroutines, Places
<1>7. g.pc = "sending" /\ g.key = k /\ g.used = used
      /\ g.selections = e.selections + 1 /\ g.tries = e.tries
  <2> HIDE DEF used, out, run, c, e, q
  <2>1. QED
    BY <1>1 DEF Goroutines
<1>8. Row(r, g, answer[r], usage[r])
  BY DEF Route, clients, Row, RequestsInv, RequestsOK
<1>9. Booked(r, e, g)
  BY <1>3, <1>5, <1>7 DEF Booked
<1>10. k # None
  BY ChannelsAssumption
<1> HIDE DEF e, g, c, q, used, out, run
<1>11. Routes(r, e, g, answer[r], usage[r])
  BY <1>1, <1>7, <1>9, <1>10 DEF Routes, Same
<1>12. Step(r)
  BY <1>6, <1>8, <1>11 DEF Step, Walks, RequestsInv, RequestsOK, e
<1>13. QED
  BY <1>12

\* A step with an error for an answer.
LEMMA AnswerErrorStep ==
  ASSUME NEW r \in Requests, RequestsInv, AnswerError(r),
         req[r].pc \in {"routing", "sending", "waiting"}
  PROVE  Step(r)
<1>1. Row(r, Finished, "error", "void")
  BY DEF AnswerError, Row
<1>2. GivesUp(r, req[r], Finished, "error", "void")
  BY DEF GivesUp
<1>3. QED
  BY <1>1, <1>2, FinishedOK DEF Step, Walks, AnswerStates, UsageStates

LEMMA HandlerSteps ==
  ASSUME NEW r \in Requests, RequestsInv, Handler(r)
  PROVE  Step(r)
<1> DEFINE e == req[r]
<1>1. /\ e \in Goroutines /\ answer[r] \in AnswerStates /\ usage[r] \in UsageStates
      /\ answer = [answer EXCEPT ![r] = answer[r]] /\ usage = [usage EXCEPT ![r] = usage[r]]
  BY DEF RequestsInv, RequestsOK
<1>2. e.tries < Retries /\ e.tries \in Nat /\ Retries \in Nat /\ 0 < Retries
  BY <1>1, RequestsAssumption DEF RequestsInv, LoopOf, Goroutines
<1>3. ASSUME NEW g \in Goroutines, NEW a \in AnswerStates, NEW u \in UsageStates,
             Row(r, g, a, u), Walks(r, e, g, a, u)
      PROVE  Step(r)
  BY <1>3 DEF Step
<1>4. CASE Reserve(r)
  <2> DEFINE g == [e EXCEPT !.pc = "routing"]
  <2>1. g \in Goroutines /\ g.pc = "routing" /\ Kept(e, g)
    BY <1>1, <1>2 DEF Goroutines, Places, Kept
  <2>2. Row(r, g, answer[r], "reserved")
    BY <1>1, <1>4 DEF Reserve, Row
  <2>3. Starts(r, e, g, answer[r], "reserved")
    BY <1>4, <2>1 DEF Starts, Reserve
  <2> HIDE DEF e, g
  <2>4. QED
    BY <1>1, <1>3, <2>1, <2>2, <2>3 DEF Walks, UsageStates
<1>5. CASE RefuseReserve(r)
  <2>1. Row(r, Finished, "error", usage[r])
    BY <1>1, <1>5 DEF RefuseReserve, Row
  <2>2. Refuses(r, e, Finished, "error", usage[r])
    BY <1>5 DEF Refuses, RefuseReserve
  <2> HIDE DEF e
  <2>3. QED
    BY <1>1, <1>3, <2>1, <2>2, FinishedOK DEF Walks, AnswerStates
<1>6. CASE RouteFails(r) \/ RewriteFails(r) \/ FatalStatus(r)
  BY <1>6, AnswerErrorStep DEF RouteFails, RewriteFails, FatalStatus
<1>7. CASE Send(r)
  <2> DEFINE g == [e EXCEPT !.pc = "waiting"]
  <2>1. g \in Goroutines /\ g.pc = "waiting" /\ g.key = e.key /\ Kept(e, g)
    BY <1>1, <1>2 DEF Goroutines, Places, Kept
  <2>2. Row(r, g, answer[r], usage[r])
    BY <1>1, <1>7 DEF Send, Row, clients
  <2>3. Sends(r, e, g, answer[r], usage[r])
    BY <1>7, <2>1 DEF Sends, Send, Same
  <2> HIDE DEF e, g
  <2>4. QED
    BY <1>1, <1>3, <2>1, <2>2, <2>3 DEF Walks
<1>8. CASE DoFails(r) \/ RetriableStatus(r)
  <2> DEFINE again == [e EXCEPT !.pc = "sending", !.tries = e.tries + 1]
             over == [e EXCEPT !.pc = "routing", !.key = None, !.tries = 0]
  <2>1. /\ over \in Goroutines /\ over.pc = "routing" /\ Kept(e, over)
        /\ again \in Goroutines /\ again.pc = "sending" /\ again.key = e.key
        /\ e.tries + 1 < Retries => Kept(e, again)
    <3> DEFINE n == e.tries + 1
    <3>1. n \in Nat /\ again = [e EXCEPT !.pc = "sending", !.tries = n]
      BY <1>2
    <3> HIDE DEF n, again, e
    <3>2. again \in Goroutines /\ again.pc = "sending" /\ again.key = e.key
          /\ again.used = e.used /\ again.selections = e.selections /\ again.tries = n
      BY <1>1, <3>1 DEF Goroutines, Places
    <3>3. over \in Goroutines /\ over.pc = "routing" /\ Kept(e, over)
      BY <1>1, <1>2 DEF Goroutines, Places, Kept
    <3>4. QED
      BY <3>2, <3>3 DEF Kept, n
  <2>2. e.pc \in {"sending", "waiting"} /\ UNCHANGED clients
    BY <1>8 DEF DoFails, RetriableStatus
  <2>3. \/ req' = [req EXCEPT ![r] = over]
        \/ req' = [req EXCEPT ![r] = again] /\ e.tries + 1 < Retries
    <3>1. Failover(r) => req' = [req EXCEPT ![r] = over]
      BY DEF Failover
    <3>2. CASE DoFails(r)
      BY <1>2, <3>1, <3>2 DEF DoFails, RequestsInv, RequestsOK
    <3>3. QED
      BY <1>8, <3>1, <3>2 DEF RetriableStatus
  <2> HIDE DEF e, again, over
  <2>4. CASE req' = [req EXCEPT ![r] = over]
    <3>1. Row(r, over, answer[r], usage[r])
      BY <1>1, <2>2, <2>4 DEF Row, clients
    <3>2. FallsBack(r, e, over, answer[r], usage[r])
      BY <2>1, <2>2 DEF FallsBack, Same
    <3>3. QED
      BY <1>1, <1>3, <2>1, <3>1, <3>2 DEF Walks
  <2>5. CASE req' = [req EXCEPT ![r] = again] /\ e.tries + 1 < Retries
    <3>1. Row(r, again, answer[r], usage[r])
      BY <1>1, <2>2, <2>5 DEF Row, clients
    <3>2. FallsBack(r, e, again, answer[r], usage[r])
      BY <2>1, <2>2, <2>5 DEF FallsBack, Same
    <3>3. QED
      BY <1>1, <1>3, <2>1, <3>1, <3>2 DEF Walks
  <2>6. QED
    BY <2>3, <2>4, <2>5
<1>9. CASE Respond(r)
  <2>1. PICK place \in {"streaming", "copying"} : req' = [req EXCEPT ![r].pc = place]
    BY <1>9 DEF Respond
  <2> DEFINE g == [e EXCEPT !.pc = place]
  <2>2. g \in Goroutines /\ g.pc = place /\ g.key = e.key /\ Kept(e, g)
    BY <1>1, <1>2 DEF Goroutines, Places, Kept
  <2>3. Row(r, g, "relayed", usage[r])
    BY <1>1, <1>9, <2>1 DEF Respond, Row
  <2>4. Begins(r, e, g, "relayed", usage[r])
    BY <1>9, <2>2 DEF Begins, Respond
  <2> HIDE DEF e, g
  <2>5. QED
    BY <1>1, <1>3, <2>2, <2>3, <2>4 DEF Walks, AnswerStates
<1>10. CASE StreamEnds(r) \/ CopyEnds(r) \/ CopyFails(r)
  <2>1. PICK u \in {"committed", "void"} : End(r, u)
    BY <1>10 DEF StreamEnds, CopyEnds, CopyFails
  <2>2. Row(r, Finished, answer[r], u)
    BY <1>1, <2>1 DEF End, Row
  <2>3. Ends(r, e, Finished, answer[r], u)
    BY <1>10 DEF Ends, StreamEnds, CopyEnds, CopyFails
  <2> HIDE DEF e
  <2>4. QED
    BY <1>1, <1>3, <2>2, <2>3, FinishedOK DEF Walks, UsageStates
<1>11. ASSUME NEW o \in Offers(r), NEW h \in Groups, NEW k \in Credentials, Route(r, o, h, k)
       PROVE  Step(r)
  BY <1>11, RouteStep
<1>12. QED
  BY <1>4, <1>5, <1>6, <1>7, <1>8, <1>9, <1>10, <1>11 DEF Handler

\* And what they do to the scheduler.
LEMMA HandlerSched ==
  ASSUME NEW r \in Requests, SchedInv, RequestsInv, Handler(r)
  PROVE  SchedStep
<1> DEFINE k == req[r].key
<1>1. BindingOK
  BY DEF SchedInv, SchedTypeOK, BindingOK
<1>2. UNCHANGED schedVars => SchedStep
  BY <1>1, IdleStep DEF schedVars, BindingOK, SchedInv, SchedTypeOK
<1>3. req[r].pc \in {"sending", "waiting", "streaming", "copying"} => k \in Credentials
  BY DEF RequestsInv, RequestsOK, PlaceOf, Goroutines
<1>4. Answers \subseteq Failures /\ "network" \in Failures /\ "broken" \in Failures
  BY DEF Failures
<1>5. CASE Reserve(r) \/ RefuseReserve(r) \/ RewriteFails(r) \/ Send(r) \/ Respond(r)
  BY <1>2, <1>5 DEF Reserve, RefuseReserve, RewriteFails, Send, Respond
<1>6. ASSUME NEW o \in Offers(r), NEW h \in Groups, NEW c \in Credentials, Route(r, o, h, c)
      PROVE  SchedStep
  <2>1. BindingOK'
    BY <1>1, <1>6 DEF Route, Rebound, BindingOK
  <2>2. QED
    BY <1>6, <2>1, SweepStep DEF Route
<1>7. CASE RouteFails(r)
  <2>1. UNCHANGED <<streak, fails, cooling, creds, now>>
    BY <1>7 DEF RouteFails
  <2>2. \/ SweepExpiredChannelBans /\ binding' = Rebound(r, None)
        \/ UNCHANGED <<until, probe, binding>>
    BY <1>7 DEF RouteFails
  <2>3. CASE SweepExpiredChannelBans /\ binding' = Rebound(r, None)
    <3>1. BindingOK'
      BY <1>1, <2>3 DEF Rebound, BindingOK
    <3>2. QED
      BY <2>1, <2>3, <3>1, SweepStep
  <2>4. CASE UNCHANGED <<until, probe, binding>>
    BY <1>2, <2>1, <2>4 DEF schedVars
  <2>5. QED
    BY <2>2, <2>3, <2>4
<1>8. CASE DoFails(r) \/ RetriableStatus(r) \/ FatalStatus(r) \/ CopyFails(r)
  <2>1. k \in Credentials
    BY <1>3, <1>8 DEF DoFails, RetriableStatus, FatalStatus, CopyFails
  <2>2. BindingOK'
    BY <1>1, <1>8 DEF DoFails, RetriableStatus, FatalStatus, CopyFails, BindingOK
  <2>3. ReportFatal(k) \/ \E f \in Failures : ReportRetriable(k, f)
    BY <1>4, <1>8 DEF DoFails, RetriableStatus, FatalStatus, CopyFails
  <2>4. QED
    BY <2>1, <2>2, <2>3, ReportSteps
<1>9. CASE StreamEnds(r) \/ CopyEnds(r)
  <2>1. k \in Credentials
    BY <1>3, <1>9 DEF StreamEnds, CopyEnds
  <2>2. BindingOK'
    BY <1>1, <1>9, <2>1 DEF StreamEnds, CopyEnds, TouchBinding, BindingOK
  <2>3. ReportSuccess(k) \/ ReportFatal(k) \/ \E f \in Failures : ReportRetriable(k, f)
    BY <1>4, <1>9 DEF StreamEnds, CopyEnds
  <2>4. QED
    BY <2>1, <2>2, <2>3, ReportSteps
<1>10. QED
  BY <1>5, <1>6, <1>7, <1>8, <1>9 DEF Handler

-----------------------------------------------------------------------------
(* IInv is inductive.                                                      *)

LEMMA InitIInv == Init => IInv
<1> SUFFICES ASSUME Init PROVE IInv
  OBVIOUS
<1>1. SchedInv
  BY CooldownAssumption DEF Init, SchedInit, SchedInv, SchedTypeOK, BanInv
<1>2. RequestsOK
  BY FinishedOK DEF Init, RequestsOK, AnswerStates, UsageStates
<1>3. ASSUME NEW r \in Requests
      PROVE  LoopOf(r, req[r]) /\ PlaceOf(req[r], answer[r], usage[r])
  <2>1. req[r] = Fresh /\ answer[r] = "none" /\ usage[r] = "none"
    BY DEF Init
  <2>2. LoopOf(r, Fresh)
    BY FinishedOK, IdleLoop
  <2>3. PlaceOf(Fresh, "none", "none")
    BY FinishedOK DEF PlaceOf
  <2>4. QED
    BY <2>1, <2>2, <2>3
<1>4. QED
  BY <1>1, <1>2, <1>3, IInvSplit DEF RequestsInv

\* Steps that leave the requests alone, whoever leaves.
LEMMA OthersRequests ==
  ASSUME RequestsInv, UNCHANGED <<req, answer, usage>>, gone' \subseteq Requests
  PROVE  RequestsInv'
BY DEF RequestsInv, RequestsOK, LoopOf, PlaceOf, Allowed

\* Every step keeps a ban backed and is a step of one request or of none.
LEMMA NextSteps ==
  ASSUME SchedInv, RequestsInv, [Next]_vars
  PROVE  /\ SchedStep
         /\ \/ \E r \in Requests : Handler(r) /\ Step(r)
            \/ UNCHANGED <<req, answer, usage>> /\ gone' \subseteq Requests
<1>1. UNCHANGED schedVars => SchedStep
  BY IdleStep DEF schedVars, BindingOK, SchedInv, SchedTypeOK
<1>2. ASSUME NEW r \in Requests, Handler(r) PROVE SchedStep /\ Step(r)
  BY <1>2, HandlerSched, HandlerSteps
<1>3. ASSUME NEW r \in Requests, Disconnect(r)
      PROVE  SchedStep /\ UNCHANGED <<req, answer, usage>> /\ gone' \subseteq Requests
  BY <1>1, <1>3 DEF Disconnect, RequestsInv, RequestsOK
<1>4. CASE Background /\ UNCHANGED <<req, clients>>
  BY <1>4, BackgroundStep DEF clients, RequestsInv, RequestsOK
<1>5. CASE UNCHANGED vars
  BY <1>1, <1>5 DEF vars, RequestsInv, RequestsOK
<1>6. QED
  BY <1>2, <1>3, <1>4, <1>5 DEF Next

LEMMA NextIInv == IInv /\ [Next]_vars => IInv'
<1> SUFFICES ASSUME IInv, [Next]_vars PROVE IInv'
  OBVIOUS
<1>1. SchedInv /\ RequestsInv
  BY IInvSplit
<1>2. SchedInv'
  BY <1>1, NextSteps DEF SchedStep
<1>3. RequestsInv'
  BY <1>1, NextSteps, StepInv, OthersRequests
<1>4. QED
  BY <1>2, <1>3, IInvSplit, PTL

-----------------------------------------------------------------------------
(* The third turn to one channel.                                          *)

\* What is visited from a visited group is visited.
LEMMA VisitedTransitive ==
  ASSUME NEW r \in Requests, NEW g \in Groups, NEW h \in Visited(r, g)
  PROVE  Candidates(r, h) \subseteq Candidates(r, g)
<1>1. Open(r, g)
  BY DEF Visited
<1>2. ASSUME NEW y \in Visited(r, h) PROVE y \in Visited(r, g)
  <2>1. ASSUME NEW V \in SUBSET Groups, g \in V, Closed(r, V) PROVE y \in V
    <3>1. h \in V
      BY <2>1 DEF Visited
    <3>2. QED
      BY <2>1, <3>1 DEF Visited
  <2>2. y \in Groups
    BY DEF Visited
  <2>3. QED
    BY <1>1, <2>1, <2>2 DEF Visited
<1>3. QED
  BY <1>2 DEF Candidates

\* A deferred channel is behind every other channel its group offers.
LEMMA DeferredIsLast ==
  ASSUME NEW r \in Requests, NEW o \in Offers(r), Deferred(r, o[2]),
         NEW x \in Candidates(r, GroupOrder[r][o[1]]), x \in Channels, x # o[2]
  PROVE  <<o[1], x>> \in Offers(r) /\ Earlier(r, <<o[1], x>>, o)
<1> DEFINE g == GroupOrder[r][o[1]]
           a == SortKey(r, g, x)
           b == SortKey(r, g, o[2])
           p == <<o[1], x>>
<1>1. o[1] \in DOMAIN GroupOrder[r]
  BY DEF Offers
<1>2. p[1] = o[1] /\ p[2] = x
  OBVIOUS
<1>3. p \in Offers(r)
  BY <1>1 DEF Offers
<1>4. ~Deferred(r, x)
  BY DEF Deferred
<1>5. a[1] = 0 /\ b[1] = 1 /\ 1 \in DOMAIN a
  BY <1>4 DEF SortKey
<1> HIDE DEF a, b, p
<1>6. Less(a, b)
  <2>1. a[1] < b[1] /\ \A j \in 1..(1 - 1) : a[j] = b[j]
    BY <1>5
  <2>2. QED
    BY <1>5, <2>1 DEF Less
<1>7. Earlier(r, p, o)
  BY <1>2, <1>6 DEF Earlier, a, b
<1>8. QED
  BY <1>3, <1>7 DEF p

\* SwitchesAfterTwo, for one request and one step.
Switched(r) ==
  \A i \in DOMAIN GroupOrder[r] :
         /\ req'[r].run > MaxConsecutiveSameChannel
         /\ req'[r].selections > req[r].selections
         /\ req'[r].used[GroupOrder[r][i]] > req[r].used[GroupOrder[r][i]]
         => Candidates(r, GroupOrder[r][i]) \subseteq req'[r].excluded \cup {req'[r].last}

LEMMA RouteSwitches ==
  ASSUME NEW r \in Requests, RequestsInv, NEW o \in Offers(r), NEW h \in Groups,
         NEW k \in Credentials, Route(r, o, h, k)
  PROVE  Switched(r)
<1> DEFINE e == req[r]
           c == o[2]
           q == GroupOrder[r][o[1]]
           used == [a \in Groups |-> IF a \in {q, h} THEN e.used[a] + 1 ELSE e.used[a]]
           out == e.excluded \cup {o2[2] : o2 \in {x \in Offers(r) : Earlier(r, x, o)}}
           run == IF c = e.last THEN e.run + 1 ELSE 1
           g == [e EXCEPT !.pc = "sending", !.key = k, !.selections = e.selections + 1,
                          !.used = used, !.excluded = out, !.last = c, !.run = run]
<1>1. e \in Goroutines /\ req \in [Requests -> Goroutines]
  BY DEF RequestsInv, RequestsOK
<1>2. req'[r] = g
  BY <1>1 DEF Route
<1>3. g.used = used /\ g.excluded = out /\ g.last = c /\ g.run = run
  <2> HIDE DEF used, out, run, c, e, q
  <2>1. QED
    BY <1>1 DEF Goroutines
<1>4. o[1] \in DOMAIN GroupOrder[r] /\ c \in Channels /\ q \in Groups
  BY GroupsAssumption DEF Offers
<1>5. h \in Visited(r, q)
  BY DEF Route, Sources
<1> SUFFICES ASSUME NEW i \in DOMAIN GroupOrder[r],
                    run > MaxConsecutiveSameChannel,
                    used[GroupOrder[r][i]] > e.used[GroupOrder[r][i]],
                    NEW x \in Candidates(r, GroupOrder[r][i]), x # c
             PROVE  x \in out
  <2> HIDE DEF used, out, run, c, e, q, g
  <2>1. QED
    BY <1>2, <1>3 DEF Switched, e
<1>6. GroupOrder[r][i] \in {q, h}
  <2>1. GroupOrder[r][i] \in Groups
    BY GroupsAssumption
  <2>2. e.used[GroupOrder[r][i]] \in Nat
    BY <1>1, <2>1 DEF Goroutines
  <2>3. QED
    BY <2>1, <2>2
<1>7. Deferred(r, c)
  BY <1>1 DEF Deferred, Goroutines, MaxConsecutiveSameChannel
<1>8. x \in Candidates(r, q)
  BY <1>4, <1>5, <1>6, VisitedTransitive
<1>9. x \in Channels
  BY <1>8, GroupsAssumption DEF Candidates, Visited
<1>10. <<o[1], x>> \in Offers(r) /\ Earlier(r, <<o[1], x>>, o)
  BY <1>7, <1>8, <1>9, DeferredIsLast
<1>11. QED
  BY <1>10

LEMMA StepSwitches ==
  ASSUME NEW r \in Requests, RequestsInv, NEW q \in Requests, Handler(q)
  PROVE  Switched(r)
<1>1. Step(q)
  BY HandlerSteps
<1>2. PICK g \in Goroutines, a \in AnswerStates, u \in UsageStates :
         Row(q, g, a, u) /\ Walks(q, req[q], g, a, u)
  BY <1>1 DEF Step
<1>3. req \in [Requests -> Goroutines] /\ req' = [req EXCEPT ![q] = g]
  BY <1>2 DEF RequestsInv, RequestsOK, Row
<1>4. CASE q # r
  <2>1. req'[r] = req[r] /\ req[r].selections \in Nat
    BY <1>3, <1>4 DEF Goroutines
  <2>2. ~(req'[r].selections > req[r].selections)
    BY <2>1
  <2>3. QED
    BY <2>2 DEF Switched
<1>5. CASE q = r /\ req'[r].selections <= req[r].selections
  <2>1. req'[r].selections \in Nat /\ req[r].selections \in Nat
    BY <1>3 DEF Goroutines
  <2>2. ~(req'[r].selections > req[r].selections)
    BY <1>5, <2>1
  <2>3. QED
    BY <2>2 DEF Switched
<1>6. CASE q = r /\ \E o \in Offers(r) : \E h \in Groups, k \in Credentials : Route(r, o, h, k)
  BY <1>6, RouteSwitches
<1>7. req'[q].selections <= req[q].selections
      \/ \E o \in Offers(q) : \E h \in Groups, k \in Credentials : Route(q, o, h, k)
  <2> DEFINE e == req[q]
  <2>1. req'[q] = g /\ e \in Goroutines /\ e.selections \in Nat
    BY <1>3 DEF Goroutines
  <2>2. Walks(q, e, g, a, u)
    BY <1>2
  <2>3. CASE g = Finished \/ Kept(e, g)
    BY <2>1, <2>3, FinishedOK DEF Kept
  <2>4. CASE Routes(q, e, g, a, u)
    <3>1. req[q].pc = "routing" /\ req'[q].pc = "sending"
      BY <2>1, <2>4 DEF Routes
    <3>2. ~AnswerError(q)
      BY <1>3, <3>1, FinishedOK DEF AnswerError
    <3>3. QED
      BY <3>1, <3>2 DEF Handler, Reserve, RefuseReserve, RouteFails, RewriteFails, Send, DoFails,
         RetriableStatus, FatalStatus, Respond, StreamEnds, CopyEnds, CopyFails
  <2> HIDE DEF e
  <2>5. QED
    BY <2>2, <2>3, <2>4
       DEF Walks, Starts, Refuses, GivesUp, Sends, FallsBack, Begins, Ends
<1>8. QED
  BY <1>4, <1>5, <1>6, <1>7

-----------------------------------------------------------------------------
(* Relay's steps are Answer's.                                             *)

Asking(g) == g.pc \in {"waiting", "streaming", "copying"}
Asked == [q \in Requests |-> req[q].pc \in {"waiting", "streaming", "copying"}]

\* What a step of one row does to asked.
LEMMA AskedChange ==
  ASSUME NEW r \in Requests, NEW g, req \in [Requests -> Goroutines],
         req' = [req EXCEPT ![r] = g], NEW b \in BOOLEAN, b = Asking(g)
  PROVE  Asked' = [Asked EXCEPT ![r] = b]
<1>1. \A q \in Requests : req'[q] = IF q = r THEN g ELSE req[q]
  OBVIOUS
<1>2. ASSUME NEW q \in Requests PROVE Asked'[q] = [Asked EXCEPT ![r] = b][q]
  <2>1. CASE q = r
    BY <1>1, <2>1 DEF Asked, Asking
  <2>2. CASE q # r
    BY <1>1, <2>2 DEF Asked
  <2>3. QED
    BY <2>1, <2>2
<1>3. QED
  BY <1>2 DEF Asked

LEMMA StepAnswers ==
  ASSUME NEW r \in Requests, RequestsInv, Step(r)
  PROVE  [A!Next]_(A!vars)
<1>1. PICK g \in Goroutines, a \in AnswerStates, u \in UsageStates :
         Row(r, g, a, u) /\ Walks(r, req[r], g, a, u)
  BY DEF Step
<1> DEFINE e == req[r]
<1>2. /\ req' = [req EXCEPT ![r] = g] /\ answer' = [answer EXCEPT ![r] = a]
      /\ usage' = [usage EXCEPT ![r] = u] /\ Walks(r, e, g, a, u)
  BY <1>1 DEF Row
<1>3. /\ req \in [Requests -> Goroutines] /\ answer \in [Requests -> AnswerStates]
      /\ usage \in [Requests -> UsageStates] /\ PlaceOf(e, answer[r], usage[r])
  BY DEF RequestsInv, RequestsOK
<1>4. (Asking(g) => Asked' = [Asked EXCEPT ![r] = TRUE])
      /\ (~Asking(g) => Asked' = [Asked EXCEPT ![r] = FALSE])
  <2>1. (Asking(g) => TRUE = Asking(g)) /\ (~Asking(g) => FALSE = Asking(g))
    BY DEF Asking
  <2>2. QED
    BY <1>2, <1>3, <2>1, AskedChange
<1>5. Asked[r] = (e.pc \in {"waiting", "streaming", "copying"})
  BY DEF Asked
<1>6. (a = answer[r] => answer' = answer) /\ (u = usage[r] => usage' = usage)
  BY <1>2, <1>3
<1>7. (Asked[r] /\ Asking(g) => Asked' = Asked) /\ (~Asked[r] /\ ~Asking(g) => Asked' = Asked)
  <2>1. Asked = [q \in Requests |-> Asked[q]]
    BY DEF Asked
  <2>2. (Asked[r] => Asked[r] = TRUE) /\ (~Asked[r] => Asked[r] = FALSE)
    BY <1>5
  <2>3. Asked = [Asked EXCEPT ![r] = Asked[r]]
    BY <2>1
  <2>4. QED
    BY <1>4, <2>2, <2>3
<1> HIDE DEF e
<1>8. CASE Starts(r, e, g, a, u)
  <2>1. A!Reserve(r)
    BY <1>2, <1>3, <1>5, <1>6, <1>7, <1>8 DEF A!Reserve, Starts, PlaceOf, Asking, Asked
  <2>2. QED
    BY <2>1 DEF A!Next
<1>9. CASE Refuses(r, e, g, a, u)
  <2>1. A!Refuse(r)
    BY <1>2, <1>3, <1>5, <1>6, <1>7, <1>9, FinishedOK DEF A!Refuse, Refuses, PlaceOf, Asking, Asked
  <2>2. QED
    BY <2>1 DEF A!Next
<1>10. CASE GivesUp(r, e, g, a, u)
  <2>1. A!GiveUp(r)
    BY <1>2, <1>3, <1>4, <1>10, FinishedOK DEF A!GiveUp, GivesUp, PlaceOf, Asking, Asked
  <2>2. QED
    BY <2>1 DEF A!Next
<1>11. CASE Sends(r, e, g, a, u)
  <2>1. A!Ask(r)
    BY <1>2, <1>3, <1>4, <1>5, <1>6, <1>11 DEF A!Ask, Sends, Same, PlaceOf, Asking, Asked
  <2>2. QED
    BY <2>1 DEF A!Next
<1>12. CASE FallsBack(r, e, g, a, u) /\ Asked[r]
  <2>1. A!Fail(r)
    BY <1>2, <1>3, <1>4, <1>6, <1>12 DEF A!Fail, FallsBack, Same, PlaceOf, Asking, Asked
  <2>2. QED
    BY <2>1 DEF A!Next
<1>13. CASE Routes(r, e, g, a, u) \/ (FallsBack(r, e, g, a, u) /\ ~Asked[r])
  <2>1. UNCHANGED <<answer, usage>> /\ Asked' = Asked
    BY <1>5, <1>6, <1>7, <1>13 DEF Routes, FallsBack, Same, Asking
  <2>2. QED
    BY <2>1 DEF A!vars, Asked
<1>14. CASE Begins(r, e, g, a, u)
  <2>1. A!Begin(r)
    BY <1>2, <1>3, <1>5, <1>6, <1>7, <1>14 DEF A!Begin, Begins, PlaceOf, Asking, Asked
  <2>2. QED
    BY <2>1 DEF A!Next
<1>15. CASE Ends(r, e, g, a, u)
  <2>1. A!End(r)
    BY <1>2, <1>3, <1>4, <1>5, <1>6, <1>15, FinishedOK DEF A!End, Ends, PlaceOf, Asking, Asked
  <2>2. QED
    BY <2>1 DEF A!Next
<1>16. QED
  BY <1>2, <1>8, <1>9, <1>10, <1>11, <1>12, <1>13, <1>14, <1>15 DEF Walks

LEMMA InitAnswers == Init => A!Init
<1> SUFFICES ASSUME Init PROVE A!Init
  OBVIOUS
<1>1. \A r \in Requests : req[r].pc = "new"
  BY FinishedOK DEF Init
<1>2. [r \in Requests |-> req[r].pc \in {"waiting", "streaming", "copying"}]
        = [r \in Requests |-> FALSE]
  <2>1. ASSUME NEW r \in Requests
        PROVE  (req[r].pc \in {"waiting", "streaming", "copying"}) = FALSE
    BY <1>1
  <2>2. QED
    BY <2>1, Zenon
<1>3. QED
  BY <1>2 DEF Init, A!Init

-----------------------------------------------------------------------------
(* The theorems.                                                           *)

\* In every reachable state bans are backed by streaks, turns by attempts, and
\* answers and reservations are what the goroutine's place says (state.go,
\* group_router.go, handler.go).
THEOREM Inductive == Spec => []IInv
BY InitIInv, NextIInv, PTL DEF Spec

\* The loop of proxyJSON turns at most as often as the groups a request may use
\* allow attempts, however groups are nested, in cycles too.
THEOREM FailoverEnds == Spec => []AttemptsBounded
<1>1. IInv => AttemptsBounded
  <2> SUFFICES ASSUME IInv, NEW r \in Requests
               PROVE  req[r].selections <= Allowed(r, MaxAttempts) /\ req[r].tries < Retries
    BY DEF AttemptsBounded
  <2>1. req[r] \in Goroutines /\ LoopOf(r, req[r])
    BY IInvSplit DEF RequestsInv, RequestsOK
  <2> DEFINE used == req[r].used
  <2>2. used \in Ledgers /\ MaxAttempts \in Ledgers /\ req[r].selections \in Nat
    BY <2>1, GroupsAssumption DEF Goroutines, Ledgers
  <2>3. /\ \A a \in Groups : used[a] <= MaxAttempts[a]
        /\ req[r].selections <= Allowed(r, used) /\ req[r].tries < Retries
    BY <2>1 DEF LoopOf
  <2> HIDE DEF used
  <2>4. /\ Allowed(r, used) <= Allowed(r, MaxAttempts)
        /\ Allowed(r, used) \in Nat /\ Allowed(r, MaxAttempts) \in Nat
    BY <2>2, <2>3, AllowedMonotone
  <2>5. QED
    BY <2>2, <2>3, <2>4
<1>2. QED
  BY <1>1, Inductive, PTL

\* Reports of overlapping requests never shorten a ban; only a success, an
\* administrator or its end lifts it (BanChannel, ClearChannelBan).
THEOREM BansEnd == Spec => BansEndProperly
<1> DEFINE Proper == \A c \in Channels : until'[c] < until[c] =>
                       /\ until'[c] = 0
                       /\ \/ streak'[c] = 0 /\ c \notin probe'
                          \/ c \in Expired /\ c \in probe'
<1>1. IInv /\ [Next]_vars => [Proper]_vars
  BY IInvSplit, NextSteps DEF SchedStep, ProperEnd
<1>2. QED
  BY <1>1, Inductive, PTL DEF Spec, BansEndProperly

\* A request turns to a channel for a third time in a row only when the groups it
\* books the turn on have nothing else to offer (nextFromGroup).
THEOREM SwitchesChannel == Spec => SwitchesAfterTwo
<1> DEFINE All == \A r \in Requests : Switched(r)
<1>1. IInv /\ [Next]_vars => [All]_vars
  <2> SUFFICES ASSUME IInv, Next PROVE All
    OBVIOUS
  <2>1. RequestsInv
    BY IInvSplit
  <2>2. ASSUME NEW q \in Requests, Handler(q) PROVE All
    BY <2>1, <2>2, StepSwitches
  <2>3. CASE req' = req
    <3>1. ASSUME NEW r \in Requests PROVE ~(req'[r].selections > req[r].selections)
      BY <2>1, <2>3 DEF RequestsInv, RequestsOK, Goroutines
    <3>2. QED
      BY <3>1 DEF Switched
  <2> HIDE DEF All
  <2>4. QED
    BY <2>2, <2>3 DEF Next, Disconnect
<1>2. QED
  BY <1>1, Inductive, PTL DEF Spec, SwitchesAfterTwo, Switched

\* Every behaviour of Relay is one of Answer: a request is answered once, is not
\* retried once its answer has begun, and is settled once (proxyOnce).
THEOREM RelayImplementsAnswer == Spec => ImplementsAnswer
<1>1. IInv /\ [Next]_vars => [A!Next]_(A!vars)
  <2> SUFFICES ASSUME IInv, [Next]_vars PROVE [A!Next]_(A!vars)
    OBVIOUS
  <2>1. SchedInv /\ RequestsInv
    BY IInvSplit
  <2>2. CASE UNCHANGED <<req, answer, usage>>
    BY <2>2 DEF A!vars
  <2>3. ASSUME NEW r \in Requests, Step(r) PROVE [A!Next]_(A!vars)
    BY <2>1, <2>3, StepAnswers
  <2>4. QED
    BY <2>1, <2>2, <2>3, NextSteps
<1>2. QED
  BY <1>1, InitAnswers, Inductive, PTL DEF Spec, A!Spec, ImplementsAnswer

=============================================================================
