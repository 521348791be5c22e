------------------------------ MODULE Scheduler ------------------------------
(***************************************************************************)
(* The scheduler's memory of how the upstream channels behave: bans, the   *)
(* streaks behind them, probes, fail scores, cooldowns of credentials and  *)
(* sticky bindings.                                                        *)
(*                                                                         *)
(*   internal/scheduler/state.go            (the maps, one mutex)          *)
(*   internal/scheduler/scheduler.go        (Report, selectCredential)     *)
(*   internal/scheduler/runtime_stats.go    (what the console reads)       *)
(*                                                                         *)
(* The state is in memory, of one process, and shared by all its requests. *)
(* A report of a request's outcome is one action.                          *)
(***************************************************************************)
EXTENDS Integers

CONSTANTS
    Channels,        \* upstream channels, by id
    Credentials,     \* their keys and accounts
    ChannelOf,       \* ChannelOf[k]: the channel of credential k
    AutoBan,         \* the channels with auto_ban
    Base,            \* cooldownBase
    LongCooldown,    \* until the resets_at of an exhausted account
    MaxBan,          \* a ban ends within ten minutes
    MaxStreak,       \* 20
    Deletable,       \* the credentials an administrator may delete
    Sessions,        \* route key hashes
    Horizon          \* bound of the clock

None == "none"

ASSUME ChannelsAssumption ==
    /\ Channels \subseteq Nat \ {0}
    /\ ChannelOf \in [Credentials -> Channels]
    /\ Deletable \subseteq Credentials /\ None \notin Credentials
ASSUME CooldownAssumption ==
    /\ Base \in Nat \ {0} /\ MaxBan \in Nat \ {0}
    /\ LongCooldown \in Nat /\ LongCooldown >= 2 * Base
    /\ MaxStreak \in Nat /\ MaxStreak >= 2
    /\ Horizon \in Nat

VARIABLES
    until,     \* channelBanUntil; 0 when there is no ban
    streak,    \* channelBanStreak
    probe,     \* the channels in channelProbeDueAt
    fails,     \* channelFails
    cooling,   \* credentialCooldown; in the past when there is none
    binding,   \* the credential a session is bound to
    creds,     \* the credentials that exist
    now        \* the clock, which starts at 1

schedVars == <<until, streak, probe, fails, cooling, binding, creds, now>>

SchedTypeOK ==
    /\ until \in [Channels -> Nat]
    /\ streak \in [Channels -> 0..MaxStreak]
    /\ probe \subseteq Channels
    /\ fails \in [Channels -> Nat]
    /\ cooling \in [Credentials -> Nat]
    /\ binding \in [Sessions -> Credentials \cup {None}]
    /\ creds \subseteq Credentials
    /\ now \in Nat \ {0}

SchedInit ==
    /\ until = [c \in Channels |-> 0]
    /\ streak = [c \in Channels |-> 0]
    /\ probe = {}
    /\ fails = [c \in Channels |-> 0]
    /\ cooling = [k \in Credentials |-> 0]
    /\ binding = [s \in Sessions |-> None]
    /\ creds = Credentials
    /\ now = 1

Banned(c) == until[c] >= now
Expired == {c \in Channels : until[c] # 0 /\ now > until[c]}
Cooling(k) == cooling[k] >= now

\* selectCredential: any of the least used keys, which the model does not count.
\* (Accounts also keep a long cooldown in their rows, which is left out.)
Eligible(c) ==
    {k \in creds : ChannelOf[k] = c /\ ~Banned(c) /\ ~Cooling(k)}

\* A binding is honoured if its channel is in good standing.  Whether the
\* credential still exists is not looked at.
Honoured(s, c) ==
    /\ binding[s] # None /\ ChannelOf[binding[s]] = c
    /\ ~Banned(c) /\ ~Cooling(binding[s]) /\ fails[c] = 0

-----------------------------------------------------------------------------
(* Report: the outcome of an attempt with credential k.                    *)

\* The ways an attempt fails so that another credential or channel may do
\* better: no answer (network) or one that breaks off (broken); 429
\* (throttled); 401, 402, 403, 408 or 5xx (refused); 404 or 405 (misplaced);
\* an account whose limit is used up (exhausted).
Answers == {"throttled", "refused", "misplaced", "exhausted"}
Failures == Answers \cup {"network", "broken"}

Cooldown(f) ==
    CASE f = "throttled" -> 2 * Base
      [] f = "exhausted" -> LongCooldown
      [] OTHER -> Base

\* shouldBanChannelImmediately
Immediate == {"network", "broken", "misplaced"}

\* Mutant: the ten minutes are forgotten.
ProlongedAtWill(c, n, f) == (IF until[c] > now THEN until[c] ELSE now) + Cooldown(f) * n

\* The end of a ban that starts, or is prolonged, now.
Prolonged(c, n, f) ==
    LET start == IF until[c] > now THEN until[c] ELSE now
        end == start + Cooldown(f) * n
    IN  IF end > now + MaxBan THEN now + MaxBan ELSE end

ReportSuccess(k) ==
    LET c == ChannelOf[k] IN
    /\ until' = [until EXCEPT ![c] = 0]
    /\ streak' = [streak EXCEPT ![c] = 0]
    /\ probe' = probe \ {c}
    /\ fails' = [fails EXCEPT ![c] = 0]
    /\ UNCHANGED <<cooling, creds, now>>

\* A failure no other channel would mend.
ReportFatal(k) ==
    LET c == ChannelOf[k] IN
    /\ probe' = probe \ {c}
    /\ fails' = [fails EXCEPT ![c] = @ + 1]
    /\ UNCHANGED <<until, streak, cooling, creds, now>>

\* BanChannel, BanChannelImmediate: the first failure of a streak bans only if
\* it is of the immediate kind.
Ban(c, f) ==
    LET n == IF streak[c] < MaxStreak THEN streak[c] + 1 ELSE MaxStreak IN
    /\ streak' = [streak EXCEPT ![c] = n]
    /\ until' = [until EXCEPT ![c] =
                   IF n < 2 /\ f \notin Immediate THEN 0 ELSE Prolonged(c, n, f)]

ReportRetriable(k, f) ==
    LET c == ChannelOf[k] IN
    /\ probe' = probe \ {c}
    /\ fails' = [fails EXCEPT ![c] = @ + 1]
    /\ cooling' = [cooling EXCEPT ![k] = now + Cooldown(f)]
    /\ IF c \in AutoBan /\ f # "exhausted" THEN Ban(c, f)
                                           ELSE UNCHANGED <<until, streak>>
    /\ UNCHANGED <<creds, now>>

-----------------------------------------------------------------------------
(* What else changes this state.                                           *)

\* SweepExpiredChannelBans: what a request does before it selects.
SweepExpiredChannelBans ==
    /\ until' = [c \in Channels |-> IF c \in Expired THEN 0 ELSE until[c]]
    /\ probe' = probe \cup Expired

\* The sweeper's tick.  Expired cooldowns, which it deletes, have no effect;
\* the bindings it deletes are those of ExpireBinding.
Sweep ==
    /\ Expired # {}
    /\ SweepExpiredChannelBans
    /\ UNCHANGED <<streak, fails, cooling, binding, creds, now>>

ExpireBinding(s) ==
    /\ binding[s] # None
    /\ binding' = [binding EXCEPT ![s] = None]
    /\ UNCHANGED <<until, streak, probe, fails, cooling, creds, now>>

\* An administrator points a group at the channel.
ClearChannelBan(c) ==
    /\ until' = [until EXCEPT ![c] = 0]
    /\ streak' = [streak EXCEPT ![c] = 0]
    /\ probe' = probe \ {c}
    /\ UNCHANGED <<fails, cooling, binding, creds, now>>

\* Mutant: looking at a channel forgets its streak and leaves it banned.
StatsForgetStreak(c) ==
    /\ until[c] # 0
    /\ streak' = [streak EXCEPT ![c] = 0]
    /\ UNCHANGED <<until, probe, fails, cooling, binding, creds, now>>

\* The console shows the channel: if its ban has expired, the streak goes too.
RuntimeChannelStats(c) ==
    /\ c \in Expired
    /\ until' = [until EXCEPT ![c] = 0]
    /\ streak' = [streak EXCEPT ![c] = 0]
    /\ probe' = probe \cup {c}
    /\ UNCHANGED <<fails, cooling, binding, creds, now>>

\* An administrator deletes a credential; bindings to it stay.
DeleteCredential(k) ==
    /\ k \in creds
    /\ creds' = creds \ {k}
    /\ UNCHANGED <<until, streak, probe, fails, cooling, binding, now>>

Tick ==
    /\ now < Horizon
    /\ now' = now + 1
    /\ UNCHANGED <<until, streak, probe, fails, cooling, binding, creds>>

Background ==
    \/ Sweep \/ Tick
    \/ \E s \in Sessions : ExpireBinding(s)
    \/ \E c \in Channels : ClearChannelBan(c) \/ RuntimeChannelStats(c)
    \/ \E k \in Deletable : DeleteCredential(k)

=============================================================================
