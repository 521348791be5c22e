------------------------------- MODULE Caches -------------------------------
(***************************************************************************)
(* What the data plane remembers of the catalog: each instance keeps the   *)
(* tokens it has authenticated and, when REALMS_UPSTREAM_SNAPSHOT_TTL_     *)
(* MILLIS is set, the lists of channels, endpoints and credentials.        *)
(*                                                                         *)
(*   internal/store/token_auth_cache.go, store.go, cache_invalidation.go   *)
(*   internal/scheduler/cached_upstream_store.go                           *)
(*   internal/server/app.go (cacheInvalidationPollerLoop)                  *)
(*   internal/middleware/token_auth.go                                     *)
(*                                                                         *)
(* A request that misses takes the time, reads the database without the    *)
(* cache's lock, and stores what it read good until that time plus the     *)
(* TTL: a purge in between is undone.  Time is counted in ticks.           *)
(***************************************************************************)
EXTENDS Catalog

CONSTANTS
    Requests,  \* requests of the data plane
    AuthTTL, SnapTTL,
    MaxLate    \* ticks between a request's miss and its store (a bound)

ASSUME TTLAssumption == AuthTTL \in Nat \ {0} /\ SnapTTL \in Nat \ {0}

VARIABLES
    fetch,   \* where each request is that has missed a cache
    lapsed   \* history: ticks since a fact of the catalog ceased to hold

cacheVars == <<caches, fetch, lapsed>>
tables == <<groupTables, channelTables, pointers, grants, work>>

NoFetch == [op |-> "idle", on |-> None, secret |-> 0, key |-> None, late |-> 0,
            token |-> None, found |-> {}]
Fetching(r, op) == fetch[r].op = op
Ends(r) == fetch' = [fetch EXCEPT ![r] = NoFetch]

-----------------------------------------------------------------------------
(* The facts a cache repeats.                                              *)

\* The rows a list holds that can be chosen.
Selectable == {c \in ChannelIds : channels[c].live /\ channels[c].on}
EndpointOf(c) == {c} \cap endpoints
CredsOf(c) == {x \in creds : x.channel = c}
Rows(k) ==
    CASE k[1] = "channels" -> Selectable
      [] k[1] = "endpoints" -> EndpointOf(k[2])
      [] k[1] = "creds" -> CredsOf(k[2])
\* The join of GetTokenAuthByTokenHash.
InForce(t, n) == tokens[t] = [state |-> "on", secret |-> n] /\ users[OwnerOf[t]].state = "on"

Facts ==
    {<<"secret", n>> : n \in Secrets} \cup {<<"group", <<t, g>>>> : t \in Tokens, g \in Names}
    \cup {<<"channels", c>> : c \in ChannelIds} \cup {<<"endpoints", c>> : c \in ChannelIds}
    \cup {<<"creds", x>> : x \in CredRows}
Holds(f) ==
    CASE f[1] = "secret" -> \E t \in Tokens : InForce(t, f[2])
      [] f[1] = "group" -> f[2][2] \in Effective(f[2][1])
      [] f[1] = "channels" -> f[2] \in Selectable
      [] f[1] = "endpoints" -> f[2] \in endpoints
      [] f[1] = "creds" -> f[2] \in creds
Oldest == AuthTTL + SnapTTL + 1
Longer(n) == IF n < Oldest THEN n + 1 ELSE n

-----------------------------------------------------------------------------
(* Token authentication.                                                   *)

\* The cache is asked first; a hit changes nothing here.
MissAuth(r, i, n) ==
    /\ Fetching(r, "idle") /\ auth[i][n].left = 0
    /\ fetch' = [fetch EXCEPT ![r] = [NoFetch EXCEPT !.op = "token", !.on = i, !.secret = n]]
    /\ UNCHANGED <<tables, caches>>
\* A secret that is not in force is answered 401 and not remembered.
ReadToken(r) ==
    LET w == fetch[r]
    IN  /\ Fetching(r, "token")
        /\ \/ \E t \in Tokens :
                /\ InForce(t, w.secret)
                /\ fetch' = [fetch EXCEPT ![r] = [w EXCEPT !.op = "groups", !.token = t]]
           \/ ~(\E t \in Tokens : InForce(t, w.secret)) /\ Ends(r)
        /\ UNCHANGED <<tables, caches>>
\* The error of this read is dropped: the token is remembered without groups.
ReadGroups(r) ==
    LET w == fetch[r]
    IN  /\ Fetching(r, "groups")
        /\ \E gs \in {Effective(w.token), {}} :
            fetch' = [fetch EXCEPT ![r] = [w EXCEPT !.op = "auth", !.found = gs]]
        /\ UNCHANGED <<tables, caches>>

\* A time left of what was asked `late` ticks ago.
Remaining(ttl, late) == IF ttl > late THEN ttl - late ELSE 0

\* A StoreAuth with the time taken when the entry is stored.
StoreAuthFromNow(r) ==
    LET w == fetch[r]
    IN  /\ Fetching(r, "auth") /\ Ends(r)
        /\ auth' = [auth EXCEPT ![w.on][w.secret] =
                [left |-> AuthTTL + 1, token |-> w.token, groups |-> w.found]]
        /\ UNCHANGED <<tables, snap, pending>>

\* The entry is served up to and with the tick it expires in.
StoreAuth(r) ==
    LET w == fetch[r]  left == Remaining(AuthTTL + 1, w.late)
    IN  /\ Fetching(r, "auth") /\ Ends(r)
        /\ auth' = [auth EXCEPT ![w.on][w.secret] =
                IF left = 0 THEN NoAuth ELSE [left |-> left, token |-> w.token, groups |-> w.found]]
        /\ UNCHANGED <<tables, snap, pending>>
\* The least recently used entry makes room for another.
Evict(i, n) ==
    /\ auth[i][n].left > 0
    /\ auth' = [auth EXCEPT ![i][n] = NoAuth]
    /\ UNCHANGED <<tables, snap, pending, fetch>>

-----------------------------------------------------------------------------
(* The snapshot of the upstreams.                                          *)

MissList(r, i, k) ==
    /\ Fetching(r, "idle") /\ snap[i][k].left = 0
    /\ fetch' = [fetch EXCEPT ![r] = [NoFetch EXCEPT !.op = "rows", !.on = i, !.key = k]]
    /\ UNCHANGED <<tables, caches>>
ReadRows(r) ==
    LET w == fetch[r]
    IN  /\ Fetching(r, "rows")
        /\ fetch' = [fetch EXCEPT ![r] = [w EXCEPT !.op = "list", !.found = Rows(w.key)]]
        /\ UNCHANGED <<tables, caches>>

\* A StoreList with the time taken when the list is stored.
StoreListFromNow(r) ==
    LET w == fetch[r]
    IN  /\ Fetching(r, "list") /\ Ends(r)
        /\ snap' = [snap EXCEPT ![w.on][w.key] = [left |-> SnapTTL, rows |-> w.found]]
        /\ UNCHANGED <<tables, auth, pending>>

\* An empty list is a nil slice, which is never served.
StoreList(r) ==
    LET w == fetch[r]  left == Remaining(SnapTTL, w.late)
    IN  /\ Fetching(r, "list") /\ Ends(r)
        /\ snap' = [snap EXCEPT ![w.on][w.key] =
                IF left = 0 \/ w.found = {} THEN NoSnap ELSE [left |-> left, rows |-> w.found]]
        /\ UNCHANGED <<tables, auth, pending>>

-----------------------------------------------------------------------------
(* Time, the poller, restarts.                                             *)

Poll(i, key) ==
    /\ <<i, key>> \in pending /\ pending' = pending \ {<<i, key>>}
    /\ IF key = "token_auth" THEN auth' = PurgeAuth(i) /\ UNCHANGED snap
       ELSE snap' = [snap EXCEPT ![i] = EmptySnap] /\ UNCHANGED auth
    /\ UNCHANGED <<tables, fetch>>

Tick ==
    /\ \A r \in Requests : fetch[r].late < MaxLate
    /\ fetch' = [r \in Requests |->
            IF Fetching(r, "idle") THEN fetch[r] ELSE [fetch[r] EXCEPT !.late = @ + 1]]
    /\ auth' = [i \in Instances |-> [n \in Secrets |->
            IF auth[i][n].left <= 1 THEN NoAuth ELSE [auth[i][n] EXCEPT !.left = @ - 1]]]
    /\ snap' = [i \in Instances |-> [k \in SnapKeys |->
            IF snap[i][k].left <= 1 THEN NoSnap ELSE [snap[i][k] EXCEPT !.left = @ - 1]]]
    /\ lapsed' = [f \in Facts |-> IF Holds(f) THEN 0 ELSE Longer(lapsed[f])]
    /\ UNCHANGED <<tables, pending>>

\* A process starts with empty caches, and its poller with no version seen.
Restart(i) ==
    /\ auth' = PurgeAuth(i) /\ snap' = [snap EXCEPT ![i] = EmptySnap]
    /\ pending' = pending \cup ({i} \X Keys)
    /\ fetch' = [r \in Requests |-> IF fetch[r].on = i THEN NoFetch ELSE fetch[r]]
    /\ UNCHANGED tables

\* What every step of the catalog does to the history.
Noted == lapsed' = [f \in Facts |-> IF Holds(f)' THEN 0 ELSE lapsed[f]]

CachesInit ==
    /\ fetch = [r \in Requests |-> NoFetch]
    /\ lapsed = [f \in Facts |-> IF Holds(f) THEN 0 ELSE Oldest]
AuthStep(i) ==
    \/ \E r \in Requests :
        \/ \E n \in Secrets : MissAuth(r, i, n)
        \/ ReadToken(r) \/ ReadGroups(r) \/ StoreAuth(r)
    \/ \E n \in Secrets : Evict(i, n)
    \/ Poll(i, "token_auth")
SnapStep(i, ks) ==
    \/ \E r \in Requests :
        \/ \E k \in ks : MissList(r, i, k)
        \/ ReadRows(r) \/ StoreList(r)
    \/ Poll(i, "upstream_snapshot")

-----------------------------------------------------------------------------
(* Properties.                                                             *)

\* Whoever purges what and when, no instance accepts a token, or a group of a
\* token, longer than the TTL after the token was rotated, revoked or deleted,
\* its user disabled, or the group taken away (GetTokenAuthByTokenHash).
TokensLapse ==
    \A i \in Instances, n \in Secrets :
        auth[i][n].left > 0 =>
            /\ lapsed[<<"secret", n>>] <= AuthTTL
            /\ \A g \in auth[i][n].groups : lapsed[<<"group", <<auth[i][n].token, g>>>>] <= AuthTTL

\* The same of a channel, an endpoint or a credential that was disabled or
\* deleted: the snapshot no longer offers it (cachedUpstreamStore).
ChannelsLapse ==
    \A i \in Instances, k \in SnapKeys :
        snap[i][k].left > 0 => \A x \in snap[i][k].rows : lapsed[<<k[1], x>>] < SnapTTL

=============================================================================
