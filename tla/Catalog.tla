------------------------------- MODULE Catalog -------------------------------
(***************************************************************************)
(* The tables that say who may ask and which upstream channels a request   *)
(* may use: users and their API tokens, the groups bound to a token, the   *)
(* main groups that grant groups to users, channel groups and their        *)
(* members, channels, and the pointer of a group.                          *)
(*                                                                         *)
(*   internal/store/store.go, models.go, token_auth_cache.go,              *)
(*   channel_groups.go, channel_group_members.go,                          *)
(*   channel_group_csv.go, channel_group_pointers.go, main_groups_store.go,*)
(*   token_channel_groups_store.go, upstreams.go                           *)
(*                                                                         *)
(* This module holds the tables; modules Accounts, Tokens, Groups, Tenancy *)
(* and Channels hold the handlers that change them, module Caches what the *)
(* data plane remembers of them.  A store transaction is one step, but for *)
(* the nesting of a group: its check and its INSERT are two, as MySQL's    *)
(* reads take no lock.  Deleted ids are not reused (AUTOINCREMENT), names  *)
(* are.  The order of a group's members (priority, promotion) is           *)
(* abstracted: it decides which channel is tried first, not which may be.  *)
(***************************************************************************)
EXTENDS Naturals, FiniteSets

CONSTANTS
    Clients,     \* users and administrators, each with one request at a time
    Names,       \* channel group names
    MaxGroups,   \* channel group ids ever given out (a bound)
    MaxChannels, \* channel ids ever given out (a bound)
    MaxCreds,    \* credential ids ever given out (a bound)
    Mains,       \* names of main groups
    Users,       \* user ids ever given out
    Emails,
    MaxPasswords,\* passwords ever set (a bound)
    MaxSecond,   \* seconds of the clock of updated_at (a bound)
    Tokens,      \* token ids ever given out
    MaxSecrets,  \* token secrets ever made (a bound)
    Tagged,      \* managed models and subscription plans, which name a group
    OwnerOf,     \* OwnerOf[t]: the user of token t
    Instances    \* server processes over the one database

None == "none"
ASSUME NamesAssumption == None \notin Names /\ None \notin Mains
ASSUME TokensAssumption == OwnerOf \in [Tokens -> Users]
ASSUME IdsAssumption ==
    {MaxGroups, MaxChannels, MaxCreds, MaxPasswords, MaxSecond, MaxSecrets} \subseteq Nat
ASSUME WalkAssumption == MaxGroups <= 512  \* parents that AddChannelGroupMemberGroup looks at

GroupIds == 1..MaxGroups
ChannelIds == 1..MaxChannels
Secrets == 1..MaxSecrets

VARIABLES
    second,   \* the clock of users.updated_at
    users,    \* users: the row of each id
    tokens,   \* user_tokens: the row of each id
    lastIds,  \* the ids given out so far (AUTOINCREMENT)
    groups,   \* channel_groups: the row of each id
    nested,   \* channel_group_members: <<parent group, member group>>
    overtaken,\* history: <<parent, member>> pairs another nesting of groups came between
    members,  \* channel_group_members: <<parent group, member channel>>
    default,  \* app_settings[default_channel_group_id], 0 when unset
    channels, \* upstream_channels: the row of each id
    endpoints,\* upstream_endpoints: the channels that have one
    creds,    \* the three tables of keys and accounts, by the channel's endpoint
    pointers, \* channel_group_pointers
    mains,    \* main_groups: the row of each name
    granted,  \* main_group_subgroups: names granted to each main group
    mainOf,   \* users.main_group
    bound,    \* token_channel_groups: names bound to each token
    tags,     \* group_name of managed_models and subscription_plans
    work,     \* where each client's request is
    snap,     \* each instance's cached lists of channels, endpoints, credentials
    auth,     \* each instance's cached authentications, by token secret
    pending   \* <<instance, key>>: its poller has a new version to see

groupTables == <<groups, nested, overtaken, members, default, lastIds>>
channelTables == <<channels, endpoints, creds>>
accounts == <<second, users, tokens>>
grants == <<mains, granted, mainOf, bound, tags, accounts>>
caches == <<snap, auth, pending>>
catalogVars == <<groupTables, channelTables, pointers, grants, work, caches>>

GroupRows == [name: Names \cup {None}, on: BOOLEAN]
NoGroup == [name |-> None, on |-> FALSE]
\* `csv` is the groups column: a copy of the names of the groups the channel is
\* a member of, which the scheduler reads.
Kinds == {"openai", "anthropic", "codex"}
ChannelRows == [live: BOOLEAN, kind: Kinds, on: BOOLEAN, csv: SUBSET Names]
NoChannel == [live |-> FALSE, kind |-> "openai", on |-> FALSE, csv |-> {}]
CredRows == [table: Kinds, channel: ChannelIds, id: 1..MaxCreds]
PointerRows == [channel: ChannelIds \cup {0}, pinned: BOOLEAN]
NoPointer == [channel |-> 0, pinned |-> FALSE]
MainRows == {"none", "on", "off"}
States == {"new", "on", "off", "gone"}
\* `changed` is updated_at, in seconds.
UserRows == [state: States, root: BOOLEAN, email: Emails \cup {None},
             password: 0..MaxPasswords, changed: 0..MaxSecond]
NoUser == [state |-> "new", root |-> FALSE, email |-> None, password |-> 0, changed |-> 0]
TokenRows == [state: States, secret: Secrets \cup {0}]
NoToken == [state |-> "new", secret |-> 0]
\* A cached list of rows, and a cached authentication, with the time each has left.
SnapKeys == ({"channels"} \X {0}) \cup ({"endpoints", "creds"} \X ChannelIds)
NoSnap == [left |-> 0, rows |-> {}]
EmptySnap == [k \in SnapKeys |-> NoSnap]
NoAuth == [left |-> 0, token |-> None, groups |-> {}]
EmptyAuth == [n \in Secrets |-> NoAuth]
Keys == {"token_auth", "upstream_snapshot"}
\* A session in a browser.  `stamp` is the row's updated_at, 0 without one; the
\* password that was proved, the row's when the stamp was read, and the second of
\* that reading are history.
Cookies == [user: Users \cup {None}, stamp: 0..MaxSecond, password: 0..MaxPasswords,
            seen: 0..MaxPasswords, made: 0..MaxSecond]
NoCookie == [user |-> None, stamp |-> 0, password |-> 0, seen |-> 0, made |-> 0]

\* A request between two of its steps: what it is, about which rows, and what
\* it has read.
Work == [op: {"idle", "default", "heal", "child", "nest", "link", "undo", "update",
              "delete", "member", "pointer", "subgroups", "bind",
              "endpoint", "look", "key", "basics", "setgroups", "invalidate",
              "prove", "count", "insert", "session", "cookie", "password", "email", "status", "role",
              "main", "admit", "setmain"},
         todo: SUBSET {"groups", "endpoint", "look", "key",
                       "email", "status", "role", "main", "undo"},
         group: GroupIds \cup {0}, other: GroupIds \cup {0},
         channel: ChannelIds \cup {0}, name: Names \cup Mains \cup {None},
         names: SUBSET Names, who: Users \cup Tokens \cup {None},
         email: Emails \cup {None}, cookie: Cookies,
         code: Nat, on: BOOLEAN, flag: BOOLEAN]
Idle == [op |-> "idle", todo |-> {}, group |-> 0, other |-> 0, channel |-> 0, name |-> None,
         names |-> {}, who |-> None, email |-> None, cookie |-> NoCookie,
         code |-> 0, on |-> FALSE, flag |-> FALSE]

Free(a) == work[a].op = "idle"
At(a, op) == work[a].op = op
Done(a) == work' = [work EXCEPT ![a] = Idle]
Waits(a, op, fields) == work' = [work EXCEPT ![a] = [fields EXCEPT !.op = op]]

CatalogTypeOK ==
    /\ second \in 0..MaxSecond
    /\ users \in [Users -> UserRows]
    /\ tokens \in [Tokens -> TokenRows]
    /\ lastIds \in [group: GroupIds \cup {0}, channel: ChannelIds \cup {0},
                   cred: 0..MaxCreds, secret: 0..MaxSecrets, password: 0..MaxPasswords]
    /\ groups \in [GroupIds -> GroupRows]
    /\ {nested, overtaken} \subseteq SUBSET (GroupIds \X GroupIds)
    /\ members \subseteq GroupIds \X ChannelIds
    /\ default \in GroupIds \cup {0}
    /\ channels \in [ChannelIds -> ChannelRows]
    /\ endpoints \subseteq ChannelIds
    /\ creds \subseteq CredRows
    /\ pointers \in [GroupIds -> PointerRows]
    /\ mains \in [Mains -> MainRows]
    /\ granted \in [Mains -> SUBSET Names]
    /\ mainOf \in [Users -> Mains \cup {None}]
    /\ bound \in [Tokens -> SUBSET Names]
    /\ tags \in [Tagged -> Names \cup {None}]
    /\ work \in [Clients -> Work]
    /\ \A i \in Instances :
        /\ \A k \in SnapKeys : snap[i][k].left \in Nat
        /\ \A n \in Secrets : auth[i][n].left \in Nat /\ auth[i][n].groups \subseteq Names
    /\ pending \subseteq Instances \X Keys

-----------------------------------------------------------------------------
(* Reads.                                                                  *)

\* GetUserByID finds the row; the token has one.
Registered(u) == users[u].state \in {"on", "off"}
Made(t) == tokens[t].state \in {"on", "off"}

\* GetChannelGroupByID, GetChannelGroupByName: rows found.
Exists(g) == g \in GroupIds /\ groups[g].name # None
NameOf(g) == groups[g].name
Named(n) == {g \in GroupIds : groups[g].name = n}
Enabled(g) == Exists(g) /\ groups[g].on
KnownNames == {NameOf(g) : g \in {h \in GroupIds : Exists(h)}}
EnabledNames == {NameOf(g) : g \in {h \in GroupIds : Enabled(h)}}

\* GetChannelGroupParentID: uk_group_single_parent leaves at most one.
ParentsOf(g) == {p \in GroupIds : <<p, g>> \in nested}
\* ListChannelGroupMembers: an inner join, on groups and on channels, is left
\* to the readers; rows of deleted ones are listed.
SubgroupsOf(g) == {c \in GroupIds : <<g, c>> \in nested}
ChannelsOf(g) == {c \in ChannelIds : <<g, c>> \in members}
\* ListUsedChannelGroupMemberChannels
Used == {c \in ChannelIds : \E g \in GroupIds : <<g, c>> \in members}

\* The chain of parents of g, g included, and the tree below g: least fixed
\* points over a finite set, as the code's walks with a visited set compute.
Closed(S, Next(_)) == \A g \in S : Next(g) \subseteq S
Upward(g) ==
    {h \in GroupIds :
        \A S \in SUBSET GroupIds : g \in S /\ Closed(S, ParentsOf) => h \in S}
Downward(g) ==
    {h \in GroupIds :
        \A S \in SUBSET GroupIds : g \in S /\ Closed(S, SubgroupsOf) => h \in S}

\* ListEffectiveTokenChannelGroupBindings: of the names bound to the token,
\* those of an enabled group that the owner's main group grants.  Whether the
\* main group itself exists or is enabled is not asked.
GrantedTo(u) == IF mainOf[u] = None THEN {} ELSE granted[mainOf[u]]
Effective(t) == bound[t] \cap EnabledNames \cap GrantedTo(OwnerOf[t])
EffectiveIds(t) == {g \in GroupIds : Enabled(g) /\ NameOf(g) \in Effective(t)}

\* The tables agree with each other: the groups column repeats the memberships,
\* nesting and memberships name groups that exist, users and grants main groups
\* that exist, the default an enabled group; nothing is left of a deleted
\* channel but its memberships.
CsvMirrorsMembers ==
    \A c \in ChannelIds : channels[c].live =>
        channels[c].csv = {NameOf(g) : g \in {h \in GroupIds : Exists(h) /\ <<h, c>> \in members}}
Tidy ==
    /\ CsvMirrorsMembers
    /\ \A e \in nested : Exists(e[1]) /\ Exists(e[2])
    /\ \A m \in members : Exists(m[1])
    /\ \A u \in Users : mainOf[u] # None => mains[mainOf[u]] # "none"
    /\ \A m \in Mains : granted[m] # {} => mains[m] # "none"
    /\ default # 0 => Enabled(default)
    /\ \A c \in endpoints : channels[c].live
    /\ \A k \in creds : k.channel \in endpoints

SomeRename ==
    \/ \E g \in GroupIds : Exists(g) /\ Exists(g)' /\ NameOf(g)' # NameOf(g)
    \/ \E m, n \in Mains : mains[m] # "none" /\ mains'[m] = "none"
                            /\ mains[n] = "none" /\ mains'[n] # "none"
RoutesKept ==
    /\ \A t \in Tokens : \A g \in EffectiveIds(t) : Enabled(g)' => g \in EffectiveIds(t)'
    /\ \A x \in Tagged, g \in GroupIds :
        Exists(g) /\ tags[x] = NameOf(g) => tags'[x] = NameOf(g)'

\* A rename takes nothing away: neither renaming a channel group nor renaming a
\* main group costs a token an enabled group it could use before, or makes a
\* model or a plan name another group (UpdateChannelGroupWithRename,
\* UpdateMainGroupWithRename).
RenamesKeepRoutes == [][SomeRename => RoutesKept]_catalogVars

-----------------------------------------------------------------------------
(* What every writer does to the caches.                                   *)

\* BumpCacheInvalidation: every instance's poller will find a new version, the
\* writer's own included.  Its error is dropped.
Bump(keys) == \E ks \in SUBSET keys : pending' = pending \cup (Instances \X ks)
\* PurgeTokenAuthCacheAll on the instance that serves the request.
PurgeAuth(i) == [auth EXCEPT ![i] = EmptyAuth]
\* purgeTokenID: every secret the token was known by.
PurgeToken(i, t) ==
    [auth EXCEPT ![i] = [n \in Secrets |-> IF @[n].token = t THEN NoAuth ELSE @[n]]]
\* What the store ends a change of a token, and a change of a user, with.
PurgeOneAndBump(t) ==
    /\ \E i \in Instances : auth' = PurgeToken(i, t)
    /\ Bump({"token_auth"})
    /\ UNCHANGED snap
PurgeAndBump ==
    /\ \E i \in Instances : auth' = PurgeAuth(i)
    /\ Bump({"token_auth"})
    /\ UNCHANGED snap

\* invalidateUpstreamSnapshot: the scheduler's cache of the instance that serves
\* the request, then the version that tells the others.
InvalidateSnapshot ==
    /\ \E i \in Instances : snap' = [snap EXCEPT ![i] = EmptySnap]
    /\ Bump({"upstream_snapshot"})
    /\ UNCHANGED auth
\* What the store ends a rename or a deletion of a group with, for both keys,
\* and then the handler.
InvalidateBoth ==
    /\ \E i \in Instances :
        snap' = [snap EXCEPT ![i] = EmptySnap] /\ auth' = PurgeAuth(i)
    /\ Bump(Keys)

=============================================================================
