------------------------------- MODULE Channels -------------------------------
(***************************************************************************)
(* Administration of upstream channels: the channel, its groups, its       *)
(* endpoint, and the keys or Codex accounts under that endpoint.           *)
(*                                                                         *)
(*   router/channels_api_routes.go                              (handlers) *)
(*   internal/store/upstreams.go                                   (store) *)
(*                                                                         *)
(* The handlers call the store several times with no transaction around    *)
(* the calls; a call that fails ends the request where it is, and then     *)
(* nobody is told of what was already saved.                               *)
(***************************************************************************)
EXTENDS Catalog

beyond == <<groups, nested, overtaken, default, pointers, grants>>

\* What the request still has to do; `invalidate` comes last.
NextOp(todo) ==
    IF "groups" \in todo THEN "setgroups"
    ELSE IF "endpoint" \in todo THEN "endpoint"
    ELSE IF "look" \in todo THEN "look"
    ELSE IF "key" \in todo THEN "key" ELSE "invalidate"
Goes(a, w, todo) == Waits(a, NextOp(todo), [w EXCEPT !.todo = todo])

-----------------------------------------------------------------------------
(* Store operations.                                                       *)

Live(c) == channels[c].live
HasEndpoint(c) == c \in endpoints
MembershipsIn(c, ns) == {<<g, c>> : g \in {h \in GroupIds : Exists(h) /\ NameOf(h) \in ns}}

\* CreateUpstreamChannel: every name must be that of a group.
InsertChannel(kind, ns) ==
    LET c == lastIds.channel + 1
    IN  /\ c <= MaxChannels /\ ns \subseteq KnownNames
        /\ lastIds' = [lastIds EXCEPT !.channel = c]
        /\ channels' = [channels EXCEPT ![c] =
                [live |-> TRUE, kind |-> kind, on |-> TRUE, csv |-> ns]]
        /\ members' = members \cup MembershipsIn(c, ns)

\* SetUpstreamChannelGroups: memberships are the truth, the groups column their
\* copy; what is not wanted goes, what is missing comes, the rest stays.
SetGroupsOf(c, ns) ==
    /\ members' = {m \in members : m[2] # c} \cup MembershipsIn(c, ns)
    /\ channels' = [channels EXCEPT ![c].csv = ns]

\* DeleteUpstreamChannel: keys and accounts under the endpoint, the endpoint, the
\* channel.  Memberships stay.
DeleteChannelRows(c) ==
    /\ creds' = {k \in creds : k.channel # c}
    /\ endpoints' = endpoints \ {c}
    /\ channels' = [channels EXCEPT ![c] = [NoChannel EXCEPT !.kind = channels[c].kind]]
InsertCred(table, c) ==
    /\ lastIds.cred < MaxCreds
    /\ lastIds' = [lastIds EXCEPT !.cred = @ + 1]
    /\ creds' = creds \cup {[table |-> table, channel |-> c, id |-> lastIds.cred + 1]}

-----------------------------------------------------------------------------
(* createChannelHandler, updateChannelHandler.                             *)

\* flag: a key that cannot be stored takes the new channel with it.
CreateChannel(a, kind, ns, key) ==
    /\ Free(a) /\ (key => kind # "codex")
    /\ InsertChannel(kind, ns)
    /\ Goes(a, [Idle EXCEPT !.channel = lastIds.channel + 1, !.flag = TRUE],
            {"endpoint"} \cup (IF key THEN {"key"} ELSE {}))
    /\ UNCHANGED <<endpoints, creds, beyond, caches>>

\* The row is read, and every basic column of it written back: `on` is what the
\* request says, or what was read.
ReadChannel(a, c, on, ns, todo) ==
    /\ Free(a) /\ Live(c)
    /\ "key" \in todo => channels[c].kind # "codex"
    /\ Waits(a, "basics", [Idle EXCEPT !.channel = c, !.on = on, !.names = ns,
                !.todo = IF "endpoint" \in todo THEN todo ELSE todo \cup {"look"}])
    /\ UNCHANGED <<members, lastIds, channelTables, beyond, caches>>
WriteBasics(a) ==
    LET w == work[a]  c == w.channel
    IN  /\ At(a, "basics")
        /\ \/ /\ Live(c)
              /\ channels' = [channels EXCEPT ![c].on = w.on]
              /\ Goes(a, w, w.todo)
           \/ ~Live(c) /\ channels' = channels /\ Done(a)
        /\ UNCHANGED <<members, lastIds, endpoints, creds, beyond, caches>>
SetGroups(a) ==
    LET w == work[a]  c == w.channel
    IN  /\ At(a, "setgroups")
        /\ \/ /\ Live(c) /\ w.names \subseteq KnownNames
              /\ SetGroupsOf(c, w.names)
              /\ Goes(a, w, w.todo \ {"groups"})
           \/ /\ ~(Live(c) /\ w.names \subseteq KnownNames) /\ Done(a)
              /\ UNCHANGED <<members, channels>>
        /\ UNCHANGED <<lastIds, endpoints, creds, beyond, caches>>

\* SetUpstreamEndpointBaseURL: found or inserted, the channel is not looked at.
SetEndpoint(a) ==
    LET w == work[a]
    IN  /\ At(a, "endpoint")
        /\ endpoints' = endpoints \cup {w.channel}
        /\ Goes(a, w, w.todo \ {"endpoint"})
        /\ UNCHANGED <<members, lastIds, channels, creds, beyond, caches>>

\* An update that leaves the URL alone looks for the endpoint; without one the
\* key is dropped.
LookForEndpoint(a) ==
    LET w == work[a]
    IN  /\ At(a, "look")
        /\ Goes(a, w, IF HasEndpoint(w.channel) THEN w.todo \ {"look"} ELSE {})
        /\ UNCHANGED <<members, lastIds, channelTables, beyond, caches>>

StoreKey(a) ==
    LET w == work[a]
    IN  /\ At(a, "key")
        /\ InsertCred(channels[w.channel].kind, w.channel)
        /\ Goes(a, w, {})
        /\ UNCHANGED <<members, channels, endpoints, beyond, caches>>
KeyFails(a) ==
    LET w == work[a]  c == w.channel
    IN  /\ At(a, "key") /\ w.flag
        /\ DeleteChannelRows(c) /\ Done(a)
        /\ UNCHANGED <<members, lastIds, beyond, caches>>

Invalidate(a) ==
    /\ At(a, "invalidate") /\ Done(a) /\ InvalidateSnapshot
    /\ UNCHANGED <<members, lastIds, channelTables, beyond>>

-----------------------------------------------------------------------------
(* The other handlers.                                                     *)

DeleteChannel(a, c) ==
    /\ Free(a) /\ DeleteChannelRows(c) /\ InvalidateSnapshot
    /\ UNCHANGED <<members, lastIds, beyond, work>>

\* createChannelCredentialHandler, createChannelCodexAccountHandler: channel and
\* endpoint are looked up, then the row is inserted.
ReadEndpoint(a, c) ==
    /\ Free(a) /\ Live(c) /\ HasEndpoint(c)
    /\ Goes(a, [Idle EXCEPT !.channel = c], {"key"})
    /\ UNCHANGED <<members, lastIds, channelTables, beyond, caches>>

\* deleteChannelCredentialHandler, deleteChannelCodexAccountHandler: the id is
\* looked up in the table of the channel's kind and must be of its endpoint.
DeleteCred(a, c, k) ==
    /\ Free(a) /\ Live(c) /\ HasEndpoint(c)
    /\ k \in creds /\ k.table = channels[c].kind /\ k.channel = c
    /\ creds' = creds \ {k} /\ InvalidateSnapshot
    /\ UNCHANGED <<members, lastIds, channels, endpoints, beyond, work>>

\* The handlers of meta, settings, overrides, lists and the status mapping, and
\* the reordering of a group's members: columns the routing model leaves out.
SaveSettings(a, c) ==
    /\ Free(a) /\ Live(c) /\ InvalidateSnapshot
    /\ UNCHANGED <<members, lastIds, channelTables, beyond, work>>

\* A store call fails or the process ends: what was saved stays, nobody is told.
GiveUp(a) ==
    /\ ~Free(a) /\ Done(a)
    /\ UNCHANGED <<members, lastIds, channelTables, beyond, caches>>

ChannelsBegin(a) ==
    \/ \E kind \in Kinds, ns \in SUBSET Names, key \in BOOLEAN :
        CreateChannel(a, kind, ns, key)
    \/ \E c \in ChannelIds :
        \/ \E on \in BOOLEAN, ns \in SUBSET Names, todo \in SUBSET {"groups", "endpoint", "key"} :
            ReadChannel(a, c, on, ns, todo)
        \/ DeleteChannel(a, c) \/ ReadEndpoint(a, c) \/ SaveSettings(a, c)
        \/ \E k \in creds : DeleteCred(a, c, k)
ChannelsGoOn(a) ==
    \/ WriteBasics(a) \/ SetGroups(a) \/ SetEndpoint(a)
    \/ LookForEndpoint(a) \/ StoreKey(a) \/ KeyFails(a) \/ Invalidate(a) \/ GiveUp(a)
ChannelsNext == \E a \in Clients : ChannelsBegin(a) \/ ChannelsGoOn(a)

=============================================================================
