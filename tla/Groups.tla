-------------------------------- MODULE Groups --------------------------------
(***************************************************************************)
(* Administration of channel groups: their tree, their channels, the       *)
(* default group and the pointer of a group.                               *)
(*                                                                         *)
(*   router/admin_channel_groups_api_routes.go                  (handlers) *)
(*   internal/store/channel_groups.go, channel_group_members.go,           *)
(*   default_channel_group.go, channel_group_pointers.go           (store) *)
(*                                                                         *)
(* A handler that reads rows and writes them later is two steps or more:   *)
(* other requests, or the end of the process, may come in between.         *)
(***************************************************************************)
EXTENDS Catalog

noCaches == UNCHANGED caches
keys == <<endpoints, creds>>
others == <<channelTables, pointers, grants>>

-----------------------------------------------------------------------------
(* Store operations.                                                       *)

\* CreateChannelGroup: one INSERT, the name is unique.
InsertGroup(n, on) ==
    /\ lastIds.group < MaxGroups /\ n \notin KnownNames
    /\ lastIds' = [lastIds EXCEPT !.group = @ + 1]
    /\ groups' = [groups EXCEPT ![lastIds.group + 1] = [name |-> n, on |-> on]]

\* syncUpstreamChannelGroupsCacheTx: the groups column of c becomes the names of
\* the groups that list c in `mem`.
Synced(c, mem) ==
    IF ~channels[c].live THEN channels
    ELSE [channels EXCEPT ![c].csv =
            {NameOf(g) : g \in {h \in GroupIds : Exists(h) /\ <<h, c>> \in mem}}]

\* What AddChannelGroupMemberGroup checks: one parent only, and the chain of
\* parents of the new parent must not meet the child.
Nestable(p, c) == ParentsOf(c) \subseteq {p} /\ c \notin Upward(p)

\* UpdateChannelGroupWithRename, the transaction of a rename: the name may be
\* nobody else's, and no token and no main group may hold both names.
RenameAllowed(g, new) ==
    /\ Exists(g) /\ Named(new) \subseteq {g}
    /\ \A t \in Tokens : ~({NameOf(g), new} \subseteq bound[t])
    /\ \A m \in Mains : ~({NameOf(g), new} \subseteq granted[m])
Renamed(S, old, new) == IF old \in S THEN (S \ {old}) \cup {new} ELSE S

\* A RenameEverywhere that leaves main_group_subgroups out.
RenameLeavesGrants(g, new, on) ==
    LET old == NameOf(g)
    IN  /\ groups' = [groups EXCEPT ![g] = [name |-> new, on |-> on]]
        /\ channels' = [c \in ChannelIds |->
                [channels[c] EXCEPT !.csv = Renamed(@, old, new)]]
        /\ tags' = [x \in Tagged |-> IF tags[x] = old THEN new ELSE tags[x]]
        /\ bound' = [t \in Tokens |-> Renamed(bound[t], old, new)]
        /\ UNCHANGED granted

RenameEverywhere(g, new, on) ==
    LET old == NameOf(g)
    IN  /\ groups' = [groups EXCEPT ![g] = [name |-> new, on |-> on]]
        /\ channels' = [c \in ChannelIds |->
                [channels[c] EXCEPT !.csv = Renamed(@, old, new)]]
        /\ tags' = [x \in Tagged |-> IF tags[x] = old THEN new ELSE tags[x]]
        /\ bound' = [t \in Tokens |-> Renamed(bound[t], old, new)]
        /\ granted' = [m \in Mains |-> Renamed(granted[m], old, new)]

\* ForceDeleteChannelGroup's transaction.  `n` is the name read before it; names
\* of no group go from the groups column with it.
CsvWithout(n) ==
    [c \in ChannelIds |->
        IF n \in channels[c].csv
        THEN [channels[c] EXCEPT !.csv = (@ \ {n}) \cap KnownNames]
        ELSE channels[c]]
DeleteGroupRows(g) ==
    /\ groups' = [groups EXCEPT ![g] = NoGroup]
    /\ nested' = {e \in nested : g \notin {e[1], e[2]}}
    /\ members' = {m \in members : m[1] # g}
    /\ UNCHANGED overtaken

-----------------------------------------------------------------------------
(* The default group.                                                      *)

\* SetDefaultChannelGroupID: the group is checked, then the setting is written.
CheckDefault(a, g) ==
    /\ Free(a) /\ Enabled(g)
    /\ Waits(a, "default", [Idle EXCEPT !.group = g])
    /\ UNCHANGED <<groupTables, others>> /\ noCaches
WriteDefault(a) ==
    /\ At(a, "default") /\ Done(a)
    /\ default' = work[a].group
    /\ UNCHANGED <<groups, nested, overtaken, members, lastIds, others>> /\ noCaches

\* GetDefaultChannelGroupID: a default that is gone or disabled is found, then
\* the setting is deleted, whatever it holds by then.
FindBadDefault(a) ==
    /\ Free(a) /\ default # 0 /\ ~Enabled(default)
    /\ Waits(a, "heal", Idle)
    /\ UNCHANGED <<groupTables, others>> /\ noCaches
HealDefault(a) ==
    /\ At(a, "heal") /\ Done(a)
    /\ default' = 0
    /\ UNCHANGED <<groups, nested, overtaken, members, lastIds, others>> /\ noCaches

-----------------------------------------------------------------------------
(* Groups: create, nest, update, delete.                                   *)

CreateGroup(a, n, on) ==
    /\ Free(a) /\ InsertGroup(n, on)
    /\ UNCHANGED <<nested, overtaken, members, default, others, work>> /\ noCaches

\* adminCreateChildChannelGroupHandler: insert the child, look at both groups,
\* nest it; on an error delete it again.  The parent is any number.
CreateChild(a, p, n, on) ==
    /\ Free(a) /\ InsertGroup(n, on)
    /\ Waits(a, "child", [Idle EXCEPT !.group = p, !.other = lastIds.group + 1])
    /\ UNCHANGED <<nested, overtaken, members, default, others>> /\ noCaches
SeeParent(a) ==
    LET p == work[a].group  c == work[a].other
    IN  /\ At(a, "child")
        /\ Waits(a, IF p # c /\ Exists(p) /\ Exists(c) THEN "nest" ELSE "undo", work[a])
        /\ UNCHANGED <<groupTables, others>> /\ noCaches

\* A NestChild with the walk up the parents left out.
NestUnchecked(a) ==
    LET p == work[a].group  c == work[a].other
    IN  /\ At(a, "nest")
        /\ \/ /\ ParentsOf(c) \subseteq {p} /\ Waits(a, "link", work[a])
              /\ overtaken' = overtaken \ {<<p, c>>}
           \/ ~(ParentsOf(c) \subseteq {p}) /\ Waits(a, "undo", work[a]) /\ UNCHANGED overtaken
        /\ UNCHANGED <<groups, nested, members, default, lastIds, others>> /\ noCaches

\* AddChannelGroupMemberGroup's transaction reads without locks, all of one
\* snapshot on MySQL; on SQLite nothing comes between NestChild and LinkChild.
NestChild(a) ==
    LET p == work[a].group  c == work[a].other
    IN  /\ At(a, "nest")
        /\ \/ /\ Nestable(p, c) /\ Waits(a, "link", work[a])
              /\ overtaken' = overtaken \ {<<p, c>>}
           \/ ~Nestable(p, c) /\ Waits(a, "undo", work[a]) /\ UNCHANGED overtaken
        /\ UNCHANGED <<groups, nested, members, default, lastIds, others>> /\ noCaches
\* Its INSERT: uk_group_single_parent keeps a member's first parent.
Edge(a) == <<work[a].group, work[a].other>>
LinkChild(a) ==
    /\ At(a, "link") /\ Done(a)
    /\ nested' = IF ParentsOf(work[a].other) \subseteq {work[a].group}
                 THEN nested \cup {Edge(a)} ELSE nested
    /\ overtaken' = overtaken \cup {Edge(b) : b \in {b \in Clients \ {a} : At(b, "link")}}
    /\ UNCHANGED <<groups, members, default, lastIds, others>> /\ noCaches
UndoChild(a) ==
    /\ At(a, "undo") /\ Done(a)
    /\ groups' = [groups EXCEPT ![work[a].other] = NoGroup]
    /\ UNCHANGED <<nested, overtaken, members, default, lastIds, others>> /\ noCaches

\* adminUpdateChannelGroupHandler.  `n` is None when the name stays.  Whether the
\* default has to go is decided from what is read first.
ReadUpdate(a, g, n, on) ==
    /\ Free(a) /\ Exists(g)
    /\ Waits(a, "update",
             [Idle EXCEPT !.group = g, !.name = IF n = NameOf(g) THEN None ELSE n,
                          !.on = on, !.flag = ~on /\ default = g])
    /\ UNCHANGED <<groupTables, others>> /\ noCaches
WriteUpdate(a) ==
    LET w == work[a]  g == w.group
        stays == w.name = None
        renames == ~stays /\ RenameAllowed(g, w.name)
    IN  /\ At(a, "update") /\ Done(a)
        /\ \/ /\ stays
              /\ groups' = IF Exists(g) THEN [groups EXCEPT ![g].on = w.on] ELSE groups
              /\ UNCHANGED <<channels, bound, granted, tags>>
           \/ renames /\ RenameEverywhere(g, w.name, w.on)
           \/ ~stays /\ ~renames /\ UNCHANGED <<groups, channels, bound, granted, tags>>
        /\ IF stays \/ renames
           THEN /\ default' = IF w.flag /\ default = g THEN 0 ELSE default
                /\ InvalidateBoth
           ELSE UNCHANGED <<default, caches>>
        /\ UNCHANGED <<nested, overtaken, members, lastIds, keys, pointers, mains, mainOf, accounts>>

\* adminDeleteChannelGroupHandler.  Tokens, main groups, models and plans keep
\* the name.
ReadDelete(a, g) ==
    /\ Free(a) /\ Exists(g)
    /\ Waits(a, "delete", [Idle EXCEPT !.group = g, !.name = NameOf(g), !.flag = default = g])
    /\ UNCHANGED <<groupTables, others>> /\ noCaches
WriteDelete(a) ==
    LET w == work[a]
    IN  /\ At(a, "delete") /\ Done(a)
        /\ channels' = CsvWithout(w.name)
        /\ DeleteGroupRows(w.group)
        /\ default' = IF w.flag /\ default = w.group THEN 0 ELSE default
        /\ InvalidateBoth
        /\ UNCHANGED <<lastIds, keys, pointers, grants>>

-----------------------------------------------------------------------------
(* Members and pointers.                                                   *)

\* adminAddChannelGroupChannelMemberHandler: both are looked up, then the row is
\* written, even if one is gone by then.
ReadMember(a, g, c) ==
    /\ Free(a) /\ Exists(g) /\ channels[c].live
    /\ Waits(a, "member", [Idle EXCEPT !.group = g, !.channel = c])
    /\ UNCHANGED <<groupTables, others>> /\ noCaches
WriteMember(a) ==
    LET g == work[a].group  c == work[a].channel
    IN  /\ At(a, "member") /\ Done(a)
        /\ members' = members \cup {<<g, c>>}
        /\ channels' = Synced(c, members')
        /\ InvalidateSnapshot
        /\ UNCHANGED <<groups, nested, overtaken, default, lastIds, keys, pointers, grants>>

\* A RemoveChannelGroupMember that leaves the groups column as it was.
RemoveWithoutSync(g, c) == members' = members \ {<<g, c>>} /\ channels' = channels

RemoveChannelGroupMember(g, c) == members' = members \ {<<g, c>>} /\ channels' = Synced(c, members')
RemoveChannelMember(a, g, c) ==
    /\ Free(a) /\ <<g, c>> \in members /\ RemoveChannelGroupMember(g, c)
    /\ InvalidateSnapshot
    /\ UNCHANGED <<groups, nested, overtaken, default, lastIds, keys, pointers, grants, work>>
RemoveGroupRow(p, c) == nested' = nested \ {<<p, c>>} /\ UNCHANGED overtaken
RemoveGroupMember(a, p, c) ==
    /\ Free(a) /\ <<p, c>> \in nested /\ RemoveGroupRow(p, c)
    /\ UNCHANGED <<groups, members, default, lastIds, others, work>> /\ noCaches

\* adminUpsertChannelGroupPointerHandler: the channel must be of the group's
\* tree when it is looked up; channel 0 clears the pointer and unpins it.
ReadPointer(a, g, c, pinned) ==
    /\ Free(a) /\ Exists(g)
    /\ c # 0 => channels[c].live /\ \E h \in Downward(g) : <<h, c>> \in members
    /\ Waits(a, "pointer", [Idle EXCEPT !.group = g, !.channel = c, !.flag = pinned /\ c # 0])
    /\ UNCHANGED <<groupTables, others>> /\ noCaches
WritePointer(a) ==
    LET w == work[a]
    IN  /\ At(a, "pointer") /\ Done(a)
        /\ pointers' = [pointers EXCEPT ![w.group] = [channel |-> w.channel, pinned |-> w.flag]]
        /\ UNCHANGED <<groupTables, channelTables, grants>> /\ noCaches

\* The process ends, or the client leaves, between two steps of a request.
Abandon(a) ==
    /\ ~Free(a) /\ Done(a)
    /\ UNCHANGED <<groupTables, others>> /\ noCaches

GroupsBegin(a) ==
    \/ \E g \in GroupIds :
        \/ CheckDefault(a, g) \/ ReadDelete(a, g)
        \/ \E n \in Names \cup {None}, on \in BOOLEAN : ReadUpdate(a, g, n, on)
        \/ \E c \in ChannelIds : ReadMember(a, g, c) \/ RemoveChannelMember(a, g, c)
        \/ \E c \in GroupIds : RemoveGroupMember(a, g, c)
        \/ \E c \in ChannelIds \cup {0}, p \in BOOLEAN : ReadPointer(a, g, c, p)
    \/ \E n \in Names, on \in BOOLEAN :
        \/ CreateGroup(a, n, on)
        \/ \E p \in GroupIds : CreateChild(a, p, n, on)
    \/ FindBadDefault(a)
GroupsGoOn(a) ==
    \/ WriteDefault(a) \/ HealDefault(a)
    \/ SeeParent(a) \/ NestChild(a) \/ LinkChild(a) \/ UndoChild(a)
    \/ WriteUpdate(a) \/ WriteDelete(a) \/ WriteMember(a) \/ WritePointer(a)
    \/ Abandon(a)
GroupsNext == \E a \in Clients : GroupsBegin(a) \/ GroupsGoOn(a)

-----------------------------------------------------------------------------
(* Properties.                                                             *)

\* The parents of the groups of S in the tree E, the chain of parents of g, and
\* that every chain ends.
Over(E, S) == {p \in GroupIds : \E g \in S : <<p, g>> \in E}
Above(E, g) == {h \in GroupIds : \A S \in SUBSET GroupIds : g \in S /\ Over(E, S) \subseteq S => h \in S}
Rooted(E) == \A g \in GroupIds : \E r \in Above(E, g) : Over(E, {r}) = {}

\* From every group the chain of parents ends, however administrators nest groups
\* into each other's new groups, rename and delete them meanwhile: no loop is
\* built, on which the breadcrumb and the router's descent would turn
\* (AddChannelGroupMemberGroup).  Left out are the groups nested while another
\* nesting was between its check and its INSERT, which MySQL allows.
CatalogInv == CatalogTypeOK /\ Rooted(nested \ overtaken)

=============================================================================
