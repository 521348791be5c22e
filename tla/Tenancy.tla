------------------------------- MODULE Tenancy -------------------------------
(***************************************************************************)
(* Who may use which channel group: main groups and the channel groups     *)
(* they grant, and the groups bound to an API token.                       *)
(*                                                                         *)
(*   router/admin_main_groups_api_routes.go, tokens_api_routes.go          *)
(*   internal/store/main_groups_store.go, token_channel_groups_store.go,   *)
(*   subgroup_acl.go                                                       *)
(***************************************************************************)
EXTENDS Catalog

elsewhere == <<groupTables, channelTables, pointers, tags, second, tokens>>

-----------------------------------------------------------------------------
(* Main groups.                                                            *)

InsertMainGroup(m, on) ==
    mains[m] = "none" /\ mains' = [mains EXCEPT ![m] = IF on THEN "on" ELSE "off"]
CreateMainGroup(a, m, on) ==
    /\ Free(a) /\ InsertMainGroup(m, on)
    /\ UNCHANGED <<granted, mainOf, bound, elsewhere, users, work, caches>>

UpdateMainGroup(a, m, on) ==
    /\ Free(a) /\ mains[m] # "none"
    /\ mains' = [mains EXCEPT ![m] = IF on THEN "on" ELSE "off"]
    /\ UNCHANGED <<granted, mainOf, bound, elsewhere, users, work, caches>>

\* UpdateMainGroupWithRename: the new name may have neither a row nor grants;
\* users and grants move with the name.  No cache is told.
RenameMainGroup(a, m, new, on) ==
    /\ Free(a) /\ mains[m] # "none" /\ new # m
    /\ mains[new] = "none" /\ granted[new] = {}
    /\ mains' = [mains EXCEPT ![m] = "none", ![new] = IF on THEN "on" ELSE "off"]
    /\ mainOf' = [u \in Users |-> IF mainOf[u] = m THEN new ELSE mainOf[u]]
    /\ granted' = [granted EXCEPT ![m] = {}, ![new] = granted[m]]
    /\ users' = [u \in Users |-> IF mainOf[u] = m /\ Registered(u)
                                THEN [users[u] EXCEPT !.changed = second] ELSE users[u]]
    /\ UNCHANGED <<bound, elsewhere, work, caches>>

\* Refused while a user has it.
DeleteMainGroupRows(m) ==
    /\ \A u \in Users : mainOf[u] # m
    /\ mains' = [mains EXCEPT ![m] = "none"]
    /\ granted' = [granted EXCEPT ![m] = {}]
    /\ PurgeAndBump
DeleteMainGroup(a, m) ==
    /\ Free(a) /\ mains[m] # "none" /\ DeleteMainGroupRows(m)
    /\ UNCHANGED <<mainOf, bound, elsewhere, users, work>>

\* ReplaceMainGroupSubgroups: the main group and every channel group named are
\* looked up, then the grants are replaced.  No cache is told.
CheckSubgroups(a, m, ns) ==
    /\ Free(a) /\ mains[m] # "none" /\ ns \subseteq EnabledNames
    /\ Waits(a, "subgroups", [Idle EXCEPT !.name = m, !.names = ns])
    /\ UNCHANGED <<grants, elsewhere, caches>>
ReplaceSubgroups(a) ==
    /\ At(a, "subgroups") /\ Done(a)
    /\ granted' = [granted EXCEPT ![work[a].name] = work[a].names]
    /\ UNCHANGED <<mains, mainOf, bound, elsewhere, users, caches>>

-----------------------------------------------------------------------------
(* The groups of a token.                                                  *)

\* ReplaceTokenChannelGroups: a name must be granted to the owner and name an
\* enabled group when it is looked up; then the bindings are replaced.  Only this
\* token is purged from the cache.
Bindable(t, ns) ==
    ns # {} /\ Registered(OwnerOf[t]) /\ ns \subseteq GrantedTo(OwnerOf[t]) \cap EnabledNames
CheckBindings(a, t, ns) ==
    /\ Free(a) /\ Made(t) /\ Bindable(t, ns)
    /\ Waits(a, "bind", [Idle EXCEPT !.who = t, !.names = ns])
    /\ UNCHANGED <<grants, elsewhere, caches>>
ReplaceBindings(a) ==
    LET t == work[a].who
    IN  /\ At(a, "bind") /\ Done(a)
        /\ bound' = [bound EXCEPT ![t] = work[a].names]
        /\ PurgeOneAndBump(t)
        /\ UNCHANGED <<mains, granted, mainOf, elsewhere, users>>

TenancyBegin(a) ==
    \/ \E m \in Mains, on \in BOOLEAN :
        \/ CreateMainGroup(a, m, on) \/ UpdateMainGroup(a, m, on)
        \/ \E new \in Mains : RenameMainGroup(a, m, new, on)
    \/ \E m \in Mains :
        \/ DeleteMainGroup(a, m)
        \/ \E ns \in SUBSET Names : CheckSubgroups(a, m, ns)
    \/ \E t \in Tokens, ns \in SUBSET Names : CheckBindings(a, t, ns)
TenancyGoOn(a) == ReplaceSubgroups(a) \/ ReplaceBindings(a)
TenancyNext == \E a \in Clients : TenancyBegin(a) \/ TenancyGoOn(a)

=============================================================================
