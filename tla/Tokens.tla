------------------------------- MODULE Tokens -------------------------------
(***************************************************************************)
(* The API tokens of a user.                                               *)
(*                                                                         *)
(*   router/tokens_api_routes.go                                (handlers) *)
(*   internal/store/store.go                                       (store) *)
(*                                                                         *)
(* The owner's session is module Accounts'.                                *)
(***************************************************************************)
EXTENDS Catalog

apart == <<groups, nested, overtaken, members, default, channelTables, pointers, mains, granted, mainOf,
           bound, tags, second, users, work>>

\* A secret nobody has had, as auth.NewRandomToken makes them.
NewSecret == lastIds.secret + 1
Counted == lastIds' = [lastIds EXCEPT !.secret = NewSecret]
Owned(a, t) == Free(a) /\ users[OwnerOf[t]].state = "on"

\* CreateUserToken: one INSERT, of a token that no group is bound to.
InsertToken(t) ==
    /\ tokens[t].state = "new" /\ NewSecret \in Secrets
    /\ tokens' = [tokens EXCEPT ![t] = [state |-> "on", secret |-> NewSecret]]
    /\ Counted
CreateToken(a, t) == Owned(a, t) /\ InsertToken(t) /\ UNCHANGED <<apart, caches>>

\* RotateUserToken: a new secret, and a revoked token is in force again.
NewTokenSecret(t) ==
    /\ Made(t) /\ NewSecret \in Secrets
    /\ tokens' = [tokens EXCEPT ![t] = [state |-> "on", secret |-> NewSecret]]
    /\ Counted /\ PurgeOneAndBump(t)
RotateToken(a, t) == Owned(a, t) /\ NewTokenSecret(t) /\ UNCHANGED apart

\* RevokeUserToken: only a token in force is revoked, and only then is a cache told.
RevokeTokenRow(t) ==
    /\ tokens[t].state = "on"
    /\ tokens' = [tokens EXCEPT ![t].state = "off"]
    /\ PurgeOneAndBump(t)
RevokeToken(a, t) == Owned(a, t) /\ RevokeTokenRow(t) /\ UNCHANGED <<lastIds, apart>>

\* DeleteUserToken: the bindings of its groups stay behind.
DeleteTokenRow(t) ==
    /\ Made(t)
    /\ tokens' = [tokens EXCEPT ![t].state = "gone"]
    /\ PurgeOneAndBump(t)
DeleteToken(a, t) == Owned(a, t) /\ DeleteTokenRow(t) /\ UNCHANGED <<lastIds, apart>>

TokensBegin(a) ==
    \E t \in Tokens : CreateToken(a, t) \/ RotateToken(a, t) \/ RevokeToken(a, t) \/ DeleteToken(a, t)

=============================================================================
