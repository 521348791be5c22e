------------------------------ MODULE Handlers ------------------------------
(***************************************************************************)
(* The handlers of groups, tenancy, channels, tokens and accounts over one *)
(* set of tables, and the clients whose requests call them.                *)
(*                                                                         *)
(*   router/admin_channel_groups_api_routes.go,                            *)
(*   router/admin_main_groups_api_routes.go, channels_api_routes.go,       *)
(*   tokens_api_routes.go, user_api_routes.go, account_api_routes.go,      *)
(*   admin_users_api_routes.go                                             *)
(***************************************************************************)
EXTENDS Groups, Tenancy, Channels, Accounts, Tokens

VARIABLE staff   \* the clients at work: one, or several at once

\* A step of one request, and what happens without one.
StepOf(a) ==
    \/ /\ \/ GroupsBegin(a) \/ GroupsGoOn(a) \/ TenancyBegin(a) \/ TenancyGoOn(a)
          \/ ChannelsBegin(a) \/ ChannelsGoOn(a) \/ TokensBegin(a)
       /\ UNCHANGED accountVars
    \/ AccountsBegin(a) \/ AccountsGoOn(a)
HandlersNext(S) == (\E a \in S : StepOf(a)) \/ AccountsBy

-----------------------------------------------------------------------------
(* Properties.                                                             *)

\* As long as one administrator works at a time the tables agree in every state,
\* whichever step of a request is its last (createChildChannelGroup,
\* createChannelHandler, updateChannelHandler, ForceDeleteChannelGroup).
TidyWhenAlone == Cardinality(staff) = 1 => Tidy

=============================================================================
