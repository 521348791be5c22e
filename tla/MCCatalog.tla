------------------------------ MODULE MCCatalog ------------------------------
\* Handlers and caches over one set of tables, a few of them at a time.
EXTENDS Handlers, Caches, TLC

CONSTANT MaxRequests

VARIABLES
    scene,   \* which handlers are called
    left     \* requests still to come

A == CHOOSE n \in Names : TRUE
M == CHOOSE m \in Mains : TRUE
E == CHOOSE e \in Emails : TRUE
Root == CHOOSE u \in Users : TRUE
Other == CHOOSE u \in Users : u # Root
MCOwnerOf == [t \in Tokens |-> Other]

RootRow == [state |-> "on", root |-> TRUE, email |-> E, password |-> 1, changed |-> 1]
OtherRow == [state |-> "on", root |-> FALSE, email |-> None, password |-> 0, changed |-> 1]
RootCookie == [user |-> Root, stamp |-> 0, password |-> 1, seen |-> 1, made |-> 0]

\* Group 1, enabled, is granted to main group M, whose users are all but root and
\* have bound their tokens to it; a model names it; channel 1 is its member.
Start ==
    /\ lastIds = [group |-> 1, channel |-> 1, cred |-> 0, secret |-> 1, password |-> 1]
    /\ second = 1
    /\ tokens = [t \in Tokens |-> [state |-> "on", secret |-> 1]]
    /\ groups = [g \in GroupIds |-> IF g = 1 THEN [name |-> A, on |-> TRUE] ELSE NoGroup]
    /\ nested = {} /\ overtaken = {} /\ members = {<<1, 1>>} /\ default = 1
    /\ channels = [c \in ChannelIds |->
            IF c = 1 THEN [live |-> TRUE, kind |-> "openai", on |-> TRUE, csv |-> {A}]
            ELSE NoChannel]
    /\ endpoints = {1} /\ creds = {}
    /\ pointers = [g \in GroupIds |-> NoPointer]
    /\ mains = [m \in Mains |-> IF m = M THEN "on" ELSE "none"]
    /\ granted = [m \in Mains |-> IF m = M THEN {A} ELSE {}]
    /\ bound = [t \in Tokens |-> {A}]
    /\ tags = [x \in Tagged |-> A]
    /\ work = [a \in Clients |-> Idle]
    /\ snap = [i \in Instances |-> EmptySnap]
    /\ auth = [i \in Instances |-> EmptyAuth]
    /\ pending = Instances \X Keys
    /\ codes = [e \in Emails |-> IF e = E THEN 0 ELSE 1] /\ sent = 1 /\ uses = [n \in Codes |-> 0]

Everyone ==
    /\ users = [u \in Users |-> IF u = Root THEN RootRow ELSE OtherRow]
    /\ mainOf = [u \in Users |-> IF u = Root THEN None ELSE M]
    /\ cookies = {RootCookie} /\ verifies = FALSE
\* Before the first user, or with root alone.
Nobody ==
    /\ mainOf = [u \in Users |-> None] /\ verifies \in BOOLEAN
    /\ \/ users = [u \in Users |-> NoUser] /\ cookies = {}
       \/ /\ users = [u \in Users |-> IF u = Root THEN RootRow ELSE NoUser]
          /\ cookies = {RootCookie}

Init ==
    /\ Start /\ staff \in {s \in SUBSET Clients : s # {}}
    /\ \/ scene = "groups" /\ left = MaxRequests /\ Everyone
       \/ scene = "channels" /\ left = MaxRequests - 1 /\ Everyone
       \/ scene = "accounts" /\ left = MaxRequests - 1 /\ Nobody
       \/ scene \in {"auth", "snapshot"} /\ left = 1 /\ Everyone /\ Cardinality(staff) = 1
    /\ CachesInit

One == CHOOSE i \in Instances : TRUE
KeysOf1 == {k \in SnapKeys : k[2] \in {0, 1}}
\* What takes a token away, or a group from it.
AuthBegin(a) ==
    \/ TokensBegin(a)
    \/ \E m \in Mains, ns \in SUBSET Names : CheckSubgroups(a, m, ns)
    \/ \E k \in cookies, u \in Users : 
        DeleteUser(a, k, u) \/ EditUser(a, k, u, users[u].email, FALSE, FALSE, mainOf[u])
    \/ \E g \in GroupIds : ReadDelete(a, g) \/ ReadUpdate(a, g, None, FALSE)
Begin(a) ==
    \/ scene \in {"groups", "channels"} /\ GroupsBegin(a) /\ UNCHANGED accountVars
    \/ scene = "groups" /\ TenancyBegin(a) /\ UNCHANGED accountVars
    \/ scene \in {"channels", "snapshot"} /\ ChannelsBegin(a) /\ UNCHANGED accountVars
    \/ scene = "accounts" /\ AccountsBegin(a)
    \/ scene = "auth" /\ AuthBegin(a) /\ UNCHANGED accountVars
GoOn(a) ==
    \/ (GroupsGoOn(a) \/ TenancyGoOn(a) \/ ChannelsGoOn(a)) /\ UNCHANGED accountVars
    \/ AccountsGoOn(a) /\ UNCHANGED verifies
Work_ ==
    \E a \in staff :
        \/ left > 0 /\ left' = left - 1 /\ Begin(a)
        \/ left' = left /\ GoOn(a)
Next ==
    /\ UNCHANGED <<staff, scene>>
    /\ \/ scene \notin {"auth", "snapshot"} /\ Work_ /\ UNCHANGED <<fetch, lapsed>>
       \/ scene = "accounts" /\ AccountsBy /\ UNCHANGED <<left, fetch, lapsed>>
       \/ scene \in {"auth", "snapshot"} /\ Work_ /\ UNCHANGED fetch /\ Noted
       \/ /\ UNCHANGED <<left, accountVars>>
          /\ \/ scene = "auth" /\ (\E i \in Instances : AuthStep(i) \/ Restart(i)) /\ Noted
             \/ scene = "snapshot" /\ (SnapStep(One, KeysOf1) \/ Restart(One)) /\ Noted
             \/ scene \in {"auth", "snapshot"} /\ Tick
Symmetry == Permutations(Clients)

Spec == Init /\ [][Next]_<<catalogVars, accountVars, fetch, lapsed, staff, scene, left>>

=============================================================================
