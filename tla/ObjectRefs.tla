------------------------------ MODULE ObjectRefs ------------------------------
(***************************************************************************)
(* Objects an upstream keeps for users: responses and stored chat          *)
(* completions.  The system remembers who made each and over which channel *)
(* and credential, and sends later requests about it there.                *)
(*                                                                         *)
(*   internal/api/openai/object_refs.go, extended_ops.go        (handlers) *)
(*   internal/store/openai_object_refs.go                          (store) *)
(*                                                                         *)
(* An upstream is outside: it holds objects of every user under one        *)
(* account, so the rows here are all that keeps users apart.  Ids are      *)
(* drawn by upstreams and taken to be unique among them.                   *)
(***************************************************************************)
EXTENDS Naturals, FiniteSets

CONSTANTS
    Makers,     \* users
    Objects,    \* ids, of both types
    Chats,      \* the ids of chat completions
    Hosts,      \* selections: channel, endpoint, credential
    CodexHosts, \* those that log in with a Codex account
    Masking,    \* those whose status_code_mapping turns an error into 404 or 2xx, or 404 into an error
    Lookups,    \* requests about objects
    MaxLookups, \* such requests ever begun (a bound)
    MaxMade     \* objects ever made (a bound)

ASSUME ObjectsAssumption ==
    Chats \subseteq Objects /\ CodexHosts \subseteq Hosts /\ Masking \subseteq Hosts

NoOne == "no one"
Nowhere == "nowhere"
ASSUME BoundsOfRefs == IsFiniteSet(Objects) /\ MaxLookups \in Nat
ASSUME NobodyAssumption == NoOne \notin Makers /\ Nowhere \notin Hosts

VARIABLES
    refs,     \* openai_object_refs, by id
    heldAt,   \* where each object is now
    madeBy,   \* who made it
    asking,   \* where each request is
    asked,    \* requests begun so far
    known,    \* history: objects a row was written for
    served    \* history: <<user, object>> whose content went out
refVars == <<refs, heldAt, madeBy, asking, asked, known, served>>

NoRef == [user |-> NoOne, host |-> Nowhere, at |-> 0]
NotAsking == [op |-> "none", user |-> NoOne, objects |-> {}, host |-> Nowhere, status |-> "none"]
ObjectOf(q) == CHOOSE o \in q.objects : TRUE

RefsTypeOK ==
    /\ refs \in [Objects -> [user: Makers \cup {NoOne}, host: Hosts \cup {Nowhere},
                             at: 0..Cardinality(Objects)]]
    /\ heldAt \in [Objects -> Hosts \cup {Nowhere}] /\ madeBy \in [Objects -> Makers \cup {NoOne}]
    /\ asking \in [Lookups -> [op: {"none", "serve", "delete", "forget", "list"},
            user: Makers \cup {NoOne}, objects: SUBSET Objects,
            host: Hosts \cup {Nowhere}, status: {"none", "ok", "missing", "error"}]]
    /\ asked \in 0..MaxLookups /\ known \subseteq Objects
    /\ served \subseteq Makers \X Objects

RefsInit ==
    /\ refs = [o \in Objects |-> NoRef] /\ heldAt = [o \in Objects |-> Nowhere]
    /\ madeBy = [o \in Objects |-> NoOne] /\ asking = [r \in Lookups |-> NotAsking]
    /\ asked = 0 /\ known = {} /\ served = {}

-----------------------------------------------------------------------------
(* Store operations.                                                       *)

\* UpsertOpenAIObjectRef: created_at is that of the first insert.
UpsertRef(o, u, h) ==
    refs' = [refs EXCEPT ![o] =
        [user |-> u, host |-> h, at |-> IF @ = NoRef THEN Cardinality(known) + 1 ELSE @.at]]
\* Mutant: GetOpenAIObjectRef, which nothing calls: the row of the id, whoever's it is.
RefOf(u, o) == refs[o] # NoRef
\* GetOpenAIObjectRefForUser.
RefForUser(u, o) == refs[o] # NoRef /\ refs[o].user = u
\* ListOpenAIObjectRefsByUser: newest first.  Its limit of 500 is not reached.
RefsByUser(u) == {o \in Chats : RefForUser(u, o)}
Newest(u) == CHOOSE o \in RefsByUser(u) : \A x \in RefsByUser(u) : refs[x].at <= refs[o].at
DeleteRef(o) == refs' = [refs EXCEPT ![o] = NoRef]

-----------------------------------------------------------------------------
(* Relayed requests, of which module Relay models the rest.                *)

Made == {o \in Objects : madeBy[o] # NoOne}
\* An upstream makes a response, or a chat completion whose body asked to store it
\* (then with the maker's tag in its metadata).  The id is found in the body or in
\* the stream and the row written.
MakeObject(u, o, h) ==
    /\ o \notin Made /\ Cardinality(Made) < MaxMade
    /\ madeBy' = [madeBy EXCEPT ![o] = u] /\ heldAt' = [heldAt EXCEPT ![o] = h]
    /\ UpsertRef(o, u, h) /\ known' = known \cup {o}
    /\ UNCHANGED <<asking, asked, served>>
\* The row is not written: its insert fails (its context ends with the client's),
\* the body is too long to search, or the stream breaks before its first id.
MakeUnrecorded(u, o, h) ==
    /\ o \notin Made /\ Cardinality(Made) < MaxMade
    /\ madeBy' = [madeBy EXCEPT ![o] = u] /\ heldAt' = [heldAt EXCEPT ![o] = h]
    /\ UNCHANGED <<refs, asking, asked, known, served>>
\* An upstream drops an object of its own accord.
ObjectExpires(o) ==
    /\ heldAt[o] # Nowhere /\ heldAt' = [heldAt EXCEPT ![o] = Nowhere]
    /\ UNCHANGED <<refs, madeBy, asking, asked, known, served>>

-----------------------------------------------------------------------------
(* Requests about one object.                                              *)

\* The caller's own row gives the selection, as it was when the object was made:
\* whether its channel is still enabled is not asked.
Owned(r, u, o, op) ==
    /\ asked < MaxLookups /\ asked' = asked + 1
    /\ asking[r] = NotAsking
    /\ RefForUser(u, o) /\ (o \notin Chats => refs[o].host \notin CodexHosts)
    /\ asking' = [asking EXCEPT ![r] =
            [op |-> op, user |-> u, objects |-> {o}, host |-> refs[o].host, status |-> "none"]]
    /\ UNCHANGED <<refs, heldAt, madeBy, known, served>>
ResponseRetrieve(r, u, o) == o \notin Chats /\ Owned(r, u, o, "serve")
ResponseCancel(r, u, o) == o \notin Chats /\ Owned(r, u, o, "serve")
ResponseInputItems(r, u, o) == o \notin Chats /\ Owned(r, u, o, "serve")
ResponseDelete(r, u, o) == o \notin Chats /\ Owned(r, u, o, "delete")
ChatCompletionRetrieve(r, u, o) == o \in Chats /\ Owned(r, u, o, "serve")
ChatCompletionUpdate(r, u, o) == o \in Chats /\ Owned(r, u, o, "serve")
ChatCompletionMessages(r, u, o) == o \in Chats /\ Owned(r, u, o, "serve")
ChatCompletionDelete(r, u, o) == o \in Chats /\ Owned(r, u, o, "delete")

Finished(r) == asking' = [asking EXCEPT ![r] = NotAsking]
\* A deletion goes on with the status the client was given.
Shown(r, status) ==
    asking' = [asking EXCEPT ![r] = IF @.op = "serve" THEN NotAsking
                                    ELSE [@ EXCEPT !.op = "forget", !.status = status]]
\* resetStatusCode, on what is not 2xx.
Masked(h, status) == IF h \in Masking THEN {"ok", "missing", "error"} ELSE {status}

\* proxyFixedSelection: the upstream answers with the object, or removes it.
HostServes(r) ==
    LET q == asking[r]
    IN  /\ q.op \in {"serve", "delete"} /\ heldAt[ObjectOf(q)] = q.host
        /\ heldAt' = IF q.op = "delete" THEN [heldAt EXCEPT ![ObjectOf(q)] = Nowhere] ELSE heldAt
        /\ served' = IF q.op = "serve" THEN served \cup {<<q.user, ObjectOf(q)>>} ELSE served
        /\ Shown(r, "ok") /\ UNCHANGED <<refs, madeBy, asked, known>>
\* It has no such object, or it refuses.
HostRefuses(r) ==
    LET q == asking[r]
    IN  /\ q.op \in {"serve", "delete"}
        /\ \E status \in Masked(q.host, IF heldAt[ObjectOf(q)] = q.host THEN "error" ELSE "missing") :
            Shown(r, status)
        /\ UNCHANGED <<refs, heldAt, madeBy, asked, known, served>>
\* No answer comes back, from one that did its work or did not: 502.
HostLost(r) ==
    LET q == asking[r]
    IN  /\ q.op \in {"serve", "delete"}
        /\ \/ heldAt' = heldAt
           \/ q.op = "delete" /\ heldAt' = [heldAt EXCEPT ![ObjectOf(q)] = Nowhere]
        /\ Shown(r, "error") /\ UNCHANGED <<refs, madeBy, asked, known, served>>

\* Mutant: whatever the upstream said.
ForgetAnyway(r) == asking[r].op = "forget" /\ DeleteRef(ObjectOf(asking[r]))
\* The row goes when the object is said to be gone, by id: the user is not in the
\* condition.
ForgetIfGone(r) ==
    /\ asking[r].op = "forget"
    /\ IF asking[r].status \in {"ok", "missing"} THEN DeleteRef(ObjectOf(asking[r])) ELSE refs' = refs
Forget(r) ==
    /\ ForgetIfGone(r) /\ Finished(r) /\ UNCHANGED <<heldAt, madeBy, asked, known, served>>

-----------------------------------------------------------------------------
(* ChatCompletionsList: one upstream is asked, that of the newest row.     *)

ListChats(r, u) ==
    /\ asked < MaxLookups /\ asked' = asked + 1
    /\ asking[r] = NotAsking /\ RefsByUser(u) # {}
    /\ asking' = [asking EXCEPT ![r] = [op |-> "list", user |-> u, objects |-> RefsByUser(u),
            host |-> refs[Newest(u)].host, status |-> "none"]]
    /\ UNCHANGED <<refs, heldAt, madeBy, known, served>>
\* Mutant: the upstream is trusted to filter by the owner tag.
AllListed(q, listed) == listed
\* Only the ids of the caller's rows are let through, as they were before.
AllowedOf(q, listed) == listed \cap q.objects
\* The request carries the caller's tag; an upstream may know nothing of it.
ListAnswered(r) ==
    LET q == asking[r]
        held == {o \in Chats : heldAt[o] = q.host}
    IN  /\ q.op = "list"
        /\ \E listed \in {{}, held, {o \in held : madeBy[o] = q.user}} :
            served' = served \cup ({q.user} \X AllowedOf(q, listed))
        /\ Finished(r) /\ UNCHANGED <<refs, heldAt, madeBy, asked, known>>

RefsNext ==
    \/ \E u \in Makers, o \in Objects, h \in Hosts : MakeObject(u, o, h) \/ MakeUnrecorded(u, o, h)
    \/ \E o \in Objects : ObjectExpires(o)
    \/ \E r \in Lookups, u \in Makers, o \in Objects :
        \/ ResponseRetrieve(r, u, o) \/ ResponseCancel(r, u, o)
        \/ ResponseInputItems(r, u, o) \/ ResponseDelete(r, u, o)
        \/ ChatCompletionRetrieve(r, u, o) \/ ChatCompletionUpdate(r, u, o)
        \/ ChatCompletionMessages(r, u, o) \/ ChatCompletionDelete(r, u, o)
    \/ \E r \in Lookups :
        \/ HostServes(r) \/ HostRefuses(r) \/ HostLost(r) \/ Forget(r) \/ ListAnswered(r)
        \/ \E u \in Makers : ListChats(r, u)

-----------------------------------------------------------------------------
\* Users share upstream accounts and see only what they made, whatever ids they
\* ask for and whatever an upstream lists; and an object that its upstream still
\* holds stays within its maker's reach, through failures and races of deletions,
\* unless the channel's status mapping makes an error look like its end
\* (ownedSelection, ResponseDelete, ChatCompletionDelete, ChatCompletionsList).
RefsServeMakers ==
    /\ \A x \in served : madeBy[x[2]] = x[1]
    /\ \A o \in known : heldAt[o] \in Hosts \ Masking => RefForUser(madeBy[o], o)

=============================================================================
