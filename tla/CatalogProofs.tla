---------------------------- MODULE CatalogProofs ----------------------------
(***************************************************************************)
(* The tables administrators, users and tokens change, and the caches that *)
(* repeat them, for any number of rows, clients, instances and requests.   *)
(*                                                                         *)
(* Caches: the argument does not look at who purges what.  A fact that no  *)
(* longer holds has lapsed for at most as long as the request has run that *)
(* read it while it held (Learned), and an entry is given what the TTL     *)
(* leaves of that time (Aged).  The handlers appear as AnyWriter: tables   *)
(* change at will, and cached entries may go.                              *)
(*                                                                         *)
(* Handlers: HInv holds between any two steps of any requests.  What a     *)
(* request waiting between two of its steps may be about (Fits), no name   *)
(* twice (Unique), a forest of the groups that were not overtaken (Tree),  *)
(* a nesting's check that holds until its INSERT, or is overtaken          *)
(* (Linked), no session younger than its password, those that a request    *)
(* has yet to save included (Sessions), no code used twice (Mail).         *)
(* ConfigMove, UsersMove and MailMove say what any step may do to the rows *)
(* each of them is about.                                                  *)
(*                                                                         *)
(* All together: the handlers are writers as the caches expect them, so    *)
(* the catalog with its caches implements the abstract CachesSpec.         *)
(*                                                                         *)
(* One client alone (Settled): the tables agree between any two steps of   *)
(* a request, and what the request has read is still so (AsRead), since    *)
(* nobody else has written.                                                *)
(***************************************************************************)
EXTENDS Handlers, Caches, FiniteSetTheorems, TLAPS

KnownRows == ChannelIds \cup CredRows
AuthEntries == [left: Nat, token: Tokens \cup {None}, groups: SUBSET Names]
SnapEntries == [left: Nat, rows: SUBSET KnownRows]
FetchRows == [op: {"idle", "token", "groups", "auth", "rows", "list"}, on: Instances \cup {None},
              secret: Secrets \cup {0}, key: SnapKeys \cup {None}, late: Nat,
              token: Tokens \cup {None}, found: SUBSET (Names \cup KnownRows)]

TablesTyped == creds \subseteq CredRows /\ bound \in [Tokens -> SUBSET Names]

AnyWriter ==
    /\ \E keep \in SUBSET (Instances \X Secrets) :
        auth' = [i \in Instances |-> [n \in Secrets |->
            IF <<i, n>> \in keep THEN auth[i][n] ELSE NoAuth]]
    /\ \E keep \in SUBSET (Instances \X SnapKeys) :
        snap' = [i \in Instances |-> [k \in SnapKeys |->
            IF <<i, k>> \in keep THEN snap[i][k] ELSE NoSnap]]
    /\ UNCHANGED fetch /\ Noted /\ TablesTyped'
CachesStart ==
    /\ CachesInit /\ TablesTyped
    /\ auth = [i \in Instances |-> EmptyAuth] /\ snap = [i \in Instances |-> EmptySnap]
CachesNext ==
    \/ AnyWriter
    \/ \E i \in Instances : (AuthStep(i) \/ SnapStep(i, SnapKeys) \/ Restart(i)) /\ Noted
    \/ Tick
CachesSpec == CachesStart /\ [][CachesNext]_<<cacheVars, tables>>

-----------------------------------------------------------------------------
(* The caches, whoever writes.                                             *)

CachesTyped ==
    /\ auth \in [Instances -> [Secrets -> AuthEntries]]
    /\ snap \in [Instances -> [SnapKeys -> SnapEntries]]
    /\ fetch \in [Requests -> FetchRows]
    /\ lapsed \in [Facts -> Nat]
    /\ TablesTyped
\* A fact that holds has not lapsed.
Current == \A f \in Facts : Holds(f) => lapsed[f] = 0
\* A request knows nothing that lapsed before it began.
LearnedBy(w, past) ==
    /\ w.op # "idle" => w.on \in Instances
    /\ w.op \in {"token", "groups", "auth"} => w.secret \in Secrets
    /\ w.op \in {"groups", "auth"} => w.token \in Tokens /\ past[<<"secret", w.secret>>] <= w.late
    /\ w.op = "auth" =>
        \A g \in w.found : g \in Names /\ past[<<"group", <<w.token, g>>>>] <= w.late
    /\ w.op \in {"rows", "list"} => w.key \in SnapKeys
    /\ w.op = "list" =>
        \A x \in w.found : x \in KnownRows /\ <<w.key[1], x>> \in Facts /\ past[<<w.key[1], x>>] <= w.late
\* An entry has at most the time left that what it says has not lapsed for yet.
AuthAged(n, e, past) ==
    e.left > 0 =>
        /\ e.token \in Tokens /\ past[<<"secret", n>>] + e.left <= AuthTTL + 1
        /\ \A g \in e.groups : past[<<"group", <<e.token, g>>>>] + e.left <= AuthTTL + 1
SnapAged(k, e, past) ==
    e.left > 0 =>
        \A x \in e.rows : <<k[1], x>> \in Facts /\ past[<<k[1], x>>] + e.left <= SnapTTL
Learned == \A r \in Requests : LearnedBy(fetch[r], lapsed)
Aged ==
    /\ \A i \in Instances, n \in Secrets : AuthAged(n, auth[i][n], lapsed)
    /\ \A i \in Instances, k \in SnapKeys : SnapAged(k, snap[i][k], lapsed)
CInv == CachesTyped /\ Current /\ Learned /\ Aged

\* The history moves by at most `d`.
Later(d) ==
    /\ lapsed' \in [Facts -> Nat]
    /\ \A f \in Facts : lapsed'[f] <= lapsed[f] + d

LEMMA NotedLater ==
  ASSUME CInv, Noted
  PROVE  Later(0) /\ Current'
<1>1. \A f \in Facts : lapsed'[f] = IF Holds(f)' THEN 0 ELSE lapsed[f]
  BY DEF Noted
<1>2. lapsed' \in [Facts -> Nat] /\ \A f \in Facts : lapsed[f] \in Nat
  BY DEF Noted, CInv, CachesTyped
<1>3. Facts' = Facts
  BY DEF Facts
<1>4. QED
  BY <1>1, <1>2, <1>3 DEF Later, Current

LEMMA SecretFact ==
  ASSUME NEW n \in Secrets
  PROVE  <<"secret", n>> \in Facts /\ (Holds(<<"secret", n>>) <=> \E t \in Tokens : InForce(t, n))
BY DEF Facts, Holds

LEMMA GroupFact ==
  ASSUME NEW t \in Tokens, NEW g \in Names
  PROVE  /\ <<"group", <<t, g>>>> \in Facts
         /\ Holds(<<"group", <<t, g>>>>) <=> g \in Effective(t)
BY DEF Facts, Holds

LEMMA RowFact ==
  ASSUME NEW k \in SnapKeys, TablesTyped, NEW x \in Rows(k)
  PROVE  x \in KnownRows /\ <<k[1], x>> \in Facts /\ Holds(<<k[1], x>>)
<1>1. CASE k[1] = "channels"
  BY <1>1 DEF Rows, Selectable, KnownRows, Facts, Holds
<1>2. CASE k[1] = "endpoints" /\ k[2] \in ChannelIds
  BY <1>2 DEF Rows, EndpointOf, KnownRows, Facts, Holds
<1>3. CASE k[1] = "creds" /\ k[2] \in ChannelIds
  BY <1>3 DEF Rows, CredsOf, KnownRows, Facts, Holds, TablesTyped
<1>4. QED
  BY <1>1, <1>2, <1>3 DEF SnapKeys

\* With no entry older, and no request that has run for less, all stays true.
LEMMA LearnedLater ==
  ASSUME CInv, NEW d \in Nat, Later(d), NEW w \in FetchRows, LearnedBy(w, lapsed),
         NEW v \in FetchRows, v = [w EXCEPT !.late = @ + d]
  PROVE  LearnedBy(v, lapsed')
<1>1. /\ v.op = w.op /\ v.on = w.on /\ v.secret = w.secret /\ v.token = w.token
      /\ v.key = w.key /\ v.found = w.found /\ v.late = w.late + d /\ w.late \in Nat
  BY DEF FetchRows
<1>2. \A f \in Facts : lapsed[f] \in Nat /\ lapsed'[f] \in Nat
  BY DEF CInv, CachesTyped, Later
<1>3. \A f \in Facts : lapsed[f] <= w.late => lapsed'[f] <= v.late
  BY <1>1, <1>2 DEF Later
<1>4. w.op \in {"groups", "auth"} => lapsed'[<<"secret", w.secret>>] <= v.late
  BY <1>3, SecretFact DEF LearnedBy
<1>5. w.op = "auth" => \A g \in w.found : lapsed'[<<"group", <<w.token, g>>>>] <= v.late
  BY <1>3, GroupFact DEF LearnedBy
<1>6. w.op = "list" => \A x \in w.found : lapsed'[<<w.key[1], x>>] <= v.late
  BY <1>3 DEF LearnedBy
<1>7. QED
  BY <1>1, <1>4, <1>5, <1>6 DEF LearnedBy, Facts

LEMMA AgedLater ==
  ASSUME CInv, NEW d \in Nat, Later(d)
  PROVE  /\ \A n \in Secrets, e \in AuthEntries :
                AuthAged(n, e, lapsed) /\ e.left > d => AuthAged(n, [e EXCEPT !.left = @ - d], lapsed')
         /\ \A k \in SnapKeys, e \in SnapEntries :
                SnapAged(k, e, lapsed) /\ e.left > d => SnapAged(k, [e EXCEPT !.left = @ - d], lapsed')
<1>1. \A f \in Facts : lapsed[f] \in Nat /\ lapsed'[f] \in Nat /\ lapsed'[f] <= lapsed[f] + d
  BY DEF CInv, CachesTyped, Later
<1>2. ASSUME NEW n \in Secrets, NEW e \in AuthEntries, AuthAged(n, e, lapsed), e.left > d
      PROVE  AuthAged(n, [e EXCEPT !.left = @ - d], lapsed')
  <2>1. /\ e.left \in Nat /\ e.left > 0 /\ e.token \in Tokens
        /\ [e EXCEPT !.left = @ - d].left = e.left - d
        /\ [e EXCEPT !.left = @ - d].token = e.token
        /\ [e EXCEPT !.left = @ - d].groups = e.groups /\ e.groups \subseteq Names
    BY <1>2 DEF AuthAged, AuthEntries
  <2>2. lapsed'[<<"secret", n>>] + (e.left - d) <= AuthTTL + 1
    BY <1>1, <1>2, <2>1, SecretFact, TTLAssumption DEF AuthAged
  <2>3. \A g \in e.groups : lapsed'[<<"group", <<e.token, g>>>>] + (e.left - d) <= AuthTTL + 1
    BY <1>1, <1>2, <2>1, GroupFact, TTLAssumption DEF AuthAged
  <2>4. QED
    BY <2>1, <2>2, <2>3 DEF AuthAged
<1>3. ASSUME NEW k \in SnapKeys, NEW e \in SnapEntries, SnapAged(k, e, lapsed), e.left > d
      PROVE  SnapAged(k, [e EXCEPT !.left = @ - d], lapsed')
  <2>1. /\ e.left \in Nat /\ e.left > 0
        /\ [e EXCEPT !.left = @ - d].left = e.left - d /\ [e EXCEPT !.left = @ - d].rows = e.rows
    BY <1>3 DEF SnapEntries
  <2>2. \A x \in e.rows : <<k[1], x>> \in Facts /\ lapsed'[<<k[1], x>>] + (e.left - d) <= SnapTTL
    BY <1>1, <1>3, <2>1, TTLAssumption DEF SnapAged
  <2>3. QED
    BY <2>1, <2>2 DEF SnapAged, Facts
<1>4. QED
  BY <1>2, <1>3

-----------------------------------------------------------------------------
\* A step that lets no time pass: what it leaves alone stays true.
LEMMA StepOK ==
  ASSUME CInv, Noted, TablesTyped',
         auth' \in [Instances -> [Secrets -> AuthEntries]],
         snap' \in [Instances -> [SnapKeys -> SnapEntries]],
         fetch' \in [Requests -> FetchRows],
         \A r \in Requests : fetch'[r] = fetch[r] \/ LearnedBy(fetch'[r], lapsed'),
         \A i \in Instances, n \in Secrets :
            auth'[i][n] = auth[i][n] \/ AuthAged(n, auth'[i][n], lapsed'),
         \A i \in Instances, k \in SnapKeys :
            snap'[i][k] = snap[i][k] \/ SnapAged(k, snap'[i][k], lapsed')
  PROVE  CInv'
<1>1. Later(0) /\ Current'
  BY NotedLater
<1>2. CachesTyped'
  BY <1>1 DEF CachesTyped, Later, Facts
<1>3. ASSUME NEW r \in Requests PROVE LearnedBy(fetch'[r], lapsed')
  <2>1. fetch[r] \in FetchRows /\ LearnedBy(fetch[r], lapsed)
    BY DEF CInv, CachesTyped, Learned
  <2>2. fetch[r] = [fetch[r] EXCEPT !.late = @ + 0]
    BY <2>1 DEF FetchRows
  <2>3. LearnedBy(fetch[r], lapsed')
    BY <1>1, <2>1, <2>2, LearnedLater
  <2>4. QED
    BY <2>3
<1>4. ASSUME NEW i \in Instances, NEW n \in Secrets PROVE AuthAged(n, auth'[i][n], lapsed')
  <2>1. auth[i][n] \in AuthEntries /\ AuthAged(n, auth[i][n], lapsed)
    BY DEF CInv, CachesTyped, Aged
  <2>2. auth[i][n].left > 0 => AuthAged(n, [auth[i][n] EXCEPT !.left = @ - 0], lapsed')
    BY <1>1, <2>1, AgedLater
  <2>3. auth[i][n] = [auth[i][n] EXCEPT !.left = @ - 0]
    BY <2>1 DEF AuthEntries
  <2>4. AuthAged(n, auth[i][n], lapsed')
    BY <2>2, <2>3 DEF AuthAged
  <2>5. QED
    BY <2>4
<1>5. ASSUME NEW i \in Instances, NEW k \in SnapKeys PROVE SnapAged(k, snap'[i][k], lapsed')
  <2>1. snap[i][k] \in SnapEntries /\ SnapAged(k, snap[i][k], lapsed)
    BY DEF CInv, CachesTyped, Aged
  <2>2. snap[i][k].left > 0 => SnapAged(k, [snap[i][k] EXCEPT !.left = @ - 0], lapsed')
    BY <1>1, <2>1, AgedLater
  <2>3. snap[i][k] = [snap[i][k] EXCEPT !.left = @ - 0]
    BY <2>1 DEF SnapEntries
  <2>4. SnapAged(k, snap[i][k], lapsed')
    BY <2>2, <2>3 DEF SnapAged
  <2>5. QED
    BY <2>4
<1>6. Learned' /\ Aged'
  BY <1>3, <1>4, <1>5 DEF Learned, Aged
<1>7. QED
  BY <1>1, <1>2, <1>6 DEF CInv

LEMMA NothingSaid ==
  /\ NoFetch \in FetchRows /\ NoAuth \in AuthEntries /\ NoSnap \in SnapEntries
  /\ \A past : LearnedBy(NoFetch, past)
  /\ \A n, past : AuthAged(n, NoAuth, past)
  /\ \A k, past : SnapAged(k, NoSnap, past)
BY DEF NoFetch, NoAuth, NoSnap, FetchRows, AuthEntries, SnapEntries, LearnedBy, AuthAged, SnapAged

\* The handlers only take entries away.
LEMMA AnyWriterStep ==
  ASSUME CInv, AnyWriter
  PROVE  CInv'
<1>1. /\ auth' \in [Instances -> [Secrets -> AuthEntries]]
      /\ \A i \in Instances, n \in Secrets : auth'[i][n] \in {auth[i][n], NoAuth}
  BY NothingSaid DEF AnyWriter, CInv, CachesTyped
<1>2. /\ snap' \in [Instances -> [SnapKeys -> SnapEntries]]
      /\ \A i \in Instances, k \in SnapKeys : snap'[i][k] \in {snap[i][k], NoSnap}
  BY NothingSaid DEF AnyWriter, CInv, CachesTyped
<1>3. fetch' = fetch /\ Noted /\ TablesTyped'
  BY DEF AnyWriter
<1>4. fetch' \in [Requests -> FetchRows]
  BY <1>3 DEF CInv, CachesTyped
<1>5. QED
  BY <1>1, <1>2, <1>3, <1>4, NothingSaid, StepOK

\* One request moves on, no cache changes.
LEMMA FetchStep ==
  ASSUME CInv, Noted, UNCHANGED <<tables, caches>>, NEW r \in Requests, NEW w \in FetchRows,
         fetch' = [fetch EXCEPT ![r] = w], LearnedBy(w, lapsed')
  PROVE  CInv'
<1>1. TablesTyped' /\ auth' = auth /\ snap' = snap
  BY DEF tables, grants, channelTables, caches, TablesTyped, CredRows, CInv, CachesTyped
<1>2. /\ fetch' \in [Requests -> FetchRows] /\ fetch'[r] = w
      /\ \A x \in Requests : x # r => fetch'[x] = fetch[x]
  BY DEF CInv, CachesTyped
<1>3. QED
  BY <1>1, <1>2, StepOK DEF CInv, CachesTyped

\* Reading is learning what holds now; the request has run for no time less.
LEMMA AskStep ==
  ASSUME CInv, Noted, NEW r \in Requests, NEW i \in Instances,
         \/ \E n \in Secrets : MissAuth(r, i, n)
         \/ \E k \in SnapKeys : MissList(r, i, k)
  PROVE  CInv'
<1>1. ASSUME NEW n \in Secrets, MissAuth(r, i, n)
      PROVE  CInv'
  <2>1. PICK w : /\ w = [NoFetch EXCEPT !.op = "token", !.on = i, !.secret = n]
                 /\ fetch' = [fetch EXCEPT ![r] = w] /\ UNCHANGED <<tables, caches>>
    BY <1>1 DEF MissAuth
  <2>2. w \in FetchRows /\ w.op = "token" /\ w.on = i /\ w.secret = n
    BY <2>1, NothingSaid DEF NoFetch, FetchRows
  <2>3. QED
    BY <2>1, <2>2, FetchStep DEF LearnedBy
<1>2. ASSUME NEW k \in SnapKeys, MissList(r, i, k)
      PROVE  CInv'
  <2>1. PICK w : /\ w = [NoFetch EXCEPT !.op = "rows", !.on = i, !.key = k]
                 /\ fetch' = [fetch EXCEPT ![r] = w] /\ UNCHANGED <<tables, caches>>
    BY <1>2 DEF MissList
  <2>2. w \in FetchRows /\ w.op = "rows" /\ w.on = i /\ w.key = k
    BY <2>1, NothingSaid DEF NoFetch, FetchRows
  <2>3. QED
    BY <2>1, <2>2, FetchStep DEF LearnedBy
<1>3. QED
  BY <1>1, <1>2

LEMMA FreshFacts ==
  ASSUME CInv, Noted, NEW f \in Facts, NEW late \in Nat
  PROVE  /\ lapsed[f] <= late => lapsed'[f] <= late
         /\ Holds(f) => lapsed'[f] <= late
<1>1. lapsed'[f] <= lapsed[f] /\ lapsed[f] \in Nat /\ lapsed'[f] \in Nat
  BY NotedLater DEF Later, CInv, CachesTyped
<1>2. Holds(f) => lapsed[f] = 0
  BY DEF CInv, Current
<1>3. QED
  BY <1>1, <1>2

LEMMA ReadTokenStep ==
  ASSUME CInv, Noted, NEW r \in Requests, ReadToken(r)
  PROVE  CInv'
<1>1. /\ fetch[r] \in FetchRows /\ fetch[r].op = "token" /\ fetch[r].secret \in Secrets
      /\ fetch[r].on \in Instances /\ fetch[r].late \in Nat
      /\ UNCHANGED <<tables, caches>>
  BY DEF ReadToken, Fetching, CInv, CachesTyped, Learned, LearnedBy, FetchRows
<1>2. ASSUME NEW t \in Tokens, InForce(t, fetch[r].secret),
             fetch' = [fetch EXCEPT ![r] = [fetch[r] EXCEPT !.op = "groups", !.token = t]]
      PROVE  CInv'
  <2>1. PICK w : w = [fetch[r] EXCEPT !.op = "groups", !.token = t]
    OBVIOUS
  <2>2. /\ w \in FetchRows /\ w.op = "groups" /\ w.token = t /\ w.secret = fetch[r].secret
        /\ w.on = fetch[r].on /\ w.late = fetch[r].late
    BY <1>1, <2>1 DEF FetchRows
  <2>3. lapsed'[<<"secret", w.secret>>] <= w.late
    BY <1>1, <1>2, <2>2, SecretFact, FreshFacts
  <2>4. QED
    BY <1>1, <1>2, <2>1, <2>2, <2>3, FetchStep DEF LearnedBy
<1>3. CASE Ends(r)
  BY <1>1, <1>3, NothingSaid, FetchStep DEF Ends
<1>4. QED
  BY <1>2, <1>3 DEF ReadToken

LEMMA ReadGroupsStep ==
  ASSUME CInv, Noted, NEW r \in Requests, ReadGroups(r)
  PROVE  CInv'
<1>1. /\ fetch[r] \in FetchRows /\ fetch[r].op = "groups" /\ fetch[r].secret \in Secrets
      /\ fetch[r].token \in Tokens /\ lapsed[<<"secret", fetch[r].secret>>] <= fetch[r].late
      /\ fetch[r].on \in Instances /\ fetch[r].late \in Nat
      /\ UNCHANGED <<tables, caches>>
  BY DEF ReadGroups, Fetching, CInv, CachesTyped, Learned, LearnedBy, FetchRows
<1>2. PICK gs \in {Effective(fetch[r].token), {}} :
          fetch' = [fetch EXCEPT ![r] = [fetch[r] EXCEPT !.op = "auth", !.found = gs]]
  BY DEF ReadGroups
<1>3. PICK w : w = [fetch[r] EXCEPT !.op = "auth", !.found = gs]
  OBVIOUS
<1>4. gs \subseteq Names /\ gs \subseteq Effective(fetch[r].token)
  BY <1>1 DEF Effective, CInv, CachesTyped, TablesTyped
<1>5. /\ w \in FetchRows /\ w.op = "auth" /\ w.token = fetch[r].token /\ w.found = gs
      /\ w.secret = fetch[r].secret /\ w.on = fetch[r].on /\ w.late = fetch[r].late
  BY <1>1, <1>3, <1>4 DEF FetchRows
<1>6. lapsed'[<<"secret", w.secret>>] <= w.late
  BY <1>1, <1>5, SecretFact, FreshFacts
<1>7. \A g \in w.found : g \in Names /\ lapsed'[<<"group", <<w.token, g>>>>] <= w.late
  BY <1>1, <1>4, <1>5, GroupFact, FreshFacts
<1>8. LearnedBy(w, lapsed')
  BY <1>1, <1>5, <1>6, <1>7 DEF LearnedBy
<1>9. QED
  BY <1>1, <1>2, <1>3, <1>5, <1>8, FetchStep

LEMMA ReadRowsStep ==
  ASSUME CInv, Noted, NEW r \in Requests, ReadRows(r)
  PROVE  CInv'
<1>1. /\ fetch[r] \in FetchRows /\ fetch[r].op = "rows" /\ fetch[r].key \in SnapKeys
      /\ fetch[r].on \in Instances /\ fetch[r].late \in Nat
      /\ UNCHANGED <<tables, caches>>
  BY DEF ReadRows, Fetching, CInv, CachesTyped, Learned, LearnedBy, FetchRows
<1>2. PICK w : /\ w = [fetch[r] EXCEPT !.op = "list", !.found = Rows(fetch[r].key)]
               /\ fetch' = [fetch EXCEPT ![r] = w]
  BY DEF ReadRows
<1>3. \A x \in Rows(fetch[r].key) :
          /\ x \in KnownRows /\ <<fetch[r].key[1], x>> \in Facts
          /\ lapsed'[<<fetch[r].key[1], x>>] <= fetch[r].late
  BY <1>1, RowFact, FreshFacts DEF CInv, CachesTyped
<1>4. /\ w \in FetchRows /\ w.op = "list" /\ w.key = fetch[r].key
      /\ w.found = Rows(fetch[r].key) /\ w.on = fetch[r].on /\ w.late = fetch[r].late
  BY <1>1, <1>2, <1>3 DEF FetchRows
<1>5. LearnedBy(w, lapsed')
  BY <1>1, <1>3, <1>4 DEF LearnedBy
<1>6. QED
  BY <1>1, <1>2, <1>4, <1>5, FetchStep

-----------------------------------------------------------------------------
\* What is left of the TTL covers what has lapsed meanwhile.
LEMMA StoreAuthStep ==
  ASSUME CInv, Noted, NEW r \in Requests, StoreAuth(r)
  PROVE  CInv'
<1> DEFINE w == fetch[r]
           time == Remaining(AuthTTL + 1, w.late)
<1>1. /\ w \in FetchRows /\ w.op = "auth" /\ w.on \in Instances /\ w.secret \in Secrets
      /\ w.token \in Tokens /\ w.late \in Nat /\ w.found \subseteq Names
      /\ lapsed[<<"secret", w.secret>>] <= w.late
      /\ \A g \in w.found : lapsed[<<"group", <<w.token, g>>>>] <= w.late
  BY DEF StoreAuth, Fetching, CInv, CachesTyped, Learned, LearnedBy, FetchRows
<1>2. PICK e : /\ e = IF time = 0 THEN NoAuth
                      ELSE [left |-> time, token |-> w.token, groups |-> w.found]
               /\ auth' = [auth EXCEPT ![w.on][w.secret] = e]
  BY DEF StoreAuth
<1>3. /\ fetch' = [fetch EXCEPT ![r] = NoFetch] /\ UNCHANGED <<tables, snap>>
  BY DEF StoreAuth, Ends
<1>4. time \in Nat /\ (time > 0 => time + w.late = AuthTTL + 1)
  BY <1>1, TTLAssumption DEF Remaining
<1>5. e \in AuthEntries
  BY <1>1, <1>2, <1>4, NothingSaid DEF AuthEntries
<1>6. AuthAged(w.secret, e, lapsed')
  <2>1. CASE time = 0
    BY <1>2, <2>1, NothingSaid
  <2>2. CASE time > 0
    <3>1. e.left = time /\ e.token = w.token /\ e.groups = w.found
      BY <1>2, <2>2, <1>4
    <3> HIDE DEF time, w
    <3>2. lapsed'[<<"secret", w.secret>>] <= w.late
      BY <1>1, SecretFact, FreshFacts
    <3>3. \A g \in w.found : lapsed'[<<"group", <<w.token, g>>>>] <= w.late
      BY <1>1, GroupFact, FreshFacts
    <3>4. \A f \in Facts : lapsed'[f] \in Nat
      BY NotedLater DEF Later
    <3>5. \A g \in w.found : <<"group", <<w.token, g>>>> \in Facts
      BY <1>1, GroupFact
    <3>6. QED
      BY <1>1, <1>4, <2>2, <3>1, <3>2, <3>3, <3>4, <3>5, SecretFact, TTLAssumption DEF AuthAged
  <2>3. QED
    BY <1>4, <2>1, <2>2
<1>7. /\ auth' \in [Instances -> [Secrets -> AuthEntries]]
      /\ \A i \in Instances, n \in Secrets :
            auth'[i][n] = auth[i][n] \/ (n = w.secret /\ auth'[i][n] = e)
  BY <1>1, <1>2, <1>5 DEF CInv, CachesTyped
<1>8. /\ fetch' \in [Requests -> FetchRows]
      /\ \A x \in Requests : fetch'[x] = fetch[x] \/ fetch'[x] = NoFetch
  BY <1>3, NothingSaid DEF CInv, CachesTyped
<1>9. TablesTyped'
  BY <1>3 DEF tables, grants, channelTables, TablesTyped, CredRows, CInv, CachesTyped
<1>10. \A i \in Instances, n \in Secrets :
            auth'[i][n] = auth[i][n] \/ AuthAged(n, auth'[i][n], lapsed')
  BY <1>6, <1>7
<1>11. snap' = snap /\ snap \in [Instances -> [SnapKeys -> SnapEntries]]
  BY <1>3 DEF CInv, CachesTyped
<1>12. QED
  BY <1>7, <1>8, <1>9, <1>10, <1>11, NothingSaid, StepOK

LEMMA StoreListStep ==
  ASSUME CInv, Noted, NEW r \in Requests, StoreList(r)
  PROVE  CInv'
<1> DEFINE w == fetch[r]
           time == Remaining(SnapTTL, w.late)
<1>1. /\ w \in FetchRows /\ w.op = "list" /\ w.on \in Instances /\ w.key \in SnapKeys
      /\ w.late \in Nat
      /\ \A x \in w.found : /\ x \in KnownRows /\ <<w.key[1], x>> \in Facts
                            /\ lapsed[<<w.key[1], x>>] <= w.late
  BY DEF StoreList, Fetching, CInv, CachesTyped, Learned, LearnedBy, FetchRows
<1>2. PICK e : /\ e = IF time = 0 \/ w.found = {} THEN NoSnap
                      ELSE [left |-> time, rows |-> w.found]
               /\ snap' = [snap EXCEPT ![w.on][w.key] = e]
  BY DEF StoreList
<1>3. /\ fetch' = [fetch EXCEPT ![r] = NoFetch] /\ UNCHANGED <<tables, auth>>
  BY DEF StoreList, Ends
<1>4. time \in Nat /\ (time > 0 => time + w.late = SnapTTL)
  BY <1>1, TTLAssumption DEF Remaining
<1>5. e \in SnapEntries
  BY <1>1, <1>2, <1>4, NothingSaid DEF SnapEntries
<1>6. SnapAged(w.key, e, lapsed')
  <2>1. CASE time = 0 \/ w.found = {}
    BY <1>2, <2>1, NothingSaid
  <2>2. CASE ~(time = 0 \/ w.found = {})
    <3>1. e.left = time /\ e.rows = w.found
      BY <1>2, <2>2
    <3> HIDE DEF time, w
    <3>2. \A x \in w.found : lapsed'[<<w.key[1], x>>] <= w.late
      BY <1>1, FreshFacts
    <3>3. \A f \in Facts : lapsed'[f] \in Nat
      BY NotedLater DEF Later
    <3>4. QED
      BY <1>1, <1>4, <2>2, <3>1, <3>2, <3>3, TTLAssumption DEF SnapAged
  <2>3. QED
    BY <2>1, <2>2
<1>7. /\ snap' \in [Instances -> [SnapKeys -> SnapEntries]]
      /\ \A i \in Instances, k \in SnapKeys :
            snap'[i][k] = snap[i][k] \/ (k = w.key /\ snap'[i][k] = e)
  BY <1>1, <1>2, <1>5 DEF CInv, CachesTyped
<1>8. /\ fetch' \in [Requests -> FetchRows]
      /\ \A x \in Requests : fetch'[x] = fetch[x] \/ fetch'[x] = NoFetch
  BY <1>3, NothingSaid DEF CInv, CachesTyped
<1>9. TablesTyped'
  BY <1>3 DEF tables, grants, channelTables, TablesTyped, CredRows, CInv, CachesTyped
<1>10. \A i \in Instances, k \in SnapKeys :
            snap'[i][k] = snap[i][k] \/ SnapAged(k, snap'[i][k], lapsed')
  BY <1>6, <1>7
<1>11. auth' = auth /\ auth \in [Instances -> [Secrets -> AuthEntries]]
  BY <1>3 DEF CInv, CachesTyped
<1>12. QED
  BY <1>7, <1>8, <1>9, <1>10, <1>11, NothingSaid, StepOK

\* Whatever takes entries away without looking at the tables.
LEMMA DropStep ==
  ASSUME CInv, Noted, NEW i \in Instances,
         \/ \E n \in Secrets : Evict(i, n)
         \/ \E key \in Keys : Poll(i, key)
         \/ Restart(i)
  PROVE  CInv'
<1>1. UNCHANGED tables
  BY DEF Evict, Poll, Restart
<1>2. TablesTyped'
  BY <1>1 DEF tables, grants, channelTables, TablesTyped, CredRows, CInv, CachesTyped
<1>3. EmptyAuth \in [Secrets -> AuthEntries] /\ \A n \in Secrets : EmptyAuth[n] = NoAuth
  BY NothingSaid DEF EmptyAuth
<1>4. EmptySnap \in [SnapKeys -> SnapEntries] /\ \A k \in SnapKeys : EmptySnap[k] = NoSnap
  BY NothingSaid DEF EmptySnap
<1>5. /\ auth' \in [Instances -> [Secrets -> AuthEntries]]
      /\ \A j \in Instances, n \in Secrets : auth'[j][n] \in {auth[j][n], NoAuth}
  <2>1. CASE auth' = auth
    BY <2>1 DEF CInv, CachesTyped
  <2>2. CASE auth' = [auth EXCEPT ![i] = EmptyAuth]
    BY <1>3, <2>2 DEF CInv, CachesTyped
  <2>3. ASSUME NEW n \in Secrets, auth' = [auth EXCEPT ![i][n] = NoAuth]
        PROVE  /\ auth' \in [Instances -> [Secrets -> AuthEntries]]
               /\ \A j \in Instances, m \in Secrets : auth'[j][m] \in {auth[j][m], NoAuth}
    BY <2>3, NothingSaid DEF CInv, CachesTyped
  <2>4. QED
    BY <2>1, <2>2, <2>3 DEF Evict, Poll, Restart, PurgeAuth
<1>6. /\ snap' \in [Instances -> [SnapKeys -> SnapEntries]]
      /\ \A j \in Instances, k \in SnapKeys : snap'[j][k] \in {snap[j][k], NoSnap}
  <2>1. CASE snap' = snap
    BY <2>1 DEF CInv, CachesTyped
  <2>2. CASE snap' = [snap EXCEPT ![i] = EmptySnap]
    BY <1>4, <2>2 DEF CInv, CachesTyped
  <2>3. QED
    BY <2>1, <2>2 DEF Evict, Poll, Restart
<1>7. /\ fetch' \in [Requests -> FetchRows]
      /\ \A r \in Requests : fetch'[r] \in {fetch[r], NoFetch}
  BY NothingSaid DEF Evict, Poll, Restart, CInv, CachesTyped
<1>8. QED
  BY <1>2, <1>5, <1>6, <1>7, NothingSaid, StepOK

-----------------------------------------------------------------------------
LEMMA HoldsStill ==
  ASSUME UNCHANGED tables, NEW f \in Facts
  PROVE  Holds(f)' <=> Holds(f)
<1>1. UNCHANGED <<groups, channels, endpoints, creds, granted, mainOf, bound, users, tokens>>
  BY DEF tables, groupTables, channelTables, grants, accounts
<1>2. \A t, n : InForce(t, n)' <=> InForce(t, n)
  BY <1>1 DEF InForce
<1>3. \A t : Effective(t)' = Effective(t)
  BY <1>1 DEF Effective, EnabledNames, Enabled, Exists, NameOf, GrantedTo
<1>4. Selectable' = Selectable
  BY <1>1 DEF Selectable
<1>5. QED
  BY <1>1, <1>2, <1>3, <1>4 DEF Holds, Facts

\* Time: what has lapsed gets older, entries get shorter, requests get later.
LEMMA TickStep ==
  ASSUME CInv, Tick
  PROVE  CInv'
<1>1. UNCHANGED tables
  BY DEF Tick
<1>2. TablesTyped'
  BY <1>1 DEF tables, grants, channelTables, TablesTyped, CredRows, CInv, CachesTyped
<1>3. lapsed' = [f \in Facts |-> IF Holds(f) THEN 0 ELSE Longer(lapsed[f])]
  BY DEF Tick
<1>4. Later(1)
  <2>1. \A f \in Facts : lapsed[f] \in Nat /\ Longer(lapsed[f]) \in Nat
                          /\ Longer(lapsed[f]) <= lapsed[f] + 1
    BY TTLAssumption DEF CInv, CachesTyped, Longer, Oldest
  <2>2. QED
    BY <1>3, <2>1 DEF Later
<1>5. Current'
  <2>1. \A f \in Facts : Holds(f)' => lapsed'[f] = 0
    BY <1>1, <1>3, HoldsStill
  <2>2. QED
    BY <2>1 DEF Current, Facts
<1>6. /\ auth' \in [Instances -> [Secrets -> AuthEntries]]
      /\ \A i \in Instances, n \in Secrets : AuthAged(n, auth'[i][n], lapsed')
  <2>1. ASSUME NEW i \in Instances, NEW n \in Secrets
        PROVE  /\ auth'[i][n] = IF auth[i][n].left <= 1 THEN NoAuth
                                ELSE [auth[i][n] EXCEPT !.left = @ - 1]
               /\ auth[i][n] \in AuthEntries /\ AuthAged(n, auth[i][n], lapsed)
    BY DEF Tick, CInv, CachesTyped, Aged
  <2>2. ASSUME NEW i \in Instances, NEW n \in Secrets
        PROVE  auth'[i][n] \in AuthEntries /\ AuthAged(n, auth'[i][n], lapsed')
    <3>a. /\ auth'[i][n] = IF auth[i][n].left <= 1 THEN NoAuth ELSE [auth[i][n] EXCEPT !.left = @ - 1]
          /\ auth[i][n] \in AuthEntries /\ AuthAged(n, auth[i][n], lapsed)
      BY <2>1
    <3>b. auth[i][n].left \in Nat
      BY <3>a DEF AuthEntries
    <3>1. CASE auth[i][n].left <= 1
      BY <3>a, <3>1, NothingSaid
    <3>2. CASE ~(auth[i][n].left <= 1)
      <4>1. auth[i][n].left > 1
        BY <3>2, <3>b
      <4>2. auth'[i][n] = [auth[i][n] EXCEPT !.left = @ - 1] /\ auth'[i][n] \in AuthEntries
        BY <3>a, <3>2, <3>b, <4>1 DEF AuthEntries
      <4>3. AuthAged(n, [auth[i][n] EXCEPT !.left = @ - 1], lapsed')
        BY <1>4, <3>a, <4>1, AgedLater
      <4>4. QED
        BY <4>2, <4>3
    <3>3. QED
      BY <3>1, <3>2
  <2>3. auth' \in [Instances -> [Secrets -> AuthEntries]]
    BY <2>2 DEF Tick
  <2>4. QED
    BY <2>2, <2>3
<1>7. /\ snap' \in [Instances -> [SnapKeys -> SnapEntries]]
      /\ \A i \in Instances, k \in SnapKeys : SnapAged(k, snap'[i][k], lapsed')
  <2>1. ASSUME NEW i \in Instances, NEW k \in SnapKeys
        PROVE  /\ snap'[i][k] = IF snap[i][k].left <= 1 THEN NoSnap
                                ELSE [snap[i][k] EXCEPT !.left = @ - 1]
               /\ snap[i][k] \in SnapEntries /\ SnapAged(k, snap[i][k], lapsed)
    BY DEF Tick, CInv, CachesTyped, Aged
  <2>2. ASSUME NEW i \in Instances, NEW k \in SnapKeys
        PROVE  snap'[i][k] \in SnapEntries /\ SnapAged(k, snap'[i][k], lapsed')
    <3>a. /\ snap'[i][k] = IF snap[i][k].left <= 1 THEN NoSnap ELSE [snap[i][k] EXCEPT !.left = @ - 1]
          /\ snap[i][k] \in SnapEntries /\ SnapAged(k, snap[i][k], lapsed)
      BY <2>1
    <3>b. snap[i][k].left \in Nat
      BY <3>a DEF SnapEntries
    <3>1. CASE snap[i][k].left <= 1
      BY <3>a, <3>1, NothingSaid
    <3>2. CASE ~(snap[i][k].left <= 1)
      <4>1. snap[i][k].left > 1
        BY <3>2, <3>b
      <4>2. snap'[i][k] = [snap[i][k] EXCEPT !.left = @ - 1] /\ snap'[i][k] \in SnapEntries
        BY <3>a, <3>2, <3>b, <4>1 DEF SnapEntries
      <4>3. SnapAged(k, [snap[i][k] EXCEPT !.left = @ - 1], lapsed')
        BY <1>4, <3>a, <4>1, AgedLater
      <4>4. QED
        BY <4>2, <4>3
    <3>3. QED
      BY <3>1, <3>2
  <2>3. snap' \in [Instances -> [SnapKeys -> SnapEntries]]
    BY <2>2 DEF Tick
  <2>4. QED
    BY <2>2, <2>3
<1>8. /\ fetch' \in [Requests -> FetchRows]
      /\ \A r \in Requests : LearnedBy(fetch'[r], lapsed')
  <2>1. ASSUME NEW r \in Requests
        PROVE  fetch'[r] \in FetchRows /\ LearnedBy(fetch'[r], lapsed')
    <3>1. /\ fetch[r] \in FetchRows /\ LearnedBy(fetch[r], lapsed)
          /\ fetch'[r] = IF fetch[r].op = "idle" THEN fetch[r] ELSE [fetch[r] EXCEPT !.late = @ + 1]
      BY DEF Tick, Fetching, CInv, CachesTyped, Learned
    <3>2. CASE fetch[r].op = "idle"
      BY <3>1, <3>2 DEF LearnedBy
    <3>3. CASE fetch[r].op # "idle"
      <4>1. fetch'[r] \in FetchRows
        BY <3>1, <3>3 DEF FetchRows
      <4>2. QED
        BY <1>4, <3>1, <3>3, <4>1, LearnedLater
    <3>4. QED
      BY <3>2, <3>3
  <2>2. fetch' \in [Requests -> FetchRows]
    BY <2>1 DEF Tick
  <2>3. QED
    BY <2>1, <2>2
<1>9. CachesTyped'
  BY <1>2, <1>4, <1>6, <1>7, <1>8 DEF CachesTyped, Later, Facts
<1>10. Learned' /\ Aged'
  BY <1>6, <1>7, <1>8 DEF Learned, Aged
<1>11. QED
  BY <1>5, <1>9, <1>10 DEF CInv

LEMMA CachesStartOK == CachesStart => CInv
<1> SUFFICES ASSUME CachesStart PROVE CInv
  OBVIOUS
<1>1. lapsed \in [Facts -> Nat] /\ \A f \in Facts : Holds(f) => lapsed[f] = 0
  BY TTLAssumption DEF CachesStart, CachesInit, Oldest
<1>2. fetch \in [Requests -> FetchRows] /\ \A r \in Requests : fetch[r] = NoFetch
  BY NothingSaid DEF CachesStart, CachesInit
<1>3. /\ auth \in [Instances -> [Secrets -> AuthEntries]]
      /\ \A i \in Instances, n \in Secrets : auth[i][n] = NoAuth
  BY NothingSaid DEF CachesStart, EmptyAuth
<1>4. /\ snap \in [Instances -> [SnapKeys -> SnapEntries]]
      /\ \A i \in Instances, k \in SnapKeys : snap[i][k] = NoSnap
  BY NothingSaid DEF CachesStart, EmptySnap
<1>5. Learned /\ Aged
  BY <1>2, <1>3, <1>4, NothingSaid DEF Learned, Aged
<1>6. QED
  BY <1>1, <1>2, <1>3, <1>4, <1>5 DEF CInv, CachesTyped, Current, CachesStart

LEMMA CachesNextOK == CInv /\ [CachesNext]_<<cacheVars, tables>> => CInv'
<1> SUFFICES ASSUME CInv, [CachesNext]_<<cacheVars, tables>> PROVE CInv'
  OBVIOUS
<1>1. CASE UNCHANGED <<cacheVars, tables>>
  <2>1. UNCHANGED <<auth, snap, fetch, lapsed, tables>>
    BY <1>1 DEF cacheVars, caches
  <2>2. TablesTyped'
    BY <2>1 DEF tables, grants, channelTables, TablesTyped, CredRows, CInv, CachesTyped
  <2>3. Current'
    BY <2>1, HoldsStill DEF CInv, Current, Facts
  <2>4. QED
    BY <2>1, <2>2, <2>3 DEF CInv, CachesTyped, Learned, Aged, Facts
<1>2. ASSUME NEW i \in Instances, AuthStep(i), Noted
      PROVE  CInv'
  BY <1>2, AskStep, ReadTokenStep, ReadGroupsStep, StoreAuthStep, DropStep DEF AuthStep, Keys
<1>3. ASSUME NEW i \in Instances, SnapStep(i, SnapKeys), Noted
      PROVE  CInv'
  BY <1>3, AskStep, ReadRowsStep, StoreListStep, DropStep DEF SnapStep, Keys
<1>4. QED
  BY <1>1, <1>2, <1>3, AnyWriterStep, DropStep, TickStep DEF CachesNext

-----------------------------------------------------------------------------
\* No instance accepts a token or a group of it for longer than the TTL after it
\* was taken away, whoever purges what and when (GetTokenAuthByTokenHash).
THEOREM TokensLapseInTime == CachesSpec => []TokensLapse
<1>1. CInv => TokensLapse
  <2> SUFFICES ASSUME CInv, NEW i \in Instances, NEW n \in Secrets, auth[i][n].left > 0
               PROVE  /\ lapsed[<<"secret", n>>] <= AuthTTL
                      /\ \A g \in auth[i][n].groups :
                            lapsed[<<"group", <<auth[i][n].token, g>>>>] <= AuthTTL
    BY DEF TokensLapse
  <2>1. AuthAged(n, auth[i][n], lapsed) /\ auth[i][n] \in AuthEntries
    BY DEF CInv, Aged, CachesTyped
  <2>2. auth[i][n].left \in Nat /\ auth[i][n].token \in Tokens /\ auth[i][n].groups \subseteq Names
    BY <2>1 DEF AuthAged, AuthEntries
  <2>3. \A f \in Facts : lapsed[f] \in Nat
    BY DEF CInv, CachesTyped
  <2>4. <<"secret", n>> \in Facts /\ \A g \in auth[i][n].groups : <<"group", <<auth[i][n].token, g>>>> \in Facts
    BY <2>2, SecretFact, GroupFact
  <2>5. QED
    BY <2>1, <2>2, <2>3, <2>4, TTLAssumption DEF AuthAged
<1>2. QED
  BY <1>1, CachesStartOK, CachesNextOK, PTL DEF CachesSpec

\* No instance offers a channel, an endpoint or a credential when the TTL has
\* passed since it was disabled or deleted (cachedUpstreamStore).
THEOREM ChannelsLapseInTime == CachesSpec => []ChannelsLapse
<1>1. CInv => ChannelsLapse
  <2> SUFFICES ASSUME CInv, NEW i \in Instances, NEW k \in SnapKeys, snap[i][k].left > 0,
                      NEW x \in snap[i][k].rows
               PROVE  lapsed[<<k[1], x>>] < SnapTTL
    BY DEF ChannelsLapse
  <2>1. SnapAged(k, snap[i][k], lapsed) /\ snap[i][k] \in SnapEntries
    BY DEF CInv, Aged, CachesTyped
  <2>2. snap[i][k].left \in Nat
    BY <2>1 DEF SnapEntries
  <2>3. \A f \in Facts : lapsed[f] \in Nat
    BY DEF CInv, CachesTyped
  <2>4. QED
    BY <2>1, <2>2, <2>3, TTLAssumption DEF SnapAged
<1>2. QED
  BY <1>1, CachesStartOK, CachesNextOK, PTL DEF CachesSpec

-----------------------------------------------------------------------------
(* Types: the rows, and what a request waits with.                         *)

\* What a request may be about, by what it does next.
Fits(w) ==
    /\ w.op \in {"child", "nest", "link", "undo", "member"} => w.group \in GroupIds
    /\ w.op \in {"child", "nest", "link", "undo"} => w.other \in GroupIds
    /\ w.op = "update" => w.name \in Names \cup {None}
    /\ w.op \in {"member", "basics", "setgroups", "endpoint", "look", "key", "invalidate"} =>
        w.channel \in ChannelIds
    /\ w.op = "bind" => w.who \in Tokens
    /\ w.op = "prove" => w.email \in Emails /\ w.code \in Codes
    /\ w.op \in {"prove", "count", "insert", "session", "password", "email", "status", "role",
                 "main", "setmain"} => w.who \in Users /\ w.name \in Mains \cup {None}
    /\ w.op \in {"session", "cookie"} => w.cookie.user \in Users

Opened == {k \in Cookies : k.user \in Users}
UsersTyped ==
    /\ second \in 0..MaxSecond
    /\ users \in [Users -> UserRows]
    /\ mainOf \in [Users -> Mains \cup {None}]
    /\ cookies \subseteq Opened
IdsTyped ==
    lastIds \in [group: GroupIds \cup {0}, channel: ChannelIds \cup {0},
                 cred: 0..MaxCreds, secret: 0..MaxSecrets, password: 0..MaxPasswords]
GroupsTyped ==
    /\ groups \in [GroupIds -> GroupRows]
    /\ nested \subseteq GroupIds \X GroupIds /\ overtaken \subseteq GroupIds \X GroupIds
    /\ default \in GroupIds \cup {0}
    /\ pointers \in [GroupIds -> PointerRows]
ChannelsTyped ==
    /\ members \subseteq GroupIds \X ChannelIds
    /\ channels \in [ChannelIds -> ChannelRows]
    /\ endpoints \subseteq ChannelIds
    /\ creds \subseteq CredRows
NamesTyped ==
    /\ tokens \in [Tokens -> TokenRows]
    /\ mains \in [Mains -> MainRows]
    /\ granted \in [Mains -> SUBSET Names]
    /\ bound \in [Tokens -> SUBSET Names]
    /\ tags \in [Tagged -> Names \cup {None}]
WorkTyped == work \in [Clients -> Work] /\ \A a \in Clients : Fits(work[a])
CopiesTyped ==
    /\ auth \in [Instances -> [Secrets -> AuthEntries]]
    /\ snap \in [Instances -> [SnapKeys -> SnapEntries]]
    /\ pending \subseteq Instances \X Keys
MailTyped ==
    /\ codes \in [Emails -> 0..MaxCodes] /\ sent \in 0..MaxCodes /\ uses \in [Codes -> Nat]
RowsTyped ==
    /\ UsersTyped /\ IdsTyped /\ GroupsTyped /\ ChannelsTyped /\ NamesTyped /\ WorkTyped
    /\ CopiesTyped /\ MailTyped

\* Purging keeps the copies' types.
LEMMA CopiesStep ==
  ASSUME CopiesTyped,
         \/ UNCHANGED caches
         \/ \E t \in Tokens : PurgeOneAndBump(t)
         \/ PurgeAndBump \/ InvalidateSnapshot \/ InvalidateBoth
  PROVE  CopiesTyped'
<1> DEFINE ATyped == auth \in [Instances -> [Secrets -> AuthEntries]]
           STyped == snap \in [Instances -> [SnapKeys -> SnapEntries]]
<1>1. NoAuth \in AuthEntries /\ NoSnap \in SnapEntries
  BY DEF NoAuth, NoSnap, AuthEntries, SnapEntries
<1>2. EmptyAuth \in [Secrets -> AuthEntries] /\ EmptySnap \in [SnapKeys -> SnapEntries]
  BY <1>1 DEF EmptyAuth, EmptySnap
<1>3. ATyped /\ STyped /\ pending \subseteq Instances \X Keys
  BY DEF CopiesTyped
<1>4. ASSUME NEW i \in Instances PROVE PurgeAuth(i) \in [Instances -> [Secrets -> AuthEntries]]
  BY <1>2, <1>3 DEF PurgeAuth
<1>5. ASSUME NEW i \in Instances, NEW t
      PROVE  PurgeToken(i, t) \in [Instances -> [Secrets -> AuthEntries]]
  BY <1>1, <1>3 DEF PurgeToken
<1>6. ASSUME NEW i \in Instances
      PROVE  [snap EXCEPT ![i] = EmptySnap] \in [Instances -> [SnapKeys -> SnapEntries]]
  BY <1>2, <1>3
<1>7. ASSUME NEW ks, ks \subseteq Keys, Bump(ks) PROVE pending' \subseteq Instances \X Keys
  BY <1>3, <1>7 DEF Bump
<1>8. {"token_auth"} \subseteq Keys /\ {"upstream_snapshot"} \subseteq Keys
  BY DEF Keys
<1> HIDE DEF ATyped, STyped
<1>9. CASE UNCHANGED caches
  BY <1>9, <1>3 DEF ATyped, STyped, caches, CopiesTyped
<1>10. CASE \E t \in Tokens : PurgeOneAndBump(t)
  BY <1>10, <1>3, <1>5, <1>7, <1>8 DEF PurgeOneAndBump, ATyped, STyped, CopiesTyped
<1>11. CASE PurgeAndBump
  BY <1>11, <1>3, <1>4, <1>7, <1>8 DEF PurgeAndBump, ATyped, STyped, CopiesTyped
<1>12. CASE InvalidateSnapshot
  BY <1>12, <1>3, <1>6, <1>7, <1>8 DEF InvalidateSnapshot, ATyped, STyped, CopiesTyped
<1>13. CASE InvalidateBoth
  BY <1>13, <1>3, <1>4, <1>6, <1>7 DEF InvalidateBoth, ATyped, STyped, CopiesTyped
<1>14. QED
  BY <1>9, <1>10, <1>11, <1>12, <1>13

\* A request in its next step, and one that is over.
LEMMA WorkStep ==
  ASSUME WorkTyped, NEW a \in Clients, NEW w \in Work, Fits(w), work' = [work EXCEPT ![a] = w]
  PROVE  WorkTyped'
<1>1. work' \in [Clients -> Work]
  BY DEF WorkTyped
<1>2. ASSUME NEW b \in Clients PROVE Fits(work'[b])
  BY DEF WorkTyped
<1>3. QED
  BY <1>1, <1>2 DEF WorkTyped

\* A request that is over is about nothing.
LEMMA NoCookieFits == NoCookie \in Cookies
BY IdsAssumption DEF NoCookie, Cookies

LEMMA IdleFits == Idle \in Work /\ Fits(Idle)
BY NoCookieFits DEF Idle, Work, Fits

LEMMA DoneStep ==
  ASSUME WorkTyped, NEW a \in Clients, Done(a)
  PROVE  WorkTyped'
BY WorkStep, IdleFits DEF Done

\* What a request that waits for `op` must have in its record.
LEMMA WaitsStep ==
  ASSUME WorkTyped, NEW a \in Clients, NEW w \in Work, NEW op, Waits(a, op, w),
         [w EXCEPT !.op = op] \in Work, Fits([w EXCEPT !.op = op])
  PROVE  WorkTyped'
BY WorkStep DEF Waits

WorkOps == {"idle", "default", "heal", "child", "nest", "link", "undo", "update", "delete", "member",
            "pointer", "subgroups", "bind", "endpoint", "look", "key", "basics", "setgroups",
            "invalidate", "prove", "count", "insert", "session", "cookie", "password", "email",
            "status", "role", "main", "admit", "setmain"}
Todos == {"groups", "endpoint", "look", "key", "email", "status", "role", "main", "undo"}

\* A request that goes on to `op`, and one with `todo` left to do.
LEMMA OpFits ==
  ASSUME NEW w \in Work, NEW op \in WorkOps
  PROVE  [w EXCEPT !.op = op] \in Work
BY DEF Work, WorkOps

LEMMA TodoFits ==
  ASSUME NEW w \in Work, NEW todo \in SUBSET Todos
  PROVE  [w EXCEPT !.todo = todo] \in Work
BY DEF Work, Todos

LEMMA OpSame ==
  ASSUME NEW w \in Work, NEW op
  PROVE  /\ [w EXCEPT !.op = op].op = op
         /\ [w EXCEPT !.op = op].group = w.group
         /\ [w EXCEPT !.op = op].other = w.other
         /\ [w EXCEPT !.op = op].channel = w.channel
         /\ [w EXCEPT !.op = op].name = w.name
         /\ [w EXCEPT !.op = op].who = w.who
         /\ [w EXCEPT !.op = op].email = w.email
         /\ [w EXCEPT !.op = op].code = w.code
         /\ [w EXCEPT !.op = op].cookie = w.cookie
BY DEF Work

LEMMA CookieSame ==
  ASSUME NEW w \in Work, NEW c \in Cookies
  PROVE  [w EXCEPT !.cookie = c] \in Work /\ [w EXCEPT !.cookie = c].cookie = c
BY DEF Work

LEMMA TodoSame ==
  ASSUME NEW w \in Work, NEW todo
  PROVE  /\ [w EXCEPT !.todo = todo].op = w.op
         /\ [w EXCEPT !.todo = todo].group = w.group
         /\ [w EXCEPT !.todo = todo].other = w.other
         /\ [w EXCEPT !.todo = todo].channel = w.channel
         /\ [w EXCEPT !.todo = todo].name = w.name
         /\ [w EXCEPT !.todo = todo].who = w.who
         /\ [w EXCEPT !.todo = todo].email = w.email
         /\ [w EXCEPT !.todo = todo].code = w.code
         /\ [w EXCEPT !.todo = todo].cookie = w.cookie
BY DEF Work

LEMMA NextStep ==
  ASSUME WorkTyped, NEW a \in Clients, NEW op \in WorkOps, Waits(a, op, work[a]),
         Fits([work[a] EXCEPT !.op = op])
  PROVE  WorkTyped'
<1>1. work[a] \in Work
  BY DEF WorkTyped
<1>2. [work[a] EXCEPT !.op = op] \in Work
  BY <1>1, OpFits
<1>3. QED
  BY <1>1, <1>2, WaitsStep

rest == <<second, users, mainOf, cookies, lastIds, groups, nested, overtaken, default, pointers,
          members, channels, endpoints, creds, tokens, mains, granted, bound, tags, snap, auth, pending,
          codes, sent, uses>>
\* A step of a request that reads, and nothing more.
LEMMA ReadStep ==
  ASSUME RowsTyped, WorkTyped', UNCHANGED rest
  PROVE  RowsTyped'
BY DEF RowsTyped, rest, UsersTyped, IdsTyped, GroupsTyped, ChannelsTyped, NamesTyped, CopiesTyped,
    MailTyped

\* Types, one handler after the other: the handlers of groups that only read first.
LEMMA GroupsReadsTyped ==
  ASSUME RowsTyped, NEW a \in Clients, UNCHANGED accountVars,
         \/ \E g \in GroupIds :
            \/ CheckDefault(a, g) \/ ReadDelete(a, g)
            \/ \E n \in Names \cup {None}, on \in BOOLEAN : ReadUpdate(a, g, n, on)
            \/ \E c \in ChannelIds : ReadMember(a, g, c)
            \/ \E c \in ChannelIds \cup {0}, p \in BOOLEAN : ReadPointer(a, g, c, p)
         \/ FindBadDefault(a) \/ SeeParent(a) \/ Abandon(a)
  PROVE  RowsTyped'
<1> USE DEF groupTables, others, channelTables, grants, accounts, caches, noCaches, accountVars, rest
<1>1. WorkTyped /\ GroupsTyped
  BY DEF RowsTyped
<1>2. ASSUME NEW g \in GroupIds, CheckDefault(a, g) PROVE RowsTyped'
  <2>1. WorkTyped'
    BY <1>1, <1>2, WaitsStep, NoCookieFits DEF CheckDefault, Idle, Work, Fits
  <2>2. UNCHANGED rest
    BY <1>2 DEF CheckDefault
  <2>3. QED
    BY <2>1, <2>2, ReadStep
<1>3. ASSUME NEW g \in GroupIds, ReadDelete(a, g) PROVE RowsTyped'
  <2>1. WorkTyped'
    BY <1>1, <1>3, WaitsStep, NoCookieFits DEF ReadDelete, Idle, Work, Fits, GroupsTyped, GroupRows, NameOf
  <2>2. UNCHANGED rest
    BY <1>3 DEF ReadDelete
  <2>3. QED
    BY <2>1, <2>2, ReadStep
<1>4. ASSUME NEW g \in GroupIds, NEW n \in Names \cup {None}, NEW on \in BOOLEAN, ReadUpdate(a, g, n, on)
      PROVE  RowsTyped'
  <2>1. WorkTyped'
    BY <1>1, <1>4, WaitsStep, NoCookieFits DEF ReadUpdate, Idle, Work, Fits
  <2>2. UNCHANGED rest
    BY <1>4 DEF ReadUpdate
  <2>3. QED
    BY <2>1, <2>2, ReadStep
<1>5. ASSUME NEW g \in GroupIds, NEW c \in ChannelIds, ReadMember(a, g, c) PROVE RowsTyped'
  <2>1. WorkTyped'
    BY <1>1, <1>5, WaitsStep, NoCookieFits DEF ReadMember, Idle, Work, Fits
  <2>2. UNCHANGED rest
    BY <1>5 DEF ReadMember
  <2>3. QED
    BY <2>1, <2>2, ReadStep
<1>6. ASSUME NEW g \in GroupIds, NEW c \in ChannelIds \cup {0}, NEW p \in BOOLEAN, ReadPointer(a, g, c, p)
      PROVE  RowsTyped'
  <2>1. WorkTyped'
    BY <1>1, <1>6, WaitsStep, NoCookieFits DEF ReadPointer, Idle, Work, Fits
  <2>2. UNCHANGED rest
    BY <1>6 DEF ReadPointer
  <2>3. QED
    BY <2>1, <2>2, ReadStep
<1>7. CASE FindBadDefault(a)
  <2>1. WorkTyped'
    BY <1>1, <1>7, WaitsStep, NoCookieFits DEF FindBadDefault, Idle, Work, Fits
  <2>2. UNCHANGED rest
    BY <1>7 DEF FindBadDefault
  <2>3. QED
    BY <2>1, <2>2, ReadStep
<1>8. CASE SeeParent(a)
  <2> DEFINE w == work[a]
  <2>a. w \in Work /\ w.group \in GroupIds /\ w.other \in GroupIds
    BY <1>1, <1>8 DEF SeeParent, WorkTyped, Fits, At
  <2>b. PICK op \in {"nest", "undo"} : Waits(a, op, w)
    BY <1>8 DEF SeeParent
  <2>c. Fits([w EXCEPT !.op = op])
    BY <2>a, OpSame DEF Fits
  <2>1. WorkTyped'
    BY <1>1, <2>b, <2>c, NextStep DEF WorkOps
  <2>2. UNCHANGED rest
    BY <1>8 DEF SeeParent
  <2>3. QED
    BY <2>1, <2>2, ReadStep
<1>9. CASE Abandon(a)
  <2>1. WorkTyped'
    BY <1>1, <1>9, DoneStep DEF Abandon
  <2>2. UNCHANGED rest
    BY <1>9 DEF Abandon
  <2>3. QED
    BY <2>1, <2>2, ReadStep
<1>10. QED
  BY <1>2, <1>3, <1>4, <1>5, <1>6, <1>7, <1>8, <1>9

\* What a step that leaves some tables alone does to their types.
LEMMA StillTyped ==
  ASSUME RowsTyped
  PROVE  /\ UNCHANGED <<second, users, mainOf, cookies>> => UsersTyped'
         /\ UNCHANGED lastIds => IdsTyped'
         /\ UNCHANGED <<groups, nested, overtaken, default, pointers>> => GroupsTyped'
         /\ UNCHANGED <<members, channels, endpoints, creds>> => ChannelsTyped'
         /\ UNCHANGED <<tokens, mains, granted, bound, tags>> => NamesTyped'
         /\ UNCHANGED <<snap, auth, pending>> => CopiesTyped'
         /\ UNCHANGED <<codes, sent, uses>> => MailTyped'
         /\ UNCHANGED work => WorkTyped'
BY DEF RowsTyped, UsersTyped, IdsTyped, GroupsTyped, ChannelsTyped, NamesTyped, CopiesTyped,
    MailTyped, WorkTyped

LEMMA IdsAreNumbers ==
  ASSUME IdsTyped
  PROVE  /\ GroupIds \subseteq Nat /\ ChannelIds \subseteq Nat
         /\ lastIds.group < MaxGroups => lastIds.group + 1 \in GroupIds
         /\ lastIds.channel + 1 <= MaxChannels => lastIds.channel + 1 \in ChannelIds
BY IdsAssumption DEF IdsTyped, GroupIds, ChannelIds

LEMMA InsertGroupTyped ==
  ASSUME RowsTyped, NEW n \in Names, NEW on \in BOOLEAN, InsertGroup(n, on)
  PROVE  IdsTyped' /\ groups' \in [GroupIds -> GroupRows] /\ lastIds.group + 1 \in GroupIds
<1>1. IdsTyped /\ groups \in [GroupIds -> GroupRows]
  BY DEF RowsTyped, GroupsTyped
<1>2. lastIds.group + 1 \in GroupIds
  BY <1>1, IdsAreNumbers DEF InsertGroup
<1>3. [name |-> n, on |-> on] \in GroupRows
  BY DEF GroupRows
<1>4. QED
  BY <1>1, <1>2, <1>3 DEF InsertGroup, IdsTyped

\* Those that write.
LEMMA GroupsWritesTyped ==
  ASSUME RowsTyped, NEW a \in Clients, UNCHANGED accountVars,
         \/ \E n \in Names, on \in BOOLEAN :
            CreateGroup(a, n, on) \/ \E p \in GroupIds : CreateChild(a, p, n, on)
         \/ \E g \in GroupIds, c \in ChannelIds : RemoveChannelMember(a, g, c)
         \/ \E g, c \in GroupIds : RemoveGroupMember(a, g, c)
         \/ WriteDefault(a) \/ HealDefault(a) \/ NestChild(a) \/ LinkChild(a) \/ UndoChild(a)
         \/ WriteMember(a) \/ WritePointer(a)
  PROVE  RowsTyped'
<1> USE DEF groupTables, others, channelTables, grants, accounts, caches, noCaches, keys, accountVars
<1>1. WorkTyped /\ GroupsTyped /\ ChannelsTyped /\ CopiesTyped /\ work[a] \in Work /\ Fits(work[a])
  BY DEF RowsTyped, WorkTyped
<1>2. NoGroup \in GroupRows
  BY DEF NoGroup, GroupRows
<1>3. ASSUME NEW n \in Names, NEW on \in BOOLEAN, CreateGroup(a, n, on) PROVE RowsTyped'
  <2>1. IdsTyped' /\ groups' \in [GroupIds -> GroupRows]
    BY <1>3, InsertGroupTyped DEF CreateGroup
  <2>2. QED
    BY <1>1, <1>3, <2>1, StillTyped DEF CreateGroup, RowsTyped, GroupsTyped
<1>4. ASSUME NEW n \in Names, NEW on \in BOOLEAN, NEW p \in GroupIds, CreateChild(a, p, n, on)
      PROVE  RowsTyped'
  <2>1. IdsTyped' /\ groups' \in [GroupIds -> GroupRows] /\ lastIds.group + 1 \in GroupIds
    BY <1>4, InsertGroupTyped DEF CreateChild
  <2>a. PICK c \in GroupIds : c = lastIds.group + 1
    BY <2>1
  <2>b. Waits(a, "child", [Idle EXCEPT !.group = p, !.other = c])
    BY <1>4, <2>a DEF CreateChild
  <2> DEFINE w == [Idle EXCEPT !.group = p, !.other = c]
  <2>c. w \in Work /\ w.group = p /\ w.other = c
    BY NoCookieFits DEF Idle, Work
  <2> HIDE DEF w
  <2>d. [w EXCEPT !.op = "child"] \in Work
    BY <2>c, OpFits DEF WorkOps
  <2>e. Fits([w EXCEPT !.op = "child"])
    BY <2>c, OpSame DEF Fits
  <2>2. WorkTyped'
    BY <1>1, <2>b, <2>c, <2>d, <2>e, WaitsStep DEF w
  <2>3. QED
    BY <1>1, <1>4, <2>1, <2>2, StillTyped DEF CreateChild, RowsTyped, GroupsTyped
<1>5. ASSUME NEW c \in ChannelIds, NEW mem \in SUBSET (GroupIds \X ChannelIds)
      PROVE  Synced(c, mem) \in [ChannelIds -> ChannelRows]
  <2> DEFINE ns == {NameOf(h) : h \in {h \in GroupIds : Exists(h) /\ <<h, c>> \in mem}}
  <2>1. ns \subseteq Names
    BY <1>1 DEF NameOf, Exists, GroupsTyped, GroupRows
  <2>2. [channels[c] EXCEPT !.csv = ns] \in ChannelRows
    BY <1>1, <2>1 DEF ChannelsTyped, ChannelRows
  <2>3. Synced(c, mem) = IF ~channels[c].live THEN channels
                         ELSE [channels EXCEPT ![c] = [channels[c] EXCEPT !.csv = ns]]
    BY <1>1 DEF Synced, ChannelsTyped
  <2>4. QED
    BY <1>1, <2>2, <2>3 DEF ChannelsTyped
<1>6. ASSUME NEW g \in GroupIds, NEW c \in ChannelIds, RemoveChannelMember(a, g, c) PROVE RowsTyped'
  <2>1. members' \subseteq GroupIds \X ChannelIds /\ channels' \in [ChannelIds -> ChannelRows]
    BY <1>1, <1>5, <1>6 DEF RemoveChannelMember, RemoveChannelGroupMember, ChannelsTyped
  <2>2. CopiesTyped'
    BY <1>1, <1>6, CopiesStep DEF RemoveChannelMember
  <2>3. QED
    BY <1>1, <1>6, <2>1, <2>2, StillTyped DEF RemoveChannelMember, RowsTyped, ChannelsTyped
<1>7. ASSUME NEW g \in GroupIds, NEW c \in GroupIds, RemoveGroupMember(a, g, c) PROVE RowsTyped'
  BY <1>1, <1>7, StillTyped DEF RemoveGroupMember, RemoveGroupRow, RowsTyped, GroupsTyped
<1>8. CASE WriteDefault(a)
  <2>1. WorkTyped' /\ work[a].group \in GroupIds \cup {0}
    BY <1>1, <1>8, DoneStep DEF WriteDefault, Work
  <2>2. QED
    BY <1>1, <1>8, <2>1, StillTyped DEF WriteDefault, RowsTyped, GroupsTyped
<1>9. CASE HealDefault(a)
  <2>1. WorkTyped'
    BY <1>1, <1>9, DoneStep DEF HealDefault
  <2>2. QED
    BY <1>1, <1>9, <2>1, StillTyped DEF HealDefault, RowsTyped, GroupsTyped
<1>10. CASE NestChild(a)
  <2>1. work[a].group \in GroupIds /\ work[a].other \in GroupIds
    BY <1>1, <1>10 DEF NestChild, At, Fits
  <2>2. WorkTyped'
    <3>1. PICK op \in {"link", "undo"} : Waits(a, op, work[a])
      BY <1>10 DEF NestChild
    <3>2. QED
      BY <1>1, <2>1, <3>1, NextStep, OpSame DEF WorkOps, Fits
  <2>3. overtaken' \subseteq overtaken
    BY <1>10 DEF NestChild
  <2>4. QED
    BY <1>1, <1>10, <2>2, <2>3, StillTyped DEF NestChild, RowsTyped, GroupsTyped
<1>11. CASE UndoChild(a)
  <2>1. WorkTyped'
    BY <1>1, <1>11, DoneStep DEF UndoChild
  <2>2. QED
    BY <1>1, <1>2, <1>11, <2>1, StillTyped DEF UndoChild, RowsTyped, GroupsTyped
<1>12. CASE WriteMember(a)
  <2>1. WorkTyped' /\ work[a].group \in GroupIds /\ work[a].channel \in ChannelIds
    BY <1>1, <1>12, DoneStep DEF WriteMember, Fits, At
  <2>2. members' \subseteq GroupIds \X ChannelIds /\ channels' \in [ChannelIds -> ChannelRows]
    BY <1>1, <1>5, <1>12, <2>1 DEF WriteMember, ChannelsTyped
  <2>3. CopiesTyped'
    BY <1>1, <1>12, CopiesStep DEF WriteMember
  <2>4. QED
    BY <1>1, <1>12, <2>1, <2>2, <2>3, StillTyped DEF WriteMember, RowsTyped, ChannelsTyped
<1>13. CASE WritePointer(a)
  <2>1. WorkTyped' /\ [channel |-> work[a].channel, pinned |-> work[a].flag] \in PointerRows
    BY <1>1, <1>13, DoneStep DEF WritePointer, Work, PointerRows
  <2>2. QED
    BY <1>1, <1>13, <2>1, StillTyped DEF WritePointer, RowsTyped, GroupsTyped
<1>14. CASE LinkChild(a)
  <2>1. WorkTyped'
    BY <1>1, <1>14, DoneStep DEF LinkChild
  <2>2. \A b \in Clients : At(b, "link") => Edge(b) \in GroupIds \X GroupIds
    BY <1>1 DEF At, Edge, WorkTyped, Fits
  <2>3. nested' \subseteq GroupIds \X GroupIds /\ overtaken' \subseteq GroupIds \X GroupIds
    BY <1>1, <1>14, <2>2 DEF LinkChild, GroupsTyped
  <2>4. QED
    BY <1>1, <1>14, <2>1, <2>3, StillTyped DEF LinkChild, RowsTyped, GroupsTyped
<1>15. QED
  BY <1>3, <1>4, <1>6, <1>7, <1>8, <1>9, <1>10, <1>11, <1>12, <1>13, <1>14

\* Renaming rewrites names everywhere, deletion takes rows away.
LEMMA WriteUpdateTyped ==
  ASSUME RowsTyped, NEW a \in Clients, UNCHANGED accountVars, WriteUpdate(a)
  PROVE  RowsTyped'
<1> USE DEF keys, accounts, accountVars
<1> DEFINE w == work[a]
           g == w.group
<1>1. /\ WorkTyped /\ GroupsTyped /\ ChannelsTyped /\ NamesTyped /\ CopiesTyped
      /\ w \in Work /\ w.name \in Names \cup {None} /\ w.on \in BOOLEAN
  BY DEF RowsTyped, WorkTyped, WriteUpdate, At, Fits, Work
<1>2. WorkTyped' /\ CopiesTyped'
  BY <1>1, DoneStep, CopiesStep DEF WriteUpdate
<1>3. default' \in GroupIds \cup {0}
  BY <1>1 DEF WriteUpdate, GroupsTyped
<1>4. /\ groups' \in [GroupIds -> GroupRows] /\ channels' \in [ChannelIds -> ChannelRows]
      /\ bound' \in [Tokens -> SUBSET Names] /\ granted' \in [Mains -> SUBSET Names]
      /\ tags' \in [Tagged -> Names \cup {None}]
  <2>1. CASE /\ groups' = IF Exists(g) THEN [groups EXCEPT ![g].on = w.on] ELSE groups
             /\ UNCHANGED <<channels, bound, granted, tags>>
    <3>1. groups' \in [GroupIds -> GroupRows]
      <4>1. CASE Exists(g)
        <5>1. g \in GroupIds /\ groups[g] \in GroupRows
          BY <1>1, <4>1 DEF Exists, GroupsTyped
        <5>2. [groups[g] EXCEPT !.on = w.on] \in GroupRows
          BY <1>1, <5>1 DEF GroupRows
        <5>3. groups' = [groups EXCEPT ![g] = [groups[g] EXCEPT !.on = w.on]]
          BY <1>1, <2>1, <4>1 DEF GroupsTyped
        <5>4. QED
          BY <1>1, <5>2, <5>3 DEF GroupsTyped
      <4>2. QED
        BY <1>1, <2>1, <4>1 DEF GroupsTyped
    <3>2. QED
      BY <1>1, <2>1, <3>1 DEF ChannelsTyped, NamesTyped
  <2>2. CASE w.name # None /\ RenameAllowed(g, w.name) /\ RenameEverywhere(g, w.name, w.on)
    <3>1. w.name \in Names /\ [name |-> w.name, on |-> w.on] \in GroupRows
      BY <1>1, <2>2 DEF GroupRows
    <3>2. groups' \in [GroupIds -> GroupRows]
      BY <1>1, <2>2, <3>1 DEF RenameEverywhere, GroupsTyped
    <3>3. \A S \in SUBSET Names : Renamed(S, NameOf(g), w.name) \in SUBSET Names
      BY <3>1 DEF Renamed
    <3>4. channels' \in [ChannelIds -> ChannelRows]
      <4>1. ASSUME NEW c \in ChannelIds
            PROVE  [channels[c] EXCEPT !.csv = Renamed(@, NameOf(g), w.name)] \in ChannelRows
        BY <1>1, <3>3 DEF ChannelsTyped, ChannelRows
      <4>2. QED
        BY <2>2, <4>1 DEF RenameEverywhere
    <3>5. bound' \in [Tokens -> SUBSET Names] /\ granted' \in [Mains -> SUBSET Names]
      BY <1>1, <2>2, <3>3 DEF RenameEverywhere, NamesTyped
    <3>6. tags' \in [Tagged -> Names \cup {None}]
      BY <1>1, <2>2, <3>1 DEF RenameEverywhere, NamesTyped
    <3>7. QED
      BY <3>2, <3>4, <3>5, <3>6
  <2>3. CASE UNCHANGED <<groups, channels, bound, granted, tags>>
    BY <1>1, <2>3 DEF GroupsTyped, ChannelsTyped, NamesTyped
  <2>4. QED
    BY <2>1, <2>2, <2>3 DEF WriteUpdate
<1>5. UNCHANGED <<nested, overtaken, members, lastIds, endpoints, creds, pointers, mains, mainOf,
                  second, users, tokens, cookies, codes, sent, uses>>
  BY DEF WriteUpdate
<1>6. QED
  BY <1>1, <1>2, <1>3, <1>4, <1>5, StillTyped DEF RowsTyped, GroupsTyped, ChannelsTyped, NamesTyped

LEMMA WriteDeleteTyped ==
  ASSUME RowsTyped, NEW a \in Clients, UNCHANGED accountVars, WriteDelete(a)
  PROVE  RowsTyped'
<1> USE DEF keys, accounts, accountVars, grants
<1> DEFINE w == work[a]
<1>1. /\ WorkTyped /\ GroupsTyped /\ ChannelsTyped /\ CopiesTyped /\ w.group \in GroupIds \cup {0}
  BY DEF RowsTyped, WorkTyped, Work
<1>2. WorkTyped' /\ CopiesTyped'
  BY <1>1, DoneStep, CopiesStep DEF WriteDelete
<1>3. NoGroup \in GroupRows
  BY DEF NoGroup, GroupRows
<1>4. groups' \in [GroupIds -> GroupRows] /\ nested' \subseteq nested /\ members' \subseteq members
  BY <1>1, <1>3 DEF WriteDelete, DeleteGroupRows, GroupsTyped
<1>5. default' \in GroupIds \cup {0}
  BY <1>1 DEF WriteDelete, GroupsTyped
<1>6. channels' \in [ChannelIds -> ChannelRows]
  <2>1. ASSUME NEW c \in ChannelIds
        PROVE  [channels[c] EXCEPT !.csv = (@ \ {w.name}) \cap KnownNames] \in ChannelRows
    BY <1>1 DEF ChannelsTyped, ChannelRows
  <2>2. QED
    BY <1>1, <2>1 DEF WriteDelete, CsvWithout, ChannelsTyped
<1>7. UNCHANGED <<overtaken, lastIds, endpoints, creds, pointers, mains, granted, mainOf, bound, tags,
                  second, users, tokens, cookies, codes, sent, uses>>
  BY DEF WriteDelete, DeleteGroupRows
<1>8. QED
  BY <1>1, <1>2, <1>4, <1>5, <1>6, <1>7, StillTyped DEF RowsTyped, GroupsTyped, ChannelsTyped

LEMMA GroupsTypedStep ==
  ASSUME RowsTyped, NEW a \in Clients, GroupsBegin(a) \/ GroupsGoOn(a), UNCHANGED accountVars
  PROVE  RowsTyped'
BY GroupsReadsTyped, GroupsWritesTyped, WriteUpdateTyped, WriteDeleteTyped DEF GroupsBegin, GroupsGoOn

\* Main groups, bindings, tokens.
LEMMA TenancyTypedStep ==
  ASSUME RowsTyped, NEW a \in Clients, TenancyBegin(a) \/ TenancyGoOn(a), UNCHANGED accountVars
  PROVE  RowsTyped'
<1> USE DEF elsewhere, groupTables, channelTables, grants, accounts, caches, accountVars
<1>1. /\ WorkTyped /\ UsersTyped /\ NamesTyped /\ CopiesTyped
      /\ work[a] \in Work /\ Fits(work[a]) /\ {"none", "on", "off"} = MainRows
  BY DEF RowsTyped, WorkTyped, MainRows
<1>2. ASSUME NEW m \in Mains, NEW on \in BOOLEAN, CreateMainGroup(a, m, on) \/ UpdateMainGroup(a, m, on)
      PROVE  RowsTyped'
  <2>1. mains' \in [Mains -> MainRows]
    BY <1>1, <1>2 DEF CreateMainGroup, InsertMainGroup, UpdateMainGroup, NamesTyped
  <2>2. UNCHANGED <<granted, mainOf, bound, elsewhere, users, work, caches>>
    BY <1>2 DEF CreateMainGroup, UpdateMainGroup
  <2>3. QED
    BY <1>1, <2>1, <2>2, StillTyped DEF RowsTyped, NamesTyped
<1>3. ASSUME NEW m \in Mains, NEW new \in Mains, NEW on \in BOOLEAN, RenameMainGroup(a, m, new, on)
      PROVE  RowsTyped'
  <2>1. mains' \in [Mains -> MainRows] /\ granted' \in [Mains -> SUBSET Names]
        /\ mainOf' \in [Users -> Mains \cup {None}]
    BY <1>1, <1>3 DEF RenameMainGroup, NamesTyped, UsersTyped
  <2>2. users' \in [Users -> UserRows]
    <3>1. ASSUME NEW u \in Users PROVE [users[u] EXCEPT !.changed = second] \in UserRows
      BY <1>1 DEF UsersTyped, UserRows
    <3>2. QED
      BY <1>1, <1>3, <3>1 DEF RenameMainGroup, UsersTyped
  <2>3. UNCHANGED <<bound, elsewhere, work, caches>>
    BY <1>3 DEF RenameMainGroup
  <2>4. QED
    BY <1>1, <2>1, <2>2, <2>3, StillTyped DEF RowsTyped, NamesTyped, UsersTyped
<1>4. ASSUME NEW m \in Mains, DeleteMainGroup(a, m) PROVE RowsTyped'
  <2>1. mains' \in [Mains -> MainRows] /\ granted' \in [Mains -> SUBSET Names]
    BY <1>1, <1>4 DEF DeleteMainGroup, DeleteMainGroupRows, NamesTyped
  <2>2. CopiesTyped'
    BY <1>1, <1>4, CopiesStep DEF DeleteMainGroup, DeleteMainGroupRows
  <2>3. QED
    BY <1>1, <1>4, <2>1, <2>2, StillTyped DEF DeleteMainGroup, RowsTyped, NamesTyped
<1>5. ASSUME NEW m \in Mains, NEW ns \in SUBSET Names, CheckSubgroups(a, m, ns) PROVE RowsTyped'
  <2>1. WorkTyped'
    <3> DEFINE w == [Idle EXCEPT !.name = m, !.names = ns]
    <3>1. w \in Work
      BY NoCookieFits DEF Idle, Work
    <3> HIDE DEF w
    <3>2. [w EXCEPT !.op = "subgroups"] \in Work
      BY <3>1, OpFits DEF WorkOps
    <3>3. Fits([w EXCEPT !.op = "subgroups"])
      BY <3>1, OpSame DEF Fits
    <3>4. Waits(a, "subgroups", w)
      BY <1>5 DEF CheckSubgroups, w
    <3>5. QED
      BY <1>1, <3>1, <3>2, <3>3, <3>4, WaitsStep
  <2>2. QED
    BY <1>5, <2>1, ReadStep DEF CheckSubgroups, rest
<1>6. ASSUME NEW t \in Tokens, NEW ns \in SUBSET Names, CheckBindings(a, t, ns) PROVE RowsTyped'
  <2>1. WorkTyped'
    <3> DEFINE w == [Idle EXCEPT !.who = t, !.names = ns]
    <3>1. w \in Work /\ w.who = t
      BY NoCookieFits DEF Idle, Work
    <3> HIDE DEF w
    <3>2. [w EXCEPT !.op = "bind"] \in Work
      BY <3>1, OpFits DEF WorkOps
    <3>3. Fits([w EXCEPT !.op = "bind"])
      BY <3>1, OpSame DEF Fits
    <3>4. Waits(a, "bind", w)
      BY <1>6 DEF CheckBindings, w
    <3>5. QED
      BY <1>1, <3>1, <3>2, <3>3, <3>4, WaitsStep
  <2>2. QED
    BY <1>6, <2>1, ReadStep DEF CheckBindings, rest
<1>7. work[a].names \in SUBSET Names
  BY <1>1 DEF Work
<1>8. CASE ReplaceSubgroups(a)
  <2>1. WorkTyped' /\ granted' \in [Mains -> SUBSET Names]
    BY <1>1, <1>7, <1>8, DoneStep DEF ReplaceSubgroups, NamesTyped
  <2>2. QED
    BY <1>1, <1>8, <2>1, StillTyped DEF ReplaceSubgroups, RowsTyped, NamesTyped
<1>9. CASE ReplaceBindings(a)
  <2>1. WorkTyped' /\ bound' \in [Tokens -> SUBSET Names]
    BY <1>1, <1>7, <1>9, DoneStep DEF ReplaceBindings, NamesTyped
  <2>2. CopiesTyped'
    <3>1. work[a].who \in Tokens
      BY <1>1, <1>9 DEF ReplaceBindings, At, Fits
    <3>2. QED
      BY <1>1, <1>9, <3>1, CopiesStep DEF ReplaceBindings
  <2>3. QED
    BY <1>1, <1>9, <2>1, <2>2, StillTyped DEF ReplaceBindings, RowsTyped, NamesTyped
<1>10. QED
  BY <1>2, <1>3, <1>4, <1>5, <1>6, <1>8, <1>9 DEF TenancyBegin, TenancyGoOn

LEMMA TokensTypedStep ==
  ASSUME RowsTyped, NEW a \in Clients, TokensBegin(a), UNCHANGED accountVars
  PROVE  RowsTyped'
<1> USE DEF apart, channelTables, caches, accountVars
<1>1. /\ NamesTyped /\ CopiesTyped /\ IdsTyped
  BY DEF RowsTyped
<1>2. PICK t \in Tokens : CreateToken(a, t) \/ RotateToken(a, t) \/ RevokeToken(a, t) \/ DeleteToken(a, t)
  BY DEF TokensBegin
<1>3. UNCHANGED apart
  BY <1>2 DEF CreateToken, RotateToken, RevokeToken, DeleteToken
<1>4. CopiesTyped'
  BY <1>1, <1>2, CopiesStep DEF CreateToken, RotateToken, RevokeToken, DeleteToken, NewTokenSecret,
      RevokeTokenRow, DeleteTokenRow
<1>5. tokens' \in [Tokens -> TokenRows] /\ IdsTyped'
  <2>1. ASSUME NewSecret \in Secrets, Counted PROVE IdsTyped'
    BY <1>1, <2>1, IdsAssumption DEF IdsTyped, Counted, NewSecret, Secrets
  <2>2. ASSUME NewSecret \in Secrets PROVE [state |-> "on", secret |-> NewSecret] \in TokenRows
    BY <2>2 DEF TokenRows, States
  <2>3. [tokens[t] EXCEPT !.state = "off"] \in TokenRows /\ [tokens[t] EXCEPT !.state = "gone"] \in TokenRows
    BY <1>1 DEF NamesTyped, TokenRows, States
  <2>4. CASE CreateToken(a, t) \/ RotateToken(a, t)
    BY <1>1, <2>1, <2>2, <2>4 DEF CreateToken, InsertToken, RotateToken, NewTokenSecret, NamesTyped
  <2>5. CASE RevokeToken(a, t) \/ DeleteToken(a, t)
    BY <1>1, <2>3, <2>5, StillTyped DEF RevokeToken, RevokeTokenRow, DeleteToken, DeleteTokenRow, NamesTyped
  <2>6. QED
    BY <1>2, <2>4, <2>5
<1>6. QED
  BY <1>1, <1>3, <1>4, <1>5, StillTyped DEF RowsTyped, NamesTyped

\* Channels: a request that goes on to its next part keeps its channel.
LEMMA GoesStep ==
  ASSUME WorkTyped, NEW a \in Clients, NEW w \in Work, NEW todo \in SUBSET Todos,
         w.channel \in ChannelIds, Goes(a, w, todo)
  PROVE  WorkTyped'
<1> DEFINE v == [w EXCEPT !.todo = todo]
           op == NextOp(todo)
<1>1. v \in Work /\ v.channel \in ChannelIds
  BY TodoFits, TodoSame
<1>2. op \in {"setgroups", "endpoint", "look", "key", "invalidate"}
  BY DEF NextOp
<1>3. Waits(a, op, v)
  BY DEF Goes
<1> HIDE DEF v, op
<1>4. [v EXCEPT !.op = op] \in Work
  BY <1>1, <1>2, OpFits DEF WorkOps
<1>5. Fits([v EXCEPT !.op = op])
  BY <1>1, <1>2, OpSame DEF Fits
<1>6. QED
  BY <1>1, <1>3, <1>4, <1>5, WaitsStep

LEMMA ChannelsTypedStep ==
  ASSUME RowsTyped, NEW a \in Clients, ChannelsBegin(a) \/ ChannelsGoOn(a), UNCHANGED accountVars
  PROVE  RowsTyped'
<1> USE DEF beyond, channelTables, grants, accounts, caches, accountVars
<1> DEFINE w == work[a]
           At5 == w.op \in {"basics", "setgroups", "endpoint", "look", "key", "invalidate"}
<1>1. /\ WorkTyped /\ IdsTyped /\ ChannelsTyped /\ GroupsTyped /\ CopiesTyped /\ w \in Work
      /\ w.todo \in SUBSET Todos /\ w.names \in SUBSET Names /\ w.on \in BOOLEAN
      /\ At5 => w.channel \in ChannelIds
  BY DEF RowsTyped, WorkTyped, Work, Todos, Fits
<1>2. \A c \in ChannelIds : channels[c] \in ChannelRows
  BY <1>1 DEF ChannelsTyped
<1>3. \A c, ns : MembershipsIn(c, ns) \subseteq GroupIds \X {c}
  BY DEF MembershipsIn
<1>4. ASSUME NEW kind \in Kinds, NEW ns \in SUBSET Names, NEW key \in BOOLEAN, CreateChannel(a, kind, ns, key)
      PROVE  RowsTyped'
  <2>1. PICK c \in ChannelIds : c = lastIds.channel + 1
    BY <1>1, <1>4, IdsAreNumbers DEF CreateChannel, InsertChannel
  <2>2. IdsTyped'
    BY <1>1, <1>4, <2>1 DEF CreateChannel, InsertChannel, IdsTyped
  <2>3. [live |-> TRUE, kind |-> kind, on |-> TRUE, csv |-> ns] \in ChannelRows
    BY DEF ChannelRows
  <2>4. ChannelsTyped'
    BY <1>1, <1>3, <1>4, <2>1, <2>3 DEF CreateChannel, InsertChannel, ChannelsTyped
  <2>5. WorkTyped'
    <3> DEFINE u == [Idle EXCEPT !.channel = c, !.flag = TRUE]
               todo == {"endpoint"} \cup (IF key THEN {"key"} ELSE {})
    <3>1. u \in Work /\ u.channel = c /\ todo \in SUBSET Todos
      BY NoCookieFits DEF Idle, Work, Todos
    <3>2. Goes(a, u, todo)
      BY <1>4, <2>1 DEF CreateChannel
    <3> HIDE DEF u, todo
    <3>3. QED
      BY <1>1, <3>1, <3>2, GoesStep
  <2>6. QED
    BY <1>1, <1>4, <2>2, <2>4, <2>5, StillTyped DEF CreateChannel, RowsTyped
<1>5. ASSUME NEW c \in ChannelIds, NEW on \in BOOLEAN, NEW ns \in SUBSET Names,
             NEW todo \in SUBSET {"groups", "endpoint", "key"}, ReadChannel(a, c, on, ns, todo)
      PROVE  RowsTyped'
  <2>1. PICK more \in SUBSET Todos : more = IF "endpoint" \in todo THEN todo ELSE todo \cup {"look"}
    BY DEF Todos
  <2> DEFINE u == [Idle EXCEPT !.channel = c, !.on = on, !.names = ns, !.todo = more]
  <2>2. u \in Work /\ u.channel = c
    BY NoCookieFits DEF Idle, Work, Todos
  <2>3. Waits(a, "basics", u)
    BY <1>5, <2>1 DEF ReadChannel
  <2> HIDE DEF u
  <2>4. [u EXCEPT !.op = "basics"] \in Work
    BY <2>2, OpFits DEF WorkOps
  <2>5. Fits([u EXCEPT !.op = "basics"])
    BY <2>2, OpSame DEF Fits
  <2>6. WorkTyped'
    BY <1>1, <2>2, <2>3, <2>4, <2>5, WaitsStep
  <2>7. QED
    BY <1>5, <2>6, StillTyped DEF ReadChannel, RowsTyped
<1>6. CASE WriteBasics(a)
  <2>1. w.channel \in ChannelIds
    BY <1>1, <1>6 DEF WriteBasics, At
  <2>2. WorkTyped'
    BY <1>1, <1>6, <2>1, GoesStep, DoneStep DEF WriteBasics
  <2>3. [channels[w.channel] EXCEPT !.on = w.on] \in ChannelRows
    BY <1>1, <1>2, <2>1 DEF ChannelRows
  <2>4. \/ channels' = channels
        \/ channels' = [channels EXCEPT ![w.channel] = [channels[w.channel] EXCEPT !.on = w.on]]
    BY <1>1, <1>6, <2>1 DEF WriteBasics, ChannelsTyped
  <2>5. ChannelsTyped'
    BY <1>1, <1>6, <2>3, <2>4 DEF WriteBasics, ChannelsTyped
  <2>6. QED
    BY <1>6, <2>2, <2>5, StillTyped DEF WriteBasics, RowsTyped
<1>7. CASE SetGroups(a)
  <2>1. w.channel \in ChannelIds
    BY <1>1, <1>7 DEF SetGroups, At
  <2>2. WorkTyped'
    BY <1>1, <1>7, <2>1, GoesStep, DoneStep DEF SetGroups
  <2>3. [channels[w.channel] EXCEPT !.csv = w.names] \in ChannelRows
    BY <1>1, <1>2, <2>1 DEF ChannelRows
  <2>4. UNCHANGED <<members, channels>> \/
        /\ members' = {m \in members : m[2] # w.channel} \cup MembershipsIn(w.channel, w.names)
        /\ channels' = [channels EXCEPT ![w.channel] = [channels[w.channel] EXCEPT !.csv = w.names]]
    BY <1>1, <1>7, <2>1 DEF SetGroups, SetGroupsOf, ChannelsTyped
  <2>5. ChannelsTyped'
    BY <1>1, <1>3, <1>7, <2>1, <2>3, <2>4 DEF SetGroups, ChannelsTyped
  <2>6. QED
    BY <1>7, <2>2, <2>5, StillTyped DEF SetGroups, RowsTyped
<1>8. CASE SetEndpoint(a)
  <2>1. w.channel \in ChannelIds
    BY <1>1, <1>8 DEF SetEndpoint, At
  <2>2. WorkTyped'
    BY <1>1, <1>8, <2>1, GoesStep DEF SetEndpoint
  <2>3. ChannelsTyped'
    BY <1>1, <1>8, <2>1 DEF SetEndpoint, ChannelsTyped
  <2>4. QED
    BY <1>8, <2>2, <2>3, StillTyped DEF SetEndpoint, RowsTyped
<1>9. CASE LookForEndpoint(a)
  <2>1. w.channel \in ChannelIds
    BY <1>1, <1>9 DEF LookForEndpoint, At
  <2>2. WorkTyped'
    BY <1>1, <1>9, <2>1, GoesStep DEF LookForEndpoint
  <2>3. QED
    BY <1>9, <2>2, StillTyped DEF LookForEndpoint, RowsTyped
<1>10. CASE StoreKey(a)
  <2>1. w.channel \in ChannelIds
    BY <1>1, <1>10 DEF StoreKey, At
  <2>2. WorkTyped'
    BY <1>1, <1>10, <2>1, GoesStep DEF StoreKey
  <2>3. PICK n \in 1..MaxCreds : n = lastIds.cred + 1
    BY <1>1, <1>10, IdsAssumption DEF StoreKey, InsertCred, IdsTyped
  <2>4. IdsTyped'
    BY <1>1, <1>10, <2>3 DEF StoreKey, InsertCred, IdsTyped
  <2>5. [table |-> channels[w.channel].kind, channel |-> w.channel, id |-> n] \in CredRows
    BY <1>2, <2>1 DEF CredRows, ChannelRows
  <2>6. ChannelsTyped'
    BY <1>1, <1>10, <2>3, <2>5 DEF StoreKey, InsertCred, ChannelsTyped
  <2>7. QED
    BY <1>10, <2>2, <2>4, <2>6, StillTyped DEF StoreKey, RowsTyped
<1>11. ASSUME NEW c \in ChannelIds, DeleteChannelRows(c), members' = members PROVE ChannelsTyped'
  <2>1. [NoChannel EXCEPT !.kind = channels[c].kind] \in ChannelRows
    BY <1>2 DEF NoChannel, ChannelRows
  <2>2. QED
    BY <1>1, <1>11, <2>1 DEF DeleteChannelRows, ChannelsTyped
<1>12. CASE KeyFails(a)
  <2>1. w.channel \in ChannelIds
    BY <1>1, <1>12 DEF KeyFails, At
  <2>2. WorkTyped' /\ ChannelsTyped'
    BY <1>1, <1>11, <1>12, <2>1, DoneStep DEF KeyFails
  <2>3. QED
    BY <1>12, <2>2, StillTyped DEF KeyFails, RowsTyped
<1>13. CASE Invalidate(a)
  <2>1. WorkTyped' /\ CopiesTyped'
    BY <1>1, <1>13, DoneStep, CopiesStep DEF Invalidate
  <2>2. QED
    BY <1>13, <2>1, StillTyped DEF Invalidate, RowsTyped
<1>14. CASE GiveUp(a)
  <2>1. WorkTyped'
    BY <1>1, <1>14, DoneStep DEF GiveUp
  <2>2. QED
    BY <1>14, <2>1, StillTyped DEF GiveUp, RowsTyped
<1>15. ASSUME NEW c \in ChannelIds, DeleteChannel(a, c) PROVE RowsTyped'
  <2>1. CopiesTyped' /\ ChannelsTyped'
    BY <1>1, <1>11, <1>15, CopiesStep DEF DeleteChannel
  <2>2. QED
    BY <1>15, <2>1, StillTyped DEF DeleteChannel, RowsTyped
<1>16. ASSUME NEW c \in ChannelIds, ReadEndpoint(a, c) PROVE RowsTyped'
  <2> DEFINE u == [Idle EXCEPT !.channel = c]
  <2>1. u \in Work /\ u.channel = c /\ {"key"} \in SUBSET Todos
    BY NoCookieFits DEF Idle, Work, Todos
  <2>2. Goes(a, u, {"key"})
    BY <1>16 DEF ReadEndpoint
  <2> HIDE DEF u
  <2>3. WorkTyped'
    BY <1>1, <2>1, <2>2, GoesStep
  <2>4. QED
    BY <1>16, <2>3, StillTyped DEF ReadEndpoint, RowsTyped
<1>17. ASSUME NEW c \in ChannelIds, SaveSettings(a, c) PROVE RowsTyped'
  <2>1. CopiesTyped'
    BY <1>1, <1>17, CopiesStep DEF SaveSettings
  <2>2. QED
    BY <1>17, <2>1, StillTyped DEF SaveSettings, RowsTyped
<1>18. ASSUME NEW c \in ChannelIds, NEW k \in creds, DeleteCred(a, c, k) PROVE RowsTyped'
  <2>1. CopiesTyped' /\ ChannelsTyped'
    BY <1>1, <1>18, CopiesStep DEF DeleteCred, ChannelsTyped
  <2>2. QED
    BY <1>18, <2>1, StillTyped DEF DeleteCred, RowsTyped
<1>19. QED
  BY <1>4, <1>5, <1>6, <1>7, <1>8, <1>9, <1>10, <1>12, <1>13, <1>14, <1>15, <1>16, <1>17, <1>18
     DEF ChannelsBegin, ChannelsGoOn

-----------------------------------------------------------------------------
(* Users, sessions and codes.                                              *)

UserOps == {"prove", "count", "insert", "session", "password", "email", "status", "role", "main",
            "setmain"}

\* The sessions there are, and those the requests that open one have so far.
Opening == {"prove", "count", "insert", "session", "cookie"}
Held == cookies \cup {work[a].cookie : a \in {b \in Clients : work[b].op \in Opening}}
\* Whoever has a row has one that was written no later than now; a session whose
\* stamp was read before the password changed was read before the last write.
Sessions ==
    /\ \A u \in Users : users[u].changed <= second
    /\ \A k \in Held :
        /\ k.stamp <= k.made /\ k.made <= second
        /\ k.user \in Users /\ Registered(k.user) /\ k.seen # users[k.user].password =>
            k.made <= users[k.user].changed
\* Codes are sent one by one, and what is in force was never accepted.
Mail ==
    /\ \A e \in Emails : codes[e] # 0 => codes[e] <= sent /\ uses[codes[e]] = 0
    /\ \A e, f \in Emails : codes[e] # 0 /\ codes[e] = codes[f] => e = f
    /\ \A n \in Codes : uses[n] <= 1 /\ (n > sent => uses[n] = 0)

\* A session that has just been read, but for its stamp perhaps.
Read(k) ==
    /\ k.seen = users'[k.user].password
    /\ \/ k.made = second /\ k.stamp <= second
       \/ \E c \in Held \cup {NoCookie} : k.made = c.made /\ k.stamp = c.stamp
UsersMove ==
    /\ second' \in 0..MaxSecond /\ second <= second'
    /\ users' \in [Users -> UserRows]
    /\ \A u \in Users : \/ users'[u] = users[u]
                        \/ users'[u].changed = second
                        \/ users'[u].state = "gone" /\ users'[u].changed = 0
    /\ cookies' \subseteq Opened
    /\ \A k \in Held' : k \in Held \cup {NoCookie} \/ Read(k)
MailMove ==
    \/ UNCHANGED <<codes, sent, uses>>
    \/ \E e \in Emails :
        /\ sent < MaxCodes /\ sent' = sent + 1
        /\ codes' = [codes EXCEPT ![e] = sent + 1] /\ uses' = uses
    \/ \E e \in Emails : codes' = [codes EXCEPT ![e] = 0] /\ UNCHANGED <<sent, uses>>
    \/ \E e \in Emails, n \in Codes : Consume(e, n) /\ sent' = sent

\* Whoever changes a password stamps its user with the second it is.
LEMMA SessionsStep ==
  ASSUME UsersTyped, WorkTyped, WorkTyped', Sessions, UsersMove
  PROVE  Sessions'
<1>1. second \in Nat /\ second' \in Nat /\ second <= second'
  BY IdsAssumption DEF UsersTyped, UsersMove
<1>2. \A u \in Users : /\ users[u].changed \in Nat /\ users'[u].changed \in Nat
                       /\ users[u] \in UserRows /\ users'[u] \in UserRows
  BY IdsAssumption DEF UsersTyped, UsersMove, UserRows
<1>3. \A u \in Users : users'[u].changed <= second'
  BY <1>1, <1>2 DEF UsersMove, Sessions
<1>4. \A k \in Held \cup Held' \cup {NoCookie} : k.made \in Nat /\ k.stamp \in Nat
  <2>1. Held \subseteq Cookies /\ Held' \subseteq Cookies
    BY DEF UsersTyped, UsersMove, WorkTyped, Work, Held, Opened
  <2>2. QED
    BY <2>1, IdsAssumption DEF Cookies, NoCookie
<1>5. \A k \in Held \cup {NoCookie} : k.stamp <= k.made /\ k.made <= second
  BY <1>1 DEF Sessions, NoCookie
<1>6. ASSUME NEW k \in Held'
      PROVE  /\ k.stamp <= k.made /\ k.made <= second'
             /\ k.user \in Users /\ Registered(k.user)' /\ k.seen # users'[k.user].password =>
                    k.made <= users'[k.user].changed
  <2>1. CASE k \in Held
    <3>1. k.stamp <= k.made /\ k.made <= second
      BY <1>5, <2>1
    <3>2. ASSUME k.user \in Users, Registered(k.user)', k.seen # users'[k.user].password
          PROVE  k.made <= users'[k.user].changed
      <4>1. CASE users'[k.user] = users[k.user]
        BY <2>1, <3>2, <4>1 DEF Sessions, Registered
      <4>2. CASE users'[k.user].changed = second
        BY <3>1, <4>2
      <4>3. QED
        BY <3>2, <4>1, <4>2 DEF UsersMove, Registered
    <3>3. QED
      BY <1>1, <1>4, <3>1, <3>2
  <2>2. CASE k = NoCookie
    BY <1>1, <1>2, <2>2 DEF NoCookie
  <2>3. CASE Read(k)
    <3>1. k.stamp <= k.made /\ k.made <= second
      BY <1>1, <1>4, <1>5, <2>3 DEF Read
    <3>2. QED
      BY <1>1, <1>4, <2>3, <3>1 DEF Read
  <2>4. QED
    BY <2>1, <2>2, <2>3 DEF UsersMove
<1>7. QED
  BY <1>3, <1>6 DEF Sessions

\* A code is consumed only while it is the one its address has, and then the
\* address has another or none.
LEMMA MailStep ==
  ASSUME MailTyped, Mail, MailMove
  PROVE  MailTyped' /\ Mail'
<1>1. MaxCodes \in Nat /\ sent \in Nat /\ \A e \in Emails : codes[e] \in Nat
  BY CodesAssumption DEF MailTyped
<1>2. \A e \in Emails : codes[e] # 0 => codes[e] \in Codes
  BY <1>1 DEF MailTyped, Codes
<1>3. CASE UNCHANGED <<codes, sent, uses>>
  BY <1>3 DEF MailTyped, Mail
<1>4. ASSUME NEW e \in Emails, sent < MaxCodes, sent' = sent + 1,
             codes' = [codes EXCEPT ![e] = sent + 1], uses' = uses
      PROVE  MailTyped' /\ Mail'
  <2>1. sent + 1 \in Codes /\ sent + 1 \in 0..MaxCodes /\ sent + 1 # 0
    BY <1>1, <1>4 DEF Codes
  <2>2. uses[sent + 1] = 0
    BY <1>1, <2>1 DEF Mail
  <2>3. MailTyped'
    BY <1>4, <2>1 DEF MailTyped
  <2>4. \A f \in Emails : codes'[f] = IF f = e THEN sent + 1 ELSE codes[f]
    BY <1>4 DEF MailTyped
  <2>5. \A f \in Emails : codes[f] # sent + 1
    BY <1>1 DEF Mail
  <2>6. \A f \in Emails : codes'[f] # 0 => codes'[f] <= sent + 1 /\ uses[codes'[f]] = 0
    BY <1>1, <2>2, <2>4 DEF Mail
  <2>7. \A f, g \in Emails : codes'[f] # 0 /\ codes'[f] = codes'[g] => f = g
    BY <2>4, <2>5 DEF Mail
  <2>8. \A n \in Codes : uses[n] <= 1 /\ (n > sent + 1 => uses[n] = 0)
    BY <1>1 DEF Mail, Codes
  <2>9. QED
    BY <1>4, <2>3, <2>6, <2>7, <2>8 DEF Mail
<1>5. ASSUME NEW e \in Emails, codes' = [codes EXCEPT ![e] = 0], UNCHANGED <<sent, uses>>
      PROVE  MailTyped' /\ Mail'
  <2>1. \A f \in Emails : codes'[f] = IF f = e THEN 0 ELSE codes[f]
    BY <1>5 DEF MailTyped
  <2>2. MailTyped'
    BY <1>1, <1>5 DEF MailTyped
  <2>3. QED
    BY <1>5, <2>1, <2>2 DEF Mail
<1>6. ASSUME NEW e \in Emails, NEW n \in Codes, Consume(e, n), sent' = sent
      PROVE  MailTyped' /\ Mail'
  <2>1. \A f \in Emails : codes'[f] = IF f = e THEN 0 ELSE codes[f]
    BY <1>6 DEF MailTyped, Consume
  <2>2. \A m \in Codes : uses[m] \in Nat /\ uses'[m] = IF m = n THEN uses[n] + 1 ELSE uses[m]
    BY <1>6 DEF MailTyped, Consume
  <2>3. MailTyped'
    BY <1>1, <1>6, <2>2 DEF MailTyped, Consume
  <2>4. n # 0 /\ codes[e] = n /\ uses[n] = 0 /\ n <= sent
    BY <1>1, <1>6 DEF Consume, Mail, Codes
  <2>5. \A f \in Emails : codes'[f] # 0 => codes'[f] <= sent /\ uses'[codes'[f]] = 0
    BY <1>2, <2>1, <2>2, <2>4 DEF Mail
  <2>6. \A f, g \in Emails : codes'[f] # 0 /\ codes'[f] = codes'[g] => f = g
    BY <2>1 DEF Mail
  <2>7. \A m \in Codes : uses'[m] <= 1 /\ (m > sent => uses'[m] = 0)
    BY <1>1, <2>2, <2>4 DEF Mail, Codes
  <2>8. QED
    BY <1>6, <2>3, <2>5, <2>6, <2>7 DEF Mail
<1>7. QED
  BY <1>3, <1>4, <1>5, <1>6 DEF MailMove

configured == <<groups, nested, overtaken, default, pointers, members, channels, endpoints, creds,
                mains, granted, bound, tags>>
\* What a step of a request about users, or time, may do.
AccountsMove ==
    /\ WorkTyped' /\ IdsTyped' /\ NamesTyped' /\ CopiesTyped' /\ UsersMove /\ MailMove
    /\ mainOf' \in [Users -> Mains \cup {None}]
    /\ UNCHANGED configured /\ lastIds'.group = lastIds.group

\* A step that changes no user and opens no session.
LEMMA UsersStill ==
  ASSUME RowsTyped, UNCHANGED <<second, users>>, cookies' \subseteq cookies,
         Held' \subseteq Held \cup {NoCookie}
  PROVE  UsersMove
BY IdsAssumption DEF RowsTyped, UsersTyped, UsersMove

\* What a request's next step does to the sessions.
LEMMA HeldStep ==
  ASSUME WorkTyped, NEW a \in Clients, NEW w, work' = [work EXCEPT ![a] = w],
         cookies' \subseteq cookies
  PROVE  /\ Held' \subseteq Held \cup {w.cookie}
         /\ w.op \notin Opening => Held' \subseteq Held
<1>1. work \in [Clients -> Work]
  BY DEF WorkTyped
<1>2. \A b \in Clients : work'[b] = IF b = a THEN w ELSE work[b]
  BY <1>1
<1>3. QED
  BY <1>2 DEF Held

LEMMA DoneHeld ==
  ASSUME WorkTyped, NEW a \in Clients, Done(a), cookies' \subseteq cookies
  PROVE  Held' \subseteq Held
<1>1. Idle.op \notin Opening
  BY DEF Idle, Opening
<1>2. QED
  BY <1>1, HeldStep DEF Done

LEMMA WorkHeld ==
  ASSUME UNCHANGED work, cookies' \subseteq cookies
  PROVE  Held' \subseteq Held
BY DEF Held

LEMMA AccountsStill ==
  ASSUME RowsTyped, UNCHANGED <<lastIds, tokens, mainOf, away, caches>>,
         WorkTyped', UsersMove, MailMove
  PROVE  AccountsMove
BY StillTyped DEF RowsTyped, UsersTyped, AccountsMove, away, channelTables, caches, configured

\* What a change of a user's row does, then of a password, then a deletion.
LEMMA TouchMove ==
  ASSUME RowsTyped, NEW u \in Users, NEW row \in UserRows, Touch(u, row), UNCHANGED <<second, cookies>>,
         Held' \subseteq Held
  PROVE  UsersMove
<1>1. [row EXCEPT !.changed = second] \in UserRows /\ [row EXCEPT !.changed = second].changed = second
  BY DEF RowsTyped, UsersTyped, UserRows
<1>2. users' = users \/ users' = [users EXCEPT ![u] = [row EXCEPT !.changed = second]]
  BY DEF Touch
<1>3. second' \in 0..MaxSecond /\ second <= second'
  BY IdsAssumption DEF RowsTyped, UsersTyped
<1>4. users' \in [Users -> UserRows] /\ \A v \in Users : users'[v] = users[v] \/ users'[v].changed = second
  BY <1>1, <1>2 DEF RowsTyped, UsersTyped
<1>5. QED
  BY <1>3, <1>4 DEF UsersMove, RowsTyped, UsersTyped

LEMMA PasswordIds ==
  ASSUME RowsTyped, CanSetPassword, lastIds' = [lastIds EXCEPT !.password = @ + 1]
  PROVE  /\ IdsTyped' /\ lastIds'.group = lastIds.group
         /\ lastIds.password + 1 \in 0..MaxPasswords
<1>1. lastIds.password + 1 \in 0..MaxPasswords
  BY IdsAssumption DEF RowsTyped, IdsTyped, CanSetPassword
<1>2. QED
  BY <1>1 DEF RowsTyped, IdsTyped

LEMMA InsertMove ==
  ASSUME RowsTyped, NEW u \in Users, NEW e \in Emails \cup {None}, NEW root \in BOOLEAN,
         CanSetPassword, InsertUser(u, e, root)
  PROVE  /\ IdsTyped' /\ lastIds'.group = lastIds.group
         /\ users' \in [Users -> UserRows] /\ users'[u].changed = second
         /\ \A v \in Users : v # u => users'[v] = users[v]
<1>1. IdsTyped' /\ lastIds'.group = lastIds.group /\ lastIds.password + 1 \in 0..MaxPasswords
  BY PasswordIds DEF InsertUser
<1>2. PICK p \in 0..MaxPasswords : p = lastIds.password + 1
  BY <1>1
<1>3. [state |-> "on", root |-> root, email |-> e, password |-> p, changed |-> second] \in UserRows
  BY DEF UserRows, States, RowsTyped, UsersTyped
<1>4. QED
  BY <1>1, <1>2, <1>3 DEF InsertUser, RowsTyped, UsersTyped

LEMMA SetPasswordMove ==
  ASSUME RowsTyped, NEW u \in Users, CanSetPassword, SetPassword(u), UNCHANGED <<second, cookies>>,
         Held' \subseteq Held
  PROVE  IdsTyped' /\ lastIds'.group = lastIds.group /\ UsersMove
<1>1. IdsTyped' /\ lastIds'.group = lastIds.group /\ lastIds.password + 1 \in 0..MaxPasswords
  BY PasswordIds DEF SetPassword
<1>2. PICK p \in 0..MaxPasswords : p = lastIds.password + 1
  BY <1>1
<1>3. [users[u] EXCEPT !.password = p] \in UserRows
  BY DEF UserRows, RowsTyped, UsersTyped
<1>4. UsersMove
  BY <1>2, <1>3, TouchMove DEF SetPassword
<1>5. QED
  BY <1>1, <1>4

LEMMA DeleteMove ==
  ASSUME RowsTyped, NEW u \in Users, DeleteUserRows(u),
         UNCHANGED <<second, cookies, mains, granted, bound, tags>>, Held' \subseteq Held
  PROVE  UsersMove /\ NamesTyped' /\ mainOf' \in [Users -> Mains \cup {None}]
<1>0. 0 \in 0..MaxPasswords /\ 0 \in 0..MaxSecond
  BY IdsAssumption
<1>1. [NoUser EXCEPT !.state = "gone"] \in UserRows
      /\ [NoUser EXCEPT !.state = "gone"].state = "gone" /\ [NoUser EXCEPT !.state = "gone"].changed = 0
  BY <1>0 DEF NoUser, UserRows, States
<1>2. UsersMove
  BY <1>1, IdsAssumption DEF DeleteUserRows, UsersMove, RowsTyped, UsersTyped
<1>3. \A t \in Tokens : [tokens[t] EXCEPT !.state = "gone"] \in TokenRows
  BY DEF RowsTyped, NamesTyped, TokenRows, States
<1>4. tokens' \in [Tokens -> TokenRows]
  BY <1>3 DEF DeleteUserRows, RowsTyped, NamesTyped
<1>5. QED
  BY <1>2, <1>4 DEF DeleteUserRows, RowsTyped, UsersTyped, NamesTyped

\* What a session is made of.
LEMMA CookieFits ==
  ASSUME RowsTyped, Sessions, NEW u \in Users
  PROVE  /\ CookieOf(u) \in Opened /\ CookieOf(u).user = u /\ CookieOf(u).made = second
         /\ CookieOf(u).stamp <= second /\ CookieOf(u).seen = users[u].password
BY DEF CookieOf, Cookies, Opened, RowsTyped, UsersTyped, UserRows, Sessions

LEMMA UserOpStep ==
  ASSUME WorkTyped, NEW a \in Clients, NEW w \in Work, NEW op \in UserOps, Waits(a, op, w),
         w.who \in Users, w.name \in Mains \cup {None},
         op = "prove" => w.email \in Emails /\ w.code \in Codes,
         op = "session" => w.cookie.user \in Users
  PROVE  /\ WorkTyped'
         /\ cookies' \subseteq cookies =>
                Held' \subseteq Held \cup {w.cookie} /\ (op \notin Opening => Held' \subseteq Held)
<1> DEFINE v == [w EXCEPT !.op = op]
<1>1. v \in Work
  BY OpFits DEF UserOps, WorkOps
<1>2. Fits(v) /\ v.op = op /\ v.cookie = w.cookie
  BY OpSame DEF UserOps, Fits
<1>3. work' = [work EXCEPT ![a] = v]
  BY DEF Waits
<1> HIDE DEF v
<1>4. QED
  BY <1>1, <1>2, <1>3, WorkStep, HeldStep

LEMMA EditStep ==
  ASSUME WorkTyped, NEW a \in Clients, NEW w \in Work, NEW todo \in SUBSET Todos,
         w.who \in Users, w.name \in Mains \cup {None}, GoesOn(a, w, todo)
  PROVE  WorkTyped' /\ (cookies' \subseteq cookies => Held' \subseteq Held)
<1> DEFINE v == [w EXCEPT !.todo = todo]
           op == NextEdit(todo)
<1>1. v \in Work /\ v.who = w.who /\ v.name = w.name
  BY TodoFits, TodoSame
<1>2. op \in UserOps /\ op \notin {"prove", "session"} /\ op \notin Opening
  BY DEF NextEdit, UserOps, Opening
<1>3. Done(a) \/ Waits(a, op, v)
  BY DEF GoesOn
<1> HIDE DEF v, op
<1>4. QED
  BY <1>1, <1>2, <1>3, DoneStep, DoneHeld, UserOpStep

\* Every step of the account handlers is an AccountsMove.
LEMMA AccountsBeginMove ==
  ASSUME RowsTyped, Sessions, NEW a \in Clients, AccountsBegin(a)
  PROVE  AccountsMove
<1> USE DEF mail
<1>0. Codes \subseteq Nat
  BY CodesAssumption DEF Codes
<1>1. /\ WorkTyped /\ UsersTyped /\ IdsTyped /\ NamesTyped /\ CopiesTyped
      /\ \A u \in Users : users[u] \in UserRows
      /\ \A k \in cookies : k \in Cookies /\ k.user \in Users /\ k \in Held
      /\ NoCookie \in Cookies /\ Idle.cookie = NoCookie
  BY IdsAssumption DEF RowsTyped, UsersTyped, Opened, Held, NoCookie, Cookies, Idle
<1>2. ASSUME NEW u \in Users, Login(a, u) PROVE AccountsMove
  <2> DEFINE w == [Idle EXCEPT !.cookie = CookieOf(u)]
             v == [w EXCEPT !.op = "cookie"]
  <2>1. CookieOf(u) \in Opened /\ CookieOf(u).user = u /\ CookieOf(u).made = second
        /\ CookieOf(u).stamp <= second /\ CookieOf(u).seen = users[u].password
    BY CookieFits
  <2>2. v \in Work /\ v.op = "cookie" /\ v.cookie = CookieOf(u)
    BY <2>1 DEF Idle, Work, Opened
  <2>3. work' = [work EXCEPT ![a] = v] /\ UNCHANGED <<second, users, cookies>>
    BY <1>2 DEF Login, Waits
  <2>4. Fits(v)
    BY <2>1, <2>2 DEF Fits
  <2> HIDE DEF v
  <2>5. WorkTyped' /\ Held' \subseteq Held \cup {CookieOf(u)}
    BY <1>1, <2>2, <2>3, <2>4, WorkStep, HeldStep
  <2>6. Read(CookieOf(u))
    BY <2>1, <2>3 DEF Read
  <2>7. UsersMove
    BY <1>1, <2>3, <2>5, <2>6, IdsAssumption DEF UsersMove, UsersTyped
  <2>8. QED
    BY <1>2, <2>5, <2>7, AccountsStill, StillTyped DEF Login, MailMove
<1>3. ASSUME NEW u \in Users, NEW e \in Emails, NEW n \in Codes, NEW k \in cookies \cup {NoCookie},
             Register(a, u, e, n, k)
      PROVE  AccountsMove
  <2> DEFINE w == [Idle EXCEPT !.who = u, !.email = e, !.code = n, !.cookie = k]
             op == IF verifies THEN "prove" ELSE "count"
  <2>1. w \in Work /\ w.who = u /\ w.name = None /\ w.email = e /\ w.code = n /\ w.cookie = k
    BY <1>0, <1>1 DEF Idle, Work
  <2>2. Waits(a, op, w) /\ op \in UserOps /\ op # "session"
    BY <1>3 DEF Register, UserOps
  <2> HIDE DEF w, op
  <2>3. WorkTyped' /\ Held' \subseteq Held \cup {NoCookie}
    BY <1>1, <1>3, <2>1, <2>2, UserOpStep DEF Register
  <2>4. QED
    BY <1>3, <2>3, AccountsStill, UsersStill DEF Register, MailMove
<1>4. ASSUME NEW e \in Emails, SendCode(a, e) PROVE AccountsMove
  <2>1. MailMove
    BY <1>4 DEF SendCode, MailMove
  <2>2. QED
    BY <1>4, <2>1, AccountsStill, UsersStill, WorkHeld, StillTyped DEF SendCode
<1>5. ASSUME NEW k \in cookies, ChangePassword(a, k) PROVE AccountsMove
  <2> DEFINE w == [Idle EXCEPT !.who = k.user]
  <2>1. w \in Work /\ w.who = k.user /\ w.name = None
    BY <1>1 DEF Idle, Work
  <2>2. Waits(a, "password", w) /\ "password" \in UserOps
    BY <1>5 DEF ChangePassword, UserOps
  <2> HIDE DEF w
  <2>3. WorkTyped' /\ Held' \subseteq Held
    BY <1>1, <1>5, <2>1, <2>2, UserOpStep DEF Opening, ChangePassword
  <2>4. QED
    BY <1>5, <2>3, AccountsStill, UsersStill DEF ChangePassword, MailMove
<1>6. ASSUME NEW k \in cookies, NEW e \in Emails, NEW n \in Codes, ChangeEmail(a, k, e, n)
      PROVE  AccountsMove
  <2> DEFINE w == [Idle EXCEPT !.who = k.user, !.email = e, !.code = n, !.todo = {"email"}]
  <2>1. w \in Work /\ w.who = k.user /\ w.name = None /\ w.email = e /\ w.code = n
        /\ w.cookie = NoCookie
    BY <1>0, <1>1 DEF Idle, Work
  <2>2. Waits(a, "prove", w) /\ "prove" \in UserOps
    BY <1>6 DEF ChangeEmail, UserOps
  <2> HIDE DEF w
  <2>3. WorkTyped' /\ Held' \subseteq Held \cup {NoCookie}
    BY <1>1, <1>6, <2>1, <2>2, UserOpStep DEF ChangeEmail
  <2>4. QED
    BY <1>6, <2>3, AccountsStill, UsersStill DEF ChangeEmail, MailMove
<1>7. ASSUME NEW k \in cookies, NEW u \in Users, ResetPassword(a, k, u) PROVE AccountsMove
  <2>1. IdsTyped' /\ lastIds'.group = lastIds.group /\ UsersMove
    BY <1>7, SetPasswordMove, WorkHeld DEF ResetPassword
  <2>2. QED
    BY <1>1, <1>7, <2>1, StillTyped DEF ResetPassword, AccountsMove, MailMove, configured, away,
        channelTables, caches, UsersTyped
<1>8. ASSUME NEW k \in cookies, NEW u \in Users, DeleteUser(a, k, u) PROVE AccountsMove
  <2>1. UsersMove /\ NamesTyped' /\ mainOf' \in [Users -> Mains \cup {None}]
    BY <1>8, DeleteMove, WorkHeld DEF DeleteUser, away
  <2>2. CopiesTyped'
    BY <1>1, <1>8, CopiesStep DEF DeleteUser
  <2>3. QED
    BY <1>1, <1>8, <2>1, <2>2, StillTyped DEF DeleteUser, AccountsMove, MailMove, configured, away,
        channelTables
<1>9. ASSUME NEW k \in cookies, NEW u \in Users, NEW e \in Emails, NEW root \in BOOLEAN,
             NEW m \in Mains \cup {None}, AdminCreateUser(a, k, u, e, root, m)
      PROVE  AccountsMove
  <2>1. IdsTyped' /\ lastIds'.group = lastIds.group /\ users' \in [Users -> UserRows]
        /\ users'[u].changed = second /\ \A v \in Users : v # u => users'[v] = users[v]
    BY <1>9, InsertMove DEF AdminCreateUser
  <2> DEFINE w == [Idle EXCEPT !.who = u, !.name = m, !.todo = {"main", "undo"}]
  <2>3. w \in Work /\ w.who = u /\ w.name = m
    BY NoCookieFits DEF Idle, Work
  <2>4. Waits(a, "main", w) /\ "main" \in UserOps
    BY <1>9 DEF AdminCreateUser, UserOps
  <2> HIDE DEF w
  <2>5. WorkTyped' /\ Held' \subseteq Held
    BY <1>1, <1>9, <2>3, <2>4, UserOpStep DEF Opening, AdminCreateUser
  <2>2. UsersMove
    BY <1>1, <1>9, <2>1, <2>5, IdsAssumption DEF AdminCreateUser, UsersMove, UsersTyped
  <2>6. QED
    BY <1>1, <1>9, <2>1, <2>2, <2>5, StillTyped DEF AdminCreateUser, AccountsMove, MailMove,
        configured, away, channelTables, caches, UsersTyped
<1>10. ASSUME NEW k \in cookies, NEW u \in Users, NEW e \in Emails, NEW root \in BOOLEAN,
              NEW m \in Mains \cup {None}, NEW on \in BOOLEAN, EditUser(a, k, u, e, on, root, m)
       PROVE  AccountsMove
  <2> DEFINE w == [Idle EXCEPT !.who = u, !.email = e, !.on = on, !.flag = root, !.name = m]
             todo == {x \in {"email", "status", "role", "main"} :
                        \/ x = "email" /\ e # users[u].email
                        \/ x = "status" /\ on # (users[u].state = "on")
                        \/ x = "role" /\ root # users[u].root
                        \/ x = "main" /\ m # mainOf[u]}
  <2>1. w \in Work /\ w.who = u /\ w.name = m
    BY NoCookieFits DEF Idle, Work
  <2>2. GoesOn(a, w, todo)
    BY <1>10 DEF EditUser
  <2>3. todo \in SUBSET Todos
    BY DEF Todos
  <2> HIDE DEF w, todo
  <2>4. WorkTyped' /\ Held' \subseteq Held
    BY <1>1, <1>10, <2>1, <2>2, <2>3, EditStep DEF EditUser
  <2>5. QED
    BY <1>10, <2>4, AccountsStill, UsersStill DEF EditUser, MailMove
<1>11. QED
  BY <1>2, <1>3, <1>4, <1>5, <1>6, <1>7, <1>8, <1>9, <1>10 DEF AccountsBegin

LEMMA AccountsGoOnMove ==
  ASSUME RowsTyped, Sessions, NEW a \in Clients, AccountsGoOn(a)
  PROVE  AccountsMove
<1> USE DEF mail
<1> DEFINE w == work[a]
<1>1. /\ WorkTyped /\ UsersTyped /\ IdsTyped /\ NamesTyped /\ CopiesTyped
      /\ \A u \in Users : users[u] \in UserRows
      /\ w \in Work /\ w.email \in Emails \cup {None} /\ w.flag \in BOOLEAN /\ w.todo \in SUBSET Todos
      /\ w.op \in UserOps => w.who \in Users /\ w.name \in Mains \cup {None}
      /\ w.op = "prove" => w.email \in Emails /\ w.code \in Codes
      /\ w.op \in {"session", "cookie"} => w.cookie.user \in Users
      /\ w.op \in Opening => w.cookie \in Held
      /\ w.cookie \in Cookies
  BY DEF RowsTyped, UsersTyped, WorkTyped, Work, Fits, UserOps, Todos, Held
<1> HIDE DEF w
<1>2. ASSUME NEW x PROVE w.todo \ {x} \in SUBSET Todos
  BY <1>1
<1>3. CASE ProveEmail(a)
  <2>1. w.op = "prove" /\ "prove" \in UserOps /\ {"count", "email"} \subseteq UserOps
    BY <1>3 DEF ProveEmail, At, w, UserOps
  <2>2. WorkTyped' /\ Held' \subseteq Held
    <3>1. (Done(a) \/ \E op \in {"count", "email"} : Waits(a, op, w)) /\ cookies' = cookies
      BY <1>3 DEF ProveEmail, w
    <3>2. w.cookie \in Held
      BY <1>1, <2>1 DEF Opening
    <3>3. QED
      BY <1>1, <2>1, <3>1, <3>2, DoneStep, DoneHeld, UserOpStep
  <2>3. MailMove
    BY <1>1, <1>3, <2>1 DEF ProveEmail, MailMove, w
  <2>4. QED
    BY <1>3, <2>2, <2>3, AccountsStill, UsersStill DEF ProveEmail
<1>4. CASE CountUsers(a)
  <2>1. w.who \in Users /\ w.name \in Mains \cup {None} /\ "insert" \in UserOps
    BY <1>1, <1>4 DEF CountUsers, At, w, UserOps
  <2>2. PICK first \in BOOLEAN : Waits(a, "insert", [w EXCEPT !.flag = first])
    BY <1>4 DEF CountUsers, w
  <2>3. [w EXCEPT !.flag = first] \in Work /\ [w EXCEPT !.flag = first].who = w.who
        /\ [w EXCEPT !.flag = first].name = w.name /\ [w EXCEPT !.flag = first].cookie = w.cookie
    BY <1>1 DEF Work
  <2>a. w.cookie \in Held /\ cookies' = cookies
    BY <1>1, <1>4 DEF CountUsers, At, w, Opening
  <2>4. WorkTyped' /\ Held' \subseteq Held
    BY <1>1, <2>1, <2>2, <2>3, <2>a, UserOpStep
  <2>5. QED
    BY <1>4, <2>4, AccountsStill, UsersStill DEF CountUsers, MailMove
<1>5. CASE CreateUser(a)
  <2> DEFINE u == w.who
  <2>1. u \in Users /\ w.name \in Mains \cup {None} /\ w.cookie \in Held /\ UNCHANGED <<second, cookies>>
    BY <1>1, <1>5 DEF CreateUser, At, w, UserOps, Opening
  <2>2. CASE Done(a) /\ UNCHANGED <<lastIds, users>>
    <3>1. WorkTyped' /\ Held' \subseteq Held
      BY <1>1, <2>1, <2>2, DoneStep, DoneHeld
    <3>2. QED
      BY <1>5, <2>1, <2>2, <3>1, AccountsStill, UsersStill DEF CreateUser, MailMove
  <2>3. ASSUME CanSetPassword, InsertUser(u, w.email, w.flag),
               Waits(a, "session", [w EXCEPT !.cookie.user = u, !.cookie.password = lastIds.password + 1,
                                             !.cookie.seen = lastIds.password + 1])
        PROVE  AccountsMove
    <3>1. IdsTyped' /\ lastIds'.group = lastIds.group /\ users' \in [Users -> UserRows]
          /\ users'[u].changed = second /\ \A v \in Users : v # u => users'[v] = users[v]
      BY <1>1, <2>1, <2>3, InsertMove
    <3>2. PICK n \in 0..MaxPasswords : n = lastIds.password + 1
      BY <2>3, PasswordIds DEF InsertUser
    <3>3. users'[u].password = n
      BY <1>1, <2>1, <2>3, <3>2 DEF InsertUser, UsersTyped
    <3> DEFINE k == [w.cookie EXCEPT !.user = u, !.password = n, !.seen = n]
               x == [w EXCEPT !.cookie = k]
    <3>4. k \in Cookies /\ k.user = u /\ k.seen = n /\ k.made = w.cookie.made /\ k.stamp = w.cookie.stamp
      BY <1>1, <2>1 DEF Cookies
    <3>5. [w EXCEPT !.cookie.user = u, !.cookie.password = n, !.cookie.seen = n] = x
      BY <1>1 DEF Work, Cookies
    <3> HIDE DEF k
    <3>6. x \in Work /\ x.who = u /\ x.name = w.name /\ x.cookie = k
      BY <1>1, <3>4 DEF Work
    <3> HIDE DEF x
    <3>7. Waits(a, "session", x) /\ "session" \in UserOps
      BY <2>3, <3>2, <3>5 DEF UserOps
    <3>8. WorkTyped' /\ Held' \subseteq Held \cup {k}
      BY <1>1, <2>1, <3>4, <3>6, <3>7, UserOpStep
    <3>9. Read(k)
      BY <2>1, <3>3, <3>4 DEF Read
    <3> HIDE DEF u
    <3>10. UsersMove
      BY <1>1, <2>1, <3>1, <3>8, <3>9, IdsAssumption DEF UsersMove, UsersTyped
    <3>11. QED
      BY <1>1, <1>5, <3>1, <3>8, <3>10, StillTyped DEF CreateUser, AccountsMove, MailMove,
          configured, away, channelTables, caches, UsersTyped
  <2>4. QED
    BY <1>5, <2>2, <2>3 DEF CreateUser, w
<1>13. CASE ReadBack(a)
  <2> DEFINE u == w.who
             k == [CookieOf(u) EXCEPT !.password = w.cookie.password]
             v(c) == [[w EXCEPT !.cookie = c] EXCEPT !.op = "cookie"]
  <2>1. u \in Users /\ w.cookie \in Held /\ w.cookie.user \in Users
        /\ UNCHANGED <<second, users, cookies>>
    BY <1>1, <1>13 DEF ReadBack, At, w, UserOps, Opening
  <2>2. CookieOf(u) \in Opened /\ CookieOf(u).user = u /\ CookieOf(u).made = second
        /\ CookieOf(u).stamp <= second /\ CookieOf(u).seen = users[u].password
    BY <2>1, CookieFits
  <2>3. k \in Cookies /\ k.user = u /\ k.made = second /\ k.stamp <= second /\ k.seen = users[u].password
    BY <1>1, <2>2 DEF Opened, Cookies
  <2> HIDE DEF k, u
  <2>4. PICK c \in {w.cookie, k} : work' = [work EXCEPT ![a] = v(c)]
    <3>1. [w EXCEPT !.op = "cookie"] = v(w.cookie)
      BY <1>1 DEF Work
    <3>2. QED
      BY <1>13, <3>1 DEF ReadBack, Waits, w, k, u
  <2>5. c \in Cookies /\ c.user \in Users
    BY <1>1, <2>1, <2>3
  <2>6. v(c) \in Work /\ v(c).op = "cookie" /\ v(c).cookie = c
    <3>1. PICK x \in Work : x = [w EXCEPT !.cookie = c] /\ x.cookie = c
      BY <1>1, <2>5, CookieSame
    <3>2. v(c) = [x EXCEPT !.op = "cookie"]
      BY <3>1
    <3> HIDE DEF v
    <3>3. "cookie" \in WorkOps
      BY DEF WorkOps
    <3>4. [x EXCEPT !.op = "cookie"] \in Work
      BY <3>3, OpFits
    <3>5. [x EXCEPT !.op = "cookie"].op = "cookie" /\ [x EXCEPT !.op = "cookie"].cookie = x.cookie
      BY OpSame
    <3>6. QED
      BY <3>1, <3>2, <3>4, <3>5
  <2>7. Fits(v(c))
    BY <2>5, <2>6 DEF Fits
  <2> HIDE DEF v
  <2>8. WorkTyped' /\ Held' \subseteq Held \cup {k}
    BY <1>1, <2>1, <2>4, <2>6, <2>7, WorkStep, HeldStep
  <2>9. Read(k)
    BY <2>1, <2>3 DEF Read
  <2>10. UsersMove
    BY <1>1, <2>1, <2>8, <2>9, IdsAssumption DEF UsersMove, UsersTyped
  <2>11. QED
    BY <1>13, <2>8, <2>10, AccountsStill DEF ReadBack, MailMove
<1>14. CASE SaveSession(a)
  <2>1. w.cookie \in Opened /\ w.cookie \in Held /\ Done(a) /\ cookies' = cookies \cup {w.cookie}
        /\ UNCHANGED <<second, users>>
    BY <1>1, <1>14 DEF SaveSession, At, w, Opening, Opened
  <2>2. WorkTyped'
    BY <1>1, <2>1, DoneStep
  <2>3. Held' \subseteq Held
    <3>1. \A b \in Clients : work'[b] = IF b = a THEN Idle ELSE work[b]
      BY <1>1, <2>1 DEF Done, WorkTyped
    <3>2. QED
      BY <2>1, <3>1 DEF Held, Idle, Opening
  <2>4. UsersMove
    BY <1>1, <2>1, <2>3, IdsAssumption DEF UsersMove, UsersTyped
  <2>5. QED
    BY <1>14, <2>2, <2>4, AccountsStill, StillTyped DEF SaveSession, MailMove
<1>6. CASE WritePassword(a)
  <2>1. w.who \in Users /\ Done(a)
    BY <1>1, <1>6 DEF WritePassword, At, w, UserOps
  <2>2. IdsTyped' /\ lastIds'.group = lastIds.group /\ UsersMove
    BY <1>1, <1>6, <2>1, SetPasswordMove, DoneHeld DEF WritePassword, w
  <2>3. WorkTyped'
    BY <1>1, <2>1, DoneStep
  <2>4. QED
    BY <1>1, <1>6, <2>2, <2>3, StillTyped DEF WritePassword, AccountsMove, MailMove, configured,
        away, channelTables, caches, UsersTyped
<1>7. CASE WriteEmail(a)
  <2>1. w.who \in Users /\ w.name \in Mains \cup {None}
    BY <1>1, <1>7 DEF WriteEmail, At, w, UserOps
  <2>2. WorkTyped' /\ Held' \subseteq Held
    BY <1>1, <1>2, <1>7, <2>1, DoneStep, DoneHeld, EditStep DEF WriteEmail, w
  <2>3. [users[w.who] EXCEPT !.email = w.email] \in UserRows
    BY <1>1, <2>1 DEF UserRows
  <2>4. UsersMove
    BY <1>7, <2>1, <2>2, <2>3, TouchMove, UsersStill DEF WriteEmail, w
  <2>5. QED
    BY <1>7, <2>2, <2>4, AccountsStill, StillTyped DEF WriteEmail, MailMove
<1>8. CASE SetUserStatus(a)
  <2>1. w.who \in Users /\ w.name \in Mains \cup {None}
    BY <1>1, <1>8 DEF SetUserStatus, At, w, UserOps
  <2>2. WorkTyped' /\ Held' \subseteq Held
    BY <1>1, <1>2, <1>8, <2>1, EditStep DEF SetUserStatus, w
  <2>3. [users[w.who] EXCEPT !.state = IF w.on THEN "on" ELSE "off"] \in UserRows
    BY <1>1, <2>1 DEF UserRows, States
  <2>4. UsersMove
    BY <1>8, <2>1, <2>2, <2>3, TouchMove DEF SetUserStatus, w
  <2>5. CopiesTyped'
    BY <1>1, <1>8, CopiesStep DEF SetUserStatus
  <2>6. QED
    BY <1>1, <1>8, <2>2, <2>4, <2>5, StillTyped DEF SetUserStatus, AccountsMove, MailMove,
        configured, away, channelTables, UsersTyped
<1>9. CASE SetUserRole(a)
  <2>1. w.who \in Users /\ w.name \in Mains \cup {None}
    BY <1>1, <1>9 DEF SetUserRole, At, w, UserOps
  <2>2. WorkTyped' /\ Held' \subseteq Held
    BY <1>1, <1>2, <1>9, <2>1, EditStep DEF SetUserRole, w
  <2>3. [users[w.who] EXCEPT !.root = w.flag] \in UserRows
    BY <1>1, <2>1 DEF UserRows
  <2>4. UsersMove
    BY <1>9, <2>1, <2>2, <2>3, TouchMove DEF SetUserRole, w
  <2>5. CopiesTyped'
    BY <1>1, <1>9, CopiesStep DEF SetUserRole
  <2>6. QED
    BY <1>1, <1>9, <2>2, <2>4, <2>5, StillTyped DEF SetUserRole, AccountsMove, MailMove,
        configured, away, channelTables, UsersTyped
<1>10. CASE CheckUserMain(a)
  <2>1. w.who \in Users /\ w.name \in Mains \cup {None} /\ "setmain" \in UserOps
    BY <1>1, <1>10 DEF CheckUserMain, At, w, UserOps
  <2>2. WorkTyped' /\ Held' \subseteq Held
    BY <1>1, <1>10, <2>1, DoneStep, DoneHeld, UserOpStep DEF CheckUserMain, w, Opening
  <2>3. UNCHANGED <<lastIds, second, away, mail, cookies>>
    BY <1>10 DEF CheckUserMain
  <2>4. CASE UNCHANGED <<users, tokens, mainOf, caches>>
    BY <2>2, <2>3, <2>4, AccountsStill, UsersStill DEF MailMove
  <2>5. CASE DeleteUserRows(w.who) /\ PurgeAndBump
    <3>1. UsersMove /\ NamesTyped' /\ mainOf' \in [Users -> Mains \cup {None}]
      BY <2>1, <2>2, <2>3, <2>5, DeleteMove DEF away
    <3>2. CopiesTyped'
      BY <1>1, <2>5, CopiesStep
    <3>3. QED
      BY <1>1, <2>2, <2>3, <3>1, <3>2, StillTyped DEF AccountsMove, MailMove, configured, away,
          channelTables
  <2>6. QED
    BY <1>10, <2>4, <2>5 DEF CheckUserMain, w
<1>11. CASE SetUserMainGroup(a)
  <2>1. w.who \in Users /\ w.name \in Mains \cup {None} /\ Done(a)
    BY <1>1, <1>11 DEF SetUserMainGroup, At, w, UserOps
  <2>3. UNCHANGED <<lastIds, tokens, second, away, mail, cookies>>
    BY <1>11 DEF SetUserMainGroup
  <2>2. WorkTyped' /\ Held' \subseteq Held
    BY <1>1, <2>1, <2>3, DoneStep, DoneHeld
  <2>4. CASE UNCHANGED <<users, mainOf, caches>>
    BY <2>2, <2>3, <2>4, AccountsStill, UsersStill DEF MailMove
  <2>5. CASE /\ Touch(w.who, users[w.who]) /\ mainOf' = [mainOf EXCEPT ![w.who] = w.name]
             /\ PurgeAndBump
    <3>1. UsersMove
      BY <1>1, <2>1, <2>2, <2>3, <2>5, TouchMove
    <3>2. CopiesTyped' /\ mainOf' \in [Users -> Mains \cup {None}]
      BY <1>1, <2>1, <2>5, CopiesStep DEF UsersTyped
    <3>3. QED
      BY <1>1, <2>2, <2>3, <3>1, <3>2, StillTyped DEF AccountsMove, MailMove, configured, away,
          channelTables
  <2>6. QED
    BY <1>11, <2>4, <2>5 DEF SetUserMainGroup, w
<1>12. QED
  BY <1>3, <1>4, <1>5, <1>6, <1>7, <1>8, <1>9, <1>10, <1>11, <1>13, <1>14 DEF AccountsGoOn

LEMMA AccountsByMove ==
  ASSUME RowsTyped, AccountsBy
  PROVE  AccountsMove
<1> USE DEF mail
<1>1. CASE NextSecond
  <2>1. UsersMove
    BY <1>1, WorkHeld, IdsAssumption DEF NextSecond, UsersMove, RowsTyped, UsersTyped
  <2>2. QED
    BY <1>1, <2>1, AccountsStill, StillTyped DEF NextSecond, MailMove
<1>2. ASSUME NEW k \in cookies, Logout(k) PROVE AccountsMove
  BY <1>2, AccountsStill, UsersStill, WorkHeld, StillTyped DEF Logout, MailMove
<1>3. ASSUME NEW e \in Emails, Expire(e) PROVE AccountsMove
  <2>1. MailMove
    BY <1>3 DEF Expire, MailMove
  <2>2. QED
    BY <1>3, <2>1, AccountsStill, UsersStill, WorkHeld, StillTyped DEF Expire
<1>4. QED
  BY <1>1, <1>2, <1>3 DEF AccountsBy

-----------------------------------------------------------------------------
(* The tree of groups, and their names.                                    *)

\* No two groups have a name, and no id beyond the last has a group.
Unique ==
    /\ \A g, h \in GroupIds : Exists(g) /\ NameOf(g) = NameOf(h) => g = h
    /\ \A g \in GroupIds : g > lastIds.group => ~Exists(g)
OneParent(E) == \A g, p, q \in GroupIds : <<p, g>> \in E /\ <<q, g>> \in E => p = q
Tree == OneParent(nested) /\ Rooted(nested \ overtaken)
\* What a nesting found before its INSERT is still so, unless it was overtaken.
Linked ==
    \A b \in Clients :
        At(b, "link") /\ Edge(b) \notin overtaken => Nestable(work[b].group, work[b].other)

\* The groups over a group, by the edges alone.
LEMMA UpwardIsAbove ==
  ASSUME NEW g \in GroupIds
  PROVE  /\ Upward(g) = Above(nested, g)
         /\ Upward(g)' = Above(nested', g)
         /\ ParentsOf(g) = Over(nested, {g})
         /\ ParentsOf(g)' = Over(nested', {g})
<1>1. \A S \in SUBSET GroupIds : Closed(S, ParentsOf) <=> Over(nested, S) \subseteq S
  BY DEF Closed, ParentsOf, Over
<1>2. \A S \in SUBSET GroupIds : Closed(S, ParentsOf)' <=> Over(nested', S) \subseteq S
  BY DEF Closed, ParentsOf, Over
<1>3. Upward(g) = Above(nested, g)
  BY <1>1 DEF Upward, Above
<1>4. Upward(g)' = Above(nested', g)
  BY <1>2 DEF Upward, Above
<1>5. QED
  BY <1>3, <1>4 DEF ParentsOf, Over

\* Above(E, g) holds g and what lies over it, and nothing that need not be there.
LEMMA AboveLeast ==
  ASSUME NEW E, NEW g \in GroupIds
  PROVE  /\ g \in Above(E, g) /\ Above(E, g) \subseteq GroupIds
         /\ Over(E, Above(E, g)) \subseteq Above(E, g)
         /\ \A S \in SUBSET GroupIds : g \in S /\ Over(E, S) \subseteq S => Above(E, g) \subseteq S
<1>1. g \in Above(E, g) /\ Above(E, g) \subseteq GroupIds
  BY DEF Above
<1>2. \A S \in SUBSET GroupIds : g \in S /\ Over(E, S) \subseteq S => Above(E, g) \subseteq S
  BY DEF Above
<1>3. ASSUME NEW p \in Over(E, Above(E, g)) PROVE p \in Above(E, g)
  <2>1. PICK x \in Above(E, g) : <<p, x>> \in E
    BY DEF Over
  <2>2. ASSUME NEW S \in SUBSET GroupIds, g \in S, Over(E, S) \subseteq S PROVE p \in S
    <3>1. x \in S
      BY <1>2, <2>1, <2>2
    <3>2. QED
      BY <2>1, <2>2, <3>1 DEF Over
  <2>3. QED
    BY <2>2 DEF Above, Over
<1>4. QED
  BY <1>1, <1>2, <1>3

\* Fewer edges, fewer groups above one, and more that may be nested.
LEMMA LessAbove ==
  ASSUME NEW E, NEW F, F \subseteq E, NEW g \in GroupIds
  PROVE  Above(F, g) \subseteq Above(E, g)
<1>1. \A S \in SUBSET GroupIds : Over(F, S) \subseteq Over(E, S)
  BY DEF Over
<1>2. QED
  BY <1>1 DEF Above

LEMMA NestableStill ==
  ASSUME nested' \subseteq nested, NEW p \in GroupIds, NEW c \in GroupIds, Nestable(p, c)
  PROVE  Nestable(p, c)'
<1>1. Above(nested', p) \subseteq Above(nested, p)
  BY LessAbove
<1>2. Upward(p)' \subseteq Upward(p)
  BY <1>1, UpwardIsAbove
<1>3. ParentsOf(c)' \subseteq ParentsOf(c)
  BY DEF ParentsOf
<1>4. QED
  BY <1>2, <1>3 DEF Nestable

\* A tree that loses edges falls into trees.
LEMMA LessRooted ==
  ASSUME NEW E, NEW F, F \subseteq E, OneParent(E), Rooted(E)
  PROVE  OneParent(F) /\ Rooted(F)
<1>1. OneParent(F)
  BY DEF OneParent
<1>2. ASSUME NEW g \in GroupIds, \A r \in Above(F, g) : Over(F, {r}) # {} PROVE FALSE
  <2> DEFINE U == Above(F, g)
  <2>1. g \in U /\ U \in SUBSET GroupIds /\ Over(F, U) \subseteq U
    BY AboveLeast
  <2>2. ASSUME NEW p \in Over(E, U) PROVE p \in U
    <3>1. PICK x \in U : p \in GroupIds /\ <<p, x>> \in E
      BY DEF Over
    <3>2. PICK q \in GroupIds : <<q, x>> \in F
      BY <1>2, <3>1 DEF Over
    <3>3. p = q
      BY <2>1, <3>1, <3>2 DEF OneParent
    <3>4. QED
      BY <2>1, <3>1, <3>2, <3>3 DEF Over
  <2>3. Above(E, g) \subseteq U
    BY <2>1, <2>2, AboveLeast
  <2>4. PICK r \in Above(E, g) : Over(E, {r}) = {}
    BY DEF Rooted
  <2>5. Over(F, {r}) = {}
    BY <2>4 DEF Over
  <2>6. QED
    BY <1>2, <2>3, <2>4, <2>5
<1>3. QED
  BY <1>1, <1>2 DEF Rooted

\* An edge from a root to what is not below it leaves a tree.
LEMMA MoreRooted ==
  ASSUME NEW E, NEW p \in GroupIds, NEW c \in GroupIds, OneParent(E), Rooted(E),
         Over(E, {c}) \subseteq {p}, c \notin Above(E, p)
  PROVE  OneParent(E \cup {<<p, c>>}) /\ Rooted(E \cup {<<p, c>>})
<1> DEFINE F == E \cup {<<p, c>>}
<1>1. OneParent(F)
  BY DEF OneParent, Over
<1>2. ASSUME NEW r \in GroupIds, r # c, Over(E, {r}) = {} PROVE Over(F, {r}) = {}
  BY <1>2 DEF Over
<1>3. ASSUME NEW g \in GroupIds, \A r \in Above(F, g) : Over(F, {r}) # {} PROVE FALSE
  <2> DEFINE U == Above(F, g)
  <2>1. g \in U /\ U \in SUBSET GroupIds /\ Over(F, U) \subseteq U
    BY AboveLeast
  <2>2. Over(E, U) \subseteq U
    BY <2>1 DEF Over
  <2>3. PICK r \in Above(E, g) : Over(E, {r}) = {}
    BY DEF Rooted
  <2>a. ASSUME NEW y \in U PROVE Above(E, y) \subseteq U
    <3> HIDE DEF U, F
    <3>1. y \in GroupIds
      BY <2>1
    <3>2. \A S \in SUBSET GroupIds : y \in S /\ Over(E, S) \subseteq S => Above(E, y) \subseteq S
      BY <3>1, AboveLeast
    <3>3. QED
      BY <2>1, <2>2, <3>2
  <2>4. r \in U
    BY <2>1, <2>3, <2>a
  <2>5. r = c
    BY <1>2, <1>3, <2>1, <2>3, <2>4
  <2>6. p \in U
    BY <2>1, <2>4, <2>5 DEF Over
  <2>7. Above(E, p) \subseteq U
    BY <2>6, <2>a
  <2>8. PICK s \in Above(E, p) : Over(E, {s}) = {}
    BY DEF Rooted
  <2>9. s \in GroupIds /\ s # c
    BY <2>8, AboveLeast
  <2>10. QED
    BY <1>2, <1>3, <2>7, <2>8, <2>9
<1>4. QED
  BY <1>1, <1>3 DEF Rooted

\* What a step does to the rows of groups, to their edges and to main groups.
Renames(g, new, on) ==
    RenameAllowed(g, new) /\ RenameEverywhere(g, new, on) /\ UNCHANGED <<mains, mainOf>>
\* The check of a nesting, and its INSERT.
Nests(p, c) ==
    /\ ParentsOf(c) \subseteq {p}
    /\ Nestable(p, c) \/ <<p, c>> \in overtaken'
    /\ nested' \subseteq nested \cup {<<p, c>>} /\ overtaken \subseteq overtaken' \cup {<<p, c>>}
TreeMove ==
    \/ UNCHANGED <<groups, nested, overtaken>> /\ lastIds'.group = lastIds.group
    \/ UNCHANGED <<groups, lastIds>> /\ nested' \subseteq nested /\ overtaken \subseteq overtaken'
    \/ UNCHANGED <<groups, lastIds>> /\ \E p, c \in GroupIds : Nests(p, c)
    \/ UNCHANGED <<nested, overtaken>> /\ \E n \in Names, on \in BOOLEAN : InsertGroup(n, on)
    \/ /\ nested' \subseteq nested /\ UNCHANGED <<overtaken, lastIds>>
       /\ \E g \in GroupIds \cup {0} : groups' = [groups EXCEPT ![g] = NoGroup]
    \/ /\ UNCHANGED <<nested, overtaken, lastIds>>
       /\ \E g \in GroupIds, on \in BOOLEAN : groups' = [groups EXCEPT ![g].on = on]
    \/ /\ UNCHANGED <<nested, overtaken, lastIds>>
       /\ \E g \in GroupIds, new \in Names, on \in BOOLEAN : Renames(g, new, on)
MainsMove ==
    \/ mains' = mains
    \/ \E m \in Mains, v \in MainRows : mains' = [mains EXCEPT ![m] = v]
    \/ \E a \in Clients, m, new \in Mains, on \in BOOLEAN : RenameMainGroup(a, m, new, on)
ConfigMove == TreeMove /\ MainsMove

\* Every step of the other handlers is a ConfigMove.
LEMMA GroupsMove ==
  ASSUME RowsTyped, Linked, NEW a \in Clients, GroupsBegin(a) \/ GroupsGoOn(a)
  PROVE  ConfigMove
<1> USE DEF groupTables, others, grants
<1> DEFINE w == work[a]
<1>1. /\ w.group \in GroupIds \cup {0} /\ w.other \in GroupIds \cup {0} /\ w.on \in BOOLEAN
      /\ w.op \in {"nest", "link", "undo"} => w.group \in GroupIds /\ w.other \in GroupIds
      /\ w.op = "update" => w.name \in Names \cup {None}
  BY DEF RowsTyped, WorkTyped, Work, Fits
<1> HIDE DEF w
<1>2. ASSUME UNCHANGED <<groups, nested, overtaken, lastIds, mains>> PROVE ConfigMove
  BY <1>2 DEF ConfigMove, TreeMove, MainsMove
<1>3. ASSUME NEW n \in Names, NEW on \in BOOLEAN,
             CreateGroup(a, n, on) \/ \E p \in GroupIds : CreateChild(a, p, n, on)
      PROVE  ConfigMove
  <2>1. InsertGroup(n, on) /\ UNCHANGED <<nested, overtaken, mains>>
    BY <1>3 DEF CreateGroup, CreateChild
  <2>2. QED
    BY <2>1 DEF ConfigMove, TreeMove, MainsMove
<1>4. ASSUME NEW g \in GroupIds, NEW c \in GroupIds, RemoveGroupMember(a, g, c) PROVE ConfigMove
  <2>1. UNCHANGED <<groups, overtaken, lastIds, mains>> /\ nested' \subseteq nested
    BY <1>4 DEF RemoveGroupMember, RemoveGroupRow
  <2>2. QED
    BY <2>1 DEF ConfigMove, TreeMove, MainsMove
<1>5. ASSUME NEW g \in GroupIds,
             \/ CheckDefault(a, g) \/ ReadDelete(a, g)
             \/ \E n \in Names \cup {None}, on \in BOOLEAN : ReadUpdate(a, g, n, on)
             \/ \E c \in ChannelIds : ReadMember(a, g, c) \/ RemoveChannelMember(a, g, c)
             \/ \E c \in ChannelIds \cup {0}, p \in BOOLEAN : ReadPointer(a, g, c, p)
      PROVE  ConfigMove
  BY <1>2, <1>5 DEF CheckDefault, ReadDelete, ReadUpdate, ReadMember, RemoveChannelMember, ReadPointer
<1>6. CASE \/ FindBadDefault(a) \/ WriteDefault(a) \/ HealDefault(a) \/ SeeParent(a)
           \/ WriteMember(a) \/ WritePointer(a) \/ Abandon(a)
  BY <1>2, <1>6 DEF FindBadDefault, WriteDefault, HealDefault, SeeParent, WriteMember, WritePointer,
      Abandon
<1>7. CASE NestChild(a)
  <2>1. w.group \in GroupIds /\ w.other \in GroupIds
    BY <1>1, <1>7 DEF NestChild, At, w
  <2>2. UNCHANGED <<groups, nested, lastIds, mains>>
    BY <1>7 DEF NestChild
  <2>3. CASE Nestable(w.group, w.other) /\ overtaken' = overtaken \ {<<w.group, w.other>>}
    <3>1. Nests(w.group, w.other)
      BY <2>2, <2>3 DEF Nests, Nestable
    <3>2. QED
      BY <2>1, <2>2, <3>1 DEF ConfigMove, TreeMove, MainsMove
  <2>4. CASE overtaken' = overtaken
    BY <1>2, <2>2, <2>4
  <2>5. QED
    BY <1>7, <2>3, <2>4 DEF NestChild, w
<1>12. CASE LinkChild(a)
  <2>1. w.group \in GroupIds /\ w.other \in GroupIds /\ At(a, "link")
    BY <1>1, <1>12 DEF LinkChild, At, w
  <2>2. UNCHANGED <<groups, lastIds, mains>> /\ overtaken \subseteq overtaken'
    BY <1>12 DEF LinkChild
  <2>3. CASE nested' = nested
    BY <2>2, <2>3 DEF ConfigMove, TreeMove, MainsMove
  <2>4. CASE ParentsOf(w.other) \subseteq {w.group} /\ nested' = nested \cup {<<w.group, w.other>>}
    <3>1. Nestable(w.group, w.other) \/ <<w.group, w.other>> \in overtaken
      BY <2>1 DEF Linked, Edge, w
    <3>2. Nests(w.group, w.other)
      BY <2>2, <2>4, <3>1 DEF Nests
    <3>3. QED
      BY <2>1, <2>2, <3>2 DEF ConfigMove, TreeMove, MainsMove
  <2>5. QED
    BY <1>12, <2>3, <2>4 DEF LinkChild, Edge, w
<1>8. CASE UndoChild(a)
  <2>1. groups' = [groups EXCEPT ![w.other] = NoGroup] /\ UNCHANGED <<nested, overtaken, lastIds, mains>>
    BY <1>8 DEF UndoChild, w
  <2>2. QED
    BY <1>1, <2>1 DEF ConfigMove, TreeMove, MainsMove
<1>9. CASE WriteDelete(a)
  <2>1. /\ groups' = [groups EXCEPT ![w.group] = NoGroup] /\ nested' \subseteq nested
        /\ UNCHANGED <<overtaken, lastIds, mains>>
    BY <1>9 DEF WriteDelete, DeleteGroupRows, w
  <2>2. QED
    BY <1>1, <2>1 DEF ConfigMove, TreeMove, MainsMove
<1>10. CASE WriteUpdate(a)
  <2>1. UNCHANGED <<nested, overtaken, lastIds, mains, mainOf>> /\ w.name \in Names \cup {None}
    BY <1>1, <1>10 DEF WriteUpdate, At, w
  <2>2. CASE groups' = groups
    BY <1>2, <2>1, <2>2
  <2>3. CASE Exists(w.group) /\ groups' = [groups EXCEPT ![w.group].on = w.on]
    BY <1>1, <2>1, <2>3 DEF ConfigMove, TreeMove, MainsMove, Exists
  <2>4. CASE w.name # None /\ RenameAllowed(w.group, w.name) /\ RenameEverywhere(w.group, w.name, w.on)
    <3>1. w.group \in GroupIds /\ w.name \in Names /\ Renames(w.group, w.name, w.on)
      BY <2>1, <2>4 DEF Renames, RenameAllowed, Exists
    <3>2. QED
      BY <1>1, <2>1, <3>1 DEF ConfigMove, TreeMove, MainsMove
  <2>5. QED
    BY <1>10, <2>2, <2>3, <2>4 DEF WriteUpdate, w
<1>11. QED
  BY <1>3, <1>4, <1>5, <1>6, <1>7, <1>8, <1>9, <1>10, <1>12 DEF GroupsBegin, GroupsGoOn

LEMMA OthersMove ==
  ASSUME RowsTyped, NEW a \in Clients,
         \/ TenancyBegin(a) \/ TenancyGoOn(a) \/ ChannelsBegin(a) \/ ChannelsGoOn(a) \/ TokensBegin(a)
  PROVE  ConfigMove
<1>1. IdsTyped
  BY DEF RowsTyped
<1>2. ASSUME UNCHANGED <<groups, nested, overtaken>>, lastIds'.group = lastIds.group, MainsMove PROVE ConfigMove
  BY <1>2 DEF ConfigMove, TreeMove
<1>3. CASE TenancyBegin(a) \/ TenancyGoOn(a)
  <2> USE DEF elsewhere, groupTables, grants
  <2>1. ASSUME NEW m \in Mains, NEW on \in BOOLEAN, CreateMainGroup(a, m, on) \/ UpdateMainGroup(a, m, on)
        PROVE  ConfigMove
    <3>1. mains' = [mains EXCEPT ![m] = IF on THEN "on" ELSE "off"]
      BY <2>1 DEF CreateMainGroup, InsertMainGroup, UpdateMainGroup
    <3>2. MainsMove
      BY <3>1 DEF MainsMove, MainRows
    <3>3. QED
      BY <1>2, <2>1, <3>2 DEF CreateMainGroup, UpdateMainGroup
  <2>2. ASSUME NEW m \in Mains, NEW new \in Mains, NEW on \in BOOLEAN, RenameMainGroup(a, m, new, on)
        PROVE  ConfigMove
    <3>1. MainsMove
      BY <2>2 DEF MainsMove
    <3>2. QED
      BY <1>2, <2>2, <3>1 DEF RenameMainGroup
  <2>3. ASSUME NEW m \in Mains, DeleteMainGroup(a, m) PROVE ConfigMove
    <3>1. MainsMove
      BY <2>3 DEF DeleteMainGroup, DeleteMainGroupRows, MainsMove, MainRows
    <3>2. QED
      BY <1>2, <2>3, <3>1 DEF DeleteMainGroup
  <2>4. ASSUME \/ \E m \in Mains, ns \in SUBSET Names : CheckSubgroups(a, m, ns)
               \/ \E t \in Tokens, ns \in SUBSET Names : CheckBindings(a, t, ns)
               \/ ReplaceSubgroups(a) \/ ReplaceBindings(a)
        PROVE  ConfigMove
    BY <1>2, <2>4 DEF CheckSubgroups, CheckBindings, ReplaceSubgroups, ReplaceBindings, MainsMove
  <2>5. QED
    BY <1>3, <2>1, <2>2, <2>3, <2>4 DEF TenancyBegin, TenancyGoOn
<1>4. CASE TokensBegin(a)
  BY <1>1, <1>2, <1>4 DEF TokensBegin, CreateToken, InsertToken, RotateToken, NewTokenSecret, RevokeToken,
      RevokeTokenRow, DeleteToken, DeleteTokenRow, Counted, apart, IdsTyped, MainsMove
<1>5. CASE ChannelsBegin(a)
  <2>1. UNCHANGED <<groups, nested, overtaken, mains>>
    BY <1>5 DEF ChannelsBegin, CreateChannel, ReadChannel, DeleteChannel, ReadEndpoint, SaveSettings,
        DeleteCred,
        beyond, grants
  <2>2. lastIds' = lastIds \/ lastIds' = [lastIds EXCEPT !.channel = lastIds.channel + 1]
    BY <1>5 DEF ChannelsBegin, CreateChannel, InsertChannel, ReadChannel, DeleteChannel, ReadEndpoint,
        SaveSettings, DeleteCred
  <2>3. QED
    BY <1>1, <1>2, <2>1, <2>2 DEF IdsTyped, MainsMove
<1>6. CASE ChannelsGoOn(a)
  <2>1. UNCHANGED <<groups, nested, overtaken, mains>>
    BY <1>6 DEF ChannelsGoOn, WriteBasics, SetGroups, SetEndpoint, LookForEndpoint, StoreKey, KeyFails,
        Invalidate, GiveUp, beyond, grants
  <2>2. lastIds' = lastIds \/ lastIds' = [lastIds EXCEPT !.cred = @ + 1]
    BY <1>6 DEF ChannelsGoOn, WriteBasics, SetGroups, SetEndpoint, LookForEndpoint, StoreKey, InsertCred,
        KeyFails, Invalidate, GiveUp
  <2>3. QED
    BY <1>1, <1>2, <2>1, <2>2 DEF IdsTyped, MainsMove
<1>7. QED
  BY <1>3, <1>4, <1>5, <1>6

\* Names stay unique and the groups a forest.
LEMMA UniqueStep ==
  ASSUME RowsTyped, Unique, TreeMove
  PROVE  Unique'
<1>1. /\ groups \in [GroupIds -> GroupRows] /\ lastIds.group \in Nat /\ GroupIds \subseteq Nat
      /\ IdsTyped
  BY IdsAssumption DEF RowsTyped, GroupsTyped, IdsTyped, GroupIds
<1>2. \A g \in GroupIds : NameOf(g)' = groups'[g].name /\ (Exists(g)' <=> groups'[g].name # None)
  BY DEF NameOf, Exists
<1>3. \A g \in GroupIds : NameOf(g) = groups[g].name /\ (Exists(g) <=> groups[g].name # None)
  BY DEF NameOf, Exists
<1>4. CASE groups' = groups /\ lastIds'.group = lastIds.group
  BY <1>2, <1>3, <1>4 DEF Unique
<1>5. ASSUME NEW n \in Names, NEW on \in BOOLEAN, InsertGroup(n, on) PROVE Unique'
  <2>1. PICK l \in GroupIds : l = lastIds.group + 1
    BY <1>1, <1>5, IdsAreNumbers DEF InsertGroup
  <2>2. lastIds'.group = l /\ groups' = [groups EXCEPT ![l] = [name |-> n, on |-> on]]
    BY <1>1, <1>5, <2>1 DEF InsertGroup, IdsTyped
  <2>3. \A g \in GroupIds : groups'[g] = IF g = l THEN [name |-> n, on |-> on] ELSE groups[g]
    BY <1>1, <2>2
  <2>4. \A g \in GroupIds : NameOf(g) # n \/ ~Exists(g)
    BY <1>5 DEF InsertGroup, KnownNames
  <2>5. n # None
    BY NamesAssumption
  <2>6. \A g \in GroupIds : g > l => ~Exists(g)'
    BY <1>1, <1>2, <1>3, <2>1, <2>3 DEF Unique
  <2>7. \A g, h \in GroupIds : Exists(g)' /\ NameOf(g)' = NameOf(h)' => g = h
    BY <1>2, <1>3, <2>3, <2>4, <2>5 DEF Unique
  <2>8. QED
    BY <2>2, <2>6, <2>7 DEF Unique
<1>6. ASSUME lastIds' = lastIds, NEW g \in GroupIds \cup {0}, groups' = [groups EXCEPT ![g] = NoGroup]
      PROVE  Unique'
  <2>1. \A h \in GroupIds : groups'[h] = IF h = g THEN NoGroup ELSE groups[h]
    BY <1>1, <1>6
  <2>2. QED
    BY <1>2, <1>3, <1>6, <2>1 DEF Unique, NoGroup
<1>7. ASSUME lastIds' = lastIds, NEW g \in GroupIds, NEW on \in BOOLEAN, groups' = [groups EXCEPT ![g].on = on]
      PROVE  Unique'
  <2>1. \A h \in GroupIds : groups'[h].name = groups[h].name
    BY <1>1, <1>7 DEF GroupRows
  <2>2. QED
    BY <1>2, <1>3, <1>7, <2>1 DEF Unique
<1>8. ASSUME lastIds' = lastIds, NEW g \in GroupIds, NEW new \in Names, NEW on \in BOOLEAN, Renames(g, new, on)
      PROVE  Unique'
  <2>1. \A h \in GroupIds : groups'[h].name = IF h = g THEN new ELSE groups[h].name
    BY <1>1, <1>8 DEF Renames, RenameEverywhere
  <2>2. Exists(g) /\ \A h \in GroupIds : groups[h].name = new => h = g
    BY <1>8 DEF Renames, RenameAllowed, Named
  <2>3. QED
    BY <1>2, <1>3, <1>8, <2>1, <2>2 DEF Unique
<1>9. QED
  BY <1>4, <1>5, <1>6, <1>7, <1>8 DEF TreeMove

LEMMA TreeStep ==
  ASSUME RowsTyped, Tree, TreeMove
  PROVE  Tree'
<1> DEFINE E == nested \ overtaken
           F == nested' \ overtaken'
<1>1. OneParent(nested) /\ OneParent(E) /\ Rooted(E)
  BY DEF Tree, OneParent
<1>2. CASE nested' \subseteq nested /\ overtaken \subseteq overtaken'
  <2>1. OneParent(nested') /\ F \subseteq E
    BY <1>1, <1>2 DEF OneParent
  <2> HIDE DEF E, F
  <2>2. Rooted(F)
    BY <1>1, <2>1, LessRooted
  <2>3. QED
    BY <2>1, <2>2 DEF Tree, F, Rooted, Above, Over, OneParent
<1>3. ASSUME NEW p \in GroupIds, NEW c \in GroupIds, Nests(p, c) PROVE Tree'
  <2>1. OneParent(nested')
    BY <1>1, <1>3 DEF Nests, OneParent, ParentsOf
  <2>2. CASE <<p, c>> \in overtaken'
    <3>1. F \subseteq E
      BY <1>3, <2>2 DEF Nests
    <3> HIDE DEF E, F
    <3>2. Rooted(F)
      BY <1>1, <3>1, LessRooted
    <3>3. QED
      BY <2>1, <3>2 DEF Tree, F, Rooted, Above, Over, OneParent
  <2>3. CASE Nestable(p, c)
    <3>1. F \subseteq E \cup {<<p, c>>} /\ E \subseteq nested
      BY <1>3 DEF Nests
    <3>2. Over(E, {c}) \subseteq {p}
      BY <2>3 DEF Nestable, ParentsOf, Over
    <3>3. c \notin Above(nested, p)
      BY <2>3, UpwardIsAbove DEF Nestable
    <3> HIDE DEF E, F
    <3>4. c \notin Above(E, p)
      BY <3>1, <3>3, LessAbove
    <3>5. OneParent(E \cup {<<p, c>>}) /\ Rooted(E \cup {<<p, c>>})
      BY <1>1, <3>2, <3>4, MoreRooted
    <3>6. Rooted(F)
      BY <3>1, <3>5, LessRooted
    <3>7. QED
      BY <2>1, <3>6 DEF Tree, F, Rooted, Above, Over, OneParent
  <2>4. QED
    BY <1>3, <2>2, <2>3 DEF Nests
<1>4. QED
  BY <1>2, <1>3 DEF TreeMove

\* A rename moves every use of the old name to the new one.
LEMMA RenameKeeps ==
  ASSUME RowsTyped, Unique, NEW g \in GroupIds, NEW new \in Names, NEW on \in BOOLEAN, Renames(g, new, on)
  PROVE  /\ \A t \in Tokens : \A h \in EffectiveIds(t) : Enabled(h)' => h \in EffectiveIds(t)'
         /\ \A x \in Tagged, h \in GroupIds : Exists(h) /\ tags[x] = NameOf(h) => tags'[x] = NameOf(h)'
<1> DEFINE old == NameOf(g)
           To(n) == IF n = old THEN new ELSE n
<1>1. Exists(g) /\ groups \in [GroupIds -> GroupRows] /\ OwnerOf \in [Tokens -> Users]
      /\ mainOf \in [Users -> Mains \cup {None}]
  BY TokensAssumption DEF Renames, RenameAllowed, RowsTyped, GroupsTyped, UsersTyped
<1>2. \A h \in GroupIds : Exists(h) => NameOf(h)' = To(NameOf(h))
  BY <1>1 DEF Renames, RenameEverywhere, NameOf, Exists, Unique
<1>3. \A t \in Tokens : bound'[t] = Renamed(bound[t], old, new)
  BY DEF Renames, RenameEverywhere
<1>4. \A m \in Mains : granted'[m] = Renamed(granted[m], old, new)
  BY DEF Renames, RenameEverywhere
<1>5. \A x \in Tagged : tags'[x] = To(tags[x])
  BY DEF Renames, RenameEverywhere
<1>6. \A S, n : n \in S => To(n) \in Renamed(S, old, new)
  BY DEF Renamed
<1>7. mainOf' = mainOf
  BY DEF Renames
<1>8. ASSUME NEW t \in Tokens, NEW h \in EffectiveIds(t), Enabled(h)' PROVE h \in EffectiveIds(t)'
  <2> DEFINE u == OwnerOf[t]
  <2>1. /\ h \in GroupIds /\ Enabled(h) /\ Exists(h) /\ NameOf(h) \in bound[t] /\ NameOf(h) \in GrantedTo(u)
    BY DEF EffectiveIds, Effective, Enabled
  <2>2. NameOf(h)' \in bound'[t]
    BY <1>2, <1>3, <1>6, <2>1
  <2>3. NameOf(h)' \in GrantedTo(u)'
    <3>1. u \in Users /\ mainOf[u] \in Mains /\ NameOf(h) \in granted[mainOf[u]]
      BY <1>1, <2>1 DEF GrantedTo
    <3>2. NameOf(h)' \in granted'[mainOf[u]]
      <4>1. NameOf(h)' = To(NameOf(h))
        BY <1>2, <2>1
      <4>2. To(NameOf(h)) \in Renamed(granted[mainOf[u]], old, new)
        BY <1>6, <3>1
      <4>3. granted'[mainOf[u]] = Renamed(granted[mainOf[u]], old, new)
        BY <1>4, <3>1
      <4>4. QED
        BY <4>1, <4>2, <4>3
    <3>3. QED
      BY <1>7, <3>1, <3>2, NamesAssumption DEF GrantedTo
  <2>4. NameOf(h)' \in EnabledNames'
    BY <1>8, <2>1 DEF EnabledNames
  <2>5. QED
    BY <1>8, <2>1, <2>2, <2>3, <2>4 DEF EffectiveIds, Effective
<1>9. QED
  BY <1>2, <1>5, <1>8

\* The same of a main group.
LEMMA MainRenameKeeps ==
  ASSUME RowsTyped, NEW a \in Clients, NEW m \in Mains, NEW new \in Mains, NEW on \in BOOLEAN,
         RenameMainGroup(a, m, new, on)
  PROVE  /\ \A t \in Tokens : \A h \in EffectiveIds(t) : Enabled(h)' => h \in EffectiveIds(t)'
         /\ \A x \in Tagged, h \in GroupIds : Exists(h) /\ tags[x] = NameOf(h) => tags'[x] = NameOf(h)'
<1>1. UNCHANGED <<groups, bound, tags>>
  BY DEF RenameMainGroup, elsewhere, groupTables
<1>2. OwnerOf \in [Tokens -> Users] /\ mainOf \in [Users -> Mains \cup {None}]
      /\ granted \in [Mains -> SUBSET Names]
  BY TokensAssumption DEF RowsTyped, UsersTyped, NamesTyped
<1>3. \A u \in Users : GrantedTo(u) \subseteq GrantedTo(u)'
  <2> SUFFICES ASSUME NEW u \in Users, NEW n \in GrantedTo(u) PROVE n \in GrantedTo(u)'
    OBVIOUS
  <2>1. mainOf[u] \in Mains /\ n \in granted[mainOf[u]]
    BY <1>2 DEF GrantedTo
  <2>2. mainOf'[u] = IF mainOf[u] = m THEN new ELSE mainOf[u]
    BY DEF RenameMainGroup
  <2>3. granted[new] = {} /\ new # m
    BY DEF RenameMainGroup
  <2>4. granted'[new] = granted[m] /\ \A x \in Mains : x # m /\ x # new => granted'[x] = granted[x]
    BY <1>2, <2>3 DEF RenameMainGroup
  <2>5. n \in granted'[mainOf'[u]] /\ mainOf'[u] \in Mains
    BY <2>1, <2>2, <2>3, <2>4
  <2>6. QED
    BY <2>5, NamesAssumption DEF GrantedTo
<1>4. \A h \in GroupIds : NameOf(h)' = NameOf(h) /\ (Exists(h)' <=> Exists(h)) /\ (Enabled(h)' <=> Enabled(h))
  BY <1>1 DEF NameOf, Exists, Enabled
<1>5. \A t \in Tokens : EffectiveIds(t) \subseteq EffectiveIds(t)'
  BY <1>1, <1>2, <1>3, <1>4 DEF EffectiveIds, Effective, EnabledNames
<1>6. QED
  BY <1>1, <1>4, <1>5

\* No other step looks like a rename.
LEMMA RenamesStep ==
  ASSUME RowsTyped, Unique, ConfigMove,
         \/ \E g \in GroupIds : Exists(g) /\ Exists(g)' /\ NameOf(g)' # NameOf(g)
         \/ \E m, n \in Mains : /\ mains[m] # "none" /\ mains'[m] = "none"
                                /\ mains[n] = "none" /\ mains'[n] # "none"
  PROVE  /\ \A t \in Tokens : \A h \in EffectiveIds(t) : Enabled(h)' => h \in EffectiveIds(t)'
         /\ \A x \in Tagged, h \in GroupIds : Exists(h) /\ tags[x] = NameOf(h) => tags'[x] = NameOf(h)'
<1>1. groups \in [GroupIds -> GroupRows] /\ mains \in [Mains -> MainRows] /\ IdsTyped /\ GroupIds \subseteq Nat
  BY DEF RowsTyped, GroupsTyped, NamesTyped, GroupIds
<1>2. CASE \E g \in GroupIds : Exists(g) /\ Exists(g)' /\ NameOf(g)' # NameOf(g)
  <2>1. PICK g \in GroupIds : Exists(g) /\ Exists(g)' /\ groups'[g].name # groups[g].name
    BY <1>2 DEF NameOf
  <2>2. groups' # groups
    BY <2>1
  <2>3. ASSUME NEW n \in Names, NEW on \in BOOLEAN, InsertGroup(n, on) PROVE FALSE
    <3>1. PICK l \in GroupIds : l = lastIds.group + 1
      BY <1>1, <2>3, IdsAreNumbers DEF InsertGroup
    <3>2. ~Exists(l)
      BY <1>1, <3>1, IdsAssumption DEF Unique, IdsTyped, GroupIds
    <3>3. g = l
      BY <1>1, <2>1, <2>3, <3>1 DEF InsertGroup
    <3>4. QED
      BY <2>1, <3>2, <3>3
  <2>4. ASSUME NEW h \in GroupIds \cup {0}, groups' = [groups EXCEPT ![h] = NoGroup] PROVE FALSE
    BY <1>1, <2>1, <2>4 DEF NoGroup, Exists
  <2>5. ASSUME NEW h \in GroupIds, NEW on \in BOOLEAN, groups' = [groups EXCEPT ![h].on = on] PROVE FALSE
    BY <1>1, <2>1, <2>5 DEF GroupRows
  <2>6. \E h \in GroupIds, new \in Names, on \in BOOLEAN : Renames(h, new, on)
    BY <2>2, <2>3, <2>4, <2>5 DEF ConfigMove, TreeMove
  <2>7. QED
    BY <2>6, RenameKeeps
<1>3. CASE \E m, n \in Mains : /\ mains[m] # "none" /\ mains'[m] = "none"
                                /\ mains[n] = "none" /\ mains'[n] # "none"
  <2>1. \E a \in Clients, m, new \in Mains, on \in BOOLEAN : RenameMainGroup(a, m, new, on)
    BY <1>1, <1>3 DEF ConfigMove, MainsMove
  <2>2. QED
    BY <2>1, MainRenameKeeps
<1>4. QED
  BY <1>2, <1>3

-----------------------------------------------------------------------------
(* What the handlers do to the caches.                                     *)

Purges ==
    \/ UNCHANGED caches
    \/ \E t \in Tokens : PurgeOneAndBump(t)
    \/ PurgeAndBump \/ InvalidateSnapshot \/ InvalidateBoth

\* Every handler's step leaves the caches alone or purges.
LEMMA GroupsPurge ==
  ASSUME NEW a \in Clients, GroupsBegin(a) \/ GroupsGoOn(a)
  PROVE  Purges
<1>1. CASE WriteUpdate(a)
  BY <1>1 DEF WriteUpdate, Purges, caches
<1>2. CASE WriteDelete(a) \/ WriteMember(a)
  BY <1>2 DEF WriteDelete, WriteMember, Purges
<1>3. ASSUME NEW g \in GroupIds, NEW c \in ChannelIds, RemoveChannelMember(a, g, c) PROVE Purges
  BY <1>3 DEF RemoveChannelMember, Purges
<1>4. ASSUME \/ \E g \in GroupIds :
                 \/ CheckDefault(a, g) \/ ReadDelete(a, g)
                 \/ \E n \in Names \cup {None}, on \in BOOLEAN : ReadUpdate(a, g, n, on)
                 \/ \E c \in ChannelIds : ReadMember(a, g, c)
                 \/ \E c \in GroupIds : RemoveGroupMember(a, g, c)
                 \/ \E c \in ChannelIds \cup {0}, p \in BOOLEAN : ReadPointer(a, g, c, p)
             \/ \E n \in Names, on \in BOOLEAN :
                 CreateGroup(a, n, on) \/ \E p \in GroupIds : CreateChild(a, p, n, on)
             \/ FindBadDefault(a) \/ WriteDefault(a) \/ HealDefault(a) \/ SeeParent(a) \/ NestChild(a)
             \/ LinkChild(a) \/ UndoChild(a) \/ WritePointer(a) \/ Abandon(a)
      PROVE  Purges
  <2>1. noCaches
    BY <1>4 DEF CheckDefault, ReadDelete, ReadUpdate, ReadMember, RemoveGroupMember, ReadPointer,
        CreateGroup, CreateChild, FindBadDefault, WriteDefault, HealDefault, SeeParent, NestChild,
        LinkChild, UndoChild, WritePointer, Abandon
  <2>2. QED
    BY <2>1 DEF noCaches, Purges
<1>5. QED
  BY <1>1, <1>2, <1>3, <1>4 DEF GroupsBegin, GroupsGoOn

LEMMA ConfigPurges ==
  ASSUME RowsTyped, NEW a \in Clients,
         \/ TenancyBegin(a) \/ TenancyGoOn(a) \/ ChannelsBegin(a) \/ ChannelsGoOn(a) \/ TokensBegin(a)
  PROVE  Purges
<1>1. CASE TenancyBegin(a) \/ TenancyGoOn(a)
  <2>1. ASSUME ReplaceBindings(a) PROVE work[a].who \in Tokens
    BY <2>1 DEF ReplaceBindings, At, RowsTyped, WorkTyped, Fits
  <2>2. QED
    BY <1>1, <2>1 DEF TenancyBegin, TenancyGoOn, CreateMainGroup, UpdateMainGroup, RenameMainGroup,
        DeleteMainGroup, DeleteMainGroupRows, CheckSubgroups, CheckBindings, ReplaceSubgroups,
        ReplaceBindings, Purges
<1>2. CASE ChannelsBegin(a) \/ ChannelsGoOn(a)
  BY <1>2 DEF ChannelsBegin, ChannelsGoOn, CreateChannel, ReadChannel, DeleteChannel, ReadEndpoint,
      SaveSettings, DeleteCred, WriteBasics, SetGroups, SetEndpoint, LookForEndpoint, StoreKey,
      KeyFails, Invalidate, GiveUp, Purges
<1>3. CASE TokensBegin(a)
  BY <1>3 DEF TokensBegin, CreateToken, RotateToken, RevokeToken, DeleteToken, NewTokenSecret,
      RevokeTokenRow, DeleteTokenRow, Purges
<1>4. QED
  BY <1>1, <1>2, <1>3

LEMMA AccountsPurge ==
  ASSUME (\E a \in Clients : AccountsBegin(a) \/ AccountsGoOn(a)) \/ AccountsBy
  PROVE  Purges
<1>1. ASSUME NEW a \in Clients, AccountsBegin(a) PROVE Purges
  <2>1. ASSUME NEW k \in cookies, NEW u \in Users, DeleteUser(a, k, u) PROVE Purges
    BY <2>1 DEF DeleteUser, Purges
  <2>2. ASSUME NEW k \in cookies, NEW u \in Users, NEW e \in Emails, NEW root \in BOOLEAN,
               NEW m \in Mains \cup {None}, NEW on \in BOOLEAN,
               AdminCreateUser(a, k, u, e, root, m) \/ EditUser(a, k, u, e, on, root, m)
        PROVE  Purges
    BY <2>2 DEF AdminCreateUser, EditUser, Purges
  <2>3. ASSUME NEW k \in cookies, NEW e \in Emails, NEW n \in Codes, ChangeEmail(a, k, e, n) PROVE Purges
    BY <2>3 DEF ChangeEmail, Purges
  <2>4. ASSUME NEW u \in Users, NEW e \in Emails, NEW n \in Codes, NEW k \in cookies \cup {NoCookie},
               Register(a, u, e, n, k)
        PROVE  Purges
    BY <2>4 DEF Register, Purges
  <2>5. ASSUME NEW k \in cookies, ChangePassword(a, k) PROVE Purges
    BY <2>5 DEF ChangePassword, Purges
  <2>6. ASSUME NEW u \in Users, Login(a, u) PROVE Purges
    BY <2>6 DEF Login, Purges
  <2>7. ASSUME NEW e \in Emails, SendCode(a, e) PROVE Purges
    BY <2>7 DEF SendCode, Purges
  <2>8. ASSUME NEW k \in cookies, NEW u \in Users, ResetPassword(a, k, u) PROVE Purges
    BY <2>8 DEF ResetPassword, Purges
  <2>9. QED
    BY <1>1, <2>1, <2>2, <2>3, <2>4, <2>5, <2>6, <2>7, <2>8 DEF AccountsBegin
<1>2. ASSUME NEW a \in Clients, AccountsGoOn(a) PROVE Purges
  BY <1>2 DEF AccountsGoOn, ProveEmail, CountUsers, CreateUser, ReadBack, SaveSession, WritePassword, WriteEmail,
      SetUserStatus, SetUserRole, CheckUserMain, SetUserMainGroup, Purges
<1>3. ASSUME AccountsBy PROVE Purges
  BY <1>3 DEF AccountsBy, NextSecond, Logout, Expire, Purges
<1>4. QED
  BY <1>1, <1>2, <1>3

\* What the handlers of the other modules do to the caches is to take entries away.
LEMMA WritersPurge ==
  ASSUME CInv, Noted, TablesTyped', UNCHANGED fetch, Purges
  PROVE  AnyWriter
<1> USE DEF Purges
<1>1. /\ auth \in [Instances -> [Secrets -> AuthEntries]]
      /\ snap \in [Instances -> [SnapKeys -> SnapEntries]]
  BY DEF CInv, CachesTyped
<1> DEFINE Kept(keep) == [i \in Instances |-> [n \in Secrets |->
                            IF <<i, n>> \in keep THEN auth[i][n] ELSE NoAuth]]
           KeptLists(keep) == [i \in Instances |-> [k \in SnapKeys |->
                            IF <<i, k>> \in keep THEN snap[i][k] ELSE NoSnap]]
<1>2. \E keep \in SUBSET (Instances \X Secrets) : auth' = Kept(keep)
  <2>1. auth = Kept(Instances \X Secrets)
    BY <1>1
  <2>2. ASSUME NEW i \in Instances PROVE PurgeAuth(i) = Kept((Instances \ {i}) \X Secrets)
    BY <1>1 DEF PurgeAuth, EmptyAuth
  <2>3. ASSUME NEW i \in Instances, NEW t \in Tokens
        PROVE  PurgeToken(i, t) =
                  Kept({x \in Instances \X Secrets : x[1] = i => auth[i][x[2]].token # t})
    BY <1>1 DEF PurgeToken
  <2> HIDE DEF Kept
  <2>4. CASE auth' = auth
    BY <2>1, <2>4
  <2>5. ASSUME NEW i \in Instances, auth' = PurgeAuth(i)
        PROVE  \E keep \in SUBSET (Instances \X Secrets) : auth' = Kept(keep)
    BY <2>2, <2>5
  <2>6. ASSUME NEW i \in Instances, NEW t \in Tokens, auth' = PurgeToken(i, t)
        PROVE  \E keep \in SUBSET (Instances \X Secrets) : auth' = Kept(keep)
    BY <2>3, <2>6
  <2>7. QED
    BY <2>4, <2>5, <2>6
       DEF caches, PurgeOneAndBump, PurgeAndBump, InvalidateSnapshot, InvalidateBoth
<1>3. \E keep \in SUBSET (Instances \X SnapKeys) : snap' = KeptLists(keep)
  <2>1. snap = KeptLists(Instances \X SnapKeys)
    BY <1>1
  <2>2. ASSUME NEW i \in Instances
        PROVE  [snap EXCEPT ![i] = EmptySnap] = KeptLists((Instances \ {i}) \X SnapKeys)
    BY <1>1 DEF EmptySnap
  <2> HIDE DEF KeptLists
  <2>3. QED
    BY <2>1, <2>2 DEF caches, PurgeOneAndBump, PurgeAndBump, InvalidateSnapshot, InvalidateBoth
<1>4. QED
  BY <1>2, <1>3 DEF AnyWriter

-----------------------------------------------------------------------------
(* All handlers together.                                                  *)

CatalogNext(S) ==
    \/ HandlersNext(S) /\ UNCHANGED fetch /\ Noted
    \/ /\ \E i \in Instances : AuthStep(i) \/ SnapStep(i, SnapKeys) \/ Restart(i)
       /\ UNCHANGED accountVars /\ Noted
    \/ Tick /\ UNCHANGED accountVars
\* Any tables that agree so far, nobody at work, empty caches, codes nobody has
\* used, and sessions opened since the password was last set.
HandlersInit ==
    /\ UsersTyped /\ IdsTyped /\ GroupsTyped /\ ChannelsTyped /\ NamesTyped /\ MailTyped
    /\ work = [a \in Clients |-> Idle]
    /\ auth = [i \in Instances |-> EmptyAuth] /\ snap = [i \in Instances |-> EmptySnap]
    /\ pending \subseteq Instances \X Keys
    /\ Unique /\ Tree /\ Mail /\ uses = [n \in Codes |-> 0]
    /\ \A u \in Users : users[u].changed <= second
    /\ \A k \in cookies :
        k.stamp <= k.made /\ k.made <= second /\ k.seen = users[k.user].password
CatalogSpec ==
    HandlersInit /\ CachesInit /\ [][CatalogNext(Clients)]_<<catalogVars, accountVars, fetch, lapsed>>
HInv == RowsTyped /\ Unique /\ Tree /\ Linked /\ Sessions /\ Mail

\* The first state.
LEMMA HandlersInitOK == HandlersInit => HInv
<1> SUFFICES ASSUME HandlersInit PROVE HInv
  OBVIOUS
<1>1. WorkTyped
  BY IdleFits DEF HandlersInit, WorkTyped
<1>2. CopiesTyped
  <2>1. NoAuth \in AuthEntries /\ NoSnap \in SnapEntries
    BY DEF NoAuth, NoSnap, AuthEntries, SnapEntries
  <2>2. QED
    BY <2>1 DEF HandlersInit, CopiesTyped, EmptyAuth, EmptySnap
<1>3. Sessions
  BY DEF HandlersInit, Sessions, Held, Idle, Opening
<1>4. Linked
  BY DEF HandlersInit, Linked, At, Idle
<1>5. QED
  BY <1>1, <1>2, <1>3, <1>4 DEF HandlersInit, HInv, RowsTyped

\* Who goes on to which step: a request goes on from a nesting's check to its INSERT
\* in NestChild alone, and only the account handlers open a session.
Keeps(ops) == \A b \in Clients : work'[b] = work[b] \/ work'[b].op \notin ops
Delicate == Opening \cup {"link"}
Calm == overtaken' = overtaken /\ nested' \subseteq nested /\ Keeps(Delicate)
Nesting(a) == NestChild(a) \/ LinkChild(a)

LEMMA KeepsStep ==
  ASSUME WorkTyped, WorkTyped', NEW a \in Clients, NEW ops
  PROVE  /\ work' = work => Keeps(ops)
         /\ "idle" \notin ops /\ Done(a) => Keeps(ops)
         /\ \A w, op : op \notin ops /\ Waits(a, op, w) => Keeps(ops)
<1>1. \A v : v.op \notin ops /\ work' = [work EXCEPT ![a] = v] => Keeps(ops)
  BY DEF WorkTyped, Keeps
<1>2. Idle.op = "idle"
  BY DEF Idle
<1>3. ASSUME NEW w, NEW op, Waits(a, op, w) PROVE [w EXCEPT !.op = op].op = op
  <2>1. work'[a] = [w EXCEPT !.op = op]
    BY <1>3 DEF Waits, WorkTyped
  <2>2. "op" \in DOMAIN [w EXCEPT !.op = op]
    <3>1. work'[a] \in Work
      BY DEF WorkTyped
    <3>2. "op" \in DOMAIN work'[a]
      BY <3>1 DEF Work
    <3>3. QED
      BY <2>1, <3>2
  <2>3. QED
    BY <2>2
<1>4. ASSUME NEW w, NEW op, op \notin ops, Waits(a, op, w) PROVE Keeps(ops)
  <2>1. [w EXCEPT !.op = op].op \notin ops
    BY <1>3, <1>4
  <2>2. QED
    BY <1>1, <1>4, <2>1 DEF Waits
<1>5. work' = work => Keeps(ops)
  BY DEF Keeps
<1>6. "idle" \notin ops /\ Done(a) => Keeps(ops)
  BY <1>1, <1>2 DEF Done
<1>7. QED
  BY <1>4, <1>5, <1>6

LEMMA GroupsCalm ==
  ASSUME RowsTyped, RowsTyped', NEW a \in Clients, GroupsBegin(a) \/ GroupsGoOn(a)
  PROVE  Calm \/ Nesting(a)
<1> USE DEF groupTables, Delicate, Opening
<1>1. WorkTyped /\ WorkTyped'
  BY DEF RowsTyped
<1>2. ASSUME NEW g \in GroupIds,
             \/ CheckDefault(a, g) \/ ReadDelete(a, g)
             \/ \E n \in Names \cup {None}, on \in BOOLEAN : ReadUpdate(a, g, n, on)
             \/ \E c \in ChannelIds : ReadMember(a, g, c)
             \/ \E c \in ChannelIds \cup {0}, p \in BOOLEAN : ReadPointer(a, g, c, p)
      PROVE  Calm
  <2>1. \E w, op : op \notin Delicate /\ Waits(a, op, w)
    <3>1. "default" \notin Delicate /\ "delete" \notin Delicate /\ "update" \notin Delicate
          /\ "member" \notin Delicate /\ "pointer" \notin Delicate
      OBVIOUS
    <3> HIDE DEF Delicate
    <3>2. CASE CheckDefault(a, g)
      BY <3>1, <3>2 DEF CheckDefault
    <3>3. CASE ReadDelete(a, g)
      BY <3>1, <3>3 DEF ReadDelete
    <3>4. ASSUME NEW n, NEW on, ReadUpdate(a, g, n, on) PROVE \E w : Waits(a, "update", w)
      BY <3>4 DEF ReadUpdate
    <3>5. ASSUME NEW c, ReadMember(a, g, c) PROVE \E w : Waits(a, "member", w)
      BY <3>5 DEF ReadMember
    <3>6. ASSUME NEW c, NEW p, ReadPointer(a, g, c, p) PROVE \E w : Waits(a, "pointer", w)
      BY <3>6 DEF ReadPointer
    <3>7. QED
      BY <1>2, <3>1, <3>2, <3>3, <3>4, <3>5, <3>6
  <2>a. Keeps(Delicate)
    BY <1>1, <2>1, KeepsStep
  <2>2. QED
    BY <1>2, <2>a DEF CheckDefault, ReadDelete, ReadUpdate, ReadMember, ReadPointer, Calm
<1>3. ASSUME \/ \E g \in GroupIds :
                \/ \E c \in ChannelIds : RemoveChannelMember(a, g, c)
                \/ \E c \in GroupIds : RemoveGroupMember(a, g, c)
             \/ \E n \in Names, on \in BOOLEAN : CreateGroup(a, n, on)
      PROVE  Calm
  <2>1. work' = work
    BY <1>3 DEF RemoveChannelMember, RemoveGroupMember, CreateGroup
  <2>2. overtaken' = overtaken /\ nested' \subseteq nested
    BY <1>3 DEF RemoveChannelMember, RemoveGroupMember, RemoveGroupRow, CreateGroup
  <2>3. QED
    BY <1>1, <2>1, <2>2, KeepsStep DEF Calm
<1>4. ASSUME NEW n \in Names, NEW on \in BOOLEAN, NEW p \in GroupIds, CreateChild(a, p, n, on) PROVE Calm
  <2>1. Keeps(Delicate)
    BY <1>1, <1>4, KeepsStep DEF CreateChild
  <2>2. QED
    BY <1>4, <2>1 DEF CreateChild, Calm
<1>5. CASE FindBadDefault(a)
  <2>1. Keeps(Delicate)
    BY <1>1, <1>5, KeepsStep DEF FindBadDefault
  <2>2. QED
    BY <1>5, <2>1 DEF FindBadDefault, Calm
<1>6. CASE SeeParent(a)
  <2>1. Waits(a, "nest", work[a]) \/ Waits(a, "undo", work[a])
    BY <1>6 DEF SeeParent
  <2>2. Keeps(Delicate)
    BY <1>1, <2>1, KeepsStep
  <2>3. QED
    BY <1>6, <2>2 DEF SeeParent, Calm
<1>7. CASE \/ WriteDefault(a) \/ HealDefault(a) \/ UndoChild(a) \/ WriteUpdate(a) \/ WriteDelete(a)
           \/ WriteMember(a) \/ WritePointer(a) \/ Abandon(a)
  <2>1. Done(a)
    BY <1>7 DEF WriteDefault, HealDefault, UndoChild, WriteUpdate, WriteDelete, WriteMember, WritePointer,
        Abandon
  <2>2. overtaken' = overtaken /\ nested' \subseteq nested
    BY <1>7 DEF WriteDefault, HealDefault, UndoChild, WriteUpdate, WriteDelete, DeleteGroupRows,
        WriteMember, WritePointer, Abandon
  <2>3. QED
    BY <1>1, <2>1, <2>2, KeepsStep DEF Calm
<1>8. QED
  BY <1>2, <1>3, <1>4, <1>5, <1>6, <1>7 DEF GroupsBegin, GroupsGoOn, Nesting

LEMMA OthersCalm ==
  ASSUME RowsTyped, RowsTyped', NEW a \in Clients,
         \/ TenancyBegin(a) \/ TenancyGoOn(a) \/ ChannelsBegin(a) \/ ChannelsGoOn(a) \/ TokensBegin(a)
  PROVE  Calm
<1> USE DEF Delicate, Opening
<1>1. WorkTyped /\ WorkTyped'
  BY DEF RowsTyped
<1>2. ASSUME UNCHANGED <<nested, overtaken>>, Keeps(Delicate) PROVE Calm
  BY <1>2 DEF Calm
<1>3. CASE TenancyBegin(a) \/ TenancyGoOn(a)
  <2>1. UNCHANGED <<nested, overtaken>>
    BY <1>3 DEF TenancyBegin, TenancyGoOn, CreateMainGroup, UpdateMainGroup, RenameMainGroup, DeleteMainGroup,
        CheckSubgroups, CheckBindings, ReplaceSubgroups, ReplaceBindings, elsewhere, groupTables
  <2>2. Keeps(Delicate)
    BY <1>1, <1>3, KeepsStep DEF TenancyBegin, TenancyGoOn, CreateMainGroup, UpdateMainGroup, RenameMainGroup,
        DeleteMainGroup, CheckSubgroups, CheckBindings, ReplaceSubgroups, ReplaceBindings
  <2>3. QED
    BY <1>2, <2>1, <2>2
<1>4. CASE TokensBegin(a)
  <2>1. UNCHANGED <<nested, overtaken, work>>
    BY <1>4 DEF TokensBegin, CreateToken, RotateToken, RevokeToken, DeleteToken, apart
  <2>2. QED
    BY <1>1, <1>2, <2>1, KeepsStep
<1>5. CASE ChannelsBegin(a) \/ ChannelsGoOn(a)
  <2>1. UNCHANGED <<nested, overtaken>>
    BY <1>5 DEF ChannelsBegin, ChannelsGoOn, CreateChannel, ReadChannel, DeleteChannel, ReadEndpoint,
        SaveSettings, DeleteCred, WriteBasics, SetGroups, SetEndpoint, LookForEndpoint, StoreKey, KeyFails,
        Invalidate, GiveUp, beyond
  <2>2. \A todo : NextOp(todo) \notin Delicate
    BY DEF NextOp
  <2>3. Keeps(Delicate)
    <3>1. CASE ChannelsBegin(a)
      <4>1. \/ work' = work \/ \E w : Waits(a, "basics", w)
            \/ \E w, todo : Waits(a, NextOp(todo), w)
        BY <3>1 DEF ChannelsBegin, CreateChannel, ReadChannel, DeleteChannel, ReadEndpoint, SaveSettings,
            DeleteCred, Goes
      <4>2. QED
        BY <1>1, <2>2, <4>1, KeepsStep
    <3>2. CASE ChannelsGoOn(a)
      <4>1. \/ Done(a) \/ \E w : Waits(a, "key", w) \/ Waits(a, "invalidate", w)
            \/ \E w, todo : Waits(a, NextOp(todo), w)
        BY <3>2 DEF ChannelsGoOn, WriteBasics, SetGroups, SetEndpoint, LookForEndpoint, StoreKey, KeyFails,
            Invalidate, GiveUp, Goes
      <4>2. QED
        BY <1>1, <2>2, <4>1, KeepsStep
    <3>3. QED
      BY <1>5, <3>1, <3>2
  <2>4. QED
    BY <1>2, <2>1, <2>3
<1>6. QED
  BY <1>3, <1>4, <1>5

LEMMA AccountsCalm ==
  ASSUME RowsTyped, WorkTyped', (\E a \in Clients : AccountsBegin(a) \/ AccountsGoOn(a)) \/ AccountsBy
  PROVE  Keeps({"link"})
<1>1. WorkTyped /\ WorkTyped'
  BY DEF RowsTyped
<1>2. \A todo : NextEdit(todo) # "link"
  BY DEF NextEdit
<1>3. ASSUME NEW a \in Clients, AccountsBegin(a) PROVE Keeps({"link"})
  <2>1. ASSUME NEW k \in cookies, NEW u \in Users, NEW e \in Emails, NEW root \in BOOLEAN,
               NEW m \in Mains \cup {None}, NEW on \in BOOLEAN,
               AdminCreateUser(a, k, u, e, root, m) \/ EditUser(a, k, u, e, on, root, m)
        PROVE  Keeps({"link"})
    BY <1>1, <1>2, <2>1, KeepsStep DEF AdminCreateUser, EditUser, GoesOn
  <2>2. ASSUME NEW k \in cookies, NEW e \in Emails, NEW n \in Codes, ChangeEmail(a, k, e, n)
        PROVE  Keeps({"link"})
    BY <1>1, <2>2, KeepsStep DEF ChangeEmail
  <2>3. ASSUME NEW u \in Users, NEW e \in Emails, NEW n \in Codes, NEW k \in cookies \cup {NoCookie},
               Register(a, u, e, n, k)
        PROVE  Keeps({"link"})
    BY <1>1, <2>3, KeepsStep DEF Register
  <2>4. ASSUME NEW k \in cookies, ChangePassword(a, k) PROVE Keeps({"link"})
    BY <1>1, <2>4, KeepsStep DEF ChangePassword
  <2>5. ASSUME NEW u \in Users, Login(a, u) PROVE Keeps({"link"})
    BY <1>1, <2>5, KeepsStep DEF Login
  <2>6. ASSUME NEW e \in Emails, SendCode(a, e) PROVE Keeps({"link"})
    BY <1>1, <2>6, KeepsStep DEF SendCode
  <2>7. ASSUME NEW k \in cookies, NEW u \in Users, ResetPassword(a, k, u) \/ DeleteUser(a, k, u)
        PROVE  Keeps({"link"})
    BY <1>1, <2>7, KeepsStep DEF ResetPassword, DeleteUser
  <2>8. QED
    BY <1>3, <2>1, <2>2, <2>3, <2>4, <2>5, <2>6, <2>7 DEF AccountsBegin
<1>4. ASSUME NEW a \in Clients, AccountsGoOn(a) PROVE Keeps({"link"})
  <2>1. CASE \/ ProveEmail(a) \/ CountUsers(a) \/ CreateUser(a) \/ ReadBack(a) \/ SaveSession(a)
             \/ WritePassword(a)
    BY <1>1, <2>1, KeepsStep DEF ProveEmail, CountUsers, CreateUser, ReadBack, SaveSession, WritePassword
  <2>2. CASE \/ WriteEmail(a) \/ SetUserStatus(a) \/ SetUserRole(a) \/ CheckUserMain(a)
             \/ SetUserMainGroup(a)
    BY <1>1, <1>2, <2>2, KeepsStep DEF WriteEmail, SetUserStatus, SetUserRole, CheckUserMain,
        SetUserMainGroup, GoesOn
  <2>3. QED
    BY <1>4, <2>1, <2>2 DEF AccountsGoOn
<1>5. CASE AccountsBy
  BY <1>1, <1>5, KeepsStep DEF AccountsBy, NextSecond, Logout, Expire, Keeps
<1>6. QED
  BY <1>3, <1>4, <1>5

\* A nesting's check holds until its INSERT, or it is overtaken.
LEMMA LinkedStep ==
  ASSUME RowsTyped, Linked,
         \/ overtaken' = overtaken /\ nested' \subseteq nested /\ Keeps({"link"})
         \/ \E a \in Clients : Nesting(a)
  PROVE  Linked'
<1>1. WorkTyped
  BY DEF RowsTyped
<1>2. ASSUME NEW b \in Clients PROVE /\ At(b, "link") => Edge(b) \in GroupIds \X GroupIds
                                    /\ Edge(b) = <<work[b].group, work[b].other>>
  BY <1>1 DEF WorkTyped, Fits, At, Edge
<1>a. Linked' <=> \A b \in Clients :
                    work'[b].op = "link" /\ <<work'[b].group, work'[b].other>> \notin overtaken' =>
                        Nestable(work[b].group, work[b].other)'
  BY DEF Linked, At, Edge
<1>3. CASE overtaken' = overtaken /\ nested' \subseteq nested /\ Keeps({"link"})
  <2> SUFFICES ASSUME NEW b \in Clients, work'[b].op = "link",
                      <<work'[b].group, work'[b].other>> \notin overtaken'
               PROVE  Nestable(work[b].group, work[b].other)'
    BY <1>a
  <2>1. work'[b] = work[b]
    BY <1>3 DEF Keeps
  <2>2. At(b, "link") /\ Edge(b) \notin overtaken
    BY <1>2, <1>3, <2>1 DEF At
  <2>3. Nestable(work[b].group, work[b].other) /\ work[b].group \in GroupIds /\ work[b].other \in GroupIds
    BY <1>2, <2>2 DEF Linked
  <2>4. PICK p \in GroupIds, c \in GroupIds : p = work[b].group /\ c = work[b].other
    BY <2>3
  <2>5. Nestable(p, c)'
    BY <1>3, <2>3, <2>4, NestableStill
  <2>6. QED
    BY <2>1, <2>4, <2>5 DEF Nestable, ParentsOf, Upward, Closed
<1>4. ASSUME NEW a \in Clients, LinkChild(a) PROVE Linked'
  <2>1. \A b \in Clients : work'[b] = IF b = a THEN Idle ELSE work[b]
    BY <1>1, <1>4 DEF LinkChild, Done, WorkTyped
  <2> SUFFICES ASSUME NEW b \in Clients, work'[b].op = "link",
                      <<work'[b].group, work'[b].other>> \notin overtaken'
               PROVE  FALSE
    BY <1>a
  <2>2. b # a /\ work'[b] = work[b]
    BY <2>1 DEF Idle
  <2>3. Edge(b) \in overtaken'
    BY <1>4, <2>2 DEF LinkChild, At
  <2>4. QED
    BY <2>2, <2>3 DEF Edge
<1>5. ASSUME NEW a \in Clients, NestChild(a) PROVE Linked'
  <2>1. work[a] \in Work /\ nested' = nested
    BY <1>1, <1>5 DEF NestChild, WorkTyped
  <2>2. PICK op \in {"link", "undo"} :
            /\ work' = [work EXCEPT ![a] = [work[a] EXCEPT !.op = op]]
            /\ op = "link" => /\ Nestable(work[a].group, work[a].other)
                              /\ overtaken' = overtaken \ {<<work[a].group, work[a].other>>}
            /\ op = "undo" => overtaken' = overtaken
    BY <1>5 DEF NestChild, Waits
  <2>3. \A b \in Clients :
            /\ b # a => work'[b] = work[b]
            /\ b = a => /\ work'[b].op = op
                        /\ work'[b].group = work[a].group /\ work'[b].other = work[a].other
    BY <1>1, <2>1, <2>2, OpSame DEF WorkTyped
  <2>c. \A b : Nestable(work[b].group, work[b].other)' <=> Nestable(work'[b].group, work'[b].other)
    BY <2>1 DEF Nestable, ParentsOf, Upward, Closed
  <2> SUFFICES ASSUME NEW b \in Clients, work'[b].op = "link",
                      <<work'[b].group, work'[b].other>> \notin overtaken'
               PROVE  Nestable(work'[b].group, work'[b].other)
    BY <1>a, <2>c
  <2>4. CASE b = a
    BY <2>2, <2>3, <2>4
  <2>5. CASE b # a
    <3>1. work'[b] = work[b] /\ At(b, "link")
      BY <2>3, <2>5 DEF At
    <3>2. Edge(b) \notin overtaken \/ (op = "link" /\ Edge(b) = <<work[a].group, work[a].other>>)
      BY <1>2, <2>2, <3>1
    <3>3. QED
      BY <1>2, <2>2, <3>1, <3>2 DEF Linked
  <2>6. QED
    BY <2>4, <2>5
<1>6. QED
  BY <1>3, <1>4, <1>5 DEF Nesting

\* What the handlers of groups, tenancy, channels and tokens do to users.
LEMMA ConfigUsers ==
  ASSUME RowsTyped, RowsTyped', NEW a \in Clients, UNCHANGED accountVars,
         \/ GroupsBegin(a) \/ GroupsGoOn(a) \/ TenancyBegin(a) \/ TenancyGoOn(a)
         \/ ChannelsBegin(a) \/ ChannelsGoOn(a) \/ TokensBegin(a)
  PROVE  UsersMove
<1>1. cookies' \subseteq cookies /\ Held' \subseteq Held
  <2>1. cookies' = cookies
    BY DEF accountVars
  <2>2. CASE Calm
    BY <2>1, <2>2 DEF Calm, Keeps, Delicate, Held
  <2>3. CASE Nesting(a)
    <3>1. WorkTyped /\ work[a] \in Work
      BY DEF RowsTyped, WorkTyped
    <3>2. PICK w : work' = [work EXCEPT ![a] = w] /\ w.op \notin Opening
      <4>1. CASE Done(a)
        <5>1. Idle.op \notin Opening
          BY DEF Idle, Opening
        <5>2. QED
          BY <4>1, <5>1 DEF Done
      <4>2. ASSUME NEW op \in {"link", "undo"}, Waits(a, op, work[a])
            PROVE  \E w : work' = [work EXCEPT ![a] = w] /\ w.op \notin Opening
        BY <3>1, <4>2, OpSame DEF Waits, Opening
      <4>3. QED
        BY <2>3, <4>1, <4>2 DEF Nesting, NestChild, LinkChild
    <3>3. QED
      BY <2>1, <3>1, <3>2, HeldStep
  <2>4. QED
    BY <2>1, <2>2, <2>3, GroupsCalm, OthersCalm
<1>2. ASSUME UNCHANGED accounts PROVE UsersMove
  BY <1>1, <1>2, UsersStill DEF accounts
<1>3. CASE GroupsBegin(a) \/ GroupsGoOn(a)
  <2>1. UNCHANGED accounts
    BY <1>3 DEF GroupsBegin, GroupsGoOn, CheckDefault, ReadDelete, ReadUpdate, ReadMember, RemoveChannelMember,
        RemoveGroupMember, ReadPointer, CreateGroup, CreateChild, FindBadDefault, WriteDefault,
        HealDefault, SeeParent, NestChild, LinkChild, UndoChild, WriteUpdate, WriteDelete, WriteMember,
        WritePointer, Abandon, others, grants
  <2>2. QED
    BY <1>2, <2>1
<1>4. CASE ChannelsBegin(a) \/ ChannelsGoOn(a)
  <2>1. UNCHANGED accounts
    BY <1>4 DEF ChannelsBegin, ChannelsGoOn, CreateChannel, ReadChannel, DeleteChannel, ReadEndpoint,
        SaveSettings,
        DeleteCred, WriteBasics, SetGroups, SetEndpoint, LookForEndpoint, StoreKey, KeyFails,
        Invalidate, GiveUp, beyond, grants
  <2>2. QED
    BY <1>2, <2>1
<1>5. CASE TokensBegin(a)
  BY <1>1, <1>5, UsersStill DEF TokensBegin, CreateToken, RotateToken, RevokeToken, DeleteToken, apart
<1>6. CASE TenancyBegin(a) \/ TenancyGoOn(a)
  <2>1. ASSUME NEW m \in Mains, NEW new \in Mains, NEW on \in BOOLEAN, RenameMainGroup(a, m, new, on)
        PROVE  UsersMove
    <3>1. second' = second
      BY <2>1 DEF RenameMainGroup, elsewhere
    <3>2. \A u \in Users : /\ [users[u] EXCEPT !.changed = second] \in UserRows
                           /\ [users[u] EXCEPT !.changed = second].changed = second
      BY DEF RowsTyped, UsersTyped, UserRows
    <3>3. users' \in [Users -> UserRows]
          /\ \A u \in Users : users'[u] = users[u] \/ users'[u].changed = second
      BY <2>1, <3>2 DEF RenameMainGroup, RowsTyped, UsersTyped
    <3>4. second' \in 0..MaxSecond /\ second <= second'
      BY <3>1, IdsAssumption DEF RowsTyped, UsersTyped
    <3>5. QED
      BY <1>1, <3>3, <3>4 DEF UsersMove, RowsTyped, UsersTyped
  <2>2. ASSUME \/ \E m \in Mains, on \in BOOLEAN : CreateMainGroup(a, m, on) \/ UpdateMainGroup(a, m, on)
               \/ \E m \in Mains : DeleteMainGroup(a, m) \/ \E ns \in SUBSET Names : CheckSubgroups(a, m, ns)
               \/ \E t \in Tokens, ns \in SUBSET Names : CheckBindings(a, t, ns)
               \/ ReplaceSubgroups(a) \/ ReplaceBindings(a)
        PROVE  UsersMove
    <3>1. UNCHANGED <<second, users>>
      BY <2>2 DEF CreateMainGroup, UpdateMainGroup, DeleteMainGroup, CheckSubgroups, CheckBindings,
          ReplaceSubgroups, ReplaceBindings, elsewhere, grants, accounts
    <3>2. QED
      BY <1>1, <3>1, UsersStill
  <2>3. QED
    BY <1>6, <2>1, <2>2 DEF TenancyBegin, TenancyGoOn
<1>7. QED
  BY <1>3, <1>4, <1>5, <1>6

\* Every step of a handler keeps HInv, and is a ConfigMove.
LEMMA HandlersStep ==
  ASSUME HInv, [HandlersNext(Clients)]_<<catalogVars, accountVars>>
  PROVE  HInv' /\ (ConfigMove \/ UNCHANGED <<groups, mains>>)
<1> USE DEF HInv
<1>1. CASE UNCHANGED <<catalogVars, accountVars>>
  <2>1. UNCHANGED <<rest, work, accountVars>>
    BY <1>1 DEF rest, catalogVars, accountVars, groupTables, channelTables, grants, accounts, caches
  <2>2. RowsTyped'
    BY <2>1, ReadStep, StillTyped DEF RowsTyped
  <2>3. Unique' /\ Tree'
    <3>1. TreeMove
      BY <2>1 DEF rest, TreeMove
    <3>2. QED
      BY <3>1, UniqueStep, TreeStep
  <2>4. Sessions' /\ Mail'
    BY <2>1 DEF rest, Sessions, Held, Mail, Registered, accountVars
  <2>5. Linked'
    BY <2>1, LinkedStep DEF rest, Keeps
  <2>6. QED
    BY <2>1, <2>2, <2>3, <2>4, <2>5 DEF rest
<1>2. ASSUME NEW a \in Clients, UNCHANGED accountVars,
             \/ GroupsBegin(a) \/ GroupsGoOn(a) \/ TenancyBegin(a) \/ TenancyGoOn(a)
             \/ ChannelsBegin(a) \/ ChannelsGoOn(a) \/ TokensBegin(a)
      PROVE  HInv' /\ ConfigMove
  <2>1. RowsTyped'
    BY <1>2, GroupsTypedStep, TenancyTypedStep, ChannelsTypedStep, TokensTypedStep
  <2>2. ConfigMove
    BY <1>2, GroupsMove, OthersMove
  <2>3. Unique' /\ Tree'
    BY <2>2, UniqueStep, TreeStep DEF ConfigMove
  <2>4. Sessions'
    BY <1>2, <2>1, ConfigUsers, SessionsStep DEF RowsTyped
  <2>5. Mail'
    BY <1>2 DEF accountVars, Mail
  <2>6. Linked'
    <3>1. Calm \/ Nesting(a)
      BY <1>2, <2>1, GroupsCalm, OthersCalm
    <3>2. Keeps(Delicate) => Keeps({"link"})
      BY DEF Keeps, Delicate
    <3>3. QED
      BY <3>1, <3>2, LinkedStep DEF Calm
  <2>7. QED
    BY <2>1, <2>2, <2>3, <2>4, <2>5, <2>6
<1>3. ASSUME AccountsMove, Keeps({"link"}) PROVE HInv' /\ ConfigMove
  <2>1. UsersTyped' /\ Sessions' /\ MailTyped' /\ Mail'
    BY <1>3, SessionsStep, MailStep DEF AccountsMove, RowsTyped, UsersTyped, UsersMove
  <2>a. Linked'
    BY <1>3, LinkedStep DEF AccountsMove, configured
  <2>2. GroupsTyped' /\ ChannelsTyped'
    BY <1>3, StillTyped DEF AccountsMove, configured
  <2>3. RowsTyped'
    BY <1>3, <2>1, <2>2 DEF AccountsMove, RowsTyped
  <2>4. ConfigMove
    BY <1>3 DEF AccountsMove, configured, ConfigMove, TreeMove, MainsMove
  <2>5. Unique' /\ Tree'
    BY <2>4, UniqueStep, TreeStep DEF ConfigMove
  <2>6. QED
    BY <2>1, <2>3, <2>4, <2>5, <2>a
<1>4. CASE HandlersNext(Clients)
  <2>1. ASSUME AccountsMove, (\E a \in Clients : AccountsBegin(a) \/ AccountsGoOn(a)) \/ AccountsBy
        PROVE  Keeps({"link"})
    BY <2>1, AccountsCalm DEF AccountsMove
  <2>2. QED
    BY <1>2, <1>3, <1>4, <2>1, AccountsBeginMove, AccountsGoOnMove, AccountsByMove DEF HandlersNext, StepOf
<1>5. QED
  BY <1>1, <1>4

LEMMA HandlersPurge == HInv /\ HandlersNext(Clients) => Purges
BY GroupsPurge, ConfigPurges, AccountsPurge DEF HInv, HandlersNext, StepOf

\* The caches change only copies.
LEMMA CachesStep ==
  ASSUME HInv, UNCHANGED <<tables, accountVars>>, CopiesTyped'
  PROVE  HInv' /\ UNCHANGED <<groups, mains>>
<1> USE DEF HInv
<1>1. /\ UNCHANGED <<groups, nested, overtaken, members, default, lastIds, channels, endpoints, creds>>
      /\ UNCHANGED <<pointers, mains, granted, mainOf, bound, tags, second, users, tokens, work>>
      /\ UNCHANGED <<codes, sent, uses, cookies>>
  BY DEF tables, groupTables, channelTables, grants, accounts, accountVars
<1>2. /\ UsersTyped' /\ IdsTyped' /\ GroupsTyped' /\ ChannelsTyped' /\ NamesTyped'
      /\ (UNCHANGED work => WorkTyped') /\ (UNCHANGED <<codes, sent, uses>> => MailTyped')
  BY <1>1, StillTyped DEF RowsTyped, WorkTyped, MailTyped
<1>3. RowsTyped'
  BY <1>1, <1>2 DEF RowsTyped
<1>4. Unique' /\ Tree'
  <2>1. TreeMove
    BY <1>1 DEF TreeMove
  <2>2. QED
    BY <2>1, UniqueStep, TreeStep
<1>5. Sessions' /\ Mail'
  BY <1>1 DEF Sessions, Held, Mail, Registered
<1>6. Linked'
  BY <1>1, LinkedStep DEF Keeps
<1>7. QED
  BY <1>1, <1>3, <1>4, <1>5, <1>6

LEMMA CatalogInitOK == HandlersInit /\ CachesInit => HInv /\ CachesStart
<1> SUFFICES ASSUME HandlersInit, CachesInit PROVE HInv /\ CachesStart
  OBVIOUS
<1>1. HInv
  BY HandlersInitOK
<1>2. QED
  BY <1>1 DEF HInv, RowsTyped, ChannelsTyped, NamesTyped, HandlersInit, CachesStart, TablesTyped

\* Every step of the catalog with its caches keeps both invariants, and is one the
\* caches expect.
LEMMA CatalogStep ==
  ASSUME HInv, CInv, [CatalogNext(Clients)]_<<catalogVars, accountVars, fetch, lapsed>>
  PROVE  /\ HInv' /\ CInv'
         /\ [CachesNext]_<<cacheVars, tables>>
         /\ ConfigMove \/ UNCHANGED <<groups, mains>>
<1>1. CASE HandlersNext(Clients) /\ UNCHANGED fetch /\ Noted
  <2>1. HInv' /\ (ConfigMove \/ UNCHANGED <<groups, mains>>)
    BY <1>1, HandlersStep
  <2>2. TablesTyped'
    BY <2>1 DEF HInv, RowsTyped, ChannelsTyped, NamesTyped, TablesTyped
  <2>3. CachesNext
    BY <1>1, <2>2, HandlersPurge, WritersPurge DEF CachesNext
  <2>4. QED
    BY <2>1, <2>3, CachesNextOK
<1>2. CASE UNCHANGED <<catalogVars, accountVars, fetch, lapsed>>
  <2>1. UNCHANGED <<cacheVars, tables>>
    BY <1>2 DEF catalogVars, cacheVars, tables
  <2>2. HInv' /\ (ConfigMove \/ UNCHANGED <<groups, mains>>)
    BY <1>2, HandlersStep
  <2>3. QED
    BY <2>1, <2>2, CachesNextOK
<1>3. ASSUME UNCHANGED <<tables, accountVars>>, pending' \subseteq Instances \X Keys, CachesNext
      PROVE  /\ HInv' /\ CInv'
             /\ [CachesNext]_<<cacheVars, tables>>
             /\ ConfigMove \/ UNCHANGED <<groups, mains>>
  <2>1. CInv'
    BY <1>3, CachesNextOK
  <2>2. CopiesTyped'
    BY <1>3, <2>1 DEF CInv, CachesTyped, CopiesTyped
  <2>3. QED
    BY <1>3, <2>1, <2>2, CachesStep
<1>4. pending \subseteq Instances \X Keys
  BY DEF HInv, RowsTyped, CopiesTyped
<1>5. ASSUME NEW i \in Instances, AuthStep(i) \/ SnapStep(i, SnapKeys) \/ Restart(i)
      PROVE  UNCHANGED tables /\ pending' \subseteq Instances \X Keys
  BY <1>4, <1>5 DEF AuthStep, SnapStep, MissAuth, ReadToken, ReadGroups, StoreAuth, Evict, Poll, MissList,
      ReadRows, StoreList, Restart, caches
<1>6. CASE /\ \E i \in Instances : AuthStep(i) \/ SnapStep(i, SnapKeys) \/ Restart(i)
           /\ UNCHANGED accountVars /\ Noted
  BY <1>3, <1>5, <1>6 DEF CachesNext
<1>7. CASE Tick /\ UNCHANGED accountVars
  <2>1. UNCHANGED <<tables, pending>>
    BY <1>7 DEF Tick
  <2>2. QED
    BY <1>3, <1>4, <1>7, <2>1 DEF CachesNext
<1>8. QED
  BY <1>1, <1>2, <1>6, <1>7 DEF CatalogNext

LEMMA CatalogInductive == CatalogSpec => [](HInv /\ CInv)
<1>1. HandlersInit /\ CachesInit => HInv /\ CInv
  BY CatalogInitOK, CachesStartOK
<1>2. HInv /\ CInv /\ [CatalogNext(Clients)]_<<catalogVars, accountVars, fetch, lapsed>> => HInv' /\ CInv'
  BY CatalogStep
<1>3. QED
  BY <1>1, <1>2, PTL DEF CatalogSpec

\* The catalog implements what the caches expect of it: every step of a handler is
\* one of the writers' that change tables at will and take cached entries away, so
\* that what the caches promise holds of it (UpdateChannelGroupWithRename,
\* invalidateUpstreamSnapshot, BumpCacheInvalidation).
THEOREM HandlersAreWriters == CatalogSpec => CachesSpec
<1>1. HandlersInit /\ CachesInit => CachesStart
  BY CatalogInitOK
<1>2. HInv /\ CInv /\ [CatalogNext(Clients)]_<<catalogVars, accountVars, fetch, lapsed>>
        => [CachesNext]_<<cacheVars, tables>>
  BY CatalogStep
<1>3. QED
  BY <1>1, <1>2, CatalogInductive, PTL DEF CatalogSpec, CachesSpec

\* Whatever administrators, users and tokens do at once, in whatever order and
\* wherever it breaks off, the tables keep their types and from every group the
\* chain of parents ends, groups apart that were nested while another nesting was
\* between its check and its INSERT (AddChannelGroupMemberGroup).
THEOREM LoopsNeedTwoNestings == CatalogSpec => []CatalogInv
<1>1. HInv => CatalogInv
  <2> SUFFICES ASSUME HInv PROVE CatalogInv
    OBVIOUS
  <2>1. /\ \A i \in Instances, k \in SnapKeys : snap[i][k].left \in Nat
        /\ \A i \in Instances, n \in Secrets : auth[i][n].left \in Nat /\ auth[i][n].groups \subseteq Names
    BY DEF HInv, RowsTyped, CopiesTyped, AuthEntries, SnapEntries
  <2>2. CatalogTypeOK
    BY <2>1 DEF HInv, RowsTyped, CatalogTypeOK, UsersTyped, IdsTyped, GroupsTyped, ChannelsTyped, NamesTyped,
        WorkTyped, CopiesTyped
  <2>3. QED
    BY <2>2 DEF HInv, Tree, CatalogInv
<1>2. QED
  BY <1>1, CatalogInductive, PTL

\* A code proves one address once, for any number of requests that bring it at
\* the same time (ConsumeEmailVerification).
THEOREM CodesAreSpent == CatalogSpec => []CodesProveOnce
<1>1. HInv => CodesProveOnce
  BY DEF HInv, Mail, CodesProveOnce
<1>2. QED
  BY <1>1, CatalogInductive, PTL

\* No session outlives the password it was opened with: those without a stamp
\* apart, those whose stamp was read in the second the row was last written, and
\* those of a registration that read the row back after its password had changed
\* (staleSession).
THEOREM SessionsEnd == CatalogSpec => []PasswordEndsSessions
<1>1. HInv => PasswordEndsSessions
  <2> SUFFICES ASSUME HInv, NEW k \in cookies, Accepted(k), k.password # users[k.user].password,
                      k.stamp # 0, k.seen = k.password
               PROVE  k.stamp = k.made
    BY DEF PasswordEndsSessions
  <2>1. k \in Cookies /\ k.user \in Users /\ k.stamp \in Nat /\ k.made \in Nat
        /\ users[k.user].changed \in Nat
    BY IdsAssumption DEF HInv, RowsTyped, UsersTyped, UserRows, Opened, Cookies
  <2>2. Registered(k.user) /\ users[k.user].changed <= k.stamp
    BY DEF Accepted, Registered
  <2>3. k.stamp <= k.made /\ k.made <= users[k.user].changed
    BY <2>1, <2>2 DEF HInv, Sessions, Held
  <2>4. QED
    BY <2>1, <2>2, <2>3
<1>2. QED
  BY <1>1, CatalogInductive, PTL

\* Renaming a group or a main group costs no token a group and moves no model and
\* no plan elsewhere, whoever else is at work (UpdateChannelGroupWithRename,
\* UpdateMainGroupWithRename).
THEOREM RenamesAreSafe == CatalogSpec => RenamesKeepRoutes
<1>1. HInv /\ CInv /\ [CatalogNext(Clients)]_<<catalogVars, accountVars, fetch, lapsed>>
        => [SomeRename => RoutesKept]_catalogVars
  <2> SUFFICES ASSUME HInv, CInv, [CatalogNext(Clients)]_<<catalogVars, accountVars, fetch, lapsed>>, SomeRename
               PROVE  RoutesKept
    OBVIOUS
  <2>1. ConfigMove
    <3>1. ~UNCHANGED <<groups, mains>>
      BY DEF Exists, NameOf, SomeRename
    <3>2. QED
      BY <3>1, CatalogStep
  <2>2. QED
    BY <2>1, RenamesStep DEF HInv, SomeRename, RoutesKept
<1>2. QED
  BY <1>1, CatalogInductive, PTL DEF CatalogSpec, RenamesKeepRoutes

-----------------------------------------------------------------------------
(* One client alone.                                                       *)

\* Ids of channels are given out before they are used.
Given ==
    /\ \A c \in ChannelIds : channels[c].live => c <= lastIds.channel
    /\ \A m \in members : m[2] <= lastIds.channel
\* A group just made: nothing names it yet.
Unused(g) ==
    /\ default # g /\ \A m \in members : m[1] # g
    /\ \A e \in nested : g # e[1] /\ g # e[2]
\* The request has an endpoint, or sees to it before it stores a key.
Ready(w) == "endpoint" \in w.todo \/ "look" \in w.todo \/ w.channel \in endpoints
\* What a request of a client who works alone has read is still so.
AsRead(w) ==
    /\ w.op = "default" => Enabled(w.group)
    /\ w.op \in {"child", "nest", "link", "undo"} => Unused(w.other)
    /\ w.op \in {"nest", "link"} => Exists(w.group) /\ Exists(w.other)
    /\ w.op = "update" => (w.flag <=> ~w.on /\ default = w.group)
    /\ w.op = "delete" =>
        Exists(w.group) /\ w.name = NameOf(w.group) /\ (w.flag <=> default = w.group)
    /\ w.op = "member" => Exists(w.group) /\ channels[w.channel].live
    /\ w.op \in {"subgroups", "setmain"} => w.name \in Mains /\ mains[w.name] # "none"
    /\ w.op \in {"basics", "setgroups", "endpoint", "look", "key"} =>
        channels[w.channel].live /\ Ready(w)
    /\ w.op = "key" => w.channel \in endpoints
AloneOps == {"default", "child", "nest", "link", "undo", "update", "delete", "member",
             "subgroups", "setmain", "basics", "setgroups", "endpoint", "look", "key"}

\* The parts of Tidy, each about some of the tables.
GroupsTidy ==
    /\ CsvMirrorsMembers
    /\ \A e \in nested : Exists(e[1]) /\ Exists(e[2])
    /\ \A m \in members : Exists(m[1])
    /\ default # 0 => Enabled(default)
MainsTidy ==
    /\ \A u \in Users : mainOf[u] # None => mains[mainOf[u]] # "none"
    /\ \A m \in Mains : granted[m] # {} => mains[m] # "none"
KeysTidy ==
    /\ \A c \in endpoints : channels[c].live
    /\ \A k \in creds : k.channel \in endpoints
Settled(a) == GroupsTidy /\ MainsTidy /\ KeysTidy /\ Given /\ AsRead(work[a])

LEMMA TidyParts == Tidy <=> GroupsTidy /\ MainsTidy /\ KeysTidy
BY DEF Tidy, GroupsTidy, MainsTidy, KeysTidy

\* The groups column, name by name.
Column(c) == \A n : n \in channels[c].csv <=>
                \E g \in GroupIds : Exists(g) /\ <<g, c>> \in members /\ NameOf(g) = n
LEMMA MirrorsByName ==
    /\ CsvMirrorsMembers <=> \A c \in ChannelIds : channels[c].live => Column(c)
    /\ CsvMirrorsMembers' <=> \A c \in ChannelIds : channels'[c].live => Column(c)'
<1>1. ASSUME NEW c \in ChannelIds
      PROVE  channels[c].csv = {NameOf(g) : g \in {h \in GroupIds : Exists(h) /\ <<h, c>> \in members}}
                <=> Column(c)
  BY DEF Column
<1>2. ASSUME NEW c \in ChannelIds
      PROVE  (channels[c].csv = {NameOf(g) : g \in {h \in GroupIds : Exists(h) /\ <<h, c>> \in members}})'
                <=> Column(c)'
  BY DEF Column
<1>3. QED
  BY <1>1, <1>2 DEF CsvMirrorsMembers

\* Parts whose tables a step leaves alone.
LEMMA PartsStill ==
    /\ UNCHANGED <<groups, nested, members, default, channels>> /\ GroupsTidy => GroupsTidy'
    /\ UNCHANGED <<mains, mainOf, granted>> /\ MainsTidy => MainsTidy'
    /\ UNCHANGED <<channels, endpoints, creds>> /\ KeysTidy => KeysTidy'
    /\ UNCHANGED <<channels, members>> /\ lastIds'.channel = lastIds.channel /\ Given => Given'
<1>1. ASSUME UNCHANGED <<groups, nested, members, default, channels>>, GroupsTidy PROVE GroupsTidy'
  BY <1>1 DEF GroupsTidy, CsvMirrorsMembers, Enabled, Exists, NameOf
<1>2. QED
  BY <1>1 DEF MainsTidy, KeysTidy, Given

\* A request that has read nothing the tables could contradict.
LEMMA NothingRead ==
  ASSUME NEW a, work'[a].op \notin AloneOps
  PROVE  AsRead(work[a])'
BY DEF AsRead, AloneOps

LEMMA DoneReads ==
  ASSUME WorkTyped, NEW a \in Clients, Done(a)
  PROVE  AsRead(work[a])'
<1>1. work'[a] = Idle
  BY DEF WorkTyped, Done
<1>2. QED
  BY <1>1, NothingRead DEF Idle, AloneOps

\* All fields of a request that goes on to `op`.
LEMMA WaitsFields ==
  ASSUME WorkTyped, NEW a \in Clients, NEW w \in Work, NEW op, Waits(a, op, w)
  PROVE  /\ work'[a].op = op
         /\ work'[a].todo = w.todo /\ work'[a].group = w.group /\ work'[a].other = w.other
         /\ work'[a].channel = w.channel /\ work'[a].name = w.name /\ work'[a].names = w.names
         /\ work'[a].on = w.on /\ work'[a].flag = w.flag
<1>1. work'[a] = [w EXCEPT !.op = op]
  BY DEF WorkTyped, Waits
<1>2. QED
  BY <1>1 DEF Work

\* A step that leaves the tables alone.
LEMMA ReadsSettle ==
  ASSUME NEW a \in Clients, Settled(a), AsRead(work[a])',
         UNCHANGED <<groups, nested, members, default, channels, endpoints, creds, mains, granted, mainOf>>,
         lastIds'.channel = lastIds.channel
  PROVE  Settled(a)'
BY PartsStill DEF Settled

LEMMA GroupsReadsSettle ==
  ASSUME RowsTyped, NEW a \in Clients, Settled(a),
         \/ \E g \in GroupIds :
            \/ CheckDefault(a, g) \/ ReadDelete(a, g)
            \/ \E n \in Names \cup {None}, on \in BOOLEAN : ReadUpdate(a, g, n, on)
            \/ \E c \in ChannelIds : ReadMember(a, g, c)
            \/ \E c \in ChannelIds \cup {0}, p \in BOOLEAN : ReadPointer(a, g, c, p)
         \/ FindBadDefault(a) \/ SeeParent(a) \/ WritePointer(a) \/ Abandon(a)
  PROVE  Settled(a)'
<1> USE DEF groupTables, others, channelTables, grants, accounts
<1>1. WorkTyped /\ GroupsTyped /\ work[a] \in Work /\ AsRead(work[a])
  BY DEF RowsTyped, WorkTyped, Settled
<1>2. UNCHANGED <<groups, nested, members, default, channels, endpoints, creds, mains, granted, mainOf, lastIds>>
  BY DEF CheckDefault, ReadDelete, ReadUpdate, ReadMember, ReadPointer, FindBadDefault, SeeParent,
     WritePointer, Abandon
<1>3. \A g : /\ (Exists(g) <=> Exists(g)') /\ (Enabled(g) <=> Enabled(g)') /\ NameOf(g)' = NameOf(g)
             /\ (Unused(g) <=> Unused(g)')
  BY <1>2 DEF Exists, Enabled, NameOf, Unused
<1>4. ASSUME NEW g \in GroupIds, CheckDefault(a, g) PROVE AsRead(work[a])'
  <2> DEFINE w == [Idle EXCEPT !.group = g]
  <2>1. w \in Work /\ w.group = g /\ Waits(a, "default", w)
    BY <1>4, NoCookieFits DEF CheckDefault, Idle, Work
  <2> HIDE DEF w
  <2>2. work'[a].op = "default" /\ work'[a].group = g
    BY <1>1, <2>1, WaitsFields
  <2>3. QED
    BY <1>3, <1>4, <2>2 DEF AsRead, CheckDefault
<1>5. ASSUME NEW g \in GroupIds, ReadDelete(a, g) PROVE AsRead(work[a])'
  <2>1. PICK f \in BOOLEAN, n \in Names \cup {None} : f = (default = g) /\ n = NameOf(g)
    BY <1>1 DEF GroupsTyped, GroupRows, NameOf
  <2>2. Waits(a, "delete", [Idle EXCEPT !.group = g, !.name = n, !.flag = f])
    BY <1>5, <2>1 DEF ReadDelete
  <2> DEFINE w == [Idle EXCEPT !.group = g, !.name = n, !.flag = f]
  <2>a. Waits(a, "delete", w)
    BY <2>2
  <2>3. w \in Work /\ w.group = g /\ w.name = n /\ w.flag = f
    BY NoCookieFits DEF Idle, Work
  <2> HIDE DEF w
  <2>4. work'[a].op = "delete" /\ work'[a].group = g /\ work'[a].name = n /\ work'[a].flag = f
    BY <1>1, <2>a, <2>3, WaitsFields
  <2>5. QED
    BY <1>2, <1>3, <1>5, <2>1, <2>4 DEF AsRead, ReadDelete
<1>6. ASSUME NEW g \in GroupIds, NEW n \in Names \cup {None}, NEW on \in BOOLEAN, ReadUpdate(a, g, n, on)
      PROVE  AsRead(work[a])'
  <2>1. PICK f \in BOOLEAN, new \in Names \cup {None} :
            f = (~on /\ default = g) /\ new = IF n = NameOf(g) THEN None ELSE n
    OBVIOUS
  <2>2. Waits(a, "update", [Idle EXCEPT !.group = g, !.name = new, !.on = on, !.flag = f])
    BY <1>6, <2>1 DEF ReadUpdate
  <2> DEFINE w == [Idle EXCEPT !.group = g, !.name = new, !.on = on, !.flag = f]
  <2>a. Waits(a, "update", w)
    BY <2>2
  <2>3. w \in Work /\ w.group = g /\ w.on = on /\ w.flag = f
    BY NoCookieFits DEF Idle, Work
  <2> HIDE DEF w
  <2>4. work'[a].op = "update" /\ work'[a].group = g /\ work'[a].on = on /\ work'[a].flag = f
    BY <1>1, <2>a, <2>3, WaitsFields
  <2>5. QED
    BY <1>2, <2>1, <2>4 DEF AsRead
<1>7. ASSUME NEW g \in GroupIds, NEW c \in ChannelIds, ReadMember(a, g, c) PROVE AsRead(work[a])'
  <2> DEFINE w == [Idle EXCEPT !.group = g, !.channel = c]
  <2>1. w \in Work /\ w.group = g /\ w.channel = c /\ Waits(a, "member", w)
    BY <1>7, NoCookieFits DEF ReadMember, Idle, Work
  <2> HIDE DEF w
  <2>2. work'[a].op = "member" /\ work'[a].group = g /\ work'[a].channel = c
    BY <1>1, <2>1, WaitsFields
  <2>3. QED
    BY <1>2, <1>3, <1>7, <2>2 DEF AsRead, ReadMember
<1>8. ASSUME NEW g \in GroupIds, NEW c \in ChannelIds \cup {0}, NEW p \in BOOLEAN, ReadPointer(a, g, c, p)
      PROVE  AsRead(work[a])'
  <2> DEFINE w == [Idle EXCEPT !.group = g, !.channel = c, !.flag = p /\ c # 0]
  <2>1. w \in Work /\ Waits(a, "pointer", w)
    BY <1>8, NoCookieFits DEF ReadPointer, Idle, Work
  <2> HIDE DEF w
  <2>2. work'[a].op = "pointer"
    BY <1>1, <2>1, WaitsFields
  <2>3. QED
    BY <2>2, NothingRead DEF AloneOps
<1>9. CASE FindBadDefault(a)
  <2>1. AsRead(work[a])'
    BY <1>1, <1>9, WaitsFields, NothingRead, IdleFits DEF FindBadDefault, AloneOps
  <2>2. QED
    BY <1>2, <2>1, ReadsSettle
<1>10. CASE SeeParent(a)
  <2> DEFINE w == work[a]
  <2>1. Unused(w.other) /\ w \in Work
    BY <1>1, <1>10 DEF SeeParent, At, AsRead
  <2>2. PICK op \in {"nest", "undo"} : Waits(a, op, w) /\ (op = "nest" => Exists(w.group) /\ Exists(w.other))
    BY <1>10 DEF SeeParent
  <2>3. work'[a].op = op /\ work'[a].group = w.group /\ work'[a].other = w.other
    BY <1>1, <2>1, <2>2, WaitsFields
  <2> HIDE DEF w
  <2>4. AsRead(work[a])'
    BY <1>3, <2>1, <2>2, <2>3 DEF AsRead
  <2>5. QED
    BY <1>2, <2>4, ReadsSettle
<1>11. CASE WritePointer(a) \/ Abandon(a)
  BY <1>1, <1>2, <1>11, DoneReads, ReadsSettle DEF WritePointer, Abandon
<1>12. QED
  BY <1>2, <1>4, <1>5, <1>6, <1>7, <1>8, <1>9, <1>10, <1>11, ReadsSettle

LEMMA DefaultSettles ==
  ASSUME RowsTyped, NEW a \in Clients, Settled(a), WriteDefault(a) \/ HealDefault(a)
  PROVE  Settled(a)'
<1> USE DEF groupTables, others, channelTables, grants
<1>1. AsRead(work[a])'
  BY DoneReads DEF WriteDefault, HealDefault, RowsTyped
<1>2. /\ UNCHANGED <<groups, nested, members, channels, endpoints, creds, mains, granted, mainOf, lastIds>>
      /\ default' = 0 \/ Enabled(default')
  BY DEF WriteDefault, HealDefault, Settled, AsRead, At
<1>3. default' # 0 => Enabled(default)'
  BY <1>2 DEF Enabled, Exists
<1>4. CsvMirrorsMembers'
  BY <1>2 DEF CsvMirrorsMembers, Settled, GroupsTidy, Exists, NameOf
<1>5. GroupsTidy'
  BY <1>2, <1>3, <1>4 DEF Settled, GroupsTidy, Exists
<1>6. QED
  BY <1>1, <1>2, <1>5, PartsStill DEF Settled

\* A new group has a name and an id nothing holds.
LEMMA InsertSettles ==
  ASSUME RowsTyped, Unique, GroupsTidy, NEW n \in Names, NEW on \in BOOLEAN, InsertGroup(n, on),
         UNCHANGED <<nested, members, default, channels>>
  PROVE  /\ GroupsTidy' /\ lastIds'.channel = lastIds.channel
         /\ \A l \in GroupIds : l = lastIds.group + 1 => Unused(l)'
<1>1. /\ groups \in [GroupIds -> GroupRows] /\ IdsTyped
      /\ nested \subseteq GroupIds \X GroupIds /\ members \subseteq GroupIds \X ChannelIds
  BY DEF RowsTyped, GroupsTyped, ChannelsTyped
<1>2. PICK l \in GroupIds : l = lastIds.group + 1
  BY <1>1, IdsAreNumbers DEF InsertGroup
<1>3. groups' = [groups EXCEPT ![l] = [name |-> n, on |-> on]] /\ lastIds'.channel = lastIds.channel
  BY <1>1, <1>2 DEF InsertGroup, IdsTyped
<1>4. \A g \in GroupIds : groups'[g] = IF g = l THEN [name |-> n, on |-> on] ELSE groups[g]
  BY <1>1, <1>3
<1>5. ~Exists(l)
  <2>1. l > lastIds.group
    BY <1>1, <1>2, IdsAssumption DEF IdsTyped, GroupIds
  <2>2. QED
    BY <2>1 DEF Unique
<1>6. Unused(l)
  <2>1. l # 0
    BY DEF GroupIds
  <2>2. default # l
    BY <1>5, <2>1 DEF GroupsTidy, Enabled
  <2>3. \A m \in members : m[1] # l
    BY <1>5 DEF GroupsTidy
  <2>4. \A e \in nested : l # e[1] /\ l # e[2]
    BY <1>5 DEF GroupsTidy
  <2>5. QED
    BY <2>2, <2>3, <2>4 DEF Unused
<1>7. \A g \in GroupIds : g # l =>
        (Exists(g)' <=> Exists(g)) /\ NameOf(g)' = NameOf(g) /\ (Enabled(g)' <=> Enabled(g))
  BY <1>4 DEF Exists, NameOf, Enabled
<1>8. ASSUME NEW c \in ChannelIds, channels'[c].live PROVE Column(c)'
  <2>1. Column(c)
    BY <1>8, MirrorsByName DEF GroupsTidy
  <2>2. \A g \in GroupIds : <<g, c>> \in members => g # l
    BY <1>6 DEF Unused
  <2>3. QED
    BY <1>7, <2>1, <2>2 DEF Column
<1>9. CsvMirrorsMembers'
  BY <1>8, MirrorsByName
<1>10. \A e \in nested' : Exists(e[1])' /\ Exists(e[2])'
  BY <1>1, <1>6, <1>7 DEF GroupsTidy, Unused
<1>11. \A m \in members' : Exists(m[1])'
  BY <1>1, <1>6, <1>7 DEF GroupsTidy, Unused
<1>12. default' # 0 => Enabled(default)'
  BY <1>6, <1>7 DEF GroupsTidy, Unused, Enabled, Exists
<1>13. Unused(l)'
  <2>1. members' = members /\ nested' = nested /\ default' = default
    OBVIOUS
  <2>2. QED
    BY <1>6, <2>1 DEF Unused
<1>14. QED
  BY <1>2, <1>3, <1>9, <1>10, <1>11, <1>12, <1>13 DEF GroupsTidy

LEMMA CreatesSettle ==
  ASSUME HInv, NEW a \in Clients, Settled(a), NEW n \in Names, NEW on \in BOOLEAN,
         CreateGroup(a, n, on) \/ \E p \in GroupIds : CreateChild(a, p, n, on)
  PROVE  Settled(a)'
<1> USE DEF groupTables, others, channelTables, grants
<1>1. RowsTyped /\ Unique /\ WorkTyped
  BY DEF HInv, RowsTyped
<1>2. /\ InsertGroup(n, on)
      /\ UNCHANGED <<nested, members, default, channels, endpoints, creds, mains, granted, mainOf>>
  BY DEF CreateGroup, CreateChild
<1>3. /\ GroupsTidy' /\ lastIds'.channel = lastIds.channel
      /\ \A l \in GroupIds : l = lastIds.group + 1 => Unused(l)'
  BY <1>1, <1>2, InsertSettles DEF Settled
<1>4. CASE CreateGroup(a, n, on)
  <2>1. AsRead(work[a])'
    BY <1>4, NothingRead DEF CreateGroup, Free, AloneOps
  <2>2. QED
    BY <1>2, <1>3, <2>1, PartsStill DEF Settled
<1>5. ASSUME NEW p \in GroupIds, CreateChild(a, p, n, on) PROVE Settled(a)'
  <2>1. PICK c \in GroupIds : c = lastIds.group + 1
    BY <1>1, <1>2, IdsAreNumbers DEF InsertGroup, RowsTyped
  <2>2. Waits(a, "child", [Idle EXCEPT !.group = p, !.other = c])
    BY <1>5, <2>1 DEF CreateChild
  <2> DEFINE w == [Idle EXCEPT !.group = p, !.other = c]
  <2>3. w \in Work /\ w.other = c
    BY NoCookieFits DEF Idle, Work
  <2>4. Waits(a, "child", w)
    BY <2>2
  <2> HIDE DEF w
  <2>5. work'[a].op = "child" /\ work'[a].other = c
    BY <1>1, <2>3, <2>4, WaitsFields
  <2>6. Unused(c)'
    BY <1>3, <2>1
  <2>7. AsRead(work[a])'
    BY <2>5, <2>6 DEF AsRead, Unused
  <2>8. QED
    BY <1>2, <1>3, <2>7, PartsStill DEF Settled
<1>6. QED
  BY <1>4, <1>5

LEMMA NestingSettles ==
  ASSUME RowsTyped, NEW a \in Clients, Settled(a), Nesting(a) \/ UndoChild(a)
  PROVE  Settled(a)'
<1> USE DEF groupTables, others, channelTables, grants
<1>1. /\ work[a] \in Work /\ Fits(work[a]) /\ AsRead(work[a]) /\ WorkTyped
      /\ groups \in [GroupIds -> GroupRows] /\ members \subseteq GroupIds \X ChannelIds
      /\ nested \subseteq GroupIds \X GroupIds
  BY DEF RowsTyped, WorkTyped, Settled, GroupsTyped, ChannelsTyped
<1>2. CASE NestChild(a)
  <2> DEFINE w == work[a]
  <2>1. UNCHANGED <<groups, nested, members, default, lastIds, channels, endpoints, creds, mains, granted, mainOf>>
        /\ w.op = "nest"
    BY <1>2 DEF NestChild, At
  <2>2. w \in Work /\ Exists(w.group) /\ Exists(w.other) /\ Unused(w.other)
    BY <1>1, <2>1 DEF AsRead
  <2>3. PICK op \in {"link", "undo"} : Waits(a, op, w)
    BY <1>2 DEF NestChild
  <2>4. work'[a].op = op /\ work'[a].group = w.group /\ work'[a].other = w.other
    BY <1>1, <2>2, <2>3, WaitsFields
  <2>5. AsRead(work[a])'
    BY <2>1, <2>2, <2>4 DEF AsRead, Unused, Exists
  <2>6. QED
    BY <2>1, <2>5, ReadsSettle
<1>5. CASE LinkChild(a)
  <2> DEFINE w == work[a]
  <2>1. /\ UNCHANGED <<groups, members, default, lastIds, channels, endpoints, creds, mains, granted, mainOf>>
        /\ w.op = "link" /\ Done(a) /\ nested' \subseteq nested \cup {<<w.group, w.other>>}
    BY <1>5 DEF LinkChild, At, Edge
  <2>2. Exists(w.group) /\ Exists(w.other)
    BY <1>1, <2>1 DEF AsRead
  <2>3. AsRead(work[a])'
    BY <1>1, <2>1, DoneReads
  <2> HIDE DEF w
  <2>4. \A e \in nested' : Exists(e[1])' /\ Exists(e[2])'
    BY <2>1, <2>2 DEF Settled, GroupsTidy, Exists
  <2>5. CsvMirrorsMembers'
    BY <2>1 DEF CsvMirrorsMembers, Settled, GroupsTidy, Exists, NameOf
  <2>6. GroupsTidy'
    BY <2>1, <2>4, <2>5 DEF Settled, GroupsTidy, Exists, Enabled
  <2>7. QED
    BY <2>1, <2>3, <2>6, PartsStill DEF Settled
<1>3. CASE UndoChild(a)
  <2>1. PICK c \in GroupIds : c = work[a].other
    BY <1>1, <1>3 DEF UndoChild, At, Fits
  <2>2. /\ UNCHANGED <<nested, members, default, lastIds, channels, endpoints, creds, mains, granted, mainOf>>
        /\ groups' = [groups EXCEPT ![c] = NoGroup] /\ Done(a)
    BY <1>3, <2>1 DEF UndoChild
  <2>3. Unused(c)
    BY <1>1, <1>3, <2>1 DEF UndoChild, At, AsRead
  <2>4. \A g \in GroupIds : g # c =>
          (Exists(g)' <=> Exists(g)) /\ NameOf(g)' = NameOf(g) /\ (Enabled(g)' <=> Enabled(g))
    BY <1>1, <2>2 DEF Exists, NameOf, Enabled
  <2>5. ASSUME NEW d \in ChannelIds, channels'[d].live PROVE Column(d)'
    <3>1. Column(d)
      BY <2>2, <2>5, MirrorsByName DEF Settled, GroupsTidy
    <3>2. \A g \in GroupIds : <<g, d>> \in members => g # c
      BY <2>3 DEF Unused
    <3>3. QED
      BY <2>2, <2>4, <3>1, <3>2 DEF Column
  <2>6. CsvMirrorsMembers'
    BY <2>5, MirrorsByName
  <2>7. \A e \in nested' : Exists(e[1])' /\ Exists(e[2])'
    BY <1>1, <2>2, <2>3, <2>4 DEF Settled, GroupsTidy, Unused
  <2>8. \A m \in members' : Exists(m[1])'
    BY <1>1, <2>2, <2>3, <2>4 DEF Settled, GroupsTidy, Unused
  <2>9. default' # 0 => Enabled(default)'
    BY <2>2, <2>3, <2>4 DEF Settled, GroupsTidy, Unused, Enabled, Exists
  <2>10. GroupsTidy'
    BY <2>6, <2>7, <2>8, <2>9 DEF GroupsTidy
  <2>11. QED
    BY <1>1, <2>2, <2>10, PartsStill, DoneReads DEF Settled
<1>4. QED
  BY <1>2, <1>3, <1>5 DEF Nesting

\* What stays of the channels' parts when no channel comes or goes.
LEMMA LiveStill ==
  ASSUME NEW a \in Clients, Settled(a), UNCHANGED <<endpoints, creds>>, lastIds'.channel = lastIds.channel,
         \A c \in ChannelIds : channels'[c].live = channels[c].live, endpoints \subseteq ChannelIds,
         \A m \in members' : m \in members \/ m[2] <= lastIds.channel
  PROVE  KeysTidy' /\ Given'
BY DEF Settled, KeysTidy, Given

\* The groups column of a channel is written anew from its memberships.
LEMMA SyncSettles ==
  ASSUME RowsTyped, GroupsTidy, NEW c \in ChannelIds, UNCHANGED <<groups, nested, default>>,
         \A g \in GroupIds, d \in ChannelIds : d # c => (<<g, d>> \in members' <=> <<g, d>> \in members),
         \A m \in members' : Exists(m[1]), channels' = Synced(c, members')
  PROVE  GroupsTidy' /\ \A d \in ChannelIds : channels'[d].live = channels[d].live
<1>1. channels \in [ChannelIds -> ChannelRows]
  BY DEF RowsTyped, ChannelsTyped
<1>2. \A g : (Exists(g)' <=> Exists(g)) /\ (Enabled(g)' <=> Enabled(g)) /\ NameOf(g)' = NameOf(g)
  BY DEF Exists, Enabled, NameOf
<1> DEFINE ns == {NameOf(g) : g \in {h \in GroupIds : Exists(h) /\ <<h, c>> \in members'}}
<1>3. \A n : n \in ns <=> \E g \in GroupIds : Exists(g) /\ <<g, c>> \in members' /\ NameOf(g) = n
  OBVIOUS
<1>4. channels' = IF channels[c].live THEN [channels EXCEPT ![c] = [channels[c] EXCEPT !.csv = ns]]
                  ELSE channels
  BY <1>1 DEF Synced
<1> HIDE DEF ns
<1>5. /\ [channels[c] EXCEPT !.csv = ns].csv = ns
      /\ [channels[c] EXCEPT !.csv = ns].live = channels[c].live
  BY <1>1 DEF ChannelRows
<1>6. /\ \A d \in ChannelIds : channels'[d].live = channels[d].live
      /\ \A d \in ChannelIds : d # c => channels'[d] = channels[d]
      /\ channels[c].live => channels'[c].csv = ns
  BY <1>1, <1>4, <1>5
<1>7. ASSUME NEW d \in ChannelIds, channels'[d].live PROVE Column(d)'
  <2>1. CASE d = c
    BY <1>2, <1>3, <1>6, <1>7, <2>1 DEF Column
  <2>2. CASE d # c
    <3>1. Column(d)
      BY <1>6, <1>7, MirrorsByName DEF GroupsTidy
    <3>2. QED
      BY <1>2, <1>6, <2>2, <3>1 DEF Column
  <2>3. QED
    BY <2>1, <2>2
<1>8. CsvMirrorsMembers'
  BY <1>7, MirrorsByName
<1>9. QED
  BY <1>2, <1>6, <1>8 DEF GroupsTidy

LEMMA MembersSettle ==
  ASSUME RowsTyped, NEW a \in Clients, Settled(a),
         WriteMember(a) \/ \E g \in GroupIds, c \in ChannelIds : RemoveChannelMember(a, g, c)
  PROVE  Settled(a)'
<1> USE DEF groupTables, others, channelTables, grants, keys
<1>1. /\ work[a] \in Work /\ Fits(work[a]) /\ AsRead(work[a]) /\ WorkTyped
      /\ members \subseteq GroupIds \X ChannelIds /\ endpoints \subseteq ChannelIds
  BY DEF RowsTyped, WorkTyped, Settled, ChannelsTyped
<1>2. UNCHANGED <<groups, nested, default, lastIds, endpoints, creds, mains, granted, mainOf>>
  BY DEF WriteMember, RemoveChannelMember
<1>3. CASE WriteMember(a)
  <2>1. PICK g \in GroupIds, c \in ChannelIds : g = work[a].group /\ c = work[a].channel
    BY <1>1, <1>3 DEF WriteMember, At, Fits
  <2>2. members' = members \cup {<<g, c>>} /\ channels' = Synced(c, members') /\ Done(a)
    BY <1>3, <2>1 DEF WriteMember
  <2>3. Exists(g) /\ channels[c].live
    BY <1>1, <1>3, <2>1 DEF WriteMember, At, AsRead
  <2>4. \A m \in members' : Exists(m[1])
    BY <2>2, <2>3 DEF Settled, GroupsTidy
  <2>5. GroupsTidy' /\ \A d \in ChannelIds : channels'[d].live = channels[d].live
    BY <1>2, <2>2, <2>4, SyncSettles DEF Settled
  <2>6. \A m \in members' : m \in members \/ m[2] <= lastIds.channel
    BY <2>2, <2>3 DEF Settled, Given
  <2>7. KeysTidy' /\ Given'
    BY <1>1, <1>2, <2>5, <2>6, LiveStill
  <2>8. QED
    BY <1>1, <1>2, <2>2, <2>5, <2>7, DoneReads, PartsStill DEF Settled
<1>4. ASSUME NEW g \in GroupIds, NEW c \in ChannelIds, RemoveChannelMember(a, g, c) PROVE Settled(a)'
  <2>1. members' = members \ {<<g, c>>} /\ channels' = Synced(c, members') /\ work' = work /\ Free(a)
    BY <1>4 DEF RemoveChannelMember, RemoveChannelGroupMember
  <2>2. \A m \in members' : Exists(m[1])
    BY <2>1 DEF Settled, GroupsTidy
  <2>3. GroupsTidy' /\ \A d \in ChannelIds : channels'[d].live = channels[d].live
    BY <1>2, <2>1, <2>2, SyncSettles DEF Settled
  <2>4. KeysTidy' /\ Given'
    BY <1>1, <1>2, <2>1, <2>3, LiveStill
  <2>5. AsRead(work[a])'
    BY <2>1, NothingRead DEF Free, AloneOps
  <2>6. QED
    BY <1>2, <2>3, <2>4, <2>5, PartsStill DEF Settled
<1>5. QED
  BY <1>3, <1>4

LEMMA RemoveGroupSettles ==
  ASSUME RowsTyped, NEW a \in Clients, Settled(a), NEW p \in GroupIds, NEW c \in GroupIds,
         RemoveGroupMember(a, p, c)
  PROVE  Settled(a)'
<1>1. /\ UNCHANGED <<groups, members, default, lastIds, channels, endpoints, creds, mains, granted, mainOf, work>>
      /\ nested' \subseteq nested /\ Free(a)
  BY DEF RemoveGroupMember, RemoveGroupRow, others, channelTables, grants
<1>2. AsRead(work[a])'
  BY <1>1, NothingRead DEF Free, AloneOps
<1>3. CsvMirrorsMembers'
  BY <1>1 DEF CsvMirrorsMembers, Settled, GroupsTidy, Exists, NameOf
<1>4. GroupsTidy'
  BY <1>1, <1>3 DEF Settled, GroupsTidy, Exists, Enabled
<1>5. QED
  BY <1>1, <1>2, <1>4, PartsStill DEF Settled

LEMMA WriteDeleteSettles ==
  ASSUME HInv, NEW a \in Clients, Settled(a), WriteDelete(a)
  PROVE  Settled(a)'
<1> USE DEF groupTables, others, channelTables, grants, keys
<1>1. /\ work[a] \in Work /\ AsRead(work[a]) /\ WorkTyped /\ Unique
      /\ groups \in [GroupIds -> GroupRows] /\ channels \in [ChannelIds -> ChannelRows]
      /\ members \subseteq GroupIds \X ChannelIds /\ nested \subseteq GroupIds \X GroupIds
      /\ endpoints \subseteq ChannelIds /\ GroupsTidy
  BY DEF HInv, RowsTyped, WorkTyped, Settled, GroupsTyped, ChannelsTyped
<1>2. PICK g \in GroupIds, n \in Names \cup {None} :
        g = work[a].group /\ n = work[a].name /\ Exists(g) /\ n = NameOf(g)
  BY <1>1 DEF WriteDelete, At, AsRead, Exists, NameOf, GroupRows
<1>3. /\ groups' = [groups EXCEPT ![g] = NoGroup]
      /\ nested' = {e \in nested : g \notin {e[1], e[2]}}
      /\ members' = {m \in members : m[1] # g}
      /\ channels' = CsvWithout(n)
      /\ UNCHANGED <<lastIds, endpoints, creds, mains, granted, mainOf>> /\ Done(a)
  BY <1>2 DEF WriteDelete, DeleteGroupRows
<1>4. default' = IF default = g THEN 0 ELSE default
  BY <1>1, <1>2 DEF WriteDelete, At, AsRead
<1>5. \A h \in GroupIds : h # g =>
        (Exists(h)' <=> Exists(h)) /\ NameOf(h)' = NameOf(h) /\ (Enabled(h)' <=> Enabled(h))
  BY <1>1, <1>3 DEF Exists, NameOf, Enabled
<1>6. ~Exists(g)'
  BY <1>1, <1>3 DEF Exists, NoGroup
<1>7. ASSUME NEW c \in ChannelIds
      PROVE  /\ channels'[c].live = channels[c].live
             /\ channels'[c].csv = IF n \in channels[c].csv THEN (channels[c].csv \ {n}) \cap KnownNames
                                   ELSE channels[c].csv
  <2>1. /\ [channels[c] EXCEPT !.csv = (@ \ {n}) \cap KnownNames].live = channels[c].live
        /\ [channels[c] EXCEPT !.csv = (@ \ {n}) \cap KnownNames].csv = (channels[c].csv \ {n}) \cap KnownNames
    BY <1>1 DEF ChannelRows
  <2>2. QED
    BY <1>3, <2>1 DEF CsvWithout
<1>8. ASSUME NEW c \in ChannelIds, channels'[c].live PROVE Column(c)'
  <2>1. Column(c)
    BY <1>7, <1>8, <1>1, MirrorsByName DEF GroupsTidy
  <2>2. \A x : x \in channels[c].csv => x \in KnownNames
    BY <2>1 DEF Column, KnownNames
  <2>3. \A x : x \in channels'[c].csv <=> x \in channels[c].csv /\ x # n
    BY <1>7, <2>2
  <2>4. \A h \in GroupIds : Exists(h) => (NameOf(h) = n <=> h = g)
    BY <1>1, <1>2 DEF Unique
  <2>5. \A h \in GroupIds : <<h, c>> \in members' <=> <<h, c>> \in members /\ h # g
    BY <1>3
  <2>6. QED
    BY <1>5, <1>6, <2>1, <2>3, <2>4, <2>5 DEF Column
<1>9. CsvMirrorsMembers'
  BY <1>8, MirrorsByName
<1>10. \A e \in nested' : Exists(e[1])' /\ Exists(e[2])'
  BY <1>1, <1>3, <1>5 DEF GroupsTidy
<1>11. \A m \in members' : Exists(m[1])'
  BY <1>1, <1>3, <1>5 DEF GroupsTidy
<1>12. default' # 0 => Enabled(default)'
  BY <1>1, <1>4, <1>5 DEF GroupsTidy, Enabled, Exists
<1>13. GroupsTidy'
  BY <1>9, <1>10, <1>11, <1>12 DEF GroupsTidy
<1>14. KeysTidy' /\ Given'
  BY <1>1, <1>3, <1>7, LiveStill
<1>15. QED
  BY <1>1, <1>3, <1>13, <1>14, DoneReads, PartsStill DEF Settled

LEMMA WriteUpdateSettles ==
  ASSUME HInv, NEW a \in Clients, Settled(a), WriteUpdate(a)
  PROVE  Settled(a)'
<1> USE DEF groupTables, others, channelTables, grants, keys
<1>1. /\ work[a] \in Work /\ AsRead(work[a]) /\ WorkTyped /\ Unique
      /\ groups \in [GroupIds -> GroupRows] /\ channels \in [ChannelIds -> ChannelRows]
      /\ members \subseteq GroupIds \X ChannelIds /\ nested \subseteq GroupIds \X GroupIds
      /\ endpoints \subseteq ChannelIds /\ GroupsTidy
  BY DEF HInv, RowsTyped, WorkTyped, Settled, GroupsTyped, ChannelsTyped
<1>2. PICK g \in GroupIds \cup {0}, on \in BOOLEAN, new \in Names \cup Mains \cup {None}, f \in BOOLEAN :
        /\ g = work[a].group /\ on = work[a].on /\ new = work[a].name /\ f = work[a].flag
        /\ f <=> ~on /\ default = g
  BY <1>1 DEF WriteUpdate, At, AsRead, Work
<1>3. UNCHANGED <<nested, members, lastIds, endpoints, creds, mains, mainOf>> /\ Done(a)
  BY DEF WriteUpdate
<1>4. default' = 0 \/ (default' = default /\ (default = g => on)) \/ (default' = default /\ groups' = groups)
  BY <1>2 DEF WriteUpdate
<1>5. CASE groups' = groups /\ UNCHANGED <<channels, granted>>
  <2>1. CsvMirrorsMembers'
    BY <1>1, <1>3, <1>5 DEF CsvMirrorsMembers, GroupsTidy, Exists, NameOf
  <2>2. GroupsTidy'
    BY <1>1, <1>3, <1>4, <1>5, <2>1 DEF GroupsTidy, Exists, Enabled
  <2>3. QED
    BY <1>1, <1>3, <1>5, <2>2, DoneReads, PartsStill DEF Settled
<1>6. CASE Exists(g) /\ groups' = [groups EXCEPT ![g].on = on] /\ UNCHANGED <<channels, granted>>
  <2>1. \A h \in GroupIds : /\ groups'[h].name = groups[h].name
                            /\ groups'[h].on = IF h = g THEN on ELSE groups[h].on
    BY <1>1, <1>6 DEF GroupRows
  <2>2. \A h : (Exists(h)' <=> Exists(h)) /\ (h \in GroupIds => NameOf(h)' = NameOf(h))
    BY <2>1 DEF Exists, NameOf
  <2>3. CsvMirrorsMembers'
    <3>1. ASSUME NEW c \in ChannelIds, channels'[c].live PROVE Column(c)'
      <4>1. Column(c)
        BY <1>1, <1>6, <3>1, MirrorsByName DEF GroupsTidy
      <4>2. QED
        BY <1>3, <1>6, <2>2, <4>1 DEF Column
    <3>2. QED
      BY <3>1, MirrorsByName
  <2>4. default' # 0 => Enabled(default)'
    <3>1. CASE default' = default /\ (default = g => on)
      BY <1>1, <2>1, <2>2, <3>1 DEF GroupsTidy, Enabled, Exists
    <3>2. CASE default' = default /\ groups' = groups
      BY <1>1, <3>2 DEF GroupsTidy, Enabled, Exists
    <3>3. QED
      BY <1>4, <3>1, <3>2
  <2>5. GroupsTidy'
    BY <1>1, <1>3, <2>2, <2>3, <2>4 DEF GroupsTidy
  <2>6. QED
    BY <1>1, <1>3, <1>6, <2>5, DoneReads, PartsStill DEF Settled
<1>7. CASE new # None /\ RenameAllowed(g, new) /\ RenameEverywhere(g, new, on)
  <2>1. g \in GroupIds /\ Exists(g) /\ \A h \in GroupIds : NameOf(h) = new => h = g
    BY <1>7 DEF RenameAllowed, Exists, Named, NameOf
  <2>2. PICK old : old = NameOf(g)
    OBVIOUS
  <2>3. /\ groups' = [groups EXCEPT ![g] = [name |-> new, on |-> on]]
        /\ channels' = [c \in ChannelIds |-> [channels[c] EXCEPT !.csv = Renamed(@, old, new)]]
        /\ granted' = [m \in Mains |-> Renamed(granted[m], old, new)]
    BY <1>7, <2>2 DEF RenameEverywhere
  <2>4. \A h \in GroupIds : groups'[h] = IF h = g THEN [name |-> new, on |-> on] ELSE groups[h]
    BY <1>1, <2>1, <2>3
  <2>5. /\ \A h \in GroupIds : h # g => NameOf(h)' = NameOf(h)
        /\ \A h \in GroupIds : Exists(h)' <=> Exists(h)
        /\ NameOf(g)' = new
    BY <1>7, <2>1, <2>4 DEF Exists, NameOf
  <2>6. ASSUME NEW c \in ChannelIds
        PROVE  channels'[c].live = channels[c].live /\ channels'[c].csv = Renamed(channels[c].csv, old, new)
    <3>1. channels'[c] = [channels[c] EXCEPT !.csv = Renamed(channels[c].csv, old, new)]
      BY <2>3
    <3>2. QED
      BY <1>1, <3>1 DEF ChannelRows
  <2>7. ASSUME NEW c \in ChannelIds, channels'[c].live PROVE Column(c)'
    <3>1. Column(c)
      BY <1>1, <2>6, <2>7, MirrorsByName DEF GroupsTidy
    <3>2. \A h \in GroupIds : Exists(h) => (NameOf(h) = old <=> h = g)
      BY <1>1, <2>1, <2>2 DEF Unique
    <3>3. CASE <<g, c>> \in members
      <4>1. old \in channels[c].csv
        BY <2>1, <2>2, <3>1, <3>3 DEF Column
      <4>2. \A x : x \in channels'[c].csv <=> (x \in channels[c].csv /\ x # old) \/ x = new
        BY <2>6, <4>1 DEF Renamed
      <4>3. QED
        BY <1>3, <2>1, <2>5, <3>1, <3>2, <3>3, <4>2 DEF Column
    <3>4. CASE <<g, c>> \notin members
      <4>1. old \notin channels[c].csv
        BY <3>1, <3>2, <3>4 DEF Column
      <4>2. channels'[c].csv = channels[c].csv
        BY <2>6, <4>1 DEF Renamed
      <4>3. QED
        BY <1>3, <2>5, <3>1, <3>4, <4>2 DEF Column
    <3>5. QED
      BY <3>3, <3>4
  <2>8. CsvMirrorsMembers'
    BY <2>7, MirrorsByName
  <2>9. default' # 0 => Enabled(default)'
    <3>1. CASE default' = default /\ (default = g => on)
      BY <1>1, <2>4, <2>5, <3>1 DEF GroupsTidy, Enabled, Exists
    <3>2. CASE default' = default /\ groups' = groups
      BY <1>1, <3>2 DEF GroupsTidy, Enabled, Exists
    <3>3. QED
      BY <1>4, <3>1, <3>2
  <2>10. GroupsTidy'
    BY <1>1, <1>3, <2>5, <2>8, <2>9 DEF GroupsTidy, Exists
  <2>11. MainsTidy'
    <3>1. \A m \in Mains : granted'[m] # {} => granted[m] # {}
      BY <2>3 DEF Renamed
    <3>2. QED
      BY <1>3, <3>1 DEF Settled, MainsTidy
  <2>12. KeysTidy' /\ Given'
    BY <1>1, <1>3, <2>6, LiveStill
  <2>13. QED
    BY <1>1, <1>3, <2>10, <2>11, <2>12, DoneReads DEF Settled
<1>8. QED
  BY <1>2, <1>5, <1>6, <1>7 DEF WriteUpdate

\* The handlers of groups.
LEMMA GroupsSettle ==
  ASSUME HInv, NEW a \in Clients, Settled(a), GroupsBegin(a) \/ GroupsGoOn(a)
  PROVE  Settled(a)'
<1>1. RowsTyped
  BY DEF HInv
<1>2. CASE GroupsBegin(a)
  BY <1>1, <1>2, GroupsReadsSettle, CreatesSettle, MembersSettle, RemoveGroupSettles DEF GroupsBegin
<1>3. CASE GroupsGoOn(a)
  BY <1>1, <1>3, GroupsReadsSettle, DefaultSettles, NestingSettles, MembersSettle, WriteUpdateSettles,
     WriteDeleteSettles DEF GroupsGoOn, Nesting
<1>4. QED
  BY <1>2, <1>3

ChannelOps == {"setgroups", "endpoint", "look", "key", "invalidate"}
\* Where a channel's request goes, its endpoint is there or still to come.
LEMMA GoesReads ==
  ASSUME WorkTyped, NEW a \in Clients, NEW w \in Work, NEW todo, Goes(a, w, todo),
         todo \in SUBSET Todos,
         todo # {} => channels'[w.channel].live,
         todo # {} => "endpoint" \in todo \/ "look" \in todo \/ w.channel \in endpoints'
  PROVE  AsRead(work[a])'
<1> DEFINE v == [w EXCEPT !.todo = todo]
<1>2. v \in Work /\ v.channel = w.channel
  BY TodoFits, TodoSame
<1>3. v.todo = todo
  BY DEF Work
<1>4. Waits(a, NextOp(todo), v)
  BY DEF Goes
<1> HIDE DEF v
<1>5. work'[a].op = NextOp(todo) /\ work'[a].todo = todo /\ work'[a].channel = w.channel
  BY <1>2, <1>3, <1>4, WaitsFields
<1>6. CASE todo = {}
  BY <1>5, <1>6, NothingRead DEF NextOp, AloneOps
<1>7. CASE todo # {}
  <2>1. /\ NextOp(todo) \in ChannelOps
        /\ NextOp(todo) = "key" => "endpoint" \notin todo /\ "look" \notin todo
    BY DEF NextOp, ChannelOps
  <2>2. PICK op \in ChannelOps : op = NextOp(todo)
    BY <2>1
  <2>3. channels'[w.channel].live
    BY <1>7
  <2>4. "endpoint" \in todo \/ "look" \in todo \/ w.channel \in endpoints'
    BY <1>7
  <2>5. QED
    BY <1>5, <2>1, <2>2, <2>3, <2>4 DEF AsRead, Ready, ChannelOps
<1>8. QED
  BY <1>6, <1>7

\* Steps that touch no row but those of endpoints and keys.
LEMMA RowsSettle ==
  ASSUME NEW a \in Clients, Settled(a), AsRead(work[a])', KeysTidy',
         UNCHANGED <<groups, nested, members, default, channels, mains, granted, mainOf>>,
         lastIds'.channel = lastIds.channel
  PROVE  Settled(a)'
BY PartsStill DEF Settled

LEMMA CreateChannelSettles ==
  ASSUME HInv, NEW a \in Clients, Settled(a),
         NEW kind \in Kinds, NEW ns \in SUBSET Names, NEW key \in BOOLEAN, CreateChannel(a, kind, ns, key)
  PROVE  Settled(a)'
<1>1. /\ WorkTyped /\ IdsTyped /\ GroupsTidy /\ KeysTidy /\ Given
      /\ channels \in [ChannelIds -> ChannelRows] /\ members \subseteq GroupIds \X ChannelIds
      /\ endpoints \subseteq ChannelIds
  BY DEF HInv, RowsTyped, ChannelsTyped, Settled
<1>2. PICK c \in ChannelIds : c = lastIds.channel + 1
  BY <1>1, IdsAreNumbers DEF CreateChannel, InsertChannel
<1>3. lastIds.channel \in Nat /\ c \in Nat /\ \A d \in ChannelIds : d \in Nat
  BY <1>1, IdsAssumption DEF IdsTyped, ChannelIds
<1>4. /\ ns \subseteq KnownNames /\ lastIds' = [lastIds EXCEPT !.channel = c]
      /\ channels' = [channels EXCEPT ![c] = [live |-> TRUE, kind |-> kind, on |-> TRUE, csv |-> ns]]
      /\ members' = members \cup MembershipsIn(c, ns)
  BY <1>2 DEF CreateChannel, InsertChannel
<1>5. UNCHANGED <<groups, nested, default, endpoints, creds, mains, granted, mainOf>>
  BY DEF CreateChannel, beyond, grants
<1>6. lastIds'.channel = c
  BY <1>1, <1>4 DEF IdsTyped
<1>7. /\ \A d \in ChannelIds : d # c => channels'[d] = channels[d]
      /\ channels'[c].live /\ channels'[c].csv = ns
  BY <1>1, <1>4
<1>8. \A g : (Exists(g)' <=> Exists(g)) /\ (Enabled(g)' <=> Enabled(g)) /\ NameOf(g)' = NameOf(g)
  BY <1>5 DEF Exists, Enabled, NameOf
<1>9. \A m \in members : m[2] # c
  BY <1>1, <1>2, <1>3 DEF Given
<1>10. \A g \in GroupIds, d \in ChannelIds :
        <<g, d>> \in members' <=> <<g, d>> \in members \/ (d = c /\ Exists(g) /\ NameOf(g) \in ns)
  BY <1>4 DEF MembershipsIn
<1>11. ASSUME NEW d \in ChannelIds, channels'[d].live PROVE Column(d)'
  <2>1. CASE d = c
    <3>1. \A n : n \in ns => \E g \in GroupIds : Exists(g) /\ NameOf(g) = n
      BY <1>4 DEF KnownNames
    <3>2. \A g \in GroupIds : <<g, c>> \in members' <=> Exists(g) /\ NameOf(g) \in ns
      BY <1>9, <1>10
    <3>3. QED
      BY <1>7, <1>8, <2>1, <3>1, <3>2 DEF Column
  <2>2. CASE d # c
    <3>1. Column(d)
      BY <1>1, <1>7, <1>11, <2>2, MirrorsByName DEF GroupsTidy
    <3>2. QED
      BY <1>7, <1>8, <1>10, <2>2, <3>1 DEF Column
  <2>3. QED
    BY <2>1, <2>2
<1>12. CsvMirrorsMembers'
  BY <1>11, MirrorsByName
<1>13. \A m \in members' : Exists(m[1])' /\ m[2] <= c
  <2>1. \A m \in members : Exists(m[1])' /\ m[2] <= c
    <3>1. ASSUME NEW m \in members PROVE m[2] \in Nat /\ m[2] <= lastIds.channel /\ Exists(m[1])
      BY <1>1, <1>3 DEF GroupsTidy, Given
    <3>2. QED
      BY <1>2, <1>3, <1>8, <3>1
  <2>2. \A m \in MembershipsIn(c, ns) : Exists(m[1])' /\ m[2] <= c
    BY <1>3, <1>8 DEF MembershipsIn
  <2>3. QED
    BY <1>4, <2>1, <2>2
<1>14. GroupsTidy'
  BY <1>1, <1>5, <1>8, <1>12, <1>13 DEF GroupsTidy
<1>15. KeysTidy'
  BY <1>1, <1>5, <1>7 DEF KeysTidy
<1>16. Given'
  <2>1. \A d \in ChannelIds : channels[d].live => d <= lastIds.channel
    BY <1>1 DEF Given
  <2>2. \A d \in ChannelIds : d <= lastIds.channel => d <= c
    BY <1>2, <1>3
  <2>3. c <= c
    BY <1>3
  <2>4. ASSUME NEW d \in ChannelIds, channels'[d].live PROVE d <= c
    <3>1. CASE d = c
      BY <2>3, <3>1
    <3>2. CASE d # c
      <4>1. channels[d].live
        BY <1>7, <2>4, <3>2
      <4>2. QED
        BY <2>1, <2>2, <4>1
    <3>3. QED
      BY <3>1, <3>2
  <2>5. QED
    BY <1>6, <1>13, <2>4 DEF Given
<1>17. AsRead(work[a])'
  <2> DEFINE w == [Idle EXCEPT !.channel = c, !.flag = TRUE]
             todo == {"endpoint"} \cup (IF key THEN {"key"} ELSE {})
  <2>1. w \in Work /\ w.channel = c
    BY NoCookieFits DEF Idle, Work
  <2>2. Goes(a, w, todo)
    BY <1>2 DEF CreateChannel
  <2>3. todo \in SUBSET Todos /\ "endpoint" \in todo
    BY DEF Todos
  <2> HIDE DEF w, todo
  <2>4. QED
    BY <1>1, <1>7, <2>1, <2>2, <2>3, GoesReads
<1>18. QED
  BY <1>5, <1>14, <1>15, <1>16, <1>17, PartsStill DEF Settled

\* A channel goes, its endpoint and the keys under it.
LEMMA DeleteRowsSettle ==
  ASSUME RowsTyped, NEW a \in Clients, Settled(a), NEW c \in ChannelIds, DeleteChannelRows(c),
         UNCHANGED <<groups, nested, members, default, lastIds, mains, granted, mainOf>>, AsRead(work[a])'
  PROVE  Settled(a)'
<1>1. channels \in [ChannelIds -> ChannelRows] /\ endpoints \subseteq ChannelIds
  BY DEF RowsTyped, ChannelsTyped
<1>2. /\ \A d \in ChannelIds : d # c => channels'[d] = channels[d]
      /\ ~channels'[c].live
      /\ endpoints' = endpoints \ {c} /\ creds' = {k \in creds : k.channel # c}
  BY <1>1 DEF DeleteChannelRows, NoChannel
<1>3. ASSUME NEW d \in ChannelIds, channels'[d].live PROVE Column(d)'
  <2>1. Column(d)
    BY <1>2, <1>3, MirrorsByName DEF Settled, GroupsTidy
  <2>2. QED
    BY <1>2, <1>3, <2>1 DEF Column, Exists, NameOf
<1>4. CsvMirrorsMembers'
  BY <1>3, MirrorsByName
<1>5. GroupsTidy'
  BY <1>4 DEF Settled, GroupsTidy, Exists, Enabled
<1>6. KeysTidy'
  BY <1>1, <1>2 DEF Settled, KeysTidy
<1>7. Given'
  BY <1>2 DEF Settled, Given
<1>8. QED
  BY <1>5, <1>6, <1>7, PartsStill DEF Settled

LEMMA ChannelsBeginSettle ==
  ASSUME HInv, NEW a \in Clients, Settled(a), ChannelsBegin(a)
  PROVE  Settled(a)'
<1> USE DEF beyond, grants, channelTables
<1>1. WorkTyped /\ RowsTyped
  BY DEF HInv, RowsTyped
<1>2. ASSUME NEW c \in ChannelIds, NEW on \in BOOLEAN, NEW ns \in SUBSET Names,
             NEW todo \in SUBSET {"groups", "endpoint", "key"}, ReadChannel(a, c, on, ns, todo)
      PROVE  Settled(a)'
  <2> DEFINE t == IF "endpoint" \in todo THEN todo ELSE todo \cup {"look"}
  <2>1. t \in SUBSET Todos /\ ("endpoint" \in t \/ "look" \in t)
    BY DEF Todos
  <2>a. ReadChannel(a, c, on, ns, todo)
            => Waits(a, "basics", [Idle EXCEPT !.channel = c, !.on = on, !.names = ns, !.todo = t])
    BY DEF ReadChannel
  <2> HIDE DEF t
  <2> DEFINE w == [Idle EXCEPT !.channel = c, !.on = on, !.names = ns, !.todo = t]
  <2>2. Waits(a, "basics", w)
    BY <1>2, <2>a
  <2>3. w \in Work /\ w.channel = c /\ w.todo = t
    BY <2>1, NoCookieFits DEF Idle, Work, Todos
  <2> HIDE DEF w
  <2>4. work'[a].op = "basics" /\ work'[a].channel = c /\ work'[a].todo = t
    BY <1>1, <2>2, <2>3, WaitsFields
  <2>5. AsRead(work[a])'
    BY <1>2, <2>1, <2>4 DEF AsRead, Ready, ReadChannel, Live
  <2>6. QED
    BY <1>2, <2>5, ReadsSettle DEF ReadChannel
<1>3. ASSUME NEW c \in ChannelIds, DeleteChannel(a, c) PROVE Settled(a)'
  <2>1. AsRead(work[a])'
    BY <1>3, NothingRead DEF DeleteChannel, Free, AloneOps
  <2>2. QED
    BY <1>1, <1>3, <2>1, DeleteRowsSettle DEF DeleteChannel
<1>4. ASSUME NEW c \in ChannelIds, ReadEndpoint(a, c) PROVE Settled(a)'
  <2> DEFINE w == [Idle EXCEPT !.channel = c]
  <2>1. w \in Work /\ w.channel = c
    BY NoCookieFits DEF Idle, Work
  <2>2. Goes(a, w, {"key"}) /\ channels'[c].live /\ c \in endpoints'
    BY <1>4 DEF ReadEndpoint, Live, HasEndpoint
  <2> HIDE DEF w
  <2>3. AsRead(work[a])'
    BY <1>1, <2>1, <2>2, GoesReads DEF Todos
  <2>4. QED
    BY <1>4, <2>3, ReadsSettle DEF ReadEndpoint
<1>5. ASSUME NEW c \in ChannelIds, SaveSettings(a, c) PROVE Settled(a)'
  <2>1. AsRead(work[a])'
    BY <1>5, NothingRead DEF SaveSettings, Free, AloneOps
  <2>2. QED
    BY <1>5, <2>1, ReadsSettle DEF SaveSettings
<1>6. ASSUME NEW c \in ChannelIds, NEW k \in creds, DeleteCred(a, c, k) PROVE Settled(a)'
  <2>1. AsRead(work[a])'
    BY <1>6, NothingRead DEF DeleteCred, Free, AloneOps
  <2>2. KeysTidy'
    BY <1>6 DEF DeleteCred, Settled, KeysTidy
  <2>3. QED
    BY <1>6, <2>1, <2>2, RowsSettle DEF DeleteCred
<1>7. QED
  BY <1>2, <1>3, <1>4, <1>5, <1>6, CreateChannelSettles DEF ChannelsBegin

LEMMA SetGroupsSettles ==
  ASSUME HInv, NEW a \in Clients, Settled(a), SetGroups(a)
  PROVE  Settled(a)'
<1> USE DEF beyond, grants
<1>1. /\ WorkTyped /\ GroupsTidy /\ work[a] \in Work /\ Fits(work[a]) /\ AsRead(work[a]) /\ IdsTyped
      /\ channels \in [ChannelIds -> ChannelRows] /\ members \subseteq GroupIds \X ChannelIds
      /\ endpoints \subseteq ChannelIds
  BY DEF HInv, RowsTyped, ChannelsTyped, WorkTyped, Settled
<1>2. PICK c \in ChannelIds, ns \in SUBSET Names : c = work[a].channel /\ ns = work[a].names
  BY <1>1 DEF SetGroups, At, Fits, Work
<1>3. UNCHANGED <<groups, nested, default, lastIds, endpoints, creds, mains, granted, mainOf>>
  BY DEF SetGroups
<1>4. CASE Done(a) /\ UNCHANGED <<members, channels>>
  BY <1>1, <1>3, <1>4, DoneReads, ReadsSettle
<1>5. CASE /\ Live(c) /\ ns \subseteq KnownNames /\ SetGroupsOf(c, ns)
           /\ Goes(a, work[a], work[a].todo \ {"groups"})
  <2>1. /\ members' = {m \in members : m[2] # c} \cup MembershipsIn(c, ns)
        /\ channels' = [channels EXCEPT ![c].csv = ns]
    BY <1>5 DEF SetGroupsOf
  <2>2. /\ \A d \in ChannelIds : channels'[d].live = channels[d].live
        /\ \A d \in ChannelIds : d # c => channels'[d] = channels[d]
        /\ channels'[c].csv = ns
    BY <1>1, <2>1 DEF ChannelRows
  <2>3. \A g : (Exists(g)' <=> Exists(g)) /\ (Enabled(g)' <=> Enabled(g)) /\ NameOf(g)' = NameOf(g)
    BY <1>3 DEF Exists, Enabled, NameOf
  <2>4. \A g \in GroupIds, d \in ChannelIds :
            <<g, d>> \in members' <=> IF d = c THEN Exists(g) /\ NameOf(g) \in ns ELSE <<g, d>> \in members
    BY <2>1 DEF MembershipsIn
  <2>5. ASSUME NEW d \in ChannelIds, channels'[d].live PROVE Column(d)'
    <3>1. CASE d = c
      <4>1. \A n : n \in ns => \E g \in GroupIds : Exists(g) /\ NameOf(g) = n
        BY <1>5 DEF KnownNames
      <4>2. QED
        BY <2>2, <2>3, <2>4, <3>1, <4>1 DEF Column
    <3>2. CASE d # c
      <4>1. Column(d)
        BY <1>1, <2>2, <2>5, MirrorsByName DEF GroupsTidy
      <4>2. QED
        BY <2>2, <2>3, <2>4, <3>2, <4>1 DEF Column
    <3>3. QED
      BY <3>1, <3>2
  <2>6. CsvMirrorsMembers'
    BY <2>5, MirrorsByName
  <2>7. \A m \in MembershipsIn(c, ns) : Exists(m[1]) /\ m[2] = c
    BY DEF MembershipsIn
  <2>8. \A m \in members' : Exists(m[1])' /\ (m \in members \/ m[2] <= lastIds.channel)
    <3>1. c <= lastIds.channel
      BY <1>5 DEF Settled, Given, Live
    <3>2. QED
      BY <1>1, <2>1, <2>3, <2>7, <3>1 DEF GroupsTidy
  <2>9. GroupsTidy'
    BY <1>1, <1>3, <2>3, <2>6, <2>8 DEF GroupsTidy
  <2>10. KeysTidy' /\ Given'
    BY <1>1, <1>3, <2>2, <2>8, LiveStill
  <2>11. AsRead(work[a])'
    <3>1. \/ "endpoint" \in work[a].todo \/ "look" \in work[a].todo \/ c \in endpoints
      BY <1>1, <1>2 DEF SetGroups, At, AsRead, Ready
    <3>2. PICK todo : todo = work[a].todo \ {"groups"}
      OBVIOUS
    <3>3. PICK w \in Work : w = work[a] /\ w.channel = c
      BY <1>1, <1>2
    <3>4. todo \in SUBSET Todos
      BY <1>1, <3>2 DEF Work, Todos
    <3>5. Goes(a, w, todo) /\ channels'[c].live
      BY <1>5, <2>2, <3>2, <3>3 DEF Live
    <3>6. "endpoint" \in todo \/ "look" \in todo \/ c \in endpoints'
      BY <1>3, <3>1, <3>2
    <3>7. QED
      BY <1>1, <3>3, <3>4, <3>5, <3>6, GoesReads
  <2>12. QED
    BY <1>3, <2>9, <2>10, <2>11, PartsStill DEF Settled
<1>6. QED
  BY <1>2, <1>4, <1>5 DEF SetGroups

LEMMA WriteBasicsSettles ==
  ASSUME HInv, NEW a \in Clients, Settled(a), WriteBasics(a)
  PROVE  Settled(a)'
<1> USE DEF beyond, grants
<1>1. /\ WorkTyped /\ GroupsTidy /\ work[a] \in Work /\ Fits(work[a]) /\ AsRead(work[a])
      /\ channels \in [ChannelIds -> ChannelRows] /\ endpoints \subseteq ChannelIds
  BY DEF HInv, RowsTyped, ChannelsTyped, WorkTyped, Settled
<1>2. PICK c \in ChannelIds, on \in BOOLEAN : c = work[a].channel /\ on = work[a].on
  BY <1>1 DEF WriteBasics, At, Fits, Work
<1>3. UNCHANGED <<groups, nested, members, default, lastIds, endpoints, creds, mains, granted, mainOf>>
  BY DEF WriteBasics
<1>4. CASE Done(a) /\ channels' = channels
  BY <1>1, <1>3, <1>4, DoneReads, ReadsSettle
<1>5. CASE Live(c) /\ channels' = [channels EXCEPT ![c].on = on] /\ Goes(a, work[a], work[a].todo)
  <2>1. \A d \in ChannelIds : channels'[d].live = channels[d].live /\ channels'[d].csv = channels[d].csv
    BY <1>1, <1>5 DEF ChannelRows
  <2>2. ASSUME NEW d \in ChannelIds, channels'[d].live PROVE Column(d)'
    <3>1. Column(d)
      BY <1>1, <2>1, <2>2, MirrorsByName DEF GroupsTidy
    <3>2. QED
      BY <1>3, <2>1, <3>1 DEF Column, Exists, NameOf
  <2>3. CsvMirrorsMembers'
    BY <2>2, MirrorsByName
  <2>4. GroupsTidy'
    BY <1>1, <1>3, <2>3 DEF GroupsTidy, Exists, Enabled
  <2>5. KeysTidy' /\ Given'
    BY <1>1, <1>3, <2>1, LiveStill
  <2>6. AsRead(work[a])'
    <3>1. "endpoint" \in work[a].todo \/ "look" \in work[a].todo \/ c \in endpoints
      BY <1>1, <1>2 DEF WriteBasics, At, AsRead, Ready
    <3>2. PICK w \in Work, todo \in SUBSET Todos : w = work[a] /\ w.channel = c /\ todo = w.todo
      BY <1>1, <1>2 DEF Work, Todos
    <3>3. Goes(a, w, todo) /\ channels'[c].live
      BY <1>5, <2>1, <3>2 DEF Live
    <3>4. QED
      BY <1>1, <1>3, <3>1, <3>2, <3>3, GoesReads
  <2>7. QED
    BY <1>3, <2>4, <2>5, <2>6, PartsStill DEF Settled
<1>6. QED
  BY <1>2, <1>4, <1>5 DEF WriteBasics

LEMMA EndpointSettles ==
  ASSUME HInv, NEW a \in Clients, Settled(a), SetEndpoint(a) \/ LookForEndpoint(a) \/ StoreKey(a)
  PROVE  Settled(a)'
<1> USE DEF beyond, grants, channelTables
<1>1. /\ WorkTyped /\ work[a] \in Work /\ Fits(work[a]) /\ AsRead(work[a]) /\ KeysTidy /\ IdsTyped
  BY DEF HInv, RowsTyped, WorkTyped, Settled
<1>2. PICK c \in ChannelIds, w \in Work : c = work[a].channel /\ w = work[a] /\ w.channel = c
  BY <1>1 DEF SetEndpoint, LookForEndpoint, StoreKey, At, Fits
<1>3. /\ UNCHANGED <<groups, nested, members, default, channels, mains, granted, mainOf>>
      /\ lastIds'.channel = lastIds.channel
  BY <1>1 DEF SetEndpoint, LookForEndpoint, StoreKey, InsertCred, IdsTyped
<1>4. channels[c].live /\ ("endpoint" \in w.todo \/ "look" \in w.todo \/ c \in endpoints)
  BY <1>1, <1>2 DEF SetEndpoint, LookForEndpoint, StoreKey, At, AsRead, Ready
<1>5. w.todo \in SUBSET Todos
  BY DEF Work, Todos
<1>6. CASE SetEndpoint(a)
  <2>1. endpoints' = endpoints \cup {c} /\ creds' = creds /\ Goes(a, w, w.todo \ {"endpoint"})
    BY <1>2, <1>6 DEF SetEndpoint
  <2>2. PICK todo \in SUBSET Todos : todo = w.todo \ {"endpoint"}
    BY <1>5
  <2>a. Goes(a, w, todo) /\ channels'[w.channel].live /\ w.channel \in endpoints'
    BY <1>2, <1>3, <1>4, <2>1, <2>2
  <2>3. AsRead(work[a])'
    BY <1>1, <2>a, GoesReads
  <2>4. KeysTidy'
    BY <1>1, <1>3, <1>4, <2>1 DEF KeysTidy
  <2>5. QED
    BY <1>3, <2>3, <2>4, RowsSettle
<1>7. CASE LookForEndpoint(a)
  <2>1. UNCHANGED <<endpoints, creds>>
    BY <1>7 DEF LookForEndpoint
  <2>2. PICK todo \in SUBSET Todos : todo = IF c \in endpoints THEN w.todo \ {"look"} ELSE {}
    BY <1>5
  <2>3. Goes(a, w, todo)
    BY <1>2, <1>7, <2>2 DEF LookForEndpoint, HasEndpoint
  <2>4. todo # {} => c \in endpoints'
    BY <2>1, <2>2
  <2>a. channels'[w.channel].live
    BY <1>2, <1>3, <1>4
  <2>5. AsRead(work[a])'
    BY <1>1, <1>2, <2>3, <2>4, <2>a, GoesReads
  <2>6. QED
    BY <1>3, <2>1, <2>5, PartsStill, RowsSettle DEF Settled
<1>8. CASE StoreKey(a)
  <2>1. c \in endpoints
    BY <1>1, <1>2, <1>8 DEF StoreKey, At, AsRead
  <2>2. \A k \in creds' : k \in creds \/ k.channel = c
    BY <1>2, <1>8 DEF StoreKey, InsertCred
  <2>3. endpoints' = endpoints /\ Goes(a, w, {})
    BY <1>2, <1>8 DEF StoreKey
  <2>4. AsRead(work[a])'
    BY <1>1, <1>2, <2>3, GoesReads
  <2>5. KeysTidy'
    BY <1>1, <1>3, <2>1, <2>2, <2>3 DEF KeysTidy
  <2>6. QED
    BY <1>3, <2>4, <2>5, RowsSettle
<1>9. QED
  BY <1>6, <1>7, <1>8

\* The handlers of channels.
LEMMA ChannelsSettle ==
  ASSUME HInv, NEW a \in Clients, Settled(a), ChannelsBegin(a) \/ ChannelsGoOn(a)
  PROVE  Settled(a)'
<1> USE DEF beyond, grants, channelTables
<1>1. /\ WorkTyped /\ RowsTyped /\ work[a] \in Work /\ Fits(work[a])
  BY DEF HInv, RowsTyped, WorkTyped
<1>2. CASE Invalidate(a) \/ GiveUp(a)
  BY <1>1, <1>2, DoneReads, ReadsSettle DEF Invalidate, GiveUp
<1>3. CASE KeyFails(a)
  <2>1. PICK c \in ChannelIds : c = work[a].channel
    BY <1>1, <1>3 DEF KeyFails, At, Fits
  <2>2. DeleteChannelRows(c) /\ Done(a)
        /\ UNCHANGED <<groups, nested, members, default, lastIds, mains, granted, mainOf>>
    BY <1>3, <2>1 DEF KeyFails
  <2>3. QED
    BY <1>1, <2>2, DoneReads, DeleteRowsSettle
<1>4. QED
  BY <1>2, <1>3, ChannelsBeginSettle, WriteBasicsSettles, SetGroupsSettles, EndpointSettles DEF ChannelsGoOn

\* Steps that touch no table but those of users and their main groups.
LEMMA MainsSettle ==
  ASSUME NEW a \in Clients, Settled(a), AsRead(work[a])', MainsTidy',
         UNCHANGED <<groups, nested, members, default, channels, endpoints, creds>>,
         lastIds'.channel = lastIds.channel
  PROVE  Settled(a)'
BY PartsStill DEF Settled

\* The handlers of main groups and of a token's groups.
LEMMA TenancySettle ==
  ASSUME HInv, NEW a \in Clients, Settled(a), TenancyBegin(a) \/ TenancyGoOn(a)
  PROVE  Settled(a)'
<1> USE DEF elsewhere, groupTables, channelTables, grants, accounts
<1>1. /\ WorkTyped /\ work[a] \in Work /\ AsRead(work[a]) /\ MainsTidy
      /\ mains \in [Mains -> MainRows] /\ granted \in [Mains -> SUBSET Names]
      /\ mainOf \in [Users -> Mains \cup {None}] /\ None \notin Mains
  BY NamesAssumption DEF HInv, RowsTyped, WorkTyped, NamesTyped, UsersTyped, Settled
<1>2. UNCHANGED <<groups, nested, members, default, channels, endpoints, creds, lastIds>>
  BY DEF TenancyBegin, TenancyGoOn, CreateMainGroup, UpdateMainGroup, RenameMainGroup, DeleteMainGroup,
     CheckSubgroups, CheckBindings, ReplaceSubgroups, ReplaceBindings
<1>3. ASSUME NEW m \in Mains, NEW on \in BOOLEAN, CreateMainGroup(a, m, on) \/ UpdateMainGroup(a, m, on)
      PROVE  Settled(a)'
  <2>1. AsRead(work[a])'
    BY <1>3, NothingRead DEF CreateMainGroup, UpdateMainGroup, Free, AloneOps
  <2>2. /\ mains' = [mains EXCEPT ![m] = IF on THEN "on" ELSE "off"]
        /\ UNCHANGED <<granted, mainOf>>
    BY <1>3 DEF CreateMainGroup, InsertMainGroup, UpdateMainGroup
  <2>3. \A n \in Mains : mains[n] # "none" => mains'[n] # "none"
    BY <1>1, <2>2
  <2>4. MainsTidy'
    BY <1>1, <2>2, <2>3 DEF MainsTidy
  <2>5. QED
    BY <1>2, <2>1, <2>4, MainsSettle
<1>4. ASSUME NEW m \in Mains, NEW new \in Mains, NEW on \in BOOLEAN, RenameMainGroup(a, m, new, on)
      PROVE  Settled(a)'
  <2>1. AsRead(work[a])'
    BY <1>4, NothingRead DEF RenameMainGroup, Free, AloneOps
  <2>2. /\ new # m /\ mains[new] = "none" /\ mains[m] # "none"
        /\ mains' = [mains EXCEPT ![m] = "none", ![new] = IF on THEN "on" ELSE "off"]
        /\ mainOf' = [u \in Users |-> IF mainOf[u] = m THEN new ELSE mainOf[u]]
        /\ granted' = [granted EXCEPT ![m] = {}, ![new] = granted[m]]
    BY <1>4 DEF RenameMainGroup
  <2>3. /\ mains'[new] # "none"
        /\ \A n \in Mains : n # m => (mains[n] # "none" => mains'[n] # "none")
    BY <1>1, <2>2
  <2>4. \A u \in Users : mainOf'[u] # None => mains'[mainOf'[u]] # "none"
    BY <1>1, <2>2, <2>3 DEF MainsTidy
  <2>5. \A n \in Mains : granted'[n] # {} => n = new \/ (n # m /\ granted[n] # {})
    BY <1>1, <2>2
  <2>6. MainsTidy'
    BY <1>1, <2>3, <2>4, <2>5 DEF MainsTidy
  <2>7. QED
    BY <1>2, <2>1, <2>6, MainsSettle
<1>5. ASSUME NEW m \in Mains, DeleteMainGroup(a, m) PROVE Settled(a)'
  <2>1. AsRead(work[a])'
    BY <1>5, NothingRead DEF DeleteMainGroup, Free, AloneOps
  <2>2. /\ \A u \in Users : mainOf[u] # m
        /\ mains' = [mains EXCEPT ![m] = "none"] /\ granted' = [granted EXCEPT ![m] = {}]
        /\ mainOf' = mainOf
    BY <1>5 DEF DeleteMainGroup, DeleteMainGroupRows
  <2>3. \A n \in Mains : IF n = m THEN granted'[n] = {}
                         ELSE mains'[n] = mains[n] /\ granted'[n] = granted[n]
    BY <1>1, <2>2
  <2>4. MainsTidy'
    BY <1>1, <2>2, <2>3 DEF MainsTidy
  <2>5. QED
    BY <1>2, <2>1, <2>4, MainsSettle
<1>6. ASSUME NEW m \in Mains, NEW ns \in SUBSET Names, CheckSubgroups(a, m, ns) PROVE Settled(a)'
  <2> DEFINE w == [Idle EXCEPT !.name = m, !.names = ns]
  <2>1. w \in Work /\ w.name = m
    BY NoCookieFits DEF Idle, Work
  <2>2. Waits(a, "subgroups", w) /\ mains[m] # "none" /\ UNCHANGED <<mains, granted, mainOf>>
    BY <1>6 DEF CheckSubgroups
  <2> HIDE DEF w
  <2>3. work'[a].op = "subgroups" /\ work'[a].name = m
    BY <1>1, <2>1, <2>2, WaitsFields
  <2>4. AsRead(work[a])'
    BY <2>2, <2>3 DEF AsRead
  <2>5. QED
    BY <1>2, <2>2, <2>4, ReadsSettle
<1>7. ASSUME NEW t \in Tokens, NEW ns \in SUBSET Names, CheckBindings(a, t, ns) PROVE Settled(a)'
  <2> DEFINE w == [Idle EXCEPT !.who = t, !.names = ns]
  <2>1. w \in Work
    BY NoCookieFits DEF Idle, Work
  <2>2. Waits(a, "bind", w) /\ UNCHANGED <<mains, granted, mainOf>>
    BY <1>7 DEF CheckBindings
  <2> HIDE DEF w
  <2>3. AsRead(work[a])'
    BY <1>1, <2>1, <2>2, WaitsFields, NothingRead DEF AloneOps
  <2>4. QED
    BY <1>2, <2>2, <2>3, ReadsSettle
<1>8. CASE ReplaceSubgroups(a)
  <2>1. PICK m \in Mains : m = work[a].name /\ mains[m] # "none"
    BY <1>1, <1>8 DEF ReplaceSubgroups, At, AsRead
  <2>2. /\ granted' = [granted EXCEPT ![m] = work[a].names] /\ UNCHANGED <<mains, mainOf>> /\ Done(a)
    BY <1>8, <2>1 DEF ReplaceSubgroups
  <2>3. MainsTidy'
    BY <1>1, <2>1, <2>2 DEF MainsTidy
  <2>4. QED
    BY <1>1, <1>2, <2>2, <2>3, DoneReads, MainsSettle
<1>9. CASE ReplaceBindings(a)
  BY <1>1, <1>2, <1>9, DoneReads, ReadsSettle DEF ReplaceBindings
<1>10. QED
  BY <1>3, <1>4, <1>5, <1>6, <1>7, <1>8, <1>9 DEF TenancyBegin, TenancyGoOn

LEMMA TokensSettle ==
  ASSUME HInv, NEW a \in Clients, Settled(a), TokensBegin(a)
  PROVE  Settled(a)'
<1>1. IdsTyped
  BY DEF HInv, RowsTyped
<1>2. /\ UNCHANGED <<groups, nested, members, default, channels, endpoints, creds, mains, granted, mainOf, work>>
      /\ Free(a)
  BY DEF TokensBegin, CreateToken, RotateToken, RevokeToken, DeleteToken, Owned, apart, channelTables
<1>3. lastIds'.channel = lastIds.channel
  BY <1>1 DEF TokensBegin, CreateToken, InsertToken, RotateToken, NewTokenSecret, RevokeToken, DeleteToken,
     Counted, IdsTyped
<1>4. AsRead(work[a])'
  BY <1>2, NothingRead DEF Free, AloneOps
<1>5. QED
  BY <1>2, <1>3, <1>4, ReadsSettle

\* What the handlers of accounts do to the tables of the catalog.
LEMMA AccountsLeave ==
  ASSUME HInv, NEW a \in Clients, AccountsBegin(a) \/ AccountsGoOn(a) \/ AccountsBy
  PROVE  /\ UNCHANGED <<groups, nested, members, default, channels, endpoints, creds, mains, granted>>
         /\ lastIds'.channel = lastIds.channel
<1> DEFINE Counts == lastIds' = lastIds \/ lastIds' = [lastIds EXCEPT !.password = lastIds.password + 1]
<1>1. ASSUME UNCHANGED away, Counts
      PROVE  /\ UNCHANGED <<groups, nested, members, default, channels, endpoints, creds, mains, granted>>
             /\ lastIds'.channel = lastIds.channel
  BY <1>1 DEF away, channelTables, HInv, RowsTyped, IdsTyped
<1>2. CASE \E u \in Users : \/ Login(a, u)
                           \/ \E e \in Emails, n \in Codes, k \in cookies \cup {NoCookie} :
                                Register(a, u, e, n, k)
  BY <1>1, <1>2 DEF Login, Register
<1>3. CASE \E e \in Emails : SendCode(a, e)
  BY <1>1, <1>3 DEF SendCode
<1>4. CASE \E k \in cookies : ChangePassword(a, k) \/ \E e \in Emails, n \in Codes : ChangeEmail(a, k, e, n)
  BY <1>1, <1>4 DEF ChangePassword, ChangeEmail
<1>5. CASE \E k \in cookies, u \in Users : ResetPassword(a, k, u) \/ DeleteUser(a, k, u)
  BY <1>1, <1>5 DEF ResetPassword, SetPassword, DeleteUser
<1>6. ASSUME NEW k \in cookies, NEW u \in Users, NEW e \in Emails, NEW root \in BOOLEAN,
             NEW m \in Mains \cup {None},
             \/ AdminCreateUser(a, k, u, e, root, m)
             \/ \E on \in BOOLEAN : EditUser(a, k, u, e, on, root, m)
      PROVE  UNCHANGED away /\ Counts
  <2>1. CASE AdminCreateUser(a, k, u, e, root, m)
    BY <2>1 DEF AdminCreateUser, InsertUser
  <2>2. ASSUME NEW on \in BOOLEAN, EditUser(a, k, u, e, on, root, m) PROVE UNCHANGED away /\ Counts
    BY <2>2 DEF EditUser
  <2>3. QED
    BY <1>6, <2>1, <2>2
<1>7. CASE AccountsBegin(a)
  BY <1>1, <1>2, <1>3, <1>4, <1>5, <1>6, <1>7 DEF AccountsBegin
<1>8. CASE ProveEmail(a) \/ CountUsers(a) \/ WriteEmail(a) \/ SetUserStatus(a) \/ SetUserRole(a)
           \/ CheckUserMain(a) \/ SetUserMainGroup(a)
  BY <1>1, <1>8 DEF ProveEmail, CountUsers, WriteEmail, SetUserStatus, SetUserRole, CheckUserMain, SetUserMainGroup
<1>9. CASE CreateUser(a) \/ WritePassword(a)
  BY <1>1, <1>9 DEF CreateUser, WritePassword, InsertUser, SetPassword
<1>12. CASE ReadBack(a) \/ SaveSession(a)
  BY <1>1, <1>12 DEF ReadBack, SaveSession
<1>10. CASE AccountsBy
  BY <1>1, <1>10 DEF AccountsBy, NextSecond, Logout, Expire
<1>11. QED
  BY <1>7, <1>8, <1>9, <1>10, <1>12 DEF AccountsGoOn

LEMMA AccountsBySettle ==
  ASSUME HInv, NEW a \in Clients, Settled(a), AccountsBy
  PROVE  Settled(a)'
<1>1. UNCHANGED <<mainOf, work>>
  BY DEF AccountsBy, NextSecond, Logout, Expire
<1>2. UNCHANGED <<groups, nested, members, default, channels, endpoints, creds, mains, granted, mainOf, work>>
      /\ lastIds'.channel = lastIds.channel
  BY <1>1, AccountsLeave
<1>3. AsRead(work[a])'
  BY <1>2 DEF Settled, AsRead, Enabled, Exists, NameOf, Unused, Ready
<1>4. QED
  BY <1>2, <1>3, ReadsSettle

\* A request that goes on to what reads no table of the catalog.
LEMMA OtherReads ==
  ASSUME WorkTyped, NEW a \in Clients, NEW w, NEW op, op \notin AloneOps, Waits(a, op, w),
         [w EXCEPT !.op = op].op = op
  PROVE  AsRead(work[a])'
<1>1. work'[a].op = op
  BY DEF WorkTyped, Waits
<1>2. QED
  BY <1>1, NothingRead

LEMMA GoesOnReads ==
  ASSUME WorkTyped, NEW a \in Clients, NEW w, NEW todo, GoesOn(a, w, todo),
         \A op : [[w EXCEPT !.todo = todo] EXCEPT !.op = op].op = op
  PROVE  AsRead(work[a])'
<1>1. CASE todo = {}
  BY <1>1, DoneReads DEF GoesOn
<1>2. CASE todo # {}
  <2>1. Waits(a, NextEdit(todo), [w EXCEPT !.todo = todo])
    BY <1>2 DEF GoesOn
  <2>2. NextEdit(todo) \notin AloneOps
    BY DEF NextEdit, AloneOps
  <2>3. PICK op : op = NextEdit(todo)
    OBVIOUS
  <2>4. QED
    BY <2>1, <2>2, <2>3, OtherReads
<1>3. QED
  BY <1>1, <1>2

LEMMA EditFields ==
  ASSUME NEW w \in Work, NEW todo, NEW op
  PROVE  [[w EXCEPT !.todo = todo] EXCEPT !.op = op].op = op /\ [w EXCEPT !.op = op].op = op
BY DEF Work

\* A main group is taken from users only, and given as it was looked up.
LEMMA MainOfSettles ==
  ASSUME HInv, NEW a \in Clients, Settled(a), AsRead(work[a])',
         AccountsBegin(a) \/ AccountsGoOn(a),
         \A u \in Users : \/ mainOf'[u] = mainOf[u] \/ mainOf'[u] = None
                          \/ mainOf'[u] \in Mains /\ mains[mainOf'[u]] # "none"
  PROVE  Settled(a)'
<1>1. UNCHANGED <<groups, nested, members, default, channels, endpoints, creds, mains, granted>>
      /\ lastIds'.channel = lastIds.channel
  BY AccountsLeave
<1>2. MainsTidy'
  BY <1>1 DEF Settled, MainsTidy
<1>3. QED
  BY <1>1, <1>2, MainsSettle

LEMMA AccountsBeginSettle ==
  ASSUME HInv, NEW a \in Clients, Settled(a), AccountsBegin(a)
  PROVE  Settled(a)'
<1>1. WorkTyped /\ mainOf \in [Users -> Mains \cup {None}]
  BY DEF HInv, RowsTyped, UsersTyped
<1>2. ASSUME UNCHANGED <<mainOf, work>>, Free(a) PROVE Settled(a)'
  <2>1. AsRead(work[a])'
    BY <1>2, NothingRead DEF Free, AloneOps
  <2>2. QED
    BY <1>2, <2>1, MainOfSettles
<1>3. ASSUME AsRead(work[a])', mainOf' = mainOf PROVE Settled(a)'
  BY <1>3, MainOfSettles
<1>4. ASSUME NEW u \in Users, Login(a, u) PROVE Settled(a)'
  <2> DEFINE w == [Idle EXCEPT !.cookie = CookieOf(u)]
  <2>1. Waits(a, "cookie", w) /\ mainOf' = mainOf
    BY <1>4 DEF Login
  <2>2. [w EXCEPT !.op = "cookie"].op = "cookie"
    BY DEF Idle
  <2> HIDE DEF w
  <2>3. AsRead(work[a])'
    BY <1>1, <2>1, <2>2, OtherReads DEF AloneOps
  <2>4. QED
    BY <1>3, <2>1, <2>3
<1>5. ASSUME NEW e \in Emails, SendCode(a, e) PROVE Settled(a)'
  BY <1>2, <1>5 DEF SendCode
<1>6. ASSUME NEW u \in Users, NEW e \in Emails, NEW n \in Codes, NEW k \in cookies \cup {NoCookie},
             Register(a, u, e, n, k)
      PROVE  Settled(a)'
  <2> DEFINE w == [Idle EXCEPT !.who = u, !.email = e, !.code = n, !.cookie = k]
  <2>1. PICK op \in {"prove", "count"} : Waits(a, op, w) /\ mainOf' = mainOf
    BY <1>6 DEF Register
  <2>2. [w EXCEPT !.op = op].op = op
    BY DEF Idle
  <2> HIDE DEF w
  <2>3. AsRead(work[a])'
    BY <1>1, <2>1, <2>2, OtherReads DEF AloneOps
  <2>4. QED
    BY <1>3, <2>1, <2>3
<1>7. ASSUME NEW k \in cookies, ChangePassword(a, k) PROVE Settled(a)'
  <2> DEFINE w == [Idle EXCEPT !.who = k.user]
  <2>1. Waits(a, "password", w) /\ mainOf' = mainOf
    BY <1>7 DEF ChangePassword
  <2>2. [w EXCEPT !.op = "password"].op = "password"
    BY DEF Idle
  <2> HIDE DEF w
  <2>3. AsRead(work[a])'
    BY <1>1, <2>1, <2>2, OtherReads DEF AloneOps
  <2>4. QED
    BY <1>3, <2>1, <2>3
<1>8. ASSUME NEW k \in cookies, NEW e \in Emails, NEW n \in Codes, ChangeEmail(a, k, e, n) PROVE Settled(a)'
  <2> DEFINE w == [Idle EXCEPT !.who = k.user, !.email = e, !.code = n, !.todo = {"email"}]
  <2>1. Waits(a, "prove", w) /\ mainOf' = mainOf
    BY <1>8 DEF ChangeEmail
  <2>2. [w EXCEPT !.op = "prove"].op = "prove"
    BY DEF Idle
  <2> HIDE DEF w
  <2>3. AsRead(work[a])'
    BY <1>1, <2>1, <2>2, OtherReads DEF AloneOps
  <2>4. QED
    BY <1>3, <2>1, <2>3
<1>9. ASSUME NEW k \in cookies, NEW u \in Users, ResetPassword(a, k, u) PROVE Settled(a)'
  BY <1>2, <1>9 DEF ResetPassword
<1>10. ASSUME NEW k \in cookies, NEW u \in Users, DeleteUser(a, k, u) PROVE Settled(a)'
  <2>1. AsRead(work[a])'
    BY <1>10, NothingRead DEF DeleteUser, Free, AloneOps
  <2>2. mainOf' = [mainOf EXCEPT ![u] = None]
    BY <1>10 DEF DeleteUser, DeleteUserRows
  <2>3. QED
    BY <1>1, <2>1, <2>2, MainOfSettles
<1>11. ASSUME NEW k \in cookies, NEW u \in Users, NEW e \in Emails, NEW root \in BOOLEAN,
              NEW m \in Mains \cup {None}, AdminCreateUser(a, k, u, e, root, m)
       PROVE  Settled(a)'
  <2> DEFINE w == [Idle EXCEPT !.who = u, !.name = m, !.todo = {"main", "undo"}]
  <2>1. Waits(a, "main", w) /\ mainOf' = mainOf
    BY <1>11 DEF AdminCreateUser
  <2>2. [w EXCEPT !.op = "main"].op = "main"
    BY DEF Idle
  <2> HIDE DEF w
  <2>3. AsRead(work[a])'
    BY <1>1, <2>1, <2>2, OtherReads DEF AloneOps
  <2>4. QED
    BY <1>3, <2>1, <2>3
<1>12. ASSUME NEW k \in cookies, NEW u \in Users, NEW e \in Emails, NEW root \in BOOLEAN,
              NEW m \in Mains \cup {None}, NEW on \in BOOLEAN, EditUser(a, k, u, e, on, root, m)
       PROVE  Settled(a)'
  <2> DEFINE w == [Idle EXCEPT !.who = u, !.email = e, !.on = on, !.flag = root, !.name = m]
             todo == {x \in {"email", "status", "role", "main"} :
                        \/ x = "email" /\ e # users[u].email
                        \/ x = "status" /\ on # (users[u].state = "on")
                        \/ x = "role" /\ root # users[u].root
                        \/ x = "main" /\ m # mainOf[u]}
  <2>1. GoesOn(a, w, todo) /\ mainOf' = mainOf
    BY <1>12, Zenon DEF EditUser
  <2> HIDE DEF todo
  <2>2. \A op : [[w EXCEPT !.todo = todo] EXCEPT !.op = op].op = op
    BY DEF Idle
  <2> HIDE DEF w
  <2>3. AsRead(work[a])'
    BY <1>1, <2>1, <2>2, GoesOnReads
  <2>4. QED
    BY <1>3, <2>1, <2>3
<1>13. QED
  BY <1>4, <1>5, <1>6, <1>7, <1>8, <1>9, <1>10, <1>11, <1>12 DEF AccountsBegin

LEMMA AccountsGoOnSettle ==
  ASSUME HInv, NEW a \in Clients, Settled(a), AccountsGoOn(a)
  PROVE  Settled(a)'
<1>1. /\ WorkTyped /\ mainOf \in [Users -> Mains \cup {None}] /\ work[a] \in Work /\ Fits(work[a])
      /\ AsRead(work[a])
  BY DEF HInv, RowsTyped, UsersTyped, WorkTyped, Settled
<1>2. PICK w \in Work : w = work[a]
  BY <1>1
<1>3. ASSUME AsRead(work[a])', mainOf' = mainOf PROVE Settled(a)'
  BY <1>3, MainOfSettles
<1>4. ASSUME NEW op, op \notin AloneOps, Waits(a, op, w) PROVE AsRead(work[a])'
  BY <1>1, <1>4, EditFields, OtherReads
<1>5. ASSUME NEW todo, GoesOn(a, w, todo) PROVE AsRead(work[a])'
  BY <1>1, <1>5, EditFields, GoesOnReads
<1>6. CASE ProveEmail(a)
  <2>1. mainOf' = mainOf /\ (Done(a) \/ \E op \in {"count", "email"} : Waits(a, op, w))
    BY <1>2, <1>6 DEF ProveEmail
  <2>2. QED
    BY <1>1, <1>3, <1>4, <2>1, DoneReads DEF AloneOps
<1>7. CASE CountUsers(a)
  <2>1. PICK first : Waits(a, "insert", [w EXCEPT !.flag = first])
    BY <1>2, <1>7 DEF CountUsers
  <2>2. [[w EXCEPT !.flag = first] EXCEPT !.op = "insert"].op = "insert"
    BY DEF Work
  <2>3. AsRead(work[a])'
    BY <1>1, <2>1, <2>2, OtherReads DEF AloneOps
  <2>4. QED
    BY <1>3, <1>7, <2>3 DEF CountUsers
<1>8. CASE WritePassword(a) \/ SaveSession(a)
  BY <1>1, <1>3, <1>8, DoneReads DEF WritePassword, SaveSession
<1>15. CASE CreateUser(a)
  <2>1. mainOf' = mainOf
    BY <1>15 DEF CreateUser
  <2>2. ASSUME NEW v, v = [work[a] EXCEPT !.cookie.user = work[a].who,
                              !.cookie.password = lastIds.password + 1, !.cookie.seen = lastIds.password + 1],
               Waits(a, "session", v)
        PROVE  AsRead(work[a])'
    <3>1. [v EXCEPT !.op = "session"].op = "session"
      BY <1>1, <2>2 DEF Work
    <3>2. QED
      BY <1>1, <2>2, <3>1, OtherReads DEF AloneOps
  <2>3. Done(a) \/ \E v : /\ v = [work[a] EXCEPT !.cookie.user = work[a].who,
                              !.cookie.password = lastIds.password + 1, !.cookie.seen = lastIds.password + 1]
                         /\ Waits(a, "session", v)
    BY <1>15 DEF CreateUser
  <2>4. QED
    BY <1>1, <1>3, <2>1, <2>2, <2>3, DoneReads
<1>16. CASE ReadBack(a)
  <2>1. mainOf' = mainOf
    BY <1>16 DEF ReadBack
  <2>2. PICK v \in {w, [w EXCEPT !.cookie = [CookieOf(w.who) EXCEPT !.password = w.cookie.password]]} :
            Waits(a, "cookie", v)
    BY <1>2, <1>16 DEF ReadBack
  <2>3. [v EXCEPT !.op = "cookie"].op = "cookie"
    BY DEF Work
  <2>4. AsRead(work[a])'
    BY <1>1, <2>2, <2>3, OtherReads DEF AloneOps
  <2>5. QED
    BY <1>3, <2>1, <2>4
<1>9. CASE WriteEmail(a)
  <2>1. mainOf' = mainOf /\ (Done(a) \/ GoesOn(a, w, w.todo \ {"email"}))
    BY <1>2, <1>9 DEF WriteEmail
  <2>2. QED
    BY <1>1, <1>3, <1>5, <2>1, DoneReads
<1>10. CASE SetUserStatus(a)
  <2>1. mainOf' = mainOf /\ GoesOn(a, w, w.todo \ {"status"})
    BY <1>2, <1>10 DEF SetUserStatus
  <2>2. QED
    BY <1>3, <1>5, <2>1
<1>11. CASE SetUserRole(a)
  <2>1. mainOf' = mainOf /\ GoesOn(a, w, w.todo \ {"role"})
    BY <1>2, <1>11 DEF SetUserRole
  <2>2. QED
    BY <1>3, <1>5, <2>1
<1>12. CASE CheckUserMain(a)
  <2>1. w.who \in Users /\ w.name \in Mains \cup {None}
    BY <1>1, <1>2, <1>12 DEF CheckUserMain, At, Fits
  <2>2. mains' = mains
    BY <1>12 DEF CheckUserMain, away
  <2>3. CASE w.name # None /\ mains[w.name] = "on" /\ Waits(a, "setmain", w) /\ mainOf' = mainOf
    <3>1. work'[a].op = "setmain" /\ work'[a].name = w.name
      BY <1>1, <2>3, WaitsFields
    <3>2. AsRead(work[a])'
      BY <2>1, <2>2, <2>3, <3>1 DEF AsRead
    <3>3. QED
      BY <1>3, <2>3, <3>2
  <2>4. CASE Done(a) /\ (mainOf' = mainOf \/ mainOf' = [mainOf EXCEPT ![w.who] = None])
    BY <1>1, <2>1, <2>4, DoneReads, MainOfSettles
  <2>5. QED
    BY <1>2, <1>12, <2>3, <2>4 DEF CheckUserMain, DeleteUserRows
<1>13. CASE SetUserMainGroup(a)
  <2>1. w.who \in Users /\ w.name \in Mains /\ mains[w.name] # "none" /\ Done(a)
    BY <1>1, <1>2, <1>13 DEF SetUserMainGroup, At, Fits, AsRead
  <2>2. mainOf' = mainOf \/ mainOf' = [mainOf EXCEPT ![w.who] = w.name]
    BY <1>2, <1>13 DEF SetUserMainGroup
  <2>3. QED
    BY <1>1, <2>1, <2>2, DoneReads, MainOfSettles
<1>14. QED
  BY <1>6, <1>7, <1>8, <1>9, <1>10, <1>11, <1>12, <1>13, <1>15, <1>16 DEF AccountsGoOn

-----------------------------------------------------------------------------
(* Clients that come to work, and nobody else.                             *)

staffVars == <<catalogVars, accountVars, fetch, lapsed, staff>>
\* Tables that agree, and ids of channels given out before they are used.
StaffInit ==
    /\ HandlersInit /\ CachesInit /\ Tidy /\ Given
    /\ staff \in SUBSET Clients /\ IsFiniteSet(staff)
StaffSpec == StaffInit /\ [][CatalogNext(staff) /\ staff' = staff]_staffVars
StaffInv ==
    /\ HInv /\ CInv /\ staff \subseteq Clients /\ IsFiniteSet(staff)
    /\ \A a \in Clients : staff = {a} => Settled(a)

LEMMA StaffStep == StaffInv /\ [CatalogNext(staff) /\ staff' = staff]_staffVars => StaffInv'
<1> SUFFICES ASSUME StaffInv, [CatalogNext(staff) /\ staff' = staff]_staffVars PROVE StaffInv'
  OBVIOUS
<1>1. staff' = staff /\ [CatalogNext(Clients)]_<<catalogVars, accountVars, fetch, lapsed>>
  BY DEF StaffInv, staffVars, CatalogNext, HandlersNext
<1>2. HInv' /\ CInv'
  BY <1>1, CatalogStep DEF StaffInv
<1>3. ASSUME NEW a \in Clients, staff' = {a} PROVE Settled(a)'
  <2>1. staff = {a} /\ Settled(a) /\ HInv
    BY <1>1, <1>3 DEF StaffInv
  <2>2. ASSUME UNCHANGED <<tables, work>> PROVE Settled(a)'
    <3>1. /\ UNCHANGED <<groups, nested, members, default, channels, endpoints, creds>>
          /\ UNCHANGED <<mains, granted, mainOf, work, lastIds>>
      BY <2>2 DEF tables, groupTables, channelTables, grants
    <3>2. AsRead(work[a])'
      BY <2>1, <3>1 DEF Settled, AsRead, Enabled, Exists, NameOf, Unused, Ready
    <3>3. QED
      BY <2>1, <3>1, <3>2, ReadsSettle
  <2>3. CASE UNCHANGED staffVars
    BY <2>2, <2>3 DEF staffVars, catalogVars, tables
  <2>4. CASE HandlersNext(staff)
    BY <2>1, <2>4, GroupsSettle, TenancySettle, ChannelsSettle, TokensSettle, AccountsBeginSettle,
       AccountsGoOnSettle, AccountsBySettle DEF HandlersNext, StepOf
  <2>5. CASE \E i \in Instances : AuthStep(i) \/ SnapStep(i, SnapKeys) \/ Restart(i)
    <3>1. UNCHANGED <<tables, work>>
      BY <2>5 DEF AuthStep, SnapStep, MissAuth, ReadToken, ReadGroups, StoreAuth, Evict, Poll, MissList, ReadRows,
         StoreList, Restart, tables
    <3>2. QED
      BY <2>2, <3>1
  <2>6. CASE Tick
    <3>1. UNCHANGED <<tables, work>>
      BY <2>6 DEF Tick, tables
    <3>2. QED
      BY <2>2, <3>1
  <2>7. QED
    BY <2>3, <2>4, <2>5, <2>6 DEF CatalogNext
<1>4. QED
  BY <1>1, <1>2, <1>3 DEF StaffInv

LEMMA StaffInductive == StaffSpec => []StaffInv
<1>1. StaffInit => StaffInv
  <2> SUFFICES ASSUME StaffInit PROVE StaffInv
    OBVIOUS
  <2>1. HInv /\ CInv
    BY CatalogInitOK, CachesStartOK DEF StaffInit
  <2>2. ASSUME NEW a \in Clients PROVE AsRead(work[a])
    BY DEF StaffInit, HandlersInit, Idle, AsRead
  <2>3. QED
    BY <2>1, <2>2, TidyParts DEF StaffInit, StaffInv, Settled
<1>2. StaffInv /\ [CatalogNext(staff) /\ staff' = staff]_staffVars => StaffInv'
  BY StaffStep
<1>3. QED
  BY <1>1, <1>2, PTL DEF StaffSpec

\* One administrator at work leaves tables that agree in every state, wherever
\* his request breaks off, for any number of rows and with any instances and
\* caches beside him (createChildChannelGroup, createChannelHandler,
\* updateChannelHandler, ForceDeleteChannelGroup).
THEOREM AloneStaysTidy == StaffSpec => []TidyWhenAlone
<1>1. StaffInv => TidyWhenAlone
  <2> SUFFICES ASSUME StaffInv, Cardinality(staff) = 1 PROVE Tidy
    BY DEF TidyWhenAlone
  <2>1. PICK a : staff = {a}
    BY FS_Singleton DEF StaffInv
  <2>2. QED
    BY <2>1, TidyParts DEF StaffInv, Settled
<1>2. QED
  BY <1>1, StaffInductive, PTL

=============================================================================
