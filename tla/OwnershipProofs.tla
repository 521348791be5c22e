--------------------------- MODULE OwnershipProofs ---------------------------
(***************************************************************************)
(* Everyone has what is his, and keeps it: the token of a code, for any    *)
(* number of applications, users, scopes and exchanges, the stored objects *)
(* of any number of users at any number of upstreams, the attachments of   *)
(* any number of tickets, and a place in the totals for every usage event. *)
(*                                                                         *)
(* Codes: whoever spends one is the only exchange past that point with it  *)
(* (Spends), so what it adds to the tokens, and may take back, is the      *)
(* code's only token, and nobody has been given it yet.                    *)
(*                                                                         *)
(* Objects: a row names the maker of its object and the only place the     *)
(* object can be (Rows), and so does a request admitted by the row,        *)
(* however old it is by now (Requests).  A request that is about to delete *)
(* a row has seen the object gone from there, for good, or was misled by a *)
(* status mapping.                                                         *)
(*                                                                         *)
(* Attachments: a file belongs to one request until it has a row (Posted), *)
(* and to its row from then on (Filed); what the cleanup loop holds stays  *)
(* due, and new files have new names, so it removes nobody else's          *)
(* (Cleaned).                                                              *)
(*                                                                         *)
(* Usage: every cell of the totals is the number and cost of the events    *)
(* rolled up that belong to it (Exact, Booked), so the pages, which part   *)
(* the hours and days they show into cells, part the events of these       *)
(* (SumOfParts); on MySQL these are the events of the range                *)
(* (RangesExact).                                                          *)
(***************************************************************************)
EXTENDS OAuth, ObjectRefs, Tickets, Statistics, FiniteSumsProofs, FiniteSetTheorems,
        WellFoundedInduction, TLAPS

-----------------------------------------------------------------------------
(* Authorization codes.                                                    *)

OAuthSpec == OAuthInit /\ [][OAuthNext]_oauthVars

Ops == {"idle", "consume", "verify", "token", "record", "answer"}
Spending == {"verify", "token", "record", "answer"}
StepRows == [op: Ops, app: Apps \cup {Nothing}, uri: URIs \cup {Nothing}, code: CodeIds \cup {0},
             verifier: BOOLEAN]
CodeOf(x) == steps[x].code

Types == OAuthTypeOK /\ steps \in [Exchanges -> StepRows]
\* A code has an owner who agreed to it, as has a remembered consent.
Consents ==
    /\ \A n \in CodeIds : codes[n].state # "new" =>
        /\ codes[n].app \in Apps /\ codes[n].user \in Owners /\ codes[n].scope \in Scopes
        /\ <<<<codes[n].user, codes[n].app>>, codes[n].scope>> \in approved
    /\ \A u \in Owners, p \in Apps : grant[<<u, p>>] # Nothing =>
        <<<<u, p>>, grant[<<u, p>>]>> \in approved
Spends ==
    /\ \A x \in Exchanges : steps[x].op # "idle" =>
        CodeOf(x) \in CodeIds /\ codes[CodeOf(x)].state # "new"
    /\ \A x \in Exchanges : steps[x].op \in Spending => codes[CodeOf(x)].state = "used"
    /\ \A x, y \in Exchanges :
        steps[x].op \in Spending /\ steps[y].op \in Spending /\ CodeOf(x) = CodeOf(y) => x = y
\* Tokens come of spent codes; before "record" an exchange has none, after it one,
\* and nobody else has one of its code.
Tokens ==
    /\ \A s \in issued : codes[s.code].state = "used"
    /\ \A s, t \in issued : s.code = t.code => s = t
    /\ \A x \in Exchanges, s \in issued :
        /\ steps[x].op \in {"verify", "token"} => s.code # CodeOf(x)
        /\ steps[x].op \in {"record", "answer"} /\ s.code = CodeOf(x) => s = TokenOf(x)
    /\ \A x \in Exchanges : steps[x].op \in {"record", "answer"} => TokenOf(x) \in issued
    /\ \A x \in Exchanges : steps[x].op = "answer" => TokenOf(x) \in recorded
Hands ==
    /\ handed \subseteq issued \cap recorded
    /\ \A x \in Exchanges, s \in handed : steps[x].op \in Spending => s.code # CodeOf(x)
OInv == Types /\ Consents /\ Spends /\ Tokens /\ Hands

-----------------------------------------------------------------------------
LEMMA OAuthInitOK == OAuthInit => OInv
<1> SUFFICES ASSUME OAuthInit PROVE OInv
  OBVIOUS
<1>1. Types
  <2>1. apps \in [Apps -> AppRows] /\ keys \in 0..MaxKeys /\ uris \in [Apps -> SUBSET URIs]
    BY BoundsAssumption DEF OAuthInit, AppRows
  <2>2. grant \in [Owners \X Apps -> Scopes \cup {Nothing}]
    BY DEF OAuthInit
  <2>3. codes \in [CodeIds -> CodeRows]
    BY DEF OAuthInit, NoCode, CodeRows
  <2>4. steps \in [Exchanges -> StepRows]
    BY DEF OAuthInit, NoStep, StepRows, Ops
  <2>5. QED
    BY <2>1, <2>2, <2>3, <2>4 DEF OAuthInit, Types, OAuthTypeOK
<1>2. Consents
  <2>1. \A u \in Owners, p \in Apps : <<u, p>> \in Owners \X Apps
    OBVIOUS
  <2>2. QED
    BY <2>1 DEF OAuthInit, Consents, NoCode
<1>3. Spends /\ Tokens /\ Hands
  BY DEF OAuthInit, Spends, Tokens, Hands, NoStep, Spending
<1>4. QED
  BY <1>1, <1>2, <1>3 DEF OInv

\* What a code once issued says, and a token of it, does not change.
Kept == \A n \in CodeIds : codes[n].state # "new" =>
    /\ codes'[n].app = codes[n].app /\ codes'[n].user = codes[n].user
    /\ codes'[n].scope = codes[n].scope /\ codes'[n].state # "new"

LEMMA AppsStep ==
  ASSUME OInv, NEW p \in Apps,
         \/ \E on \in BOOLEAN : CreateApp(p, on) \/ UpdateApp(p, on)
         \/ \E us \in SUBSET URIs : ReplaceURIs(p, us)
         \/ RotateKey(p)
  PROVE  OInv'
<1>1. UNCHANGED desk
  BY DEF CreateApp, UpdateApp, ReplaceURIs, RotateKey
<1>2. Types'
  <2> USE BoundsAssumption DEF OInv, Types, OAuthTypeOK, AppRows
  <2>1. ASSUME NEW on \in BOOLEAN, CreateApp(p, on)
        PROVE  apps' \in [Apps -> AppRows] /\ keys' \in 0..MaxKeys /\ uris' \in [Apps -> SUBSET URIs]
    BY <2>1 DEF CreateApp
  <2>2. ASSUME NEW on \in BOOLEAN, UpdateApp(p, on)
        PROVE  apps' \in [Apps -> AppRows] /\ keys' \in 0..MaxKeys /\ uris' \in [Apps -> SUBSET URIs]
    BY <2>2 DEF UpdateApp
  <2>3. ASSUME NEW us \in SUBSET URIs, ReplaceURIs(p, us)
        PROVE  apps' \in [Apps -> AppRows] /\ keys' \in 0..MaxKeys /\ uris' \in [Apps -> SUBSET URIs]
    BY <2>3 DEF ReplaceURIs
  <2>4. ASSUME RotateKey(p)
        PROVE  apps' \in [Apps -> AppRows] /\ keys' \in 0..MaxKeys /\ uris' \in [Apps -> SUBSET URIs]
    BY <2>4 DEF RotateKey
  <2>5. apps' \in [Apps -> AppRows] /\ keys' \in 0..MaxKeys /\ uris' \in [Apps -> SUBSET URIs]
    BY <2>1, <2>2, <2>3, <2>4
  <2>6. QED
    BY <1>1, <2>5 DEF desk
<1>3. (Consents /\ Spends /\ Tokens /\ Hands)'
  BY <1>1 DEF OInv, Consents, Spends, Tokens, Hands, desk, CodeOf, TokenOf
<1>4. QED
  BY <1>2, <1>3 DEF OInv

\* Consent and expiry leave the exchanges as they are.
LEMMA KeptTokens ==
  ASSUME OInv, Kept, UNCHANGED <<issued, recorded, steps, handed>>,
         \A n \in CodeIds : codes[n].state = "used" => codes'[n].state = "used"
  PROVE  (Spends /\ Tokens /\ Hands)'
<1>1. \A x \in Exchanges : steps[x].op # "idle" => TokenOf(x)' = TokenOf(x)
  BY DEF OInv, Spends, Kept, TokenOf, CodeOf
<1>2. \A s \in issued : s.code \in CodeIds
  BY DEF OInv, Types, OAuthTypeOK, TokenRows
<1>3. Spends'
  BY DEF OInv, Spends, Kept, CodeOf, Spending
<1>4. Tokens'
  BY <1>1, <1>2 DEF OInv, Tokens, CodeOf
<1>5. Hands'
  BY DEF OInv, Hands, CodeOf
<1>6. QED
  BY <1>3, <1>4, <1>5

\* A new code says what it was issued for, the others what they said.
LEMMA IssueStep ==
  ASSUME OInv, NEW u \in Owners, NEW p \in Apps, NEW uri \in URIs, NEW s \in Scopes,
         NEW challenge \in BOOLEAN, IssueCode(u, p, uri, s, challenge)
  PROVE  /\ codes' \in [CodeIds -> CodeRows] /\ Kept
         /\ \A n \in CodeIds : codes[n].state = "used" => codes'[n].state = "used"
         /\ \A n \in CodeIds :
                \/ codes'[n] = codes[n]
                \/ /\ codes'[n].app = p /\ codes'[n].user = u /\ codes'[n].scope = s
<1> PICK n \in CodeIds :
        /\ codes[n].state = "new"
        /\ codes' = [codes EXCEPT ![n] = [state |-> "open", app |-> p, user |-> u,
                        uri |-> uri, scope |-> s, challenge |-> challenge]]
  BY DEF IssueCode
<1>1. codes \in [CodeIds -> CodeRows]
  BY DEF OInv, Types, OAuthTypeOK
<1>2. codes' \in [CodeIds -> CodeRows]
  BY <1>1 DEF CodeRows
<1>3. QED
  BY <1>1, <1>2 DEF Kept

LEMMA PrepareStep ==
  ASSUME OInv, NEW u \in Owners, NEW p \in Apps, NEW uri \in URIs, NEW s \in Scopes,
         NEW challenge \in BOOLEAN, Prepare(u, p, uri, s, challenge)
  PROVE  OInv'
<1>1. /\ IssueCode(u, p, uri, s, challenge) /\ grant[<<u, p>>] = s
      /\ UNCHANGED <<apps, keys, uris, grant, issued, recorded, steps, approved, handed>>
  BY DEF Prepare
<1>2. Types'
  BY <1>1, IssueStep DEF OInv, Types, OAuthTypeOK
<1>3. Consents'
  <2>1. <<<<u, p>>, s>> \in approved
    BY <1>1, NothingAssumption DEF OInv, Consents
  <2>2. QED
    BY <1>1, <2>1, IssueStep DEF OInv, Consents
<1>4. (Spends /\ Tokens /\ Hands)'
  BY <1>1, IssueStep, KeptTokens
<1>5. QED
  BY <1>2, <1>3, <1>4 DEF OInv

LEMMA ApproveStep ==
  ASSUME OInv, NEW u \in Owners, NEW p \in Apps, NEW uri \in URIs, NEW s \in Scopes,
         NEW challenge \in BOOLEAN, NEW remember \in BOOLEAN,
         Approve(u, p, uri, s, challenge, remember)
  PROVE  OInv'
<1>1. /\ approved' = approved \cup {<<<<u, p>>, s>>}
      /\ grant' = grant \/ grant' = [grant EXCEPT ![<<u, p>>] = s]
      /\ IssueCode(u, p, uri, s, challenge) \/ codes' = codes
      /\ UNCHANGED <<apps, keys, uris, issued, recorded, steps, handed>>
  BY DEF Approve
<1>2. /\ codes' \in [CodeIds -> CodeRows] /\ Kept
      /\ \A n \in CodeIds : codes[n].state = "used" => codes'[n].state = "used"
      /\ \A n \in CodeIds :
            \/ codes'[n] = codes[n]
            \/ /\ codes'[n].app = p /\ codes'[n].user = u /\ codes'[n].scope = s
  <2>1. CASE codes' = codes
    BY <2>1 DEF OInv, Types, OAuthTypeOK, Kept
  <2>2. CASE IssueCode(u, p, uri, s, challenge)
    BY <2>2, IssueStep
  <2>3. QED
    BY <1>1, <2>1, <2>2
<1>3. grant \in [Owners \X Apps -> Scopes \cup {Nothing}] /\ <<u, p>> \in Owners \X Apps
  BY DEF OInv, Types, OAuthTypeOK
<1>4. grant' \in [Owners \X Apps -> Scopes \cup {Nothing}]
  BY <1>1, <1>3
<1>5. Types'
  BY <1>1, <1>2, <1>4 DEF OInv, Types, OAuthTypeOK
<1>6. Consents'
  <2>1. \A n \in CodeIds : codes'[n].state # "new" =>
        /\ codes'[n].app \in Apps /\ codes'[n].user \in Owners /\ codes'[n].scope \in Scopes
        /\ <<<<codes'[n].user, codes'[n].app>>, codes'[n].scope>> \in approved'
    BY <1>1, <1>2 DEF OInv, Consents
  <2>2. \A v \in Owners, q \in Apps : grant'[<<v, q>>] # Nothing =>
        <<<<v, q>>, grant'[<<v, q>>]>> \in approved'
    <3> TAKE v \in Owners, q \in Apps
    <3>1. <<v, q>> \in Owners \X Apps
      OBVIOUS
    <3>2. CASE grant'[<<v, q>>] = grant[<<v, q>>]
      BY <1>1, <3>2 DEF OInv, Consents
    <3>3. CASE <<v, q>> = <<u, p>> /\ grant'[<<v, q>>] = s
      BY <1>1, <3>3
    <3>4. QED
      BY <1>1, <1>3, <3>1, <3>2, <3>3
  <2>3. QED
    BY <2>1, <2>2 DEF Consents
<1>7. (Spends /\ Tokens /\ Hands)'
  BY <1>1, <1>2, KeptTokens
<1>8. QED
  BY <1>5, <1>6, <1>7 DEF OInv

LEMMA ExpireStep ==
  ASSUME OInv, NEW n \in CodeIds, ExpireCode(n)
  PROVE  OInv'
<1>1. /\ codes[n].state = "open" /\ codes' = [codes EXCEPT ![n].state = "late"]
      /\ UNCHANGED <<apps, keys, uris, grant, issued, recorded, steps, approved, handed>>
  BY DEF ExpireCode
<1>2. codes \in [CodeIds -> CodeRows]
  BY DEF OInv, Types, OAuthTypeOK
<1>3. /\ codes' \in [CodeIds -> CodeRows] /\ Kept
      /\ \A m \in CodeIds : codes[m].state = "used" => codes'[m].state = "used"
      /\ \A m \in CodeIds : codes'[m].state = "new" <=> codes[m].state = "new"
      /\ \A m \in CodeIds : /\ codes'[m].app = codes[m].app /\ codes'[m].user = codes[m].user
                             /\ codes'[m].scope = codes[m].scope
  BY <1>1, <1>2 DEF CodeRows, Kept
<1>4. Types' /\ Consents'
  BY <1>1, <1>3 DEF OInv, Types, OAuthTypeOK, Consents
<1>5. (Spends /\ Tokens /\ Hands)'
  BY <1>1, <1>3, KeptTokens
<1>6. QED
  BY <1>4, <1>5 DEF OInv

-----------------------------------------------------------------------------
(* The steps of one exchange.                                              *)

LEMMA CheckClientStep ==
  ASSUME OInv, NEW x \in Exchanges, NEW p \in Apps, NEW uri \in URIs, NEW key \in 1..MaxKeys,
         NEW n \in CodeIds, NEW v \in BOOLEAN, CheckClient(x, p, uri, key, n, v)
  PROVE  OInv'
<1>1. /\ steps[x].op = "idle" /\ codes[n].state # "new"
      /\ steps' = [steps EXCEPT ![x] =
            [op |-> "consume", app |-> p, uri |-> uri, code |-> n, verifier |-> v]]
      /\ UNCHANGED <<apps, keys, uris, grant, approved, codes, issued, recorded, handed>>
  BY DEF CheckClient, Doing, counter
<1>2. steps \in [Exchanges -> StepRows]
  BY DEF OInv, Types
<1>3. steps' \in [Exchanges -> StepRows]
  BY <1>1, <1>2 DEF StepRows, Ops
<1>4. /\ steps'[x].op = "consume" /\ steps'[x].code = n
      /\ \A y \in Exchanges : y # x => steps'[y] = steps[y]
  BY <1>1, <1>2
<1>5. Types' /\ Consents'
  BY <1>1, <1>3 DEF OInv, Types, OAuthTypeOK, Consents
<1>6. Spends'
  BY <1>1, <1>4 DEF OInv, Spends, Spending, CodeOf
<1>7. Tokens' /\ Hands'
  BY <1>1, <1>4 DEF OInv, Tokens, Hands, Spending, CodeOf, TokenOf
<1>8. QED
  BY <1>5, <1>6, <1>7 DEF OInv

\* What a step of exchange x that leaves the codes does to the other exchanges.
Alone(x, op) ==
    /\ steps'[x].op = op
    /\ op # "idle" => steps'[x] = [steps[x] EXCEPT !.op = op]
    /\ \A y \in Exchanges : y # x => steps'[y] = steps[y]
LEMMA StepShape ==
  ASSUME OInv, NEW x \in Exchanges, NEW op \in Ops,
         StepTo(x, op) \/ (op = "idle" /\ StepEnds(x))
  PROVE  steps' \in [Exchanges -> StepRows] /\ Alone(x, op)
<1>1. steps \in [Exchanges -> StepRows] /\ NoStep \in StepRows
  BY DEF OInv, Types, StepRows, NoStep, Ops
<1>2. CASE StepTo(x, op)
  <2>1. steps' = [steps EXCEPT ![x] = [steps[x] EXCEPT !.op = op]]
    BY <1>1, <1>2 DEF StepTo
  <2>2. [steps[x] EXCEPT !.op = op] \in StepRows
    BY <1>1 DEF StepRows
  <2>3. QED
    BY <1>1, <2>1, <2>2 DEF Alone, StepRows
<1>3. CASE op = "idle" /\ StepEnds(x)
  BY <1>1, <1>3 DEF StepEnds, Alone, NoStep
<1>4. QED
  BY <1>2, <1>3

\* An exchange that stops leaves what it has done.
LEMMA EndsStep ==
  ASSUME OInv, NEW x \in Exchanges, StepEnds(x),
         UNCHANGED <<counter, codes, issued, recorded, handed>>
  PROVE  OInv'
<1>1. steps' \in [Exchanges -> StepRows] /\ Alone(x, "idle")
  BY StepShape DEF Ops
<1>2. UNCHANGED <<apps, keys, uris, grant, approved, codes, issued, recorded, handed>>
  BY DEF counter
<1>3. Types' /\ Consents'
  BY <1>1, <1>2 DEF OInv, Types, OAuthTypeOK, Consents
<1>4. Spends'
  BY <1>1, <1>2 DEF OInv, Spends, Spending, CodeOf, Alone
<1>5. Tokens' /\ Hands'
  BY <1>1, <1>2 DEF OInv, Tokens, Hands, Spending, CodeOf, TokenOf, Alone
<1>6. QED
  BY <1>3, <1>4, <1>5 DEF OInv

\* The one UPDATE: whoever finds the code open is alone with it from then on.
LEMMA ConsumeStep ==
  ASSUME OInv, NEW x \in Exchanges, ConsumeCode(x)
  PROVE  OInv'
<1> PICK n : n = CodeOf(x)
  OBVIOUS
<1>1. CASE StepEnds(x) /\ codes' = codes
  BY <1>1, EndsStep DEF ConsumeCode
<1>2. CASE /\ codes[n].state = "open" /\ codes' = [codes EXCEPT ![n].state = "used"]
           /\ StepTo(x, "verify")
  <2>1. /\ steps[x].op = "consume"
        /\ UNCHANGED <<apps, keys, uris, grant, approved, issued, recorded, handed>>
    BY DEF ConsumeCode, Doing, counter
  <2>2. steps' \in [Exchanges -> StepRows] /\ Alone(x, "verify")
    BY <1>2, StepShape DEF Ops
  <2>3. n \in CodeIds /\ codes \in [CodeIds -> CodeRows]
    BY <2>1 DEF OInv, Spends, Types, OAuthTypeOK
  <2>4. /\ codes' \in [CodeIds -> CodeRows] /\ codes'[n].state = "used"
        /\ \A m \in CodeIds : m # n => codes'[m] = codes[m]
    BY <1>2, <2>3 DEF CodeRows
  <2>4a. ASSUME NEW m \in CodeIds
         PROVE  /\ codes'[m].state = "new" <=> codes[m].state = "new"
                /\ codes'[m].app = codes[m].app
                /\ codes'[m].user = codes[m].user
                /\ codes'[m].scope = codes[m].scope
    BY <1>2, <2>3 DEF CodeRows
  <2>5. \A y \in Exchanges : CodeOf(y)' = CodeOf(y)
    BY <2>2 DEF CodeOf, Alone, OInv, Types, StepRows
  <2>6. \A y \in Exchanges : steps[y].op \in Spending => CodeOf(y) # n /\ y # x
    BY <1>2, <2>1 DEF OInv, Spends, Spending
  <2>7. Types' /\ Consents'
    <3>1. Types'
      BY <2>1, <2>2, <2>4 DEF OInv, Types, OAuthTypeOK
    <3>2. Consents'
      BY <2>1, <2>4a DEF OInv, Consents
    <3>3. QED
      BY <3>1, <3>2
  <2>8. Spends'
    BY <2>1, <2>2, <2>4, <2>5, <2>6 DEF OInv, Spends, Alone, Spending
  <2>9. \A s \in issued : s.code \in CodeIds /\ s.code # n /\ s \in TokenRows
    BY <1>2 DEF OInv, Tokens, Types, OAuthTypeOK, TokenRows
  <2>10. \A y \in Exchanges : steps[y].op # "idle" => TokenOf(y)' = TokenOf(y)
    <3> SUFFICES ASSUME NEW y \in Exchanges, steps[y].op # "idle"
                 PROVE  TokenOf(y)' = TokenOf(y)
      OBVIOUS
    <3>1. CodeOf(y) \in CodeIds /\ CodeOf(y)' = CodeOf(y)
      BY <2>5 DEF OInv, Spends
    <3>2. /\ codes'[CodeOf(y)].app = codes[CodeOf(y)].app
          /\ codes'[CodeOf(y)].user = codes[CodeOf(y)].user
          /\ codes'[CodeOf(y)].scope = codes[CodeOf(y)].scope
      BY <2>4a, <3>1
    <3>3. QED
      BY <3>1, <3>2 DEF TokenOf, CodeOf
  <2>11. Tokens'
    BY <2>1, <2>2, <2>4, <2>5, <2>9, <2>10 DEF OInv, Tokens, Alone
  <2>12. Hands'
    BY <2>1, <2>2, <2>5, <2>6, <2>9 DEF OInv, Hands, Alone, Spending
  <2>13. QED
    BY <2>7, <2>8, <2>11, <2>12 DEF OInv
<1>3. QED
  BY <1>1, <1>2 DEF ConsumeCode, CodeOf

LEMMA VerifyStep ==
  ASSUME OInv, NEW x \in Exchanges, VerifyCode(x)
  PROVE  OInv'
<1>1. CASE StepEnds(x)
  BY <1>1, EndsStep DEF VerifyCode
<1>2. CASE StepTo(x, "token")
  <2>1. /\ steps[x].op = "verify"
        /\ UNCHANGED <<apps, keys, uris, grant, approved, codes, issued, recorded, handed>>
    BY DEF VerifyCode, Doing, counter
  <2>2. steps' \in [Exchanges -> StepRows] /\ Alone(x, "token")
    BY <1>2, StepShape DEF Ops
  <2>3. \A y \in Exchanges : CodeOf(y)' = CodeOf(y)
    BY <2>2 DEF CodeOf, Alone, OInv, Types, StepRows
  <2>4. Types' /\ Consents'
    BY <2>1, <2>2 DEF OInv, Types, OAuthTypeOK, Consents
  <2>5. Spends'
    BY <2>1, <2>2, <2>3 DEF OInv, Spends, Alone, Spending
  <2>6. \A y \in Exchanges : TokenOf(y)' = TokenOf(y)
    BY <2>1, <2>3 DEF TokenOf, CodeOf
  <2>7. Tokens' /\ Hands'
    BY <2>1, <2>2, <2>3, <2>6 DEF OInv, Tokens, Hands, Alone, Spending
  <2>8. QED
    BY <2>4, <2>5, <2>7 DEF OInv
<1>3. QED
  BY <1>1, <1>2 DEF VerifyCode

LEMMA MakeTokenStep ==
  ASSUME OInv, NEW x \in Exchanges, MakeToken(x)
  PROVE  OInv'
<1>1. /\ steps[x].op = "token" /\ StepTo(x, "record") /\ issued' = issued \cup {TokenOf(x)}
      /\ UNCHANGED <<apps, keys, uris, grant, approved, codes, recorded, handed>>
  BY DEF MakeToken, Doing, counter
<1>2. steps' \in [Exchanges -> StepRows] /\ Alone(x, "record")
  BY <1>1, StepShape DEF Ops
<1>3. \A y \in Exchanges : CodeOf(y)' = CodeOf(y)
  BY <1>2 DEF CodeOf, Alone, OInv, Types, StepRows
<1>4. \A y \in Exchanges : TokenOf(y)' = TokenOf(y)
  BY <1>1, <1>3 DEF TokenOf, CodeOf
<1>5. TokenOf(x) \in TokenRows /\ TokenOf(x).code = CodeOf(x)
  BY <1>1 DEF OInv, Spends, Consents, TokenOf, CodeOf, TokenRows
<1>6. Types' /\ Consents'
  BY <1>1, <1>2, <1>5 DEF OInv, Types, OAuthTypeOK, Consents
<1>7. Spends'
  BY <1>1, <1>2, <1>3 DEF OInv, Spends, Alone, Spending
<1>8. codes[CodeOf(x)].state = "used" /\ \A s \in issued : s.code # CodeOf(x)
  BY <1>1 DEF OInv, Spends, Tokens, Spending
<1>9. \A y \in Exchanges : y # x /\ steps[y].op \in Spending => CodeOf(y) # CodeOf(x)
  BY <1>1 DEF OInv, Spends, Spending
<1>10. Tokens'
  BY <1>1, <1>2, <1>3, <1>4, <1>5, <1>8, <1>9 DEF OInv, Tokens, Alone, Spending
<1>11. Hands'
  BY <1>1, <1>2, <1>3 DEF OInv, Hands, Alone, Spending
<1>12. QED
  BY <1>6, <1>7, <1>10, <1>11 DEF OInv

LEMMA RecordStep ==
  ASSUME OInv, NEW x \in Exchanges, RecordToken(x)
  PROVE  OInv'
<1>1. /\ steps[x].op = "record"
      /\ UNCHANGED <<apps, keys, uris, grant, approved, codes, handed>>
  BY DEF RecordToken, Doing, counter
<1>2. TokenOf(x) \in issued /\ TokenOf(x) \in TokenRows /\ TokenOf(x).code = CodeOf(x)
  BY <1>1 DEF OInv, Tokens, Types, OAuthTypeOK, TokenOf, CodeOf
<1>3. \A y \in Exchanges : y # x /\ steps[y].op \in Spending => TokenOf(y) # TokenOf(x)
  BY DEF TokenOf
<1>4. CASE recorded' = recorded \cup {TokenOf(x)} /\ StepTo(x, "answer") /\ UNCHANGED issued
  <2>1. steps' \in [Exchanges -> StepRows] /\ Alone(x, "answer")
    BY <1>4, StepShape DEF Ops
  <2>2. \A y \in Exchanges : CodeOf(y)' = CodeOf(y)
    BY <2>1 DEF CodeOf, Alone, OInv, Types, StepRows
  <2>3. \A y \in Exchanges : TokenOf(y)' = TokenOf(y)
    BY <1>1, <2>2 DEF TokenOf, CodeOf
  <2>4. Types' /\ Consents'
    BY <1>1, <1>2, <1>4, <2>1 DEF OInv, Types, OAuthTypeOK, Consents
  <2>5. Spends'
    BY <1>1, <2>1, <2>2 DEF OInv, Spends, Alone, Spending
  <2>6. Tokens' /\ Hands'
    BY <1>1, <1>2, <1>4, <2>1, <2>2, <2>3 DEF OInv, Tokens, Hands, Alone, Spending
  <2>7. QED
    BY <2>4, <2>5, <2>6 DEF OInv
<1>5. CASE recorded' = recorded /\ StepEnds(x) /\ issued' \in {issued, issued \ {TokenOf(x)}}
  <2>1. steps' \in [Exchanges -> StepRows] /\ Alone(x, "idle")
    BY <1>5, StepShape DEF Ops
  <2>2. \A y \in Exchanges : y # x => CodeOf(y)' = CodeOf(y) /\ TokenOf(y)' = TokenOf(y)
    BY <1>1, <2>1 DEF CodeOf, TokenOf, Alone
  <2>3. issued' \subseteq issued /\ \A s \in issued : s # TokenOf(x) => s \in issued'
    BY <1>5
  <2>4. Types' /\ Consents'
    BY <1>1, <1>5, <2>1, <2>3 DEF OInv, Types, OAuthTypeOK, Consents
  <2>5. Spends'
    BY <1>1, <2>1, <2>2 DEF OInv, Spends, Alone, Spending
  <2>6. Tokens'
    BY <1>1, <1>3, <1>5, <2>1, <2>2, <2>3 DEF OInv, Tokens, Alone, Spending
  <2>7. TokenOf(x) \notin handed
    BY <1>1, <1>2 DEF OInv, Hands, Spending
  <2>8. Hands'
    BY <1>1, <1>5, <2>1, <2>2, <2>3, <2>7 DEF OInv, Hands, Alone, Spending
  <2>9. QED
    BY <2>4, <2>5, <2>6, <2>8 DEF OInv
<1>6. QED
  BY <1>4, <1>5 DEF RecordToken

LEMMA AnswerStep ==
  ASSUME OInv, NEW x \in Exchanges, AnswerToken(x)
  PROVE  OInv'
<1>1. /\ steps[x].op = "answer" /\ StepEnds(x) /\ handed' = handed \cup {TokenOf(x)}
      /\ UNCHANGED <<apps, keys, uris, grant, approved, codes, issued, recorded>>
  BY DEF AnswerToken, Doing, counter
<1>2. steps' \in [Exchanges -> StepRows] /\ Alone(x, "idle")
  BY <1>1, StepShape DEF Ops
<1>3. TokenOf(x) \in issued \cap recorded /\ TokenOf(x).code = CodeOf(x)
  BY <1>1 DEF OInv, Tokens, TokenOf, CodeOf
<1>4. \A y \in Exchanges : y # x => CodeOf(y)' = CodeOf(y) /\ TokenOf(y)' = TokenOf(y)
  BY <1>1, <1>2 DEF CodeOf, TokenOf, Alone
<1>5. Types' /\ Consents'
  BY <1>1, <1>2, <1>3 DEF OInv, Types, OAuthTypeOK, Consents
<1>6. Spends'
  BY <1>1, <1>2, <1>4 DEF OInv, Spends, Alone, Spending
<1>7. Tokens'
  BY <1>1, <1>2, <1>4 DEF OInv, Tokens, Alone, Spending
<1>8. \A y \in Exchanges : y # x /\ steps[y].op \in Spending => CodeOf(y) # CodeOf(x)
  BY <1>1 DEF OInv, Spends, Spending
<1>9. Hands'
  BY <1>1, <1>2, <1>3, <1>4, <1>8 DEF OInv, Hands, Alone, Spending
<1>10. QED
  BY <1>5, <1>6, <1>7, <1>9 DEF OInv

-----------------------------------------------------------------------------
LEMMA OAuthNextOK == OInv /\ [OAuthNext]_oauthVars => OInv'
<1> SUFFICES ASSUME OInv, [OAuthNext]_oauthVars PROVE OInv'
  OBVIOUS
<1>1. CASE UNCHANGED oauthVars
  BY <1>1 DEF oauthVars, OInv, Types, OAuthTypeOK, Consents, Spends, Tokens, Hands, CodeOf, TokenOf
<1>2. ASSUME NEW x \in Exchanges, Breaks(x) PROVE OInv'
  BY <1>2, EndsStep DEF Breaks
<1>3. QED
  BY <1>1, <1>2, AppsStep, PrepareStep, ApproveStep, ExpireStep, CheckClientStep, ConsumeStep,
     VerifyStep, MakeTokenStep, RecordStep, AnswerStep DEF OAuthNext

THEOREM OAuthInvariant == OAuthSpec => []OInv
BY OAuthInitOK, OAuthNextOK, PTL DEF OAuthSpec

\* Every variable keeps its type.
THEOREM OAuthTypeCorrect == OAuthSpec => []OAuthTypeOK
<1>1. OInv => OAuthTypeOK
  BY DEF OInv, Types
<1>2. QED
  BY <1>1, OAuthInvariant, PTL

\* A code is worth at most one token, whatever number of exchanges bring it and
\* wherever they fail (oauthTokenHandler, ConsumeOAuthAuthCode).
THEOREM CodeWorthOneToken == OAuthSpec => []OneTokenPerCode
<1>1. OInv => OneTokenPerCode
  BY DEF OInv, Tokens, Hands, OneTokenPerCode
<1>2. QED
  BY <1>1, OAuthInvariant, PTL

\* No code without its user's consent to the application and the scope
\* (oauthAuthorizePrepareHandler, oauthAuthorizeDecisionHandler).
THEOREM NoCodeWithoutConsent == OAuthSpec => []CodesHaveConsent
<1>1. OInv => CodesHaveConsent
  BY DEF OInv, Consents, CodesHaveConsent
<1>2. QED
  BY <1>1, OAuthInvariant, PTL

-----------------------------------------------------------------------------
(* Stored objects.                                                         *)

ObjectRefsSpec == RefsInit /\ [][RefsNext]_refVars

RefRows == [user: Makers \cup {NoOne}, host: Hosts \cup {Nowhere}, at: 0..Cardinality(Objects)]
AskRows == [op: {"none", "serve", "delete", "forget", "list"}, user: Makers \cup {NoOne},
            objects: SUBSET Objects, host: Hosts \cup {Nowhere},
            status: {"none", "ok", "missing", "error"}]
About == {"serve", "delete", "forget"}

\* A row, and what is known to have had one, is of an object that was made.
Rows ==
    /\ \A o \in Objects : refs[o] # NoRef =>
        /\ o \in known /\ refs[o].user = madeBy[o] /\ refs[o].host \in Hosts
        /\ heldAt[o] \in {Nowhere, refs[o].host}
    /\ \A o \in known : madeBy[o] # NoOne
    /\ \A o \in known : heldAt[o] \in Hosts \ Masking => refs[o] # NoRef
    /\ \A s \in served : madeBy[s[2]] = s[1]
Requests ==
    \A r \in Lookups :
        /\ asking[r].op # "none" =>
            /\ asking[r].user \in Makers /\ asking[r].host \in Hosts
            /\ \A o \in asking[r].objects : madeBy[o] = asking[r].user
        /\ asking[r].op \in About =>
            \E o \in Objects :
                /\ asking[r].objects = {o}
                /\ heldAt[o] \in {Nowhere, asking[r].host}
                /\ asking[r].op = "forget" /\ asking[r].status \in {"ok", "missing"} =>
                    heldAt[o] = Nowhere \/ asking[r].host \in Masking
RInv == RefsTypeOK /\ Rows /\ Requests

\* An object that was made is not made again, and does not come back.
Settled ==
    \A o \in Objects : madeBy[o] # NoOne =>
        madeBy'[o] = madeBy[o] /\ heldAt'[o] \in {heldAt[o], Nowhere}

-----------------------------------------------------------------------------
LEMMA RefsInitOK == RefsInit => RInv
<1> SUFFICES ASSUME RefsInit PROVE RInv
  OBVIOUS
<1>1. Cardinality(Objects) \in Nat
  BY BoundsOfRefs, FS_CardinalityType
<1>2. refs \in [Objects -> RefRows] /\ asking \in [Lookups -> AskRows]
  BY <1>1 DEF RefsInit, NoRef, NotAsking, RefRows, AskRows
<1>3. RefsTypeOK
  BY <1>2, BoundsOfRefs DEF RefsInit, RefsTypeOK, RefRows, AskRows
<1>4. Rows /\ Requests
  BY DEF RefsInit, Rows, Requests, NotAsking, About
<1>5. QED
  BY <1>3, <1>4 DEF RInv

LEMMA OneObject ==
  ASSUME NEW q, NEW o, q.objects = {o}
  PROVE  ObjectOf(q) = o
BY DEF ObjectOf

\* A request as the next state must find it.
Fits(q) ==
    /\ q.op # "none" =>
        /\ q.user \in Makers /\ q.host \in Hosts
        /\ \A o \in q.objects : madeBy'[o] = q.user
    /\ q.op \in About =>
        \E o \in Objects :
            /\ q.objects = {o}
            /\ heldAt'[o] \in {Nowhere, q.host}
            /\ q.op = "forget" /\ q.status \in {"ok", "missing"} =>
                heldAt'[o] = Nowhere \/ q.host \in Masking

\* What a request has learned stays true, whatever happens to the objects.
LEMMA StillFits ==
  ASSUME RInv, Settled, NEW r \in Lookups
  PROVE  Fits(asking[r])
<1>1. asking[r].objects \subseteq Objects
  BY DEF RInv, RefsTypeOK
<1>2. asking[r].op # "none" =>
          /\ asking[r].user \in Makers /\ asking[r].host \in Hosts
          /\ \A o \in asking[r].objects : madeBy[o] # NoOne /\ madeBy'[o] = asking[r].user
  BY <1>1, NobodyAssumption DEF RInv, Requests, Settled
<1>3. ASSUME asking[r].op \in About
      PROVE  \E o \in Objects :
                /\ asking[r].objects = {o}
                /\ heldAt'[o] \in {Nowhere, asking[r].host}
                /\ asking[r].op = "forget" /\ asking[r].status \in {"ok", "missing"} =>
                    heldAt'[o] = Nowhere \/ asking[r].host \in Masking
  <2>1. PICK o \in Objects :
            /\ asking[r].objects = {o}
            /\ heldAt[o] \in {Nowhere, asking[r].host}
            /\ asking[r].op = "forget" /\ asking[r].status \in {"ok", "missing"} =>
                heldAt[o] = Nowhere \/ asking[r].host \in Masking
    BY <1>3 DEF RInv, Requests
  <2>2. madeBy[o] # NoOne
    BY <1>2, <1>3, <2>1 DEF About
  <2>3. QED
    BY <2>1, <2>2 DEF Settled
<1>4. QED
  BY <1>2, <1>3 DEF Fits

LEMMA RequestsKept ==
  ASSUME RInv, Settled, asking' = asking
  PROVE  Requests'
BY StillFits DEF Requests, Fits

LEMMA RequestStep ==
  ASSUME RInv, NEW r \in Lookups, NEW q \in AskRows, asking' = [asking EXCEPT ![r] = q],
         Settled, Fits(q)
  PROVE  asking' \in [Lookups -> AskRows] /\ Requests'
<1>1. /\ asking' \in [Lookups -> AskRows] /\ asking'[r] = q
      /\ \A x \in Lookups : x # r => asking'[x] = asking[x]
  BY DEF RInv, RefsTypeOK, AskRows
<1>2. \A x \in Lookups : Fits(asking'[x])
  BY <1>1, StillFits
<1>3. QED
  BY <1>1, <1>2 DEF Requests, Fits

-----------------------------------------------------------------------------
LEMMA MakeStep ==
  ASSUME RInv, NEW u \in Makers, NEW o \in Objects, NEW h \in Hosts,
         MakeObject(u, o, h) \/ MakeUnrecorded(u, o, h)
  PROVE  RInv'
<1>1. /\ madeBy[o] = NoOne /\ madeBy' = [madeBy EXCEPT ![o] = u]
      /\ heldAt' = [heldAt EXCEPT ![o] = h] /\ UNCHANGED <<asking, asked, served>>
  BY DEF MakeObject, MakeUnrecorded, Made
<1>2. o \notin known /\ refs[o] = NoRef /\ u # NoOne
  BY <1>1, NobodyAssumption DEF RInv, Rows
<1>3. /\ madeBy' \in [Objects -> Makers \cup {NoOne}] /\ heldAt' \in [Objects -> Hosts \cup {Nowhere}]
      /\ madeBy'[o] = u /\ heldAt'[o] = h
      /\ \A x \in Objects : x # o => madeBy'[x] = madeBy[x] /\ heldAt'[x] = heldAt[x]
  BY <1>1 DEF RInv, RefsTypeOK
<1>4. Settled
  BY <1>1, <1>3 DEF Settled
<1>5. Requests'
  BY <1>1, <1>4, RequestsKept
<1>6. \A s \in served' : madeBy'[s[2]] = s[1]
  BY <1>1, <1>3, NobodyAssumption DEF RInv, Rows, RefsTypeOK
<1>7. CASE MakeUnrecorded(u, o, h)
  <2>1. UNCHANGED <<refs, known>>
    BY <1>7 DEF MakeUnrecorded
  <2>2. RefsTypeOK'
    BY <1>1, <1>3, <2>1 DEF RInv, RefsTypeOK
  <2>3. known \subseteq Objects
    BY DEF RInv, RefsTypeOK
  <2>4. Rows'
    BY <1>2, <1>3, <1>6, <2>1, <2>3 DEF RInv, Rows
  <2>5. QED
    BY <1>5, <2>2, <2>4 DEF RInv
<1>8. CASE MakeObject(u, o, h)
  <2>1. known' = known \cup {o}
    BY <1>8 DEF MakeObject
  <2>2. PICK n \in 0..Cardinality(Objects) :
            refs' = [refs EXCEPT ![o] = [user |-> u, host |-> h, at |-> n]]
    <3>1. refs' = [refs EXCEPT ![o] = [user |-> u, host |-> h, at |-> Cardinality(known) + 1]]
      BY <1>2, <1>8 DEF MakeObject, UpsertRef, RInv, RefsTypeOK
    <3>2. known \subseteq Objects /\ IsFiniteSet(known) /\ IsFiniteSet(known \cup {o})
      BY BoundsOfRefs, FS_Subset DEF RInv, RefsTypeOK
    <3>3. Cardinality(known \cup {o}) = Cardinality(known) + 1
      BY <1>2, <3>2, FS_AddElement
    <3>4. Cardinality(known \cup {o}) <= Cardinality(Objects)
      BY <3>2, BoundsOfRefs, FS_Subset
    <3>5. Cardinality(known) + 1 \in 0..Cardinality(Objects)
      BY <3>2, <3>3, <3>4, BoundsOfRefs, FS_CardinalityType
    <3>6. QED
      BY <3>1, <3>5
  <2>3. /\ refs' \in [Objects -> RefRows] /\ refs'[o] = [user |-> u, host |-> h, at |-> n]
        /\ \A x \in Objects : x # o => refs'[x] = refs[x]
    BY <2>2 DEF RInv, RefsTypeOK, RefRows
  <2>4. refs'[o] # NoRef
    BY <1>2, <2>3 DEF NoRef
  <2>5. RefsTypeOK'
    BY <1>1, <1>3, <2>1, <2>3 DEF RInv, RefsTypeOK, RefRows
  <2>6. known \subseteq Objects
    BY DEF RInv, RefsTypeOK
  <2>7. Rows'
    BY <1>2, <1>3, <1>6, <2>1, <2>3, <2>4, <2>6 DEF RInv, Rows
  <2>8. QED
    BY <1>5, <2>5, <2>7 DEF RInv
<1>9. QED
  BY <1>7, <1>8

LEMMA ExpireObjectStep ==
  ASSUME RInv, NEW o \in Objects, ObjectExpires(o)
  PROVE  RInv'
<1>1. /\ heldAt' = [heldAt EXCEPT ![o] = Nowhere]
      /\ UNCHANGED <<refs, madeBy, asking, asked, known, served>>
  BY DEF ObjectExpires
<1>2. /\ heldAt' \in [Objects -> Hosts \cup {Nowhere}]
      /\ \A x \in Objects : heldAt'[x] \in {heldAt[x], Nowhere}
  BY <1>1 DEF RInv, RefsTypeOK
<1>3. Requests'
  BY <1>1, <1>2, RequestsKept DEF Settled
<1>4. RefsTypeOK'
  BY <1>1, <1>2 DEF RInv, RefsTypeOK
<1>5. Rows'
  BY <1>1, <1>2, NobodyAssumption DEF RInv, Rows, RefsTypeOK
<1>6. QED
  BY <1>3, <1>4, <1>5 DEF RInv

-----------------------------------------------------------------------------
\* What a step of a request needs to be: it leaves rows and objects as they are.
LEMMA AskingStep ==
  ASSUME RInv, NEW r \in Lookups, NEW q \in AskRows, asking' = [asking EXCEPT ![r] = q], Fits(q),
         UNCHANGED <<refs, heldAt, madeBy, known, served>>, asked' \in 0..MaxLookups
  PROVE  RInv'
<1>1. asking' \in [Lookups -> AskRows] /\ Requests'
  BY RequestStep DEF Settled
<1>2. RefsTypeOK' /\ Rows'
  BY <1>1 DEF RInv, RefsTypeOK, Rows, AskRows
<1>3. QED
  BY <1>1, <1>2 DEF RInv

LEMMA OwnedStep ==
  ASSUME RInv, NEW r \in Lookups, NEW u \in Makers, NEW o \in Objects,
         NEW op \in {"serve", "delete"}, Owned(r, u, o, op)
  PROVE  RInv'
<1> DEFINE q == [op |-> op, user |-> u, objects |-> {o}, host |-> refs[o].host, status |-> "none"]
<1>1. /\ refs[o] # NoRef /\ refs[o].user = u /\ asking' = [asking EXCEPT ![r] = q]
      /\ UNCHANGED <<refs, heldAt, madeBy, known, served>>
  BY DEF Owned, RefForUser
<1>2. madeBy[o] = u /\ refs[o].host \in Hosts /\ heldAt[o] \in {Nowhere, refs[o].host}
  BY <1>1 DEF RInv, Rows
<1>3. q \in AskRows /\ Fits(q)
  BY <1>1, <1>2 DEF AskRows, Fits, About
<1>4. asked' \in 0..MaxLookups
  BY BoundsOfRefs DEF Owned, RInv, RefsTypeOK
<1> HIDE DEF q
<1>5. QED
  BY <1>1, <1>3, <1>4, AskingStep

LEMMA LeastOf ==
  ASSUME NEW T \in SUBSET Nat, T # {}
  PROVE  \E x \in T : \A y \in T : x <= y
<1>1. PICK x \in T : \A y \in T : <<y, x>> \notin OpToRel(<, Nat)
  BY WFMin, NatLessThanWellFounded
<1>2. \A y, z \in Nat : y < z => <<y, z>> \in OpToRel(<, Nat)
  BY DEF OpToRel
<1>3. \A y \in T : ~(y < x)
  BY <1>1, <1>2
<1>4. QED
  BY <1>3

LEMMA NewestIsThere ==
  ASSUME RInv, NEW u \in Makers, RefsByUser(u) # {}
  PROVE  Newest(u) \in RefsByUser(u)
<1> DEFINE age(o) == Cardinality(Objects) - refs[o].at
           T == {age(o) : o \in RefsByUser(u)}
<1>1. \A o \in RefsByUser(u) : o \in Objects /\ refs[o].at \in 0..Cardinality(Objects)
  BY ObjectsAssumption DEF RefsByUser, RInv, RefsTypeOK
<1>2. Cardinality(Objects) \in Nat
  BY BoundsOfRefs, FS_CardinalityType
<1>3. T \in SUBSET Nat /\ T # {}
  BY <1>1, <1>2
<1>4. PICK n \in T : \A m \in T : n <= m
  <2> HIDE DEF T
  <2>1. QED
    BY <1>3, LeastOf
<1>5. PICK o \in RefsByUser(u) : \A x \in RefsByUser(u) : refs[x].at <= refs[o].at
  <2>1. PICK o \in RefsByUser(u) : n = age(o)
    BY <1>4
  <2>2. \A x \in RefsByUser(u) : age(o) <= age(x)
    BY <1>4, <2>1
  <2>3. QED
    BY <1>1, <1>2, <2>2
<1>6. QED
  BY <1>5 DEF Newest

LEMMA ListStep ==
  ASSUME RInv, NEW r \in Lookups, NEW u \in Makers, ListChats(r, u)
  PROVE  RInv'
<1> DEFINE q == [op |-> "list", user |-> u, objects |-> RefsByUser(u),
                 host |-> refs[Newest(u)].host, status |-> "none"]
<1>1. /\ asking' = [asking EXCEPT ![r] = q] /\ UNCHANGED <<refs, heldAt, madeBy, known, served>>
      /\ RefsByUser(u) # {}
  BY DEF ListChats
<1>2. \A o \in RefsByUser(u) : o \in Objects /\ madeBy[o] = u /\ refs[o].host \in Hosts
  BY ObjectsAssumption DEF RefsByUser, RefForUser, RInv, Rows
<1>3. Newest(u) \in RefsByUser(u)
  BY <1>1, NewestIsThere
<1>4. q \in AskRows /\ Fits(q)
  BY <1>1, <1>2, <1>3 DEF AskRows, Fits, About
<1>5. asked' \in 0..MaxLookups
  BY BoundsOfRefs DEF ListChats, RInv, RefsTypeOK
<1> HIDE DEF q
<1>6. QED
  BY <1>1, <1>4, <1>5, AskingStep

-----------------------------------------------------------------------------
LEMMA NotAskingFits == NotAsking \in AskRows /\ Fits(NotAsking)
BY DEF NotAsking, AskRows, Fits, About

\* A request about one object, at its upstream.
LEMMA AtHost ==
  ASSUME RInv, NEW r \in Lookups, asking[r].op \in About
  PROVE  \E o \in Objects :
            /\ asking[r].objects = {o} /\ ObjectOf(asking[r]) = o
            /\ madeBy[o] = asking[r].user /\ asking[r].user \in Makers
            /\ asking[r].host \in Hosts
            /\ heldAt[o] \in {Nowhere, asking[r].host}
            /\ asking[r].op = "forget" /\ asking[r].status \in {"ok", "missing"} =>
                heldAt[o] = Nowhere \/ asking[r].host \in Masking
<1>1. PICK o \in Objects :
          /\ asking[r].objects = {o}
          /\ heldAt[o] \in {Nowhere, asking[r].host}
          /\ asking[r].op = "forget" /\ asking[r].status \in {"ok", "missing"} =>
              heldAt[o] = Nowhere \/ asking[r].host \in Masking
  BY DEF RInv, Requests
<1>2. ObjectOf(asking[r]) = o
  BY <1>1, OneObject
<1>3. QED
  BY <1>1, <1>2 DEF RInv, Requests, About

\* After the upstream's answer: the object may be gone; who asked was shown this.
LEMMA ShownStep ==
  ASSUME RInv, NEW r \in Lookups, asking[r].op \in {"serve", "delete"},
         NEW status \in {"ok", "missing", "error"}, Shown(r, status),
         heldAt' \in {heldAt, [heldAt EXCEPT ![ObjectOf(asking[r])] = Nowhere]},
         status \in {"ok", "missing"} /\ asking[r].op = "delete" =>
            heldAt'[ObjectOf(asking[r])] = Nowhere \/ asking[r].host \in Masking,
         served' = served \/ served' = served \cup {<<asking[r].user, ObjectOf(asking[r])>>},
         UNCHANGED <<refs, madeBy, asked, known>>
  PROVE  RInv'
<1> PICK o \in Objects :
        /\ asking[r].objects = {o} /\ ObjectOf(asking[r]) = o
        /\ madeBy[o] = asking[r].user /\ asking[r].user \in Makers
        /\ asking[r].host \in Hosts
        /\ heldAt[o] \in {Nowhere, asking[r].host}
  BY AtHost DEF About
<1> DEFINE q == IF asking[r].op = "serve" THEN NotAsking
                ELSE [asking[r] EXCEPT !.op = "forget", !.status = status]
<1>1. asking' = [asking EXCEPT ![r] = q] /\ asking[r] \in AskRows
  BY DEF Shown, RInv, RefsTypeOK, AskRows
<1>2. /\ heldAt' \in [Objects -> Hosts \cup {Nowhere}]
      /\ \A x \in Objects : heldAt'[x] \in {heldAt[x], Nowhere}
  BY DEF RInv, RefsTypeOK
<1>3. Settled
  BY <1>2 DEF Settled
<1>4. q \in AskRows /\ Fits(q)
  <2>1. CASE asking[r].op = "serve"
    BY <2>1, NotAskingFits
  <2>2. CASE asking[r].op = "delete"
    <3>1. /\ q \in AskRows /\ q.op = "forget" /\ q.status = status
          /\ q.user = asking[r].user /\ q.host = asking[r].host /\ q.objects = {o}
      BY <1>1, <2>2 DEF AskRows
    <3> HIDE DEF q
    <3>2. heldAt'[o] \in {Nowhere, q.host}
      BY <1>2, <3>1
    <3>3. status \in {"ok", "missing"} => heldAt'[o] = Nowhere \/ q.host \in Masking
      BY <2>2, <3>1
    <3>4. QED
      BY <3>1, <3>2, <3>3 DEF Fits
  <2>3. QED
    BY <2>1, <2>2
<1> HIDE DEF q
<1>5. asking' \in [Lookups -> AskRows] /\ Requests'
  BY <1>1, <1>3, <1>4, RequestStep
<1>6. \A s \in served' : s \in Makers \X Objects /\ madeBy[s[2]] = s[1]
  BY DEF RInv, RefsTypeOK, Rows
<1>7. RefsTypeOK'
  BY <1>2, <1>5, <1>6 DEF RInv, RefsTypeOK, AskRows
<1>8. Rows'
  BY <1>2, <1>6, NobodyAssumption DEF RInv, Rows, RefsTypeOK
<1>9. QED
  BY <1>5, <1>7, <1>8 DEF RInv

LEMMA HostStep ==
  ASSUME RInv, NEW r \in Lookups, HostServes(r) \/ HostRefuses(r) \/ HostLost(r)
  PROVE  RInv'
<1> PICK o \in Objects :
        /\ ObjectOf(asking[r]) = o /\ heldAt[o] \in {Nowhere, asking[r].host}
        /\ asking[r].host \in Hosts
  BY AtHost DEF About, HostServes, HostRefuses, HostLost
<1>1. CASE HostServes(r)
  <2>1. asking[r].op = "delete" => heldAt'[o] = Nowhere
    BY <1>1 DEF HostServes, RInv, RefsTypeOK
  <2>2. QED
    BY <1>1, <2>1, ShownStep DEF HostServes
<1>2. CASE HostRefuses(r)
  <2>1. PICK status \in Masked(asking[r].host,
                               IF heldAt[o] = asking[r].host THEN "error" ELSE "missing") :
            Shown(r, status)
    BY <1>2 DEF HostRefuses
  <2>2. status \in {"ok", "missing", "error"}
    BY DEF Masked
  <2>3. status \in {"ok", "missing"} => heldAt[o] = Nowhere \/ asking[r].host \in Masking
    BY DEF Masked
  <2>4. QED
    BY <1>2, <2>1, <2>2, <2>3, ShownStep DEF HostRefuses
<1>3. CASE HostLost(r)
  BY <1>3, ShownStep DEF HostLost
<1>4. QED
  BY <1>1, <1>2, <1>3

\* The row goes only where no object is left that its maker could still reach.
LEMMA ForgetStep ==
  ASSUME RInv, NEW r \in Lookups, Forget(r)
  PROVE  RInv'
<1>1. /\ asking[r].op = "forget" /\ asking' = [asking EXCEPT ![r] = NotAsking]
      /\ UNCHANGED <<heldAt, madeBy, asked, known, served>>
  BY DEF Forget, ForgetIfGone, Finished
<1>2. PICK o \in Objects :
          /\ ObjectOf(asking[r]) = o
          /\ heldAt[o] \in {Nowhere, asking[r].host}
          /\ asking[r].status \in {"ok", "missing"} =>
              heldAt[o] = Nowhere \/ asking[r].host \in Masking
  BY <1>1, AtHost DEF About
<1>3. asking' \in [Lookups -> AskRows] /\ Requests'
  BY <1>1, NotAskingFits, RequestStep DEF Settled
<1>4. \/ refs' = refs
      \/ refs' = [refs EXCEPT ![o] = NoRef] /\ asking[r].status \in {"ok", "missing"}
  BY <1>2 DEF Forget, ForgetIfGone, DeleteRef
<1>5. NoRef \in RefRows
  BY BoundsOfRefs, FS_CardinalityType DEF NoRef, RefRows
<1>6. /\ refs' \in [Objects -> RefRows] /\ \A x \in Objects : refs'[x] \in {refs[x], NoRef}
      /\ \A x \in Objects : refs'[x] # refs[x] => heldAt[x] \notin Hosts \ Masking
  BY <1>2, <1>4, <1>5, NobodyAssumption DEF RInv, RefsTypeOK, RefRows
<1>7. RefsTypeOK'
  BY <1>1, <1>3, <1>6 DEF RInv, RefsTypeOK, RefRows, AskRows
<1>8. Rows'
  BY <1>1, <1>6 DEF RInv, Rows, RefsTypeOK
<1>9. QED
  BY <1>3, <1>7, <1>8 DEF RInv

\* Whatever an upstream lists, only the caller's rows pass.
LEMMA ListAnsweredStep ==
  ASSUME RInv, NEW r \in Lookups, ListAnswered(r)
  PROVE  RInv'
<1>1. /\ asking[r].op = "list" /\ asking' = [asking EXCEPT ![r] = NotAsking]
      /\ UNCHANGED <<refs, heldAt, madeBy, asked, known>>
      /\ \E listed : served' = served \cup ({asking[r].user} \X AllowedOf(asking[r], listed))
  BY DEF ListAnswered, Finished
<1>2. asking' \in [Lookups -> AskRows] /\ Requests'
  BY <1>1, NotAskingFits, RequestStep DEF Settled
<1>3. /\ asking[r].user \in Makers /\ asking[r].objects \subseteq Objects
      /\ \A o \in asking[r].objects : madeBy[o] = asking[r].user
  BY <1>1 DEF RInv, Requests, RefsTypeOK
<1>4. \A s \in served' : s \in Makers \X Objects /\ madeBy[s[2]] = s[1]
  BY <1>1, <1>3 DEF AllowedOf, RInv, RefsTypeOK, Rows
<1>5. RefsTypeOK'
  BY <1>1, <1>2, <1>4 DEF RInv, RefsTypeOK, AskRows
<1>6. Rows'
  BY <1>1, <1>4 DEF RInv, Rows
<1>7. QED
  BY <1>2, <1>5, <1>6 DEF RInv

-----------------------------------------------------------------------------
LEMMA RefsNextOK == RInv /\ [RefsNext]_refVars => RInv'
<1> SUFFICES ASSUME RInv, [RefsNext]_refVars PROVE RInv'
  OBVIOUS
<1>1. CASE UNCHANGED refVars
  BY <1>1 DEF refVars, RInv, RefsTypeOK, Rows, Requests
<1>2. ASSUME NEW r \in Lookups, NEW u \in Makers, NEW o \in Objects,
             \/ ResponseRetrieve(r, u, o) \/ ResponseCancel(r, u, o)
             \/ ResponseInputItems(r, u, o) \/ ResponseDelete(r, u, o)
             \/ ChatCompletionRetrieve(r, u, o) \/ ChatCompletionUpdate(r, u, o)
             \/ ChatCompletionMessages(r, u, o) \/ ChatCompletionDelete(r, u, o)
      PROVE  RInv'
  BY <1>2, OwnedStep
     DEF ResponseRetrieve, ResponseCancel, ResponseInputItems, ResponseDelete,
         ChatCompletionRetrieve, ChatCompletionUpdate, ChatCompletionMessages, ChatCompletionDelete
<1>3. QED
  BY <1>1, <1>2, MakeStep, ExpireObjectStep, HostStep, ForgetStep, ListAnsweredStep, ListStep
     DEF RefsNext

LEMMA ObjectRefsInvariant == ObjectRefsSpec => []RInv
BY RefsInitOK, RefsNextOK, PTL DEF ObjectRefsSpec

\* Every variable keeps its type.
THEOREM RefsTypeCorrect == ObjectRefsSpec => []RefsTypeOK
<1>1. RInv => RefsTypeOK
  BY DEF RInv
<1>2. QED
  BY <1>1, ObjectRefsInvariant, PTL

\* Users of one upstream account see what they made and nothing else, and keep
\* what the upstream keeps (ownedSelection, ResponseDelete, ChatCompletionDelete,
\* ChatCompletionsList).
THEOREM MakersAreServed == ObjectRefsSpec => []RefsServeMakers
<1>1. RInv => RefsServeMakers
  <2> SUFFICES ASSUME RInv PROVE RefsServeMakers
    OBVIOUS
  <2>1. \A s \in served : madeBy[s[2]] = s[1]
    BY DEF RInv, Rows
  <2>2. \A o \in known : heldAt[o] \in Hosts \ Masking => RefForUser(madeBy[o], o)
    BY DEF RInv, Rows, RefsTypeOK, RefForUser
  <2>3. QED
    BY <2>1, <2>2 DEF RefsServeMakers
<1>2. QED
  BY <1>1, ObjectRefsInvariant, PTL

-----------------------------------------------------------------------------
(* Attachments.                                                            *)

TicketsSpec == TicketsInit /\ [][(\E r \in Uploads : TicketsBegin(r)) \/ TicketsGoOn]_ticketVars

\* Files are known by name: one request has each, and it alone gives it a row.
Posted ==
    /\ \A r, s \in Uploads : r # s => posting[r].files \cap posting[s].files = {}
    /\ \A r \in Uploads :
        /\ posting[r].files \subseteq 1..lastFile
        /\ posting[r].op = "idle" => posting[r].files = {}
        /\ posting[r].op \in {"save", "commit"} => posting[r].files \subseteq disk \ inDoubt
        /\ \A f \in posting[r].files : attachments[f] = NoAttachment \/ f \in inDoubt
Filed ==
    /\ \A f \in Files : attachments[f].state = "none" <=> attachments[f].ticket = 0
    /\ \A f \in Files : attachments[f].state # "none" \/ f \in disk => f <= lastFile
    /\ inDoubt \subseteq 1..lastFile
\* What the cleanup loop is about to remove or to forget is still due.
Cleaned ==
    /\ batch.op = "idle" => batch.files = {}
    /\ \A f \in batch.files : attachments[f].state = "due"
    /\ batch.op = "forget" => batch.files \cap disk \subseteq adrift
TInv == TicketsTypeOK /\ Posted /\ Filed /\ Cleaned /\ FilesMatchRows

LEMMA TicketsBegins == TicketsInit => TInv
<1> SUFFICES ASSUME TicketsInit PROVE TInv
  OBVIOUS
<1>1. 1 \in Files /\ 1 \in TicketIds /\ 1 \in 0..MaxFiles
  BY BatchAssumption DEF Files, TicketIds
<1>2. /\ tickets \in [TicketIds -> TicketRows] /\ attachments \in [Files -> AttachmentRows]
  BY <1>1 DEF TicketsInit, TicketRows, AttachmentRows, NoTicket, NoAttachment
<1>3. posting \in [Uploads -> PostRows] /\ batch = NoBatch /\ \A r \in Uploads : posting[r] = NoPost
  BY DEF TicketsInit, PostRows, NoPost
<1>4. TicketsTypeOK
  BY <1>1, <1>2, <1>3 DEF TicketsInit, TicketsTypeOK, NoBatch
<1>5. /\ \A f \in Files : attachments[f] = IF f = 1 THEN [ticket |-> 1, state |-> "dated"] ELSE NoAttachment
      /\ disk = {1} /\ lastFile = 1 /\ adrift = {} /\ inDoubt = {} /\ got = {}
  BY DEF TicketsInit
<1>6. Posted
  BY <1>3, <1>5 DEF Posted, NoPost
<1>7. Filed
  BY <1>5 DEF Filed, NoAttachment, Files
<1>8. Cleaned
  BY <1>3 DEF Cleaned, NoBatch
<1>9. FilesMatchRows
  <2>1. \A f \in Files : attachments[f].state \in {"kept", "dated"} => f = 1
    BY <1>5 DEF NoAttachment
  <2>2. 1 \in Files /\ attachments[1].ticket # 0
    BY <1>1, <1>5
  <2>3. QED
    BY <2>1, <2>2, <1>5 DEF FilesMatchRows
<1>10. QED
  BY <1>4, <1>6, <1>7, <1>8, <1>9 DEF TInv

LEMMA TicketRowTypes ==
  ASSUME TicketsTypeOK
  PROVE  /\ posting \in [Uploads -> PostRows] /\ attachments \in [Files -> AttachmentRows]
         /\ tickets \in [TicketIds -> TicketRows]
         /\ disk \subseteq Files /\ adrift \subseteq Files /\ inDoubt \subseteq Files
         /\ lastFile \in 0..MaxFiles /\ lastFile \in Nat /\ MaxFiles \in Nat
         /\ batch \in [op: {"idle", "remove", "forget"}, files: SUBSET Files]
         /\ got \subseteq Askers \X Files
BY BatchAssumption DEF TicketsTypeOK


\* A request moves on, with the files it has or with none.
LEMMA PostMoves ==
  ASSUME TInv, NEW r \in Uploads, NEW p \in PostRows, posting' = [posting EXCEPT ![r] = p],
         UNCHANGED <<tickets, attachments, disk, lastFile, adrift, inDoubt, batch>>, got' = {},
         p.files = posting[r].files,
         p.op \in {"save", "commit"} => p.op = posting[r].op
                                        \/ p.files \subseteq disk \ inDoubt,
         p.op = "idle" => p.files = {}
  PROVE  TInv'
<1>1. /\ posting \in [Uploads -> PostRows]
      /\ TicketsTypeOK /\ Posted /\ Filed /\ Cleaned /\ FilesMatchRows
  BY TicketRowTypes DEF TInv
<1>2. \A s \in Uploads : posting'[s] = IF s = r THEN p ELSE posting[s]
  BY <1>1
<1>3. \A s \in Uploads : posting'[s].files = posting[s].files
  BY <1>2
<1>4. TicketsTypeOK'
  BY <1>1 DEF TicketsTypeOK
<1>5. Posted'
  <2>1. \A s \in Uploads :
          /\ posting'[s].op = "idle" => posting'[s].files = {}
          /\ posting'[s].op \in {"save", "commit"} => posting'[s].files \subseteq disk \ inDoubt
    BY <1>1, <1>2 DEF Posted
  <2>2. QED
    BY <1>1, <1>3, <2>1 DEF Posted
<1>6. Filed' /\ Cleaned'
  BY <1>1 DEF Filed, Cleaned
<1>7. FilesMatchRows'
  BY <1>1, <1>3 DEF FilesMatchRows
<1>8. QED
  BY <1>4, <1>5, <1>6, <1>7 DEF TInv

\* A message arrives, and the ticket it answers is looked up.
LEMMA PostBegins ==
  ASSUME TInv, NEW r \in Uploads, TicketsBegin(r)
  PROVE  TInv'
<1>1. posting \in [Uploads -> PostRows]
  BY TicketRowTypes DEF TInv
<1>2. PICK n \in 0..2, u \in Askers \cup {Nobody}, t \in TicketIds \cup {0} :
          At(r, "idle") /\ Begins(r, u, t, n)
  BY DEF TicketsBegin, CreateTicket, Reply, AdminReply
<1>3. /\ UNCHANGED <<tickets, attachments, disk, lastFile, adrift, inDoubt, batch>>
      /\ got' = {}
  BY DEF TicketsBegin, CreateTicket, Reply, AdminReply, room
<1> DEFINE p == [op |-> "save", user |-> u, ticket |-> t, want |-> n, files |-> {}]
<1>4. p \in PostRows /\ posting' = [posting EXCEPT ![r] = p]
  BY <1>2 DEF Begins, PostRows
<1>5. p.files = posting[r].files /\ p.files \subseteq disk \ inDoubt
  BY <1>2 DEF At, TInv, Posted
<1>6. p.op = "save"
  OBVIOUS
<1> HIDE DEF p
<1>7. QED
  BY <1>3, <1>4, <1>5, <1>6, PostMoves

\* The next file, or none.
LEMMA SavesFile ==
  ASSUME TInv, NEW r \in Uploads, SaveFile(r), got' = {}
  PROVE  TInv'
<1>1. /\ posting \in [Uploads -> PostRows] /\ lastFile \in 0..MaxFiles /\ lastFile \in Nat
      /\ MaxFiles \in Nat
      /\ TicketsTypeOK /\ Posted /\ Filed /\ Cleaned /\ FilesMatchRows
  BY TicketRowTypes DEF TInv
<1> DEFINE f == lastFile + 1
<1>2. /\ posting[r].op = "save" /\ f \in Files /\ disk' = disk \cup {f} /\ lastFile' = f
      /\ posting' = [posting EXCEPT ![r].files = @ \cup {f}]
      /\ UNCHANGED <<tickets, attachments, adrift, inDoubt, batch>>
  BY DEF SaveFile, At, room
<1>3. f \notin 1..lastFile /\ f \in 1..f /\ 1..lastFile \subseteq 1..f /\ f \in 0..MaxFiles
      /\ ~(f <= lastFile) /\ \A g \in Files : g <= lastFile => g <= f
  BY <1>1, <1>2 DEF Files
<1> HIDE DEF f
<1>4. \A s \in Uploads :
        /\ posting'[s].op = posting[s].op
        /\ posting'[s].files = IF s = r THEN posting[r].files \cup {f} ELSE posting[s].files
  BY <1>1, <1>2 DEF PostRows
<1>5. f \notin disk /\ f \notin inDoubt /\ attachments[f].state = "none"
  BY <1>1, <1>2, <1>3 DEF Filed
<1>6. attachments[f] = NoAttachment
  <2>1. attachments[f] \in AttachmentRows /\ attachments[f].ticket = 0
    BY <1>1, <1>2, <1>5 DEF TicketsTypeOK, Filed
  <2>2. QED
    BY <2>1, <1>5 DEF AttachmentRows, NoAttachment
<1>7. TicketsTypeOK'
  <2>1. posting' \in [Uploads -> PostRows]
    BY <1>1, <1>2 DEF PostRows
  <2>2. QED
    BY <1>1, <1>2, <1>3, <2>1 DEF TicketsTypeOK
<1>8. Posted'
  <2>1. ASSUME NEW s \in Uploads, NEW t \in Uploads, s # t
        PROVE  posting'[s].files \cap posting'[t].files = {}
    <3>1. posting[s].files \cap posting[t].files = {} /\ f \notin posting[s].files
          /\ f \notin posting[t].files
      BY <2>1, <1>1, <1>3 DEF Posted
    <3>2. QED
      BY <3>1, <2>1, <1>4
  <2>2. ASSUME NEW s \in Uploads
        PROVE  /\ posting'[s].files \subseteq 1..lastFile'
               /\ posting'[s].op = "idle" => posting'[s].files = {}
               /\ posting'[s].op \in {"save", "commit"} =>
                    posting'[s].files \subseteq disk' \ inDoubt'
               /\ \A g \in posting'[s].files : attachments'[g] = NoAttachment \/ g \in inDoubt'
    BY <1>1, <1>2, <1>3, <1>4, <1>5, <1>6 DEF Posted
  <2>3. QED
    BY <2>1, <2>2 DEF Posted
<1>9. Filed'
  BY <1>1, <1>2, <1>3, <1>5 DEF Filed
<1>10. Cleaned'
  BY <1>1, <1>2, <1>5 DEF Cleaned
<1>11. FilesMatchRows'
  <2>1. \A g \in Files : attachments'[g].state \in {"kept", "dated"} => g \in disk' \cup inDoubt'
    BY <1>1, <1>2 DEF FilesMatchRows
  <2>2. \A g \in disk' \ adrift' :
          attachments'[g].ticket # 0 \/ \E s \in Uploads : g \in posting'[s].files
    <3>1. SUFFICES ASSUME NEW g \in disk' \ adrift'
                   PROVE  attachments[g].ticket # 0 \/ \E s \in Uploads : g \in posting'[s].files
      BY <1>2
    <3>2. CASE g = f
      BY <3>2, <1>4
    <3>3. CASE g # f
      BY <3>1, <3>3, <1>1, <1>2, <1>4 DEF FilesMatchRows
    <3>4. QED
      BY <3>2, <3>3
  <2>3. QED
    BY <2>1, <2>2 DEF FilesMatchRows
<1>12. QED
  BY <1>7, <1>8, <1>9, <1>10, <1>11 DEF TInv

\* The transaction: the request's files get their rows, whatever it is told.
LEMMA Commits ==
  ASSUME TInv, NEW r \in Uploads, At(r, "commit"), Written(r), got' = {},
         UNCHANGED <<disk, lastFile, adrift, batch>>,
         \/ Ends(r) /\ UNCHANGED inDoubt
         \/ /\ posting' = [posting EXCEPT ![r].op = "undo"]
            /\ inDoubt' = inDoubt \cup posting[r].files
  PROVE  TInv'
<1>1. /\ posting \in [Uploads -> PostRows] /\ lastFile \in 0..MaxFiles
      /\ attachments \in [Files -> AttachmentRows] /\ posting[r].op = "commit"
      /\ posting[r].files \subseteq Files
      /\ TicketsTypeOK /\ Posted /\ Filed /\ Cleaned /\ FilesMatchRows
  BY TicketRowTypes DEF TInv, At, PostRows
<1>2. PICK t \in TicketIds : AddMessage(r, t)
  BY <1>1 DEF Written, PostRows
<1>3. tickets' \in [TicketIds -> TicketRows]
  <2>1. CASE UNCHANGED tickets
    BY <2>1, <1>1 DEF TicketsTypeOK
  <2>2. CASE \E u \in TicketIds : InsertTicket(r, u)
    <3>1. posting[r].user \in Askers \cup {Nobody}
      BY <1>1 DEF PostRows
    <3>2. QED
      BY <2>2, <3>1, <1>1 DEF InsertTicket, TicketsTypeOK, TicketRows
  <2>3. QED
    BY <2>1, <2>2 DEF Written
<1>4. \A f \in Files : attachments'[f] =
        IF f \in posting[r].files THEN [ticket |-> t, state |-> "kept"] ELSE attachments[f]
  BY <1>2 DEF AddMessage
<1>5. attachments' \in [Files -> AttachmentRows]
  BY <1>1, <1>2 DEF AddMessage, AttachmentRows
<1>6. t # 0
  BY DEF TicketIds
<1>7. /\ \A s \in Uploads : s # r => posting'[s] = posting[s]
      /\ \/ posting'[r] = NoPost /\ UNCHANGED inDoubt
         \/ /\ posting'[r].op = "undo" /\ posting'[r].files = posting[r].files
            /\ inDoubt' = inDoubt \cup posting[r].files
      /\ posting' \in [Uploads -> PostRows]
  <2>1. CASE Ends(r) /\ UNCHANGED inDoubt
    <3>1. NoPost \in PostRows
      BY DEF NoPost, PostRows
    <3>2. QED
      BY <2>1, <3>1, <1>1 DEF Ends
  <2>2. CASE /\ posting' = [posting EXCEPT ![r].op = "undo"]
             /\ inDoubt' = inDoubt \cup posting[r].files
    BY <2>2, <1>1 DEF PostRows
  <2>3. QED
    BY <2>1, <2>2
<1>8. posting[r].files \subseteq disk /\ posting[r].files \subseteq 1..lastFile
      /\ \A s \in Uploads : s # r => posting[r].files \cap posting[s].files = {}
  BY <1>1 DEF Posted
<1>9. inDoubt' \subseteq Files /\ inDoubt \subseteq inDoubt' /\ inDoubt' \subseteq 1..lastFile
  BY <1>1, <1>7, <1>8 DEF TicketsTypeOK, Filed
<1>10. TicketsTypeOK'
  BY <1>1, <1>3, <1>5, <1>7, <1>9 DEF TicketsTypeOK
<1>11. Posted'
  <2>1. \A s \in Uploads : posting'[s].files \subseteq posting[s].files
    BY <1>7 DEF NoPost
  <2>2. ASSUME NEW s \in Uploads
        PROVE  /\ posting'[s].op = "idle" => posting'[s].files = {}
               /\ posting'[s].op \in {"save", "commit"} =>
                    posting'[s].files \subseteq disk \ inDoubt'
               /\ \A g \in posting'[s].files : attachments'[g] = NoAttachment \/ g \in inDoubt'
    <3>1. CASE s = r
      BY <3>1, <1>7 DEF NoPost
    <3>2. CASE s # r
      <4>1. posting'[s] = posting[s] /\ posting[s].files \subseteq Files
        BY <3>2, <1>1, <1>7 DEF PostRows
      <4>2. posting[s].files \cap posting[r].files = {}
        BY <3>2, <1>8
      <4>3. \A g \in posting[s].files : attachments'[g] = attachments[g]
        BY <4>1, <4>2, <1>4
      <4>4. posting[s].op \in {"save", "commit"} => posting[s].files \subseteq disk \ inDoubt'
        BY <4>2, <1>1, <1>7 DEF Posted
      <4>5. QED
        BY <4>1, <4>3, <4>4, <1>1, <1>9 DEF Posted
    <3>3. QED
      BY <3>1, <3>2
  <2>3. QED
    BY <2>1, <2>2, <1>1 DEF Posted
<1>12. Filed'
  BY <1>1, <1>4, <1>6, <1>8, <1>9 DEF Filed, Files
<1>13. Cleaned'
  <2>1. batch.files \cap posting[r].files = {} /\ batch.files \subseteq Files
    <3>1. \A f \in posting[r].files : attachments[f] = NoAttachment
      BY <1>1 DEF Posted
    <3>2. batch.files \subseteq Files
      BY <1>1 DEF TicketsTypeOK
    <3>3. \A f \in batch.files : attachments[f].state = "due"
      BY <1>1 DEF Cleaned
    <3>4. QED
      BY <3>1, <3>2, <3>3 DEF NoAttachment
  <2>2. QED
    BY <2>1, <1>1, <1>4 DEF Cleaned
<1>14. FilesMatchRows'
  <2>1. \A g \in Files : attachments'[g].state \in {"kept", "dated"} => g \in disk \cup inDoubt'
    BY <1>1, <1>4, <1>8, <1>9 DEF FilesMatchRows
  <2>2. ASSUME NEW g \in disk \ adrift
        PROVE  attachments'[g].ticket # 0 \/ \E s \in Uploads : g \in posting'[s].files
    <3>1. g \in Files
      BY <1>1 DEF TicketsTypeOK
    <3>2. CASE g \in posting[r].files
      BY <3>1, <3>2, <1>4, <1>6
    <3>3. CASE g \notin posting[r].files
      BY <2>2, <3>1, <3>3, <1>1, <1>4, <1>7 DEF FilesMatchRows
    <3>4. QED
      BY <3>2, <3>3
  <2>3. QED
    BY <2>1, <2>2 DEF FilesMatchRows
<1>15. QED
  BY <1>10, <1>11, <1>12, <1>13, <1>14 DEF TInv

\* The files of a message that came to nothing, and of one that is said to have.
LEMMA DeletesSaved ==
  ASSUME TInv, NEW r \in Uploads, DeleteSaved(r), got' = {}
  PROVE  TInv'
<1>1. /\ posting \in [Uploads -> PostRows] /\ posting[r].op = "undo"
      /\ posting[r].files \subseteq Files
      /\ TicketsTypeOK /\ Posted /\ Filed /\ Cleaned /\ FilesMatchRows
      /\ UNCHANGED <<tickets, attachments, lastFile, batch, inDoubt>>
  BY TicketRowTypes DEF TInv, DeleteSaved, At, PostRows, room
<1>2. PICK stay \in SUBSET posting[r].files :
          disk' = (disk \ posting[r].files) \cup stay /\ adrift' = adrift \cup stay
  BY DEF DeleteSaved
<1>3. /\ posting'[r] = NoPost /\ \A s \in Uploads : s # r => posting'[s] = posting[s]
      /\ posting' \in [Uploads -> PostRows]
  <2>1. NoPost \in PostRows
    BY DEF NoPost, PostRows
  <2>2. QED
    BY <2>1, <1>1 DEF DeleteSaved, Ends
<1>4. TicketsTypeOK'
  BY <1>1, <1>2, <1>3 DEF TicketsTypeOK
<1>5. \A f \in disk' : f \in disk \/ f \in posting[r].files
  BY <1>2
<1>6. Posted'
  <2>1. \A s \in Uploads : posting'[s].files \subseteq posting[s].files
    BY <1>3 DEF NoPost
  <2>2. ASSUME NEW s \in Uploads
        PROVE  /\ posting'[s].op = "idle" => posting'[s].files = {}
               /\ posting'[s].op \in {"save", "commit"} =>
                    posting'[s].files \subseteq disk' \ inDoubt
               /\ \A g \in posting'[s].files : attachments[g] = NoAttachment \/ g \in inDoubt
    <3>1. CASE s = r
      BY <3>1, <1>3 DEF NoPost
    <3>2. CASE s # r
      <4>1. posting'[s] = posting[s] /\ posting[s].files \cap posting[r].files = {}
        BY <3>2, <1>1, <1>3 DEF Posted
      <4>2. QED
        BY <4>1, <1>1, <1>2 DEF Posted
    <3>3. QED
      BY <3>1, <3>2
  <2>3. QED
    BY <2>1, <2>2, <1>1 DEF Posted
<1>7. Filed'
  BY <1>1, <1>5 DEF Filed, Posted
<1>8. Cleaned'
  BY <1>1, <1>2 DEF Cleaned
<1>9. FilesMatchRows'
  <2>1. ASSUME NEW f \in Files, attachments[f].state \in {"kept", "dated"}
        PROVE  f \in disk' \cup inDoubt
    <3>1. CASE f \in posting[r].files
      BY <2>1, <3>1, <1>1 DEF Posted, NoAttachment
    <3>2. CASE f \notin posting[r].files
      BY <2>1, <3>2, <1>1, <1>2 DEF FilesMatchRows
    <3>3. QED
      BY <3>1, <3>2
  <2>2. ASSUME NEW g \in disk' \ adrift'
        PROVE  attachments[g].ticket # 0 \/ \E s \in Uploads : g \in posting'[s].files
    <3>1. g \in disk \ adrift /\ g \notin posting[r].files
      BY <1>2, <2>2
    <3>2. QED
      BY <3>1, <1>1, <1>3 DEF FilesMatchRows
  <2>3. QED
    BY <2>1, <2>2, <1>1 DEF FilesMatchRows
<1>10. QED
  BY <1>4, <1>6, <1>7, <1>8, <1>9 DEF TInv

\* Tickets are closed and opened, files downloaded.
LEMMA TicketsServe ==
  ASSUME TInv,
         \/ got' = {} /\ \E t \in TicketIds : CloseTicket(t) \/ ReopenTicket(t)
         \/ \E u \in Askers, t \in TicketIds, f \in Files : Download(u, t, f)
  PROVE  TInv'
<1>1. /\ tickets \in [TicketIds -> TicketRows]
      /\ TicketsTypeOK /\ Posted /\ Filed /\ Cleaned /\ FilesMatchRows
  BY TicketRowTypes DEF TInv
<1>2. UNCHANGED <<attachments, disk, lastFile, posting, adrift, inDoubt, batch>>
  BY DEF CloseTicket, ReopenTicket, Download, room
<1>3. tickets' \in [TicketIds -> TicketRows]
  BY <1>1 DEF CloseTicket, CloseTicketRow, ReopenTicket, ReopenTicketRow, Download, TicketRows
<1>4. got' \subseteq Askers \X Files
  BY DEF Download
<1>5. Posted' /\ Filed' /\ Cleaned'
  BY <1>1, <1>2 DEF Posted, Filed, Cleaned
<1>6. TicketsTypeOK'
  BY <1>1, <1>2, <1>3, <1>4 DEF TicketsTypeOK
<1>7. \A x \in got' :
        attachments[x[2]].ticket # 0 => tickets'[attachments[x[2]].ticket].owner = x[1]
  BY DEF Download, Owns, Servable
<1>8. FilesMatchRows'
  BY <1>1, <1>2, <1>7 DEF FilesMatchRows
<1>9. QED
  BY <1>5, <1>6, <1>8 DEF TInv

LEMMA CleansUp ==
  ASSUME TInv, got' = {},
         (\E f \in Files : ComesDue(f)) \/ ListExpired \/ RemoveExpired \/ ForgetExpired
  PROVE  TInv'
<1>1. /\ posting \in [Uploads -> PostRows] /\ attachments \in [Files -> AttachmentRows]
      /\ batch \in [op: {"idle", "remove", "forget"}, files: SUBSET Files]
      /\ batch.files \subseteq Files
      /\ TicketsTypeOK /\ Posted /\ Filed /\ Cleaned /\ FilesMatchRows
  BY TicketRowTypes DEF TInv
<1>2. UNCHANGED <<tickets, lastFile, posting, inDoubt>>
  BY DEF ComesDue, ListExpired, RemoveExpired, ForgetExpired, room
<1>3. \A r \in Uploads : \A f \in posting[r].files :
        f \in Files /\ (attachments[f].state = "none" \/ f \in inDoubt)
  BY <1>1 DEF Posted, NoAttachment, PostRows
<1>4. CASE \E f \in Files : ComesDue(f)
  <2>1. PICK f \in Files : ComesDue(f)
    BY <1>4
  <2>2. /\ attachments[f].state = "dated" /\ UNCHANGED <<disk, adrift, batch>>
        /\ attachments' = [attachments EXCEPT ![f].state = "due"]
    BY <2>1 DEF ComesDue, room
  <2>3. /\ attachments' \in [Files -> AttachmentRows]
        /\ \A g \in Files :
            /\ attachments'[g].ticket = attachments[g].ticket
            /\ attachments'[g].state = IF g = f THEN "due" ELSE attachments[g].state
            /\ g # f => attachments'[g] = attachments[g]
    BY <2>2, <1>1 DEF AttachmentRows
  <2>4. TicketsTypeOK' /\ Filed' /\ Cleaned'
    BY <2>2, <2>3, <1>1, <1>2 DEF TicketsTypeOK, Filed, Cleaned
  <2>5. Posted'
    <3>1. \A r \in Uploads : \A g \in posting[r].files :
            attachments'[g] = NoAttachment \/ g \in inDoubt
      BY <2>2, <2>3, <1>1, <1>3 DEF Posted, NoAttachment
    <3>2. QED
      BY <3>1, <2>2, <1>1, <1>2 DEF Posted
  <2>6. FilesMatchRows'
    <3>1. \A g \in disk : g \in Files
      BY <1>1 DEF TicketsTypeOK
    <3>2. QED
      BY <3>1, <2>2, <2>3, <1>1, <1>2 DEF FilesMatchRows
  <2>7. QED
    BY <2>4, <2>5, <2>6 DEF TInv
<1>5. CASE ListExpired
  <2>1. PICK fs \in SUBSET Due : batch' = [op |-> "remove", files |-> fs]
    BY <1>5 DEF ListExpired
  <2>2. UNCHANGED <<attachments, disk, adrift>>
    BY <1>5 DEF ListExpired
  <2>3. TicketsTypeOK' /\ Cleaned'
    BY <2>1, <2>2, <1>1, <1>2 DEF TicketsTypeOK, Cleaned, Due
  <2>4. Posted' /\ Filed'
    BY <2>2, <1>1, <1>2 DEF Posted, Filed
  <2>5. FilesMatchRows'
    BY <2>2, <1>1, <1>2 DEF FilesMatchRows
  <2>6. QED
    BY <2>3, <2>4, <2>5 DEF TInv
<1>6. CASE RemoveExpired
  <2>1. PICK stay \in SUBSET (batch.files \cap disk) :
            disk' = (disk \ batch.files) \cup stay /\ adrift' = adrift \cup stay
    BY <1>6 DEF RemoveExpired
  <2>2. /\ UNCHANGED attachments /\ batch.op = "remove"
        /\ batch'.op = "forget" /\ batch'.files = batch.files
        /\ batch' \in [op: {"idle", "remove", "forget"}, files: SUBSET Files]
    BY <1>6, <1>1 DEF RemoveExpired
  <2>3. disk' \subseteq disk /\ disk' \cap batch.files \subseteq adrift'
        /\ \A f \in disk : f \in disk' \/ attachments[f].state = "due"
    BY <2>1, <1>1 DEF Cleaned
  <2>4. TicketsTypeOK' /\ Cleaned' /\ Filed'
    BY <2>1, <2>2, <2>3, <1>1, <1>2 DEF TicketsTypeOK, Cleaned, Filed
  <2>5. Posted'
    <3>1. ASSUME NEW r \in Uploads, posting[r].op \in {"save", "commit"}
          PROVE  posting[r].files \subseteq disk' \ inDoubt
      BY <3>1, <2>3, <1>1, <1>3 DEF Posted
    <3>2. QED
      BY <3>1, <2>2, <1>1, <1>2 DEF Posted
  <2>6. FilesMatchRows'
    BY <2>1, <2>2, <2>3, <1>1, <1>2 DEF FilesMatchRows
  <2>7. QED
    BY <2>4, <2>5, <2>6 DEF TInv
<1>7. CASE ForgetExpired
  <2>1. /\ batch.op = "forget" /\ batch' = NoBatch /\ UNCHANGED <<disk, adrift>>
    BY <1>7 DEF ForgetExpired
  <2>2. /\ attachments' \in [Files -> AttachmentRows]
        /\ \A f \in Files : \/ attachments'[f] = attachments[f]
                            \/ f \in batch.files /\ attachments'[f] = NoAttachment
    <3>1. NoAttachment \in AttachmentRows
      BY DEF NoAttachment, AttachmentRows
    <3>2. QED
      BY <3>1, <1>1, <1>7 DEF ForgetExpired
  <2>3. NoAttachment.state = "none" /\ NoAttachment.ticket = 0
    BY DEF NoAttachment
  <2>4. TicketsTypeOK' /\ Cleaned'
    BY <2>1, <2>2, <1>1, <1>2 DEF TicketsTypeOK, Cleaned, NoBatch
  <2>5. Filed'
    BY <2>1, <2>2, <2>3, <1>1, <1>2 DEF Filed
  <2>6. Posted'
    BY <2>1, <2>2, <1>1, <1>2, <1>3 DEF Posted
  <2>7. FilesMatchRows'
    <3>1. ASSUME NEW g \in disk \ adrift
          PROVE  attachments'[g].ticket # 0 \/ \E s \in Uploads : g \in posting[s].files
      <4>1. g \in Files /\ g \notin batch.files
        BY <3>1, <2>1, <1>1 DEF Cleaned, TicketsTypeOK
      <4>2. attachments'[g] = attachments[g]
        BY <4>1, <2>2
      <4>3. QED
        BY <3>1, <4>2, <1>1 DEF FilesMatchRows
    <3>2. \A f \in Files : attachments'[f].state \in {"kept", "dated"} => f \in disk \cup inDoubt
      BY <2>2, <2>3, <1>1 DEF FilesMatchRows
    <3>3. QED
      BY <3>1, <3>2, <2>1, <1>2 DEF FilesMatchRows
  <2>8. QED
    BY <2>4, <2>5, <2>6, <2>7 DEF TInv
<1>8. QED
  BY <1>4, <1>5, <1>6, <1>7

LEMMA CrashesLeaveFiles ==
  ASSUME TInv, got' = {}, CrashTickets
  PROVE  TInv'
<1>1. /\ posting \in [Uploads -> PostRows]
      /\ \A r \in Uploads : posting[r].files \subseteq Files
      /\ TicketsTypeOK /\ Posted /\ Filed /\ Cleaned /\ FilesMatchRows
  BY TicketRowTypes DEF TInv, PostRows
<1>2. /\ \A r \in Uploads : posting'[r] = NoPost
      /\ posting' \in [Uploads -> PostRows] /\ batch' = NoBatch
      /\ adrift' = adrift \cup UNION {posting[r].files : r \in Uploads}
      /\ UNCHANGED <<tickets, attachments, disk, lastFile, inDoubt>>
  BY DEF CrashTickets, NoPost, PostRows
<1>3. adrift' \subseteq Files /\ \A r \in Uploads : posting[r].files \subseteq adrift'
  BY <1>1, <1>2 DEF TicketsTypeOK
<1>4. TicketsTypeOK'
  BY <1>1, <1>2, <1>3 DEF TicketsTypeOK, NoBatch
<1>5. Posted' /\ Filed' /\ Cleaned'
  BY <1>1, <1>2 DEF Posted, Filed, Cleaned, NoPost, NoBatch
<1>6. FilesMatchRows'
  BY <1>1, <1>2, <1>3 DEF FilesMatchRows
<1>7. QED
  BY <1>4, <1>5, <1>6 DEF TInv

\* A saved request goes on to its transaction, or gives up.
LEMMA PostTurns ==
  ASSUME TInv, NEW r \in Uploads, AllSaved(r) \/ SaveFails(r) \/ CommitFails(r), got' = {}
  PROVE  TInv'
<1>1. posting \in [Uploads -> PostRows] /\ posting[r] \in PostRows /\ Posted
  BY TicketRowTypes DEF TInv
<1>2. UNCHANGED <<tickets, attachments, disk, lastFile, adrift, inDoubt, batch>>
  BY DEF AllSaved, SaveFails, CommitFails, room
<1>3. PICK o \in {"commit", "undo"} :
          /\ posting' = [posting EXCEPT ![r].op = o]
          /\ posting[r].op \in {"save", "commit"}
  BY DEF AllSaved, SaveFails, CommitFails, At
<1> DEFINE p == [posting[r] EXCEPT !.op = o]
<1>4. p \in PostRows /\ p.op = o /\ p.files = posting[r].files
  BY <1>1 DEF PostRows
<1>5. posting' = [posting EXCEPT ![r] = p]
  BY <1>1, <1>3
<1>6. p.files \subseteq disk \ inDoubt
  BY <1>1, <1>3, <1>4 DEF Posted
<1> HIDE DEF p
<1>7. QED
  BY <1>2, <1>3, <1>4, <1>5, <1>6, PostMoves

\* The invariant of files and the rows that name them.
THEOREM TicketsInductive == TicketsSpec => []TInv
<1>1. ASSUME TInv, [(\E r \in Uploads : TicketsBegin(r)) \/ TicketsGoOn]_ticketVars
      PROVE  TInv'
  <2>1. CASE \E r \in Uploads : TicketsBegin(r)
    BY <1>1, <2>1, PostBegins
  <2>2. CASE TicketsGoOn
    <3>1. CASE \E u \in Askers, t \in TicketIds, f \in Files : Download(u, t, f)
      BY <1>1, <3>1, TicketsServe
    <3>2. ASSUME got' = {}, NEW r \in Uploads, Commit(r) \/ CommitInDoubt(r) PROVE TInv'
      BY <1>1, <3>2, Commits DEF Commit, CommitInDoubt, room
    <3>3. ASSUME got' = {}, NEW r \in Uploads,
                 SaveFile(r) \/ AllSaved(r) \/ SaveFails(r) \/ CommitFails(r) \/ DeleteSaved(r)
          PROVE  TInv'
      BY <1>1, <3>3, SavesFile, PostTurns, DeletesSaved
    <3>4. CASE got' = {} /\ \E t \in TicketIds : CloseTicket(t) \/ ReopenTicket(t)
      BY <1>1, <3>4, TicketsServe
    <3>5. CASE /\ got' = {}
               /\ \/ \E f \in Files : ComesDue(f)
                  \/ ListExpired \/ RemoveExpired \/ ForgetExpired \/ CrashTickets
      BY <1>1, <3>5, CleansUp, CrashesLeaveFiles
    <3>6. QED
      BY <2>2, <3>1, <3>2, <3>3, <3>4, <3>5 DEF TicketsGoOn
  <2>3. CASE UNCHANGED ticketVars
    <3>1. TicketsTypeOK' /\ Posted' /\ Filed'
      BY <1>1, <2>3 DEF ticketVars, TInv, TicketsTypeOK, Posted, Filed
    <3>2. Cleaned' /\ FilesMatchRows'
      BY <1>1, <2>3 DEF ticketVars, TInv, Cleaned, FilesMatchRows
    <3>3. QED
      BY <3>1, <3>2 DEF TInv
  <2>4. QED
    BY <1>1, <2>1, <2>2, <2>3
<1>2. QED
  BY TicketsBegins, <1>1, PTL DEF TicketsSpec

\* What is attached can be downloaded and by its ticket's owner only, and no file is
\* left that nothing removes, but for crashes, failed removals and commits in doubt:
\* for any number of users, requests and files (saveTicketAttachments,
\* cleanupExpiredTicketAttachments, ticketAttachmentDownloadHandler).
THEOREM AttachmentsAreKept == TicketsSpec => []FilesMatchRows
<1>1. TInv => FilesMatchRows
  BY DEF TInv
<1>2. QED
  BY <1>1, TicketsInductive, PTL

-----------------------------------------------------------------------------
(* Usage events and their totals.                                          *)

UsageSpec == RollupsInit /\ [][RollupsNext(Workers)]_rollupVars

\* What a set of events amounts to.
Paid(rs, S) == {e \in S : rs[e].state = "committed"}
CountIn(rs, S) == [n |-> Cardinality(S), usd |-> Cardinality(Paid(rs, S))]
Bill(rs, e) == IF rs[e].state = "committed" THEN 1 ELSE 0

LEMMA EventsFinite ==
  /\ IsFiniteSet(Events) /\ Cardinality(Events) = MaxEvents
  /\ \A S \in SUBSET Events : IsFiniteSet(S) /\ Cardinality(S) \in 0..MaxEvents
<1>1. MaxEvents \in Nat
  BY RollupsAssumption
<1>2. IsFiniteSet(Events) /\ Cardinality(Events) = MaxEvents
  BY <1>1, FS_Interval DEF Events
<1>3. ASSUME NEW S \in SUBSET Events PROVE IsFiniteSet(S) /\ Cardinality(S) \in 0..MaxEvents
  <2>1. IsFiniteSet(S) /\ Cardinality(S) <= Cardinality(Events)
    BY <1>2, FS_Subset
  <2>2. Cardinality(S) \in Nat
    BY <2>1, FS_CardinalityType
  <2>3. QED
    BY <1>1, <1>2, <2>1, <2>2
<1>4. QED
  BY <1>2, <1>3

LEMMA CountTyped ==
  ASSUME NEW rs, NEW S \in SUBSET Events
  PROVE  /\ CountIn(rs, S) \in Cells /\ CountIn(rs, S).n \in Nat /\ CountIn(rs, S).usd \in Nat
         /\ CountIn(rs, {}) = Zero
<1>1. Paid(rs, S) \in SUBSET Events /\ Paid(rs, {}) = {}
  BY DEF Paid
<1>2. Cardinality({}) = 0
  BY FS_EmptySet
<1>3. MaxEvents \in Nat
  BY RollupsAssumption
<1>4. Cardinality(S) \in 0..MaxEvents /\ Cardinality(Paid(rs, S)) \in 0..MaxEvents
  BY <1>1, EventsFinite
<1>5. QED
  BY <1>1, <1>2, <1>3, <1>4 DEF CountIn, Cells, Zero

\* Two sets that share no event amount to the sum.
LEMMA CountUnion ==
  ASSUME NEW rs, NEW S \in SUBSET Events, NEW T \in SUBSET Events, S \cap T = {}
  PROVE  CountIn(rs, S \cup T) = Add(CountIn(rs, S), CountIn(rs, T))
<1>1. ASSUME NEW A \in SUBSET Events, NEW B \in SUBSET Events, A \cap B = {}
      PROVE  Cardinality(A \cup B) = Cardinality(A) + Cardinality(B)
  <2>1. IsFiniteSet(A) /\ IsFiniteSet(B) /\ Cardinality(A) \in Nat /\ Cardinality(B) \in Nat
    BY EventsFinite, RollupsAssumption
  <2>2. Cardinality(A \cap B) = 0
    BY <1>1, FS_EmptySet
  <2>3. Cardinality(A \cup B) = Cardinality(A) + Cardinality(B) - Cardinality(A \cap B)
    BY <2>1, FS_Union
  <2>4. QED
    BY <2>1, <2>2, <2>3
<1>2. /\ Paid(rs, S) \in SUBSET Events /\ Paid(rs, T) \in SUBSET Events
      /\ Paid(rs, S) \cap Paid(rs, T) = {} /\ Paid(rs, S \cup T) = Paid(rs, S) \cup Paid(rs, T)
  BY DEF Paid
<1>3. QED
  BY <1>1, <1>2 DEF CountIn, Add

LEMMA CountOne ==
  ASSUME NEW rs, NEW S \in SUBSET Events, NEW e \in Events, e \notin S
  PROVE  CountIn(rs, S \cup {e}) = [n |-> CountIn(rs, S).n + 1, usd |-> CountIn(rs, S).usd + Bill(rs, e)]
<1>1. CountIn(rs, S \cup {e}) = Add(CountIn(rs, S), CountIn(rs, {e}))
  BY CountUnion
<1>2. Cardinality({e}) = 1 /\ Cardinality({}) = 0
  BY FS_Singleton, FS_EmptySet
<1>3. Paid(rs, {e}) = IF rs[e].state = "committed" THEN {e} ELSE {}
  BY DEF Paid
<1>4. CountIn(rs, {e}).n = 1 /\ CountIn(rs, {e}).usd = Bill(rs, e)
  BY <1>2, <1>3 DEF CountIn, Bill
<1>5. QED
  BY <1>1, <1>4 DEF Add

\* Cells that count the parts of a set of events add up to the count of the set.
LEMMA SumOfParts ==
  ASSUME NEW I, IsFiniteSet(I), NEW rs, NEW U \in SUBSET Events, NEW part \in [I -> SUBSET U],
         \A e \in U : \E i \in I : e \in part[i],
         \A i, j \in I : i # j => part[i] \cap part[j] = {},
         NEW f, f = [i \in I |-> CountIn(rs, part[i])]
  PROVE  Plus(f) = CountIn(rs, U)
<1> DEFINE Of(s) == UNION {part[i] : i \in s}
           P(it) == it = [s \in SUBSET I |->
                IF s = {} THEN Zero
                ELSE LET x == CHOOSE x \in s : TRUE IN Add(f[x], it[s \ {x}])]
           g == [s \in SUBSET I |-> CountIn(rs, Of(s))]
<1>1. \A s \in SUBSET I : Of(s) \in SUBSET Events
  OBVIOUS
<1>2. ASSUME NEW s \in SUBSET I, NEW x \in s
      PROVE  CountIn(rs, Of(s)) = Add(CountIn(rs, part[x]), CountIn(rs, Of(s \ {x})))
  <2>1. Of(s) = part[x] \cup Of(s \ {x}) /\ part[x] \cap Of(s \ {x}) = {}
    OBVIOUS
  <2>2. part[x] \in SUBSET Events /\ Of(s \ {x}) \in SUBSET Events
    BY <1>1
  <2> HIDE DEF Of
  <2>3. part[x] \cap Of(s \ {x}) = {}
    BY <2>1
  <2>4. CountIn(rs, part[x] \cup Of(s \ {x})) = Add(CountIn(rs, part[x]), CountIn(rs, Of(s \ {x})))
    BY <2>2, <2>3, CountUnion
  <2>5. QED
    BY <2>1, <2>4
<1>3. CountIn(rs, Of({})) = Zero
  <2>1. Of({}) = {}
    OBVIOUS
  <2> HIDE DEF Of
  <2>2. QED
    BY <2>1, CountTyped
<1>4. Of(I) = U
  OBVIOUS
<1> HIDE DEF Of
<1>5. P(g)
  <2>1. ASSUME NEW s \in SUBSET I, s # {}
        PROVE  CountIn(rs, Of(s)) = LET x == CHOOSE x \in s : TRUE IN Add(f[x], g[s \ {x}])
    <3>1. PICK x : x = CHOOSE z \in s : TRUE
      OBVIOUS
    <3>2. x \in s
      BY <2>1, <3>1
    <3>3. f[x] = CountIn(rs, part[x]) /\ g[s \ {x}] = CountIn(rs, Of(s \ {x}))
      BY <3>2
    <3>4. CountIn(rs, Of(s)) = Add(f[x], g[s \ {x}])
      BY <1>2, <3>2, <3>3
    <3>5. QED
      BY <3>1, <3>4
  <2>2. \A s \in SUBSET I : g[s] = IF s = {} THEN Zero
                ELSE LET x == CHOOSE x \in s : TRUE IN Add(f[x], g[s \ {x}])
    BY <1>3, <2>1
  <2>3. QED
    BY <2>2
<1>6. Plus(f) = (CHOOSE it : P(it))[I]
  <2>1. DOMAIN f = I
    OBVIOUS
  <2>2. QED
    BY <2>1 DEF Plus, FoldFunction, FoldFunctionOnSet, MapThenFoldSet
<1>7. PICK it : it = CHOOSE t : P(t)
  OBVIOUS
<1>8. P(it)
  <2> HIDE DEF P, g
  <2>1. P(CHOOSE t : P(t))
    BY <1>5
  <2>2. QED
    BY <1>7, <2>1
<1>9. \A s \in SUBSET I : it[s] = CountIn(rs, Of(s))
  <2> DEFINE T == {n \in Nat : \A s \in SUBSET I : Cardinality(s) = n => it[s] = CountIn(rs, Of(s))}
  <2>1. \A s \in SUBSET I : it[s] =
            IF s = {} THEN Zero ELSE LET x == CHOOSE x \in s : TRUE IN Add(f[x], it[s \ {x}])
    BY <1>8
  <2> HIDE DEF P
  <2>2. \A s \in SUBSET I : IsFiniteSet(s) /\ Cardinality(s) \in Nat /\ (Cardinality(s) = 0 <=> s = {})
    BY FS_Subset, FS_CardinalityType, FS_EmptySet
  <2>3. 0 \in T
    BY <1>3, <2>1, <2>2
  <2>4. ASSUME NEW n \in Nat, n \in T PROVE n + 1 \in T
    <3>1. SUFFICES ASSUME NEW s \in SUBSET I, Cardinality(s) = n + 1
                   PROVE  it[s] = CountIn(rs, Of(s))
      OBVIOUS
    <3>2. s # {}
      BY <2>2, <3>1
    <3>3. PICK x : x = CHOOSE z \in s : TRUE
      OBVIOUS
    <3>4. x \in s
      BY <3>2, <3>3
    <3>5. s \ {x} \in SUBSET I /\ Cardinality(s \ {x}) = n
      BY <2>2, <3>1, <3>4, FS_RemoveElement
    <3>6. it[s \ {x}] = CountIn(rs, Of(s \ {x}))
      BY <2>4, <3>5
    <3>7. it[s] = Add(f[x], it[s \ {x}])
      BY <2>1, <3>2, <3>3
    <3>8. f[x] = CountIn(rs, part[x])
      BY <3>4
    <3>9. QED
      BY <1>2, <3>4, <3>6, <3>7, <3>8
  <2>5. T = Nat
    <3>1. T \subseteq Nat
      OBVIOUS
    <3> HIDE DEF T
    <3>2. QED
      BY <2>3, <2>4, <3>1, SetInduction
  <2>6. QED
    BY <2>2, <2>5
<1>10. QED
  <2>1. it[I] = CountIn(rs, Of(I))
    BY <1>9
  <2>2. QED
    BY <1>4, <1>6, <1>7, <2>1

-----------------------------------------------------------------------------
(* What each table of totals holds.                                        *)

Counted(rs) == {e \in Events : rs[e].rolled}
HourIn(rs, e) == HourOf(rs[e].at)
DayIn(rs, e) == DayOf(rs[e].at)
ShardedIn(rs, e) == Shards > 0 /\ rs[e].at >= Cutover

PlainAt(rs, S, h) == {e \in S : ~ShardedIn(rs, e) /\ HourIn(rs, e) = h}
ShardAt(rs, S, h, i) == {e \in S : ShardedIn(rs, e) /\ HourIn(rs, e) = h /\ ShardOf(e) = i}
Through(rs, S, c) == {e \in S : rs[e].channel = c}
ByUser(rs, S, d, u) == {e \in S : DayIn(rs, e) = d /\ rs[e].user = u}
ByModel(rs, S, d, m) == {e \in S : DayIn(rs, e) = d /\ rs[e].model = m}

\* Each cell is the count of the events rolled up that belong to it.
Exact(rs, t) ==
  /\ \A h \in Hours : t.globalHour[h] = CountIn(rs, PlainAt(rs, Counted(rs), h))
  /\ \A h \in Hours, i \in ShardNos :
        t.globalHourSharded[<<h, i>>] = CountIn(rs, ShardAt(rs, Counted(rs), h, i))
  /\ \A d \in Days, u \in Payers : t.userDay[<<d, u>>] = CountIn(rs, ByUser(rs, Counted(rs), d, u))
  /\ \A d \in Days, m \in Priced : t.modelDay[<<d, m>>] = CountIn(rs, ByModel(rs, Counted(rs), d, m))

\* So it is of the channels, for the events K that had one when they were rolled up:
\* at least all that cost something.
Booked(rs, t, K) ==
  /\ K \subseteq Counted(rs)
  /\ \A e \in K : rs[e].channel \in Upstreams
  /\ \A e \in Counted(rs) : rs[e].state = "committed" => e \in K
  /\ \A h \in Hours, c \in Upstreams :
        t.channelHour[<<h, c>>] = CountIn(rs, PlainAt(rs, Through(rs, K, c), h))
  /\ \A h \in Hours, c \in Upstreams, i \in ShardNos :
        t.channelHourSharded[<<h, c, i>>] = CountIn(rs, ShardAt(rs, Through(rs, K, c), h, i))

\* What may change of the events S while no total does.
Still(rs, rt, S) ==
  \A e \in S : /\ rt[e].at = rs[e].at /\ rt[e].user = rs[e].user /\ rt[e].model = rs[e].model
               /\ rt[e].state = "committed" <=> rs[e].state = "committed"
               /\ rs[e].channel # Unset => rt[e].channel = rs[e].channel

LEMMA CountStill ==
  ASSUME NEW rs, NEW rt, NEW S, Still(rs, rt, S)
  PROVE  CountIn(rt, S) = CountIn(rs, S)
<1>1. Paid(rt, S) = Paid(rs, S)
  BY DEF Paid, Still
<1>2. QED
  BY <1>1 DEF CountIn

LEMMA SetsStill ==
  ASSUME NEW rs, NEW rt, NEW S, Still(rs, rt, S)
  PROVE  /\ \A h : PlainAt(rt, S, h) = PlainAt(rs, S, h)
         /\ \A h, i : ShardAt(rt, S, h, i) = ShardAt(rs, S, h, i)
         /\ \A d, u : ByUser(rt, S, d, u) = ByUser(rs, S, d, u)
         /\ \A d, m : ByModel(rt, S, d, m) = ByModel(rs, S, d, m)
<1>1. \A e \in S : /\ rt[e].at = rs[e].at /\ rt[e].user = rs[e].user /\ rt[e].model = rs[e].model
                   /\ ShardedIn(rt, e) = ShardedIn(rs, e) /\ HourIn(rt, e) = HourIn(rs, e)
                   /\ DayIn(rt, e) = DayIn(rs, e)
  BY DEF Still, ShardedIn, HourIn, DayIn
<1>2. QED
  BY <1>1 DEF PlainAt, ShardAt, ByUser, ByModel

LEMMA ExactStill ==
  ASSUME NEW rs, NEW rt, NEW t, Exact(rs, t), Counted(rt) = Counted(rs), Still(rs, rt, Counted(rs))
  PROVE  Exact(rt, t)
<1> DEFINE S == Counted(rs)
<1>1. /\ \A h : PlainAt(rt, S, h) = PlainAt(rs, S, h)
      /\ \A h, i : ShardAt(rt, S, h, i) = ShardAt(rs, S, h, i)
      /\ \A d, u : ByUser(rt, S, d, u) = ByUser(rs, S, d, u)
      /\ \A d, m : ByModel(rt, S, d, m) = ByModel(rs, S, d, m)
  BY SetsStill
<1> HIDE DEF S
<1>2. ASSUME NEW T \in SUBSET S PROVE CountIn(rt, T) = CountIn(rs, T)
  <2>1. Still(rs, rt, T)
    BY DEF Still, S
  <2>2. QED
    BY <2>1, CountStill
<1>3. /\ \A h : PlainAt(rs, S, h) \in SUBSET S
      /\ \A h, i : ShardAt(rs, S, h, i) \in SUBSET S
      /\ \A d, u : ByUser(rs, S, d, u) \in SUBSET S
      /\ \A d, m : ByModel(rs, S, d, m) \in SUBSET S
  BY DEF PlainAt, ShardAt, ByUser, ByModel
<1>4. Counted(rt) = S /\ Counted(rs) = S
  BY DEF S
<1>5. QED
  BY <1>1, <1>2, <1>3, <1>4 DEF Exact

LEMMA BookedStill ==
  ASSUME NEW rs, NEW rt, NEW t, NEW K, Booked(rs, t, K), Counted(rt) = Counted(rs),
         Still(rs, rt, Counted(rs))
  PROVE  Booked(rt, t, K)
<1>1. K \subseteq Counted(rs) /\ \A e \in K : rs[e].channel \in Upstreams
  BY DEF Booked
<1>2. Still(rs, rt, K) /\ \A e \in K : rt[e].channel = rs[e].channel
  BY <1>1, RollupsAssumption DEF Still
<1>3. \A c : Through(rt, K, c) = Through(rs, K, c) /\ Through(rs, K, c) \subseteq K
  BY <1>2 DEF Through
<1>4. ASSUME NEW c
      PROVE  /\ \A h : PlainAt(rt, Through(rt, K, c), h) = PlainAt(rs, Through(rs, K, c), h)
             /\ \A h, i : ShardAt(rt, Through(rt, K, c), h, i) = ShardAt(rs, Through(rs, K, c), h, i)
  <2>1. Still(rs, rt, Through(rs, K, c))
    BY <1>2, <1>3 DEF Still
  <2>2. QED
    BY <1>3, <2>1, SetsStill
<1>5. ASSUME NEW T \in SUBSET K PROVE CountIn(rt, T) = CountIn(rs, T)
  <2>1. Still(rs, rt, T)
    BY <1>2 DEF Still
  <2>2. QED
    BY <2>1, CountStill
<1>6. \A c : /\ \A h : PlainAt(rs, Through(rs, K, c), h) \in SUBSET K
             /\ \A h, i : ShardAt(rs, Through(rs, K, c), h, i) \in SUBSET K
  BY <1>3 DEF PlainAt, ShardAt
<1>7. \A e \in Counted(rt) : rt[e].state = "committed" => e \in K
  BY DEF Booked, Still
<1>8. \A h \in Hours, c \in Upstreams :
        t.channelHour[<<h, c>>] = CountIn(rt, PlainAt(rt, Through(rt, K, c), h))
  BY <1>4, <1>5, <1>6 DEF Booked
<1>9. \A h \in Hours, c \in Upstreams, i \in ShardNos :
        t.channelHourSharded[<<h, c, i>>] = CountIn(rt, ShardAt(rt, Through(rt, K, c), h, i))
  <2>1. SUFFICES ASSUME NEW h \in Hours, NEW c \in Upstreams, NEW i \in ShardNos
        PROVE t.channelHourSharded[<<h, c, i>>] = CountIn(rt, ShardAt(rt, Through(rt, K, c), h, i))
    OBVIOUS
  <2>2. t.channelHourSharded[<<h, c, i>>] = CountIn(rs, ShardAt(rs, Through(rs, K, c), h, i))
    BY DEF Booked
  <2>3. ShardAt(rt, Through(rt, K, c), h, i) = ShardAt(rs, Through(rs, K, c), h, i)
    BY <1>4
  <2>4. ShardAt(rs, Through(rs, K, c), h, i) \in SUBSET K
    BY <1>6
  <2>5. QED
    BY <1>5, <2>2, <2>3, <2>4
<1>10. QED
  BY <1>1, <1>2, <1>7, <1>8, <1>9 DEF Booked

TablesOf(C) ==
  [globalHour: [Hours -> C], globalHourSharded: [Hours \X ShardNos -> C],
   channelHour: [Hours \X Upstreams -> C],
   channelHourSharded: [Hours \X Upstreams \X ShardNos -> C],
   userDay: [Days \X Payers -> C], modelDay: [Days \X Priced -> C]]

\* What an event adds to the tables, cell by cell.
AddsGlobal(e) ==
  [h \in Hours |-> IF ~Sharded(e) /\ H(e) = h THEN More(totals.globalHour[h], e)
                  ELSE totals.globalHour[h]]
AddsGlobalSharded(e) ==
  [x \in Hours \X ShardNos |->
    IF Sharded(e) /\ x = <<H(e), ShardOf(e)>> THEN More(totals.globalHourSharded[x], e)
    ELSE totals.globalHourSharded[x]]
AddsChannel(e) ==
  [x \in Hours \X Upstreams |->
    IF ~Sharded(e) /\ rows[e].channel # Unset /\ x = <<H(e), rows[e].channel>>
    THEN More(totals.channelHour[x], e) ELSE totals.channelHour[x]]
AddsChannelSharded(e) ==
  [x \in Hours \X Upstreams \X ShardNos |->
    IF Sharded(e) /\ rows[e].channel # Unset /\ x = <<H(e), rows[e].channel, ShardOf(e)>>
    THEN More(totals.channelHourSharded[x], e) ELSE totals.channelHourSharded[x]]
AddsUser(e) ==
  [x \in Days \X Payers |-> IF x = <<D(e), rows[e].user>> THEN More(totals.userDay[x], e)
                           ELSE totals.userDay[x]]
AddsModel(e) ==
  [x \in Days \X Priced |-> IF x = <<D(e), rows[e].model>> THEN More(totals.modelDay[x], e)
                           ELSE totals.modelDay[x]]

LEMMA AddedIs ==
  ASSUME NEW C, totals \in TablesOf(C), NEW e
  PROVE  Added(e) = [globalHour |-> AddsGlobal(e), globalHourSharded |-> AddsGlobalSharded(e),
                     channelHour |-> AddsChannel(e), channelHourSharded |-> AddsChannelSharded(e),
                     userDay |-> AddsUser(e), modelDay |-> AddsModel(e)]
<1>1. /\ totals.globalHour \in [Hours -> C] /\ totals.globalHourSharded \in [Hours \X ShardNos -> C]
      /\ totals.channelHour \in [Hours \X Upstreams -> C]
      /\ totals.channelHourSharded \in [Hours \X Upstreams \X ShardNos -> C]
      /\ totals.userDay \in [Days \X Payers -> C] /\ totals.modelDay \in [Days \X Priced -> C]
      /\ totals = [globalHour |-> totals.globalHour, globalHourSharded |-> totals.globalHourSharded,
                   channelHour |-> totals.channelHour, channelHourSharded |-> totals.channelHourSharded,
                   userDay |-> totals.userDay, modelDay |-> totals.modelDay]
  BY DEF TablesOf
<1>3. AddsUser(e) = [totals.userDay EXCEPT ![<<D(e), rows[e].user>>] = More(@, e)]
  BY <1>1 DEF AddsUser
<1>4. AddsModel(e) = [totals.modelDay EXCEPT ![<<D(e), rows[e].model>>] = More(@, e)]
  BY <1>1 DEF AddsModel
<1>5. AddsGlobal(e) = IF Sharded(e) THEN totals.globalHour
                      ELSE [totals.globalHour EXCEPT ![H(e)] = More(@, e)]
  BY <1>1 DEF AddsGlobal
<1>6. AddsGlobalSharded(e) = IF Sharded(e)
                             THEN [totals.globalHourSharded EXCEPT ![<<H(e), ShardOf(e)>>] = More(@, e)]
                             ELSE totals.globalHourSharded
  BY <1>1 DEF AddsGlobalSharded
<1>7. AddsChannel(e) = IF Sharded(e) \/ rows[e].channel = Unset THEN totals.channelHour
                       ELSE [totals.channelHour EXCEPT ![<<H(e), rows[e].channel>>] = More(@, e)]
  BY <1>1 DEF AddsChannel
<1>8. AddsChannelSharded(e) =
        IF Sharded(e) /\ rows[e].channel # Unset
        THEN [totals.channelHourSharded EXCEPT ![<<H(e), rows[e].channel, ShardOf(e)>>] = More(@, e)]
        ELSE totals.channelHourSharded
  BY <1>1 DEF AddsChannelSharded
<1>9. PICK g, gs, c, cs, u, m :
        g = totals.globalHour /\ gs = totals.globalHourSharded /\ c = totals.channelHour
        /\ cs = totals.channelHourSharded /\ u = totals.userDay /\ m = totals.modelDay
  OBVIOUS
<1>10. PICK g2, gs2, c2, cs2, u2, m2 :
        g2 = AddsGlobal(e) /\ gs2 = AddsGlobalSharded(e) /\ c2 = AddsChannel(e)
        /\ cs2 = AddsChannelSharded(e) /\ u2 = AddsUser(e) /\ m2 = AddsModel(e)
  OBVIOUS
<1>11. totals = [globalHour |-> g, globalHourSharded |-> gs, channelHour |-> c,
               channelHourSharded |-> cs, userDay |-> u, modelDay |-> m]
  BY <1>1, <1>9
<1>12. Added(e) = [globalHour |-> g2, globalHourSharded |-> gs2, channelHour |-> c2,
               channelHourSharded |-> cs2, userDay |-> u2, modelDay |-> m2]
  <2>1. CASE ~Sharded(e)
    <3>1. AddGlobalHour(totals, e) =
              [globalHour |-> g2, globalHourSharded |-> gs2, channelHour |-> c,
               channelHourSharded |-> cs, userDay |-> u, modelDay |-> m]
      BY <1>5, <1>6, <1>9, <1>10, <1>11, <2>1 DEF AddGlobalHour
    <3>2. AddChannelHour([globalHour |-> g2, globalHourSharded |-> gs2, channelHour |-> c,
               channelHourSharded |-> cs, userDay |-> u, modelDay |-> m], e) =
              [globalHour |-> g2, globalHourSharded |-> gs2, channelHour |-> c2,
               channelHourSharded |-> cs2, userDay |-> u, modelDay |-> m]
      BY <1>7, <1>8, <1>9, <1>10, <2>1 DEF AddChannelHour
    <3>3. AddUserDay([globalHour |-> g2, globalHourSharded |-> gs2, channelHour |-> c2,
               channelHourSharded |-> cs2, userDay |-> u, modelDay |-> m], e) =
              [globalHour |-> g2, globalHourSharded |-> gs2, channelHour |-> c2,
               channelHourSharded |-> cs2, userDay |-> u2, modelDay |-> m]
      BY <1>3, <1>9, <1>10, <2>1 DEF AddUserDay
    <3>4. AddModelDay([globalHour |-> g2, globalHourSharded |-> gs2, channelHour |-> c2,
               channelHourSharded |-> cs2, userDay |-> u2, modelDay |-> m], e) =
              [globalHour |-> g2, globalHourSharded |-> gs2, channelHour |-> c2,
               channelHourSharded |-> cs2, userDay |-> u2, modelDay |-> m2]
      BY <1>4, <1>9, <1>10, <2>1 DEF AddModelDay
    <3>5. QED
      BY <2>1, <3>1, <3>2, <3>3, <3>4 DEF Added
  <2>2. CASE Sharded(e)
    <3>1. AddGlobalHourSharded(totals, e) =
              [globalHour |-> g2, globalHourSharded |-> gs2, channelHour |-> c,
               channelHourSharded |-> cs, userDay |-> u, modelDay |-> m]
      BY <1>5, <1>6, <1>9, <1>10, <1>11, <2>2 DEF AddGlobalHourSharded
    <3>2. AddChannelHourSharded([globalHour |-> g2, globalHourSharded |-> gs2, channelHour |-> c,
               channelHourSharded |-> cs, userDay |-> u, modelDay |-> m], e) =
              [globalHour |-> g2, globalHourSharded |-> gs2, channelHour |-> c2,
               channelHourSharded |-> cs2, userDay |-> u, modelDay |-> m]
      BY <1>7, <1>8, <1>9, <1>10, <2>2 DEF AddChannelHourSharded
    <3>3. AddUserDay([globalHour |-> g2, globalHourSharded |-> gs2, channelHour |-> c2,
               channelHourSharded |-> cs2, userDay |-> u, modelDay |-> m], e) =
              [globalHour |-> g2, globalHourSharded |-> gs2, channelHour |-> c2,
               channelHourSharded |-> cs2, userDay |-> u2, modelDay |-> m]
      BY <1>3, <1>9, <1>10, <2>2 DEF AddUserDay
    <3>4. AddModelDay([globalHour |-> g2, globalHourSharded |-> gs2, channelHour |-> c2,
               channelHourSharded |-> cs2, userDay |-> u2, modelDay |-> m], e) =
              [globalHour |-> g2, globalHourSharded |-> gs2, channelHour |-> c2,
               channelHourSharded |-> cs2, userDay |-> u2, modelDay |-> m2]
      BY <1>4, <1>9, <1>10, <2>2 DEF AddModelDay
    <3>5. QED
      BY <2>2, <3>1, <3>2, <3>3, <3>4 DEF Added
  <2>3. QED
    BY <2>1, <2>2
<1>13. QED
  BY <1>10, <1>12

LEMMA SlotsAreFiled ==
  ASSUME NEW rs \in [Events -> EventRows], NEW e \in Events
  PROVE  /\ HourIn(rs, e) \in Hours /\ DayIn(rs, e) \in Days /\ rs[e].user \in Payers
         /\ rs[e].model \in Priced /\ rs[e].at \in Slots /\ rs[e].channel \in Upstreams \cup {Unset}
         /\ ShardedIn(rs, e) => ShardOf(e) \in ShardNos
<1>1. /\ rs[e].at \in Slots /\ rs[e].user \in Payers /\ rs[e].model \in Priced
      /\ rs[e].channel \in Upstreams \cup {Unset}
  BY DEF EventRows
<1>2. HourIn(rs, e) \in Hours /\ DayIn(rs, e) \in Days
  BY <1>1 DEF HourIn, DayIn, Hours, Days
<1>3. ASSUME ShardedIn(rs, e) PROVE ShardOf(e) \in ShardNos
  <2>1. Shards \in Nat /\ Shards > 0 /\ e \in Nat
    BY <1>3, RollupsAssumption DEF ShardedIn, Events
  <2>2. e % Shards \in 0..(Shards - 1)
    BY <2>1
  <2>3. QED
    BY <2>1, <2>2 DEF ShardOf, ShardNos
<1>4. QED
  BY <1>1, <1>2, <1>3

\* Rolling up an event that is not yet in the totals keeps them exact.
LEMMA RollStep ==
  ASSUME rows \in [Events -> EventRows], totals \in TablesOf(Cells), Exact(rows, totals),
         NEW K, Booked(rows, totals, K),
         NEW e \in Events, ~rows[e].rolled,
         rows[e].state = "committed" => rows[e].channel \in Upstreams,
         NEW rt, rt = [rows EXCEPT ![e].rolled = TRUE], NEW t, t = Added(e)
  PROVE  /\ t \in TablesOf(Cells) /\ Exact(rt, t)
         /\ Booked(rt, t, IF rows[e].channel = Unset THEN K ELSE K \cup {e})
<1> DEFINE S == Counted(rows)
           K2 == IF rows[e].channel = Unset THEN K ELSE K \cup {e}
<1>1. t = [globalHour |-> AddsGlobal(e), globalHourSharded |-> AddsGlobalSharded(e),
           channelHour |-> AddsChannel(e), channelHourSharded |-> AddsChannelSharded(e),
           userDay |-> AddsUser(e), modelDay |-> AddsModel(e)]
  BY AddedIs
<1>2. /\ S \in SUBSET Events /\ e \notin S /\ Counted(rt) = S \cup {e}
      /\ K \subseteq S
  BY DEF Counted, Booked
<1>3. \A d \in Events : /\ rt[d].state = rows[d].state /\ rt[d].at = rows[d].at
                        /\ rt[d].user = rows[d].user /\ rt[d].model = rows[d].model
                        /\ rt[d].channel = rows[d].channel
  BY DEF EventRows
<1>4. \A d \in Events : /\ ShardedIn(rt, d) = ShardedIn(rows, d) /\ HourIn(rt, d) = HourIn(rows, d)
                        /\ DayIn(rt, d) = DayIn(rows, d)
  BY <1>3 DEF ShardedIn, HourIn, DayIn
<1>5. /\ HourIn(rows, e) \in Hours /\ DayIn(rows, e) \in Days /\ rows[e].user \in Payers
      /\ rows[e].model \in Priced /\ rows[e].channel \in Upstreams \cup {Unset}
      /\ ShardedIn(rows, e) => ShardOf(e) \in ShardNos
  BY SlotsAreFiled
<1>6. /\ Sharded(e) = ShardedIn(rows, e) /\ H(e) = HourIn(rows, e) /\ D(e) = DayIn(rows, e)
      /\ \A cell : More(cell, e) = [n |-> cell.n + 1, usd |-> cell.usd + Bill(rows, e)]
  BY DEF Sharded, ShardedIn, H, D, HourIn, DayIn, More, Bill
<1> HIDE DEF S
\* A cell grows if the event belongs to it.
<1>7. ASSUME NEW A \in SUBSET S
      PROVE  /\ CountIn(rt, A) = CountIn(rows, A) /\ CountIn(rt, A) \in Cells
             /\ CountIn(rt, A \cup {e}) = More(CountIn(rows, A), e) /\ CountIn(rt, A \cup {e}) \in Cells
  <2>1. A \in SUBSET Events /\ e \notin A /\ A \cup {e} \in SUBSET Events
    BY <1>2
  <2>2. CountIn(rt, A) \in Cells /\ CountIn(rt, A \cup {e}) \in Cells
    BY <2>1, CountTyped
  <2>3. /\ CountIn(rt, A) = CountIn(rows, A)
        /\ CountIn(rt, A \cup {e}) =
                [n |-> CountIn(rows, A).n + 1, usd |-> CountIn(rows, A).usd + Bill(rows, e)]
    <3>1. \A d \in Events : rt[d].state = rows[d].state
      BY <1>3
    <3>2. Paid(rt, A) = Paid(rows, A) /\ Paid(rt, A \cup {e}) = Paid(rows, A \cup {e})
      BY <2>1, <3>1 DEF Paid
    <3>3. CountIn(rt, A) = CountIn(rows, A) /\ CountIn(rt, A \cup {e}) = CountIn(rows, A \cup {e})
      BY <3>2 DEF CountIn
    <3>4. CountIn(rows, A \cup {e}) =
            [n |-> CountIn(rows, A).n + 1, usd |-> CountIn(rows, A).usd + Bill(rows, e)]
      BY <2>1, CountOne
    <3>5. QED
      BY <3>3, <3>4
  <2>4. QED
    BY <1>6, <2>2, <2>3
<1>8. ASSUME NEW h \in Hours
      PROVE  t.globalHour[h] = CountIn(rt, PlainAt(rt, S \cup {e}, h)) /\ t.globalHour[h] \in Cells
  <2> DEFINE A == PlainAt(rows, S, h)
             B == PlainAt(rt, S \cup {e}, h)
  <2>1. A \in SUBSET S
    BY <1>2 DEF PlainAt
  <2>2. totals.globalHour[h] = CountIn(rows, A)
    BY DEF Exact, S
  <2>3. CASE ~Sharded(e) /\ H(e) = h
    <3>1. B = A \cup {e}
      BY <1>2, <1>3, <1>4, <1>5, <1>6, <2>3, RollupsAssumption DEF PlainAt
    <3>2. t.globalHour[h] = More(totals.globalHour[h], e)
      BY <1>1, <2>3 DEF AddsGlobal
    <3> HIDE DEF A, B
    <3>3. QED
      BY <1>7, <2>1, <2>2, <3>1, <3>2 DEF B
  <2>4. CASE ~(~Sharded(e) /\ H(e) = h)
    <3>1. B = A
      BY <1>2, <1>3, <1>4, <1>5, <1>6, <2>4, RollupsAssumption DEF PlainAt
    <3>2. t.globalHour[h] = totals.globalHour[h]
      BY <1>1, <2>4 DEF AddsGlobal
    <3> HIDE DEF A, B
    <3>3. QED
      BY <1>7, <2>1, <2>2, <3>1, <3>2 DEF B
  <2>5. QED
    BY <2>3, <2>4
<1>9. ASSUME NEW h \in Hours, NEW i \in ShardNos
      PROVE  /\ t.globalHourSharded[<<h, i>>] = CountIn(rt, ShardAt(rt, S \cup {e}, h, i))
             /\ t.globalHourSharded[<<h, i>>] \in Cells
  <2> DEFINE A == ShardAt(rows, S, h, i)
             B == ShardAt(rt, S \cup {e}, h, i)
  <2>1. A \in SUBSET S
    BY <1>2 DEF ShardAt
  <2>2. totals.globalHourSharded[<<h, i>>] = CountIn(rows, A)
    BY DEF Exact, S
  <2>3. CASE Sharded(e) /\ H(e) = h /\ ShardOf(e) = i
    <3>1. B = A \cup {e}
      BY <1>2, <1>3, <1>4, <1>5, <1>6, <2>3, RollupsAssumption DEF ShardAt
    <3>2. t.globalHourSharded[<<h, i>>] = More(totals.globalHourSharded[<<h, i>>], e)
      BY <1>1, <2>3 DEF AddsGlobalSharded
    <3> HIDE DEF A, B
    <3>3. QED
      BY <1>7, <2>1, <2>2, <3>1, <3>2 DEF B
  <2>4. CASE ~(Sharded(e) /\ H(e) = h /\ ShardOf(e) = i)
    <3>1. B = A
      BY <1>2, <1>3, <1>4, <1>5, <1>6, <2>4, RollupsAssumption DEF ShardAt
    <3>2. t.globalHourSharded[<<h, i>>] = totals.globalHourSharded[<<h, i>>]
      BY <1>1, <2>4 DEF AddsGlobalSharded
    <3> HIDE DEF A, B
    <3>3. QED
      BY <1>7, <2>1, <2>2, <3>1, <3>2 DEF B
  <2>5. QED
    BY <2>3, <2>4
<1>10. ASSUME NEW d \in Days, NEW u \in Payers
      PROVE  /\ t.userDay[<<d, u>>] = CountIn(rt, ByUser(rt, S \cup {e}, d, u))
             /\ t.userDay[<<d, u>>] \in Cells
  <2> DEFINE A == ByUser(rows, S, d, u)
             B == ByUser(rt, S \cup {e}, d, u)
  <2>1. A \in SUBSET S
    BY <1>2 DEF ByUser
  <2>2. totals.userDay[<<d, u>>] = CountIn(rows, A)
    BY DEF Exact, S
  <2>3. CASE D(e) = d /\ rows[e].user = u
    <3>1. B = A \cup {e}
      BY <1>2, <1>3, <1>4, <1>5, <1>6, <2>3, RollupsAssumption DEF ByUser
    <3>2. t.userDay[<<d, u>>] = More(totals.userDay[<<d, u>>], e)
      BY <1>1, <2>3 DEF AddsUser
    <3> HIDE DEF A, B
    <3>3. QED
      BY <1>7, <2>1, <2>2, <3>1, <3>2 DEF B
  <2>4. CASE ~(D(e) = d /\ rows[e].user = u)
    <3>1. B = A
      <4>1. \A x \in S : DayIn(rt, x) = DayIn(rows, x) /\ rt[x].user = rows[x].user
        BY <1>2, <1>3, <1>4
      <4>2. ~(DayIn(rt, e) = d /\ rt[e].user = u)
        BY <1>2, <1>3, <1>4, <1>5, <1>6, <2>4, RollupsAssumption
      <4>3. QED
        BY <4>1, <4>2 DEF ByUser
    <3>2. t.userDay[<<d, u>>] = totals.userDay[<<d, u>>]
      BY <1>1, <2>4 DEF AddsUser
    <3> HIDE DEF A, B
    <3>3. QED
      BY <1>7, <2>1, <2>2, <3>1, <3>2 DEF B
  <2>5. QED
    BY <2>3, <2>4
<1>11. ASSUME NEW d \in Days, NEW m \in Priced
      PROVE  /\ t.modelDay[<<d, m>>] = CountIn(rt, ByModel(rt, S \cup {e}, d, m))
             /\ t.modelDay[<<d, m>>] \in Cells
  <2> DEFINE A == ByModel(rows, S, d, m)
             B == ByModel(rt, S \cup {e}, d, m)
  <2>1. A \in SUBSET S
    BY <1>2 DEF ByModel
  <2>2. totals.modelDay[<<d, m>>] = CountIn(rows, A)
    BY DEF Exact, S
  <2>3. CASE D(e) = d /\ rows[e].model = m
    <3>1. B = A \cup {e}
      BY <1>2, <1>3, <1>4, <1>5, <1>6, <2>3, RollupsAssumption DEF ByModel
    <3>2. t.modelDay[<<d, m>>] = More(totals.modelDay[<<d, m>>], e)
      BY <1>1, <2>3 DEF AddsModel
    <3> HIDE DEF A, B
    <3>3. QED
      BY <1>7, <2>1, <2>2, <3>1, <3>2 DEF B
  <2>4. CASE ~(D(e) = d /\ rows[e].model = m)
    <3>1. B = A
      <4>1. \A x \in S : DayIn(rt, x) = DayIn(rows, x) /\ rt[x].model = rows[x].model
        BY <1>2, <1>3, <1>4
      <4>2. ~(DayIn(rt, e) = d /\ rt[e].model = m)
        BY <1>2, <1>3, <1>4, <1>5, <1>6, <2>4, RollupsAssumption
      <4>3. QED
        BY <4>1, <4>2 DEF ByModel
    <3>2. t.modelDay[<<d, m>>] = totals.modelDay[<<d, m>>]
      BY <1>1, <2>4 DEF AddsModel
    <3> HIDE DEF A, B
    <3>3. QED
      BY <1>7, <2>1, <2>2, <3>1, <3>2 DEF B
  <2>5. QED
    BY <2>3, <2>4
<1>12. ASSUME NEW h \in Hours, NEW c \in Upstreams
      PROVE  /\ t.channelHour[<<h, c>>] = CountIn(rt, PlainAt(rt, Through(rt, K2, c), h))
             /\ t.channelHour[<<h, c>>] \in Cells
  <2> DEFINE A == PlainAt(rows, Through(rows, K, c), h)
             B == PlainAt(rt, Through(rt, K2, c), h)
  <2>1. A \in SUBSET S
    BY <1>2 DEF PlainAt, Through
  <2>2. totals.channelHour[<<h, c>>] = CountIn(rows, A)
    BY DEF Booked
  <2>3. CASE ~Sharded(e) /\ H(e) = h /\ rows[e].channel = c
    <3>1. B = A \cup {e}
      BY <1>2, <1>3, <1>4, <1>5, <1>6, <2>3, RollupsAssumption DEF PlainAt, Through
    <3>2. t.channelHour[<<h, c>>] = More(totals.channelHour[<<h, c>>], e)
      BY <1>1, <2>3, RollupsAssumption DEF AddsChannel
    <3> HIDE DEF A, B
    <3>3. QED
      BY <1>7, <2>1, <2>2, <3>1, <3>2 DEF B
  <2>4. CASE ~(~Sharded(e) /\ H(e) = h /\ rows[e].channel = c)
    <3>1. B = A
      <4>1. \A x \in S : /\ ShardedIn(rt, x) = ShardedIn(rows, x)
                          /\ HourIn(rt, x) = HourIn(rows, x) /\ rt[x].channel = rows[x].channel
        BY <1>2, <1>3, <1>4
      <4>2. e \in K2 => ~(~ShardedIn(rt, e) /\ HourIn(rt, e) = h /\ rt[e].channel = c)
        BY <1>2, <1>3, <1>4, <1>5, <1>6, <2>4, RollupsAssumption
      <4>3. K2 \subseteq K \cup {e} /\ K \subseteq K2 /\ K \subseteq S /\ e \notin K
        BY <1>2
      <4> HIDE DEF K2
      <4>4. QED
        BY <4>1, <4>2, <4>3 DEF PlainAt, Through
    <3>2. t.channelHour[<<h, c>>] = totals.channelHour[<<h, c>>]
      BY <1>1, <2>4 DEF AddsChannel
    <3> HIDE DEF A, B
    <3>3. QED
      BY <1>7, <2>1, <2>2, <3>1, <3>2 DEF B
  <2>5. QED
    BY <2>3, <2>4
<1>13. ASSUME NEW h \in Hours, NEW c \in Upstreams, NEW i \in ShardNos
      PROVE  /\ t.channelHourSharded[<<h, c, i>>] = CountIn(rt, ShardAt(rt, Through(rt, K2, c), h, i))
             /\ t.channelHourSharded[<<h, c, i>>] \in Cells
  <2> DEFINE A == ShardAt(rows, Through(rows, K, c), h, i)
             B == ShardAt(rt, Through(rt, K2, c), h, i)
  <2>1. A \in SUBSET S
    BY <1>2 DEF ShardAt, Through
  <2>2. totals.channelHourSharded[<<h, c, i>>] = CountIn(rows, A)
    BY DEF Booked
  <2>3. CASE Sharded(e) /\ H(e) = h /\ rows[e].channel = c /\ ShardOf(e) = i
    <3>1. B = A \cup {e}
      BY <1>2, <1>3, <1>4, <1>5, <1>6, <2>3, RollupsAssumption DEF ShardAt, Through
    <3>2. t.channelHourSharded[<<h, c, i>>] = More(totals.channelHourSharded[<<h, c, i>>], e)
      BY <1>1, <2>3, RollupsAssumption DEF AddsChannelSharded
    <3> HIDE DEF A, B
    <3>3. QED
      BY <1>7, <2>1, <2>2, <3>1, <3>2 DEF B
  <2>4. CASE ~(Sharded(e) /\ H(e) = h /\ rows[e].channel = c /\ ShardOf(e) = i)
    <3>1. B = A
      BY <1>2, <1>3, <1>4, <1>5, <1>6, <2>4, RollupsAssumption DEF ShardAt, Through
    <3>2. t.channelHourSharded[<<h, c, i>>] = totals.channelHourSharded[<<h, c, i>>]
      BY <1>1, <2>4 DEF AddsChannelSharded
    <3> HIDE DEF A, B
    <3>3. QED
      BY <1>7, <2>1, <2>2, <3>1, <3>2 DEF B
  <2>5. QED
    BY <2>3, <2>4
<1>14. Exact(rt, t)
  BY <1>2, <1>8, <1>9, <1>10, <1>11 DEF Exact
<1>15. Booked(rt, t, K2)
  <2>1. K2 \subseteq Counted(rt) /\ \A d \in K2 : rt[d].channel \in Upstreams
    BY <1>2, <1>3, <1>5 DEF Booked
  <2>2. \A d \in Counted(rt) : rt[d].state = "committed" => d \in K2
    BY <1>2, <1>3, RollupsAssumption DEF Booked, S
  <2> HIDE DEF K2
  <2>3. QED
    BY <1>12, <1>13, <2>1, <2>2 DEF Booked
<1>16. t \in TablesOf(Cells)
  <2>1. t.globalHour \in [Hours -> Cells]
    BY <1>1, <1>8 DEF AddsGlobal
  <2>2. t.globalHourSharded \in [Hours \X ShardNos -> Cells]
    <3>1. ASSUME NEW x \in Hours \X ShardNos PROVE t.globalHourSharded[x] \in Cells
      <4>1. PICK h \in Hours, i \in ShardNos : x = <<h, i>>
        OBVIOUS
      <4>2. QED
        BY <1>9, <4>1
    <3>2. QED
      BY <1>1, <3>1 DEF AddsGlobalSharded
  <2>3. t.channelHour \in [Hours \X Upstreams -> Cells]
    <3>1. ASSUME NEW x \in Hours \X Upstreams PROVE t.channelHour[x] \in Cells
      <4>1. PICK h \in Hours, c \in Upstreams : x = <<h, c>>
        OBVIOUS
      <4>2. QED
        BY <1>12, <4>1
    <3>2. QED
      BY <1>1, <3>1 DEF AddsChannel
  <2>4. t.channelHourSharded \in [Hours \X Upstreams \X ShardNos -> Cells]
    <3>1. ASSUME NEW x \in Hours \X Upstreams \X ShardNos PROVE t.channelHourSharded[x] \in Cells
      <4>1. PICK h \in Hours, c \in Upstreams, i \in ShardNos : x = <<h, c, i>>
        OBVIOUS
      <4>2. QED
        BY <1>13, <4>1
    <3>2. QED
      BY <1>1, <3>1 DEF AddsChannelSharded
  <2>5. t.userDay \in [Days \X Payers -> Cells]
    <3>1. ASSUME NEW x \in Days \X Payers PROVE t.userDay[x] \in Cells
      <4>1. PICK d \in Days, u \in Payers : x = <<d, u>>
        OBVIOUS
      <4>2. QED
        BY <1>10, <4>1
    <3>2. QED
      BY <1>1, <3>1 DEF AddsUser
  <2>6. t.modelDay \in [Days \X Priced -> Cells]
    <3>1. ASSUME NEW x \in Days \X Priced PROVE t.modelDay[x] \in Cells
      <4>1. PICK d \in Days, m \in Priced : x = <<d, m>>
        OBVIOUS
      <4>2. QED
        BY <1>11, <4>1
    <3>2. QED
      BY <1>1, <3>1 DEF AddsModel
  <2>7. QED
    BY <1>1, <2>1, <2>2, <2>3, <2>4, <2>5, <2>6 DEF TablesOf
<1>17. QED
  BY <1>14, <1>15, <1>16

-----------------------------------------------------------------------------
(* The invariant.                                                          *)

\* What an event's row says: it is counted before it goes, nobody who may still commit
\* has it counted, and its channel is known once it costs.
RowsFit == \A e \in Events :
  /\ rows[e].gone => rows[e].rolled
  /\ rows[e].state = "none" =>
        ~rows[e].rolled /\ rows[e].channel = Unset /\ serving[e] = "done"
  /\ rows[e].rolled /\ rows[e].state = "reserved" => serving[e] # "run"
  /\ rows[e].state = "committed" => rows[e].channel # Unset
  /\ serving[e] = "run" /\ rows[e].channel # Unset => rows[e].state = "committed"

\* A backfill adds only what nobody can commit any more.
WorkersFit ==
  /\ \A w \in Workers : \A e \in worker[w].ids : rows[e].state \notin {"none", "reserved"}
  /\ worker["retention"].op = "select" => worker["retention"].rounds < MaxBackfill
  /\ worker["tool"].rounds = 0

UInv ==
  /\ RollupsTypeOK /\ RowsFit /\ WorkersFit
  /\ Exact(rows, totals) /\ \E K : Booked(rows, totals, K)

\* The first n events of a set are n at most.
LEMMA FirstAreFew ==
  ASSUME NEW S \in SUBSET Events, NEW n \in Nat
  PROVE  FirstOf(S, n) \subseteq S /\ Cardinality(FirstOf(S, n)) \in 0..n
<1> DEFINE F == FirstOf(S, n)
<1>1. F \in SUBSET S /\ F \in SUBSET Events
  BY DEF FirstOf
<1>2. IsFiniteSet(F) /\ Cardinality(F) \in Nat
  BY <1>1, EventsFinite, RollupsAssumption
<1>3. SUFFICES ASSUME Cardinality(F) > n PROVE FALSE
  BY <1>1, <1>2
<1>4. F # {}
  BY <1>2, <1>3, FS_EmptySet
<1>5. PICK m \in F : \A d \in F : d <= m
  <2> DEFINE G == {k \in Nat : \E d \in F : k = MaxEvents - d}
  <2>1. \A d \in F : d \in Nat /\ MaxEvents - d \in Nat
    BY <1>1, RollupsAssumption DEF Events
  <2>2. G \subseteq Nat /\ G # {}
    BY <1>4, <2>1
  <2>3. PICK k \in G : \A j \in G : k <= j
    BY <2>2, LeastElement
  <2>4. PICK m \in F : k = MaxEvents - m
    OBVIOUS
  <2>5. \A d \in F : MaxEvents - d \in G
    BY <2>1
  <2>6. \A d \in F : MaxEvents - m <= MaxEvents - d
    BY <2>3, <2>4, <2>5
  <2> HIDE DEF G, F
  <2>7. ASSUME NEW d \in F PROVE d <= m
    <3>1. d \in Nat /\ m \in Nat /\ MaxEvents - m <= MaxEvents - d /\ MaxEvents \in Nat
      BY <2>1, <2>6, RollupsAssumption
    <3>2. QED
      BY <3>1
  <2>8. QED
    BY <2>7
<1>6. F \ {m} \subseteq {d \in S : d < m} /\ {d \in S : d < m} \in SUBSET Events
  <2>1. \A d \in F : d \in S /\ d \in Int /\ m \in Int
    BY <1>1 DEF Events
  <2> HIDE DEF F
  <2>2. QED
    BY <1>5, <2>1
<1>7. Cardinality(F \ {m}) = Cardinality(F) - 1
  BY <1>2, FS_RemoveElement
<1>8. /\ IsFiniteSet({d \in S : d < m}) /\ Cardinality({d \in S : d < m}) \in Nat
      /\ Cardinality(F \ {m}) <= Cardinality({d \in S : d < m})
  BY <1>6, EventsFinite, FS_Subset, RollupsAssumption
<1>9. Cardinality({d \in S : d < m}) < n
  BY DEF FirstOf
<1>10. QED
  BY <1>2, <1>3, <1>7, <1>8, <1>9

LEMMA UInitInv == RollupsInit => UInv
<1>1. SUFFICES ASSUME RollupsInit PROVE UInv
  OBVIOUS
<1>2. \A e \in Events : /\ rows[e].state = "none" /\ rows[e].channel = Unset
                        /\ rows[e].rolled = FALSE /\ rows[e].gone = FALSE
  BY <1>1 DEF RollupsInit
<1>3. Counted(rows) = {}
  BY <1>2 DEF Counted
<1>4. Zero \in Cells /\ CountIn(rows, {}) = Zero
  BY CountTyped
<1>5. totals \in TablesOf(Cells)
  BY <1>1, <1>4 DEF RollupsInit, TablesOf
<1>6. Exact(rows, totals)
  <2>1. /\ \A h : PlainAt(rows, {}, h) = {}
        /\ \A h, i : ShardAt(rows, {}, h, i) = {}
        /\ \A d, u : ByUser(rows, {}, d, u) = {}
        /\ \A d, m : ByModel(rows, {}, d, m) = {}
    BY DEF PlainAt, ShardAt, ByUser, ByModel
  <2>2. QED
    BY <1>1, <1>3, <1>4, <2>1 DEF RollupsInit, Exact
<1>7. Booked(rows, totals, {})
  <2>1. /\ \A h, c : PlainAt(rows, Through(rows, {}, c), h) = {}
        /\ \A h, c, i : ShardAt(rows, Through(rows, {}, c), h, i) = {}
    BY DEF PlainAt, ShardAt, Through
  <2>2. /\ \A h \in Hours, c \in Upstreams : totals.channelHour[<<h, c>>] = Zero
        /\ \A h \in Hours, c \in Upstreams, i \in ShardNos :
                totals.channelHourSharded[<<h, c, i>>] = Zero
    BY <1>1 DEF RollupsInit
  <2>3. QED
    BY <1>3, <1>4, <2>1, <2>2 DEF Booked
<1>8. RollupsTypeOK
  <2>1. rows \in [Events -> EventRows]
    <3>1. (CHOOSE u \in Payers : TRUE) \in Payers /\ (CHOOSE m \in Priced : TRUE) \in Priced
      BY RollupsAssumption
    <3>2. 0 \in Slots
      BY RollupsAssumption DEF Slots
    <3>3. QED
      BY <1>1, <3>1, <3>2 DEF RollupsInit, EventRows, RowStates
  <2>2. worker \in [Workers -> [op: {"idle", "select", "apply", "delete"}, ids: SUBSET Events,
                                found: 0..BackfillBatch, rounds: 0..MaxBackfill]]
    BY <1>1, RollupsAssumption DEF RollupsInit, Resting
  <2>3. cutoff \in 0..(MaxSlot + 1) /\ schema \in {"old", "rollups"}
        /\ serving \in [Events -> {"run", "rollup", "done"}]
    BY <1>1, RollupsAssumption DEF RollupsInit
  <2>4. QED
    BY <1>5, <2>1, <2>2, <2>3 DEF RollupsTypeOK, TablesOf
<1>9. RowsFit /\ WorkersFit
  BY <1>1, <1>2 DEF RollupsInit, RowsFit, WorkersFit, Resting, Workers
<1>10. QED
  BY <1>6, <1>7, <1>8, <1>9 DEF UInv

WorkerRows == [op: {"idle", "select", "apply", "delete"}, ids: SUBSET Events,
               found: 0..BackfillBatch, rounds: 0..MaxBackfill]
ServingRows == {"run", "rollup", "done"}

LEMMA TypesSay ==
  RollupsTypeOK <=>
    /\ schema \in {"old", "rollups"} /\ rows \in [Events -> EventRows]
    /\ serving \in [Events -> ServingRows] /\ totals \in TablesOf(Cells)
    /\ cutoff \in 0..(MaxSlot + 1) /\ worker \in [Workers -> WorkerRows]
BY DEF RollupsTypeOK, ServingRows, TablesOf, WorkerRows

\* A step that leaves the totals and the events counted as they are.
LEMMA QuietStep ==
  ASSUME UInv, RollupsTypeOK', RowsFit', WorkersFit', totals' = totals,
         \A e \in Events : rows'[e].rolled = rows[e].rolled,
         Still(rows, rows', Counted(rows))
  PROVE  UInv'
<1>1. Counted(rows') = Counted(rows)
  BY DEF Counted
<1>2. PICK K : Booked(rows, totals, K)
  BY DEF UInv
<1>3. PICK rt, t : rt = rows' /\ t = totals'
  OBVIOUS
<1>4. Exact(rt, t) /\ Booked(rt, t, K)
  BY <1>1, <1>2, <1>3, ExactStill, BookedStill DEF UInv
<1>5. Exact(rows, totals)'
  BY <1>3, <1>4 DEF Exact
<1>6. Booked(rows, totals, K)'
  BY <1>3, <1>4 DEF Booked
<1>7. QED
  BY <1>5, <1>6 DEF UInv

\* What the transaction of the totals does.
LEMMA ApplyStep ==
  ASSUME UInv, NEW e \in Events, ApplyRollups(e)
  PROVE  /\ rows' \in [Events -> EventRows] /\ totals' \in TablesOf(Cells)
         /\ Exact(rows, totals)' /\ (\E K : Booked(rows, totals, K))'
         /\ \/ rows' = rows
            \/ rows' = [rows EXCEPT ![e].rolled = TRUE]
<1>1. rows \in [Events -> EventRows] /\ totals \in TablesOf(Cells) /\ Exact(rows, totals) /\ RowsFit
  BY TypesSay DEF UInv
<1>2. PICK K : Booked(rows, totals, K)
  BY DEF UInv
<1>3. PICK rt, t : rt = rows' /\ t = totals'
  OBVIOUS
<1>4. CASE UNCHANGED <<rows, totals>>
  <2>1. Exact(rows, totals)'
    BY <1>1, <1>4 DEF Exact
  <2>2. Booked(rows, totals, K)'
    BY <1>2, <1>4 DEF Booked
  <2>3. QED
    BY <1>1, <1>4, <2>1, <2>2
<1>5. CASE ~rows[e].rolled /\ rt = [rows EXCEPT ![e].rolled = TRUE] /\ t = Added(e)
  <2>1. rows[e].channel \in Upstreams \cup {Unset} /\ (rows[e].state = "committed" => rows[e].channel # Unset)
    BY <1>1, SlotsAreFiled DEF RowsFit
  <2>2. PICK L : /\ t \in TablesOf(Cells) /\ Exact(rt, t)
                 /\ L = IF rows[e].channel = Unset THEN K ELSE K \cup {e}
    BY <1>1, <1>2, <1>5, <2>1, RollStep
  <2>3. Booked(rt, t, L)
    BY <1>1, <1>2, <1>5, <2>1, <2>2, RollStep
  <2>4. rt \in [Events -> EventRows]
    BY <1>1, <1>5 DEF EventRows
  <2>5. Exact(rows, totals)'
    BY <1>3, <2>2 DEF Exact
  <2>6. Booked(rows, totals, L)'
    BY <1>3, <2>3 DEF Booked
  <2>7. QED
    BY <1>3, <1>5, <2>2, <2>4, <2>5, <2>6
<1>6. QED
  BY <1>3, <1>4, <1>5, <1>1 DEF ApplyRollups, EventRows

\* A handler's own step changes its event's row, before it is counted or what no total is of.
LEMMA RowStep ==
  ASSUME UInv, UNCHANGED <<schema, totals, cutoff, worker>>, NEW e \in Events,
         NEW r \in EventRows, NEW s \in ServingRows,
         rows' = [rows EXCEPT ![e] = r], serving' = [serving EXCEPT ![e] = s],
         r.rolled = rows[e].rolled, r.gone = rows[e].gone,
         r.rolled => /\ r.at = rows[e].at /\ r.user = rows[e].user /\ r.model = rows[e].model
                     /\ r.state = "committed" <=> rows[e].state = "committed"
                     /\ rows[e].channel # Unset => r.channel = rows[e].channel,
         r.state = "none" => rows[e].state = "none" /\ r.channel = Unset /\ s = "done",
         r.rolled /\ r.state = "reserved" => s # "run",
         r.state = "committed" => r.channel # Unset,
         s = "run" /\ r.channel # Unset => r.state = "committed",
         r.state = "reserved" => rows[e].state \in {"none", "reserved"}
  PROVE  UInv'
<1>1. /\ schema \in {"old", "rollups"} /\ rows \in [Events -> EventRows]
      /\ serving \in [Events -> ServingRows] /\ totals \in TablesOf(Cells)
      /\ cutoff \in 0..(MaxSlot + 1) /\ worker \in [Workers -> WorkerRows]
  BY TypesSay DEF UInv
<1>2. /\ rows'[e] = r /\ serving'[e] = s
      /\ \A d \in Events : d # e => rows'[d] = rows[d] /\ serving'[d] = serving[d]
      /\ rows' \in [Events -> EventRows] /\ serving' \in [Events -> ServingRows]
  BY <1>1
<1>3. RollupsTypeOK'
  <2>1. /\ schema' \in {"old", "rollups"} /\ totals' \in TablesOf(Cells)
        /\ cutoff' \in 0..(MaxSlot + 1) /\ worker' \in [Workers -> WorkerRows]
    BY <1>1
  <2>2. QED
    BY <1>2, <2>1, TypesSay DEF RollupsTypeOK, ServingRows, TablesOf, WorkerRows
<1>4. RowsFit'
  <2>1. RowsFit
    BY DEF UInv
  <2>2. QED
    BY <1>2, <2>1 DEF RowsFit
<1>5. WorkersFit'
  <2>1. WorkersFit
    BY DEF UInv
  <2>2. \A w \in Workers : worker[w].ids \subseteq Events
    BY <1>1 DEF WorkerRows
  <2>3. QED
    BY <1>2, <2>1, <2>2 DEF WorkersFit
<1>6. Still(rows, rows', Counted(rows))
  BY <1>2 DEF Still, Counted
<1>7. \A d \in Events : rows'[d].rolled = rows[d].rolled
  BY <1>2
<1>8. QED
  BY <1>3, <1>4, <1>5, <1>6, <1>7, QuietStep

\* What the handler of one event does.
LEMMA HandlerSteps ==
  ASSUME UInv, NEW e \in Events,
         \/ \E s \in Arrivals, u \in Payers, m \in Priced : Reserve(e, s, u, m)
         \/ \E c \in Upstreams : CommitUsage(e, c)
         \/ \E c \in Upstreams \cup {Unset} : Finalize(e, c)
         \/ VoidUsage(e) \/ ExpireReserved(e) \/ RequestEnds(e)
  PROVE  UInv'
<1> DEFINE r == rows[e]
<1>1. /\ rows \in [Events -> EventRows] /\ serving \in [Events -> ServingRows]
      /\ r \in EventRows /\ serving[e] \in ServingRows
  BY TypesSay DEF UInv
<1>2. /\ r.rolled \in BOOLEAN /\ r.gone \in BOOLEAN
      /\ r.state = "none" => ~r.rolled /\ r.channel = Unset /\ serving[e] = "done"
      /\ r.rolled /\ r.state = "reserved" => serving[e] # "run"
      /\ r.state = "committed" => r.channel # Unset
      /\ serving[e] = "run" /\ r.channel # Unset => r.state = "committed"
  BY <1>1 DEF UInv, RowsFit, EventRows
<1>3. CASE \E s \in Arrivals, u \in Payers, m \in Priced : Reserve(e, s, u, m)
  <2>1. PICK s \in Arrivals, u \in Payers, m \in Priced : Reserve(e, s, u, m)
    BY <1>3
  <2>2. PICK q : q = [r EXCEPT !.state = "reserved", !.at = s, !.user = u, !.model = m]
    OBVIOUS
  <2>3. /\ rows' = [rows EXCEPT ![e] = q] /\ serving' = [serving EXCEPT ![e] = "run"]
        /\ r.state = "none" /\ UNCHANGED <<schema, totals, cutoff, worker>>
    BY <2>1, <2>2 DEF Reserve
  <2>4. s \in Slots
    BY RollupsAssumption DEF Slots
  <2>5. /\ q \in EventRows /\ q.state = "reserved" /\ q.rolled = r.rolled /\ q.gone = r.gone
        /\ q.channel = r.channel
    BY <1>1, <2>2, <2>4 DEF EventRows, RowStates
  <2> HIDE DEF r
  <2>6. ~q.rolled /\ q.channel = Unset
    BY <1>2, <2>3, <2>5
  <2>7. QED
    BY <2>3, <2>5, <2>6, RowStep DEF ServingRows, r
<1>4. CASE \E c \in Upstreams : CommitUsage(e, c)
  <2>1. PICK c \in Upstreams : CommitUsage(e, c)
    BY <1>4
  <2>2. PICK q : q = [r EXCEPT !.state = "committed", !.channel = c]
    OBVIOUS
  <2>3. /\ rows' = [rows EXCEPT ![e] = q] /\ serving' = [serving EXCEPT ![e] = "run"]
        /\ r.state = "reserved" /\ serving[e] = "run" /\ UNCHANGED <<schema, totals, cutoff, worker>>
    BY <1>1, <2>1, <2>2 DEF CommitUsage
  <2>4. c # Unset
    BY RollupsAssumption
  <2>5. /\ q \in EventRows /\ q.state = "committed" /\ q.rolled = r.rolled /\ q.gone = r.gone
        /\ q.channel # Unset
    BY <1>1, <2>2, <2>4 DEF EventRows, RowStates
  <2> HIDE DEF r
  <2>6. ~q.rolled
    BY <1>2, <2>3, <2>5
  <2>7. QED
    BY <2>3, <2>5, <2>6, RowStep DEF ServingRows, r
<1>5. CASE \E c \in Upstreams \cup {Unset} : Finalize(e, c)
  <2>1. PICK c \in Upstreams \cup {Unset} : Finalize(e, c)
    BY <1>5
  <2>2. PICK q : q = IF r.gone THEN r ELSE [r EXCEPT !.channel = c]
    OBVIOUS
  <2>3. /\ rows' = [rows EXCEPT ![e] = q] /\ serving' = [serving EXCEPT ![e] = "rollup"]
        /\ r.state = "committed" => c = r.channel
        /\ serving[e] = "run" /\ UNCHANGED <<schema, totals, cutoff, worker>>
    BY <1>1, <2>1, <2>2 DEF Finalize
  <2>4. /\ q \in EventRows /\ q.state = r.state /\ q.rolled = r.rolled /\ q.gone = r.gone
        /\ q.at = r.at /\ q.user = r.user /\ q.model = r.model /\ q.channel \in {r.channel, c}
    BY <1>1, <2>2 DEF EventRows
  <2> HIDE DEF r
  <2>5. /\ r.channel # Unset => q.channel = r.channel
        /\ r.state = "committed" => q.channel # Unset
        /\ r.state # "none"
    BY <1>2, <2>3, <2>4
  <2>6. QED
    BY <2>3, <2>4, <2>5, RowStep DEF ServingRows, r
<1>6. CASE VoidUsage(e)
  <2>1. PICK q : q = [r EXCEPT !.state = "void"]
    OBVIOUS
  <2>2. /\ rows' = [rows EXCEPT ![e] = q] /\ serving' = [serving EXCEPT ![e] = "run"]
        /\ r.state = "reserved" /\ serving[e] = "run" /\ UNCHANGED <<schema, totals, cutoff, worker>>
    BY <1>1, <1>6, <2>1 DEF VoidUsage
  <2>3. /\ q \in EventRows /\ q.state = "void" /\ q.rolled = r.rolled /\ q.gone = r.gone
        /\ q.at = r.at /\ q.user = r.user /\ q.model = r.model /\ q.channel = r.channel
    BY <1>1, <2>1 DEF EventRows, RowStates
  <2> HIDE DEF r
  <2>4. q.channel = Unset
    BY <1>2, <2>2, <2>3
  <2>5. QED
    BY <2>2, <2>3, <2>4, RowStep DEF ServingRows, r
<1>7. CASE ExpireReserved(e)
  <2>1. PICK q, s : q = [r EXCEPT !.state = "expired"] /\ s = serving[e]
    OBVIOUS
  <2>2. /\ rows' = [rows EXCEPT ![e] = q] /\ serving' = [serving EXCEPT ![e] = s]
        /\ r.state = "reserved" /\ UNCHANGED <<schema, totals, cutoff, worker>>
    BY <1>1, <1>7, <2>1 DEF ExpireReserved
  <2>3. /\ q \in EventRows /\ q.state = "expired" /\ q.rolled = r.rolled /\ q.gone = r.gone
        /\ q.at = r.at /\ q.user = r.user /\ q.model = r.model /\ q.channel = r.channel
    BY <1>1, <2>1 DEF EventRows, RowStates
  <2> HIDE DEF r
  <2>4. s \in ServingRows /\ (s = "run" => q.channel = Unset)
    BY <1>1, <1>2, <2>1, <2>2, <2>3
  <2>5. QED
    BY <2>2, <2>3, <2>4, RowStep DEF r
<1>8. CASE RequestEnds(e)
  <2>1. PICK q : q = r
    OBVIOUS
  <2>2. /\ rows' = [rows EXCEPT ![e] = q] /\ serving' = [serving EXCEPT ![e] = "done"]
        /\ UNCHANGED <<schema, totals, cutoff, worker>>
    BY <1>1, <1>8, <2>1 DEF RequestEnds
  <2> HIDE DEF r
  <2>3. QED
    BY <1>1, <1>2, <2>1, <2>2, RowStep DEF ServingRows, r
<1>9. QED
  BY <1>3, <1>4, <1>5, <1>6, <1>7, <1>8

\* The transaction of the totals, by the request or by a backfill.
LEMMA RolledUp ==
  ASSUME UInv, NEW e \in Events, ApplyRollups(e), UNCHANGED <<schema, cutoff>>,
         rows[e].state # "none", rows[e].state = "reserved" => serving'[e] # "run",
         serving' \in [Events -> ServingRows],
         \A d \in Events : serving'[d] \in {serving[d], "done"},
         worker' \in [Workers -> WorkerRows],
         \A w \in Workers : worker'[w].ids \subseteq worker[w].ids /\ worker'[w].op = worker[w].op
                            /\ worker'[w].rounds = worker[w].rounds
  PROVE  UInv'
<1>1. /\ rows' \in [Events -> EventRows] /\ totals' \in TablesOf(Cells)
      /\ Exact(rows, totals)' /\ (\E K : Booked(rows, totals, K))'
      /\ \/ rows' = rows
         \/ rows' = [rows EXCEPT ![e].rolled = TRUE]
  BY ApplyStep
<1>2. /\ schema \in {"old", "rollups"} /\ rows \in [Events -> EventRows]
      /\ cutoff \in 0..(MaxSlot + 1) /\ RowsFit /\ WorkersFit
  BY TypesSay DEF UInv
<1>3. \A d \in Events : /\ rows'[d].state = rows[d].state /\ rows'[d].channel = rows[d].channel
                        /\ rows'[d].gone = rows[d].gone
                        /\ rows'[d].rolled = rows[d].rolled \/ (d = e /\ rows'[d].rolled)
  BY <1>1, <1>2 DEF EventRows
<1>4. RollupsTypeOK'
  <2>1. schema' \in {"old", "rollups"} /\ cutoff' \in 0..(MaxSlot + 1)
    BY <1>2
  <2>2. QED
    BY <1>1, <2>1 DEF RollupsTypeOK, ServingRows, TablesOf, WorkerRows
<1>5. RowsFit'
  BY <1>2, <1>3 DEF RowsFit, ServingRows
<1>6. WorkersFit'
  <2>1. \A w \in Workers : worker'[w].ids \subseteq Events
    BY DEF WorkerRows
  <2>2. "retention" \in Workers /\ "tool" \in Workers
    BY DEF Workers
  <2>3. QED
    BY <1>2, <1>3, <2>1, <2>2 DEF WorkersFit
<1>7. QED
  BY <1>1, <1>4, <1>5, <1>6 DEF UInv

\* A backfill between its transactions, and the clock.
LEMMA WorkerStep ==
  ASSUME UInv, UNCHANGED <<rows, serving, totals>>, schema' \in {"old", "rollups"},
         cutoff' \in 0..(MaxSlot + 1), worker' \in [Workers -> WorkerRows],
         \A w \in Workers : \A e \in worker'[w].ids : rows[e].state \notin {"none", "reserved"},
         worker'["retention"].op = "select" => worker'["retention"].rounds < MaxBackfill,
         worker'["tool"].rounds = 0
  PROVE  UInv'
<1>1. RollupsTypeOK'
  BY TypesSay DEF UInv, RollupsTypeOK, ServingRows, TablesOf, WorkerRows
<1>2. RowsFit' /\ WorkersFit'
  BY DEF UInv, RowsFit, WorkersFit
<1>3. Still(rows, rows', Counted(rows))
  BY DEF Still
<1>4. QED
  BY <1>1, <1>2, <1>3, QuietStep

LEMMA EnsureStep == ASSUME UInv, EnsureRollups PROVE UInv'
<1>1. RollupsTypeOK /\ RowsFit /\ WorkersFit /\ "retention" \in Workers /\ "tool" \in Workers
  BY DEF UInv, Workers
<1>2. /\ schema' = "rollups" /\ serving' = [e \in Events |-> "done"]
      /\ worker' = [w \in Workers |-> Resting] /\ UNCHANGED <<rows, totals, cutoff>>
  BY DEF EnsureRollups
<1>3. worker' \in [Workers -> WorkerRows]
  BY <1>2, RollupsAssumption DEF Resting, WorkerRows
<1>4. RollupsTypeOK'
  BY <1>1, <1>2, <1>3 DEF RollupsTypeOK, WorkerRows
<1>5. RowsFit' /\ WorkersFit'
  BY <1>1, <1>2 DEF RowsFit, WorkersFit, Resting
<1>6. Still(rows, rows', Counted(rows))
  BY <1>2 DEF Still
<1>7. QED
  BY <1>2, <1>4, <1>5, <1>6, QuietStep

LEMMA DeleteStep == ASSUME UInv, DeleteOld PROVE UInv'
<1> DEFINE ids == FirstOf(Deletable, DeleteBatch)
<1>1. /\ RollupsTypeOK /\ RowsFit /\ WorkersFit /\ "retention" \in Workers /\ "tool" \in Workers
      /\ rows \in [Events -> EventRows] /\ worker \in [Workers -> WorkerRows]
  BY TypesSay DEF UInv, Workers
<1>2. /\ rows' = [e \in Events |-> IF e \in ids THEN [rows[e] EXCEPT !.gone = TRUE] ELSE rows[e]]
      /\ \/ worker' = worker
         \/ worker' = [worker EXCEPT !["retention"] = Resting]
      /\ UNCHANGED <<schema, serving, totals, cutoff>>
  BY DEF DeleteOld
<1>3. Deletable \in SUBSET Events /\ \A e \in Deletable : rows[e].rolled
  BY DEF Deletable, Old
<1>4. ids \subseteq Deletable
  BY <1>3, FirstAreFew, RollupsAssumption
<1> HIDE DEF ids
<1>5. /\ rows' \in [Events -> EventRows]
      /\ \A e \in Events : /\ rows'[e].state = rows[e].state /\ rows'[e].channel = rows[e].channel
                           /\ rows'[e].at = rows[e].at /\ rows'[e].user = rows[e].user
                           /\ rows'[e].model = rows[e].model /\ rows'[e].rolled = rows[e].rolled
                           /\ (rows'[e].gone => rows[e].gone \/ rows[e].rolled)
  <2>1. ASSUME NEW e \in Events
        PROVE  /\ rows'[e] \in EventRows
               /\ rows'[e].state = rows[e].state /\ rows'[e].channel = rows[e].channel
               /\ rows'[e].at = rows[e].at /\ rows'[e].user = rows[e].user
               /\ rows'[e].model = rows[e].model /\ rows'[e].rolled = rows[e].rolled
               /\ (rows'[e].gone => rows[e].gone \/ rows[e].rolled)
    <3>1. rows[e] \in EventRows
      BY <1>1
    <3>2. CASE e \in ids
      <4>1. rows'[e] = [rows[e] EXCEPT !.gone = TRUE] /\ rows[e].rolled
        BY <1>2, <1>3, <1>4, <3>2
      <4>2. QED
        BY <3>1, <4>1 DEF EventRows
    <3>3. CASE e \notin ids
      BY <1>2, <3>1, <3>3
    <3>4. QED
      BY <3>2, <3>3
  <2>2. rows' \in [Events -> EventRows]
    BY <1>2, <2>1
  <2>3. QED
    BY <2>1, <2>2
<1>6. worker' \in [Workers -> WorkerRows]
  BY <1>1, <1>2, RollupsAssumption DEF Resting, WorkerRows
<1>7. RollupsTypeOK'
  BY <1>1, <1>2, <1>5, <1>6 DEF RollupsTypeOK, WorkerRows
<1>8. RowsFit'
  BY <1>1, <1>2, <1>5 DEF RowsFit
<1>9. WorkersFit'
  <2>1. \A w \in Workers : worker'[w].ids \subseteq worker[w].ids /\ worker[w].ids \subseteq Events
    BY <1>1, <1>2 DEF Resting, WorkerRows
  <2>2. /\ worker'["retention"].op = "select" => worker' = worker
        /\ worker'["tool"] = worker["tool"]
    BY <1>1, <1>2 DEF Resting, WorkerRows
  <2>3. QED
    BY <1>1, <1>5, <2>1, <2>2 DEF WorkersFit
<1>10. Still(rows, rows', Counted(rows)) /\ \A e \in Events : rows'[e].rolled = rows[e].rolled
  BY <1>5 DEF Still, Counted
<1>11. QED
  BY <1>2, <1>7, <1>8, <1>9, <1>10, QuietStep

LEMMA WorkerSteps ==
  ASSUME UInv, NEW w \in Workers,
         Starts(w) \/ SelectMissed(w) \/ BatchEnds(w) \/ BatchFails(w)
  PROVE  UInv'
<1>1. /\ rows \in [Events -> EventRows] /\ worker \in [Workers -> WorkerRows] /\ WorkersFit
      /\ schema \in {"old", "rollups"} /\ cutoff \in 0..(MaxSlot + 1)
  BY TypesSay DEF UInv
<1>2. /\ UNCHANGED <<schema, rows, serving, totals, cutoff>>
  BY DEF Starts, SelectMissed, BatchEnds, BatchFails, Turns
<1>3. /\ "retention" \in Workers
      /\ "tool" \in Workers
      /\ Workers = {"retention", "tool"}
      /\ "retention" # "tool"
  BY DEF Workers
<1>4. SUFFICES ASSUME NEW x \in WorkerRows, worker' = [worker EXCEPT ![w] = x],
                      \A e \in x.ids : rows[e].state \notin {"none", "reserved"},
                      w = "retention" /\ x.op = "select" => x.rounds < MaxBackfill,
                      w = "tool" => x.rounds = 0
               PROVE  UInv'
  <2> DEFINE Suits(x) ==
        /\ x \in WorkerRows /\ worker' = [worker EXCEPT ![w] = x]
        /\ \A e \in x.ids : rows[e].state \notin {"none", "reserved"}
        /\ w = "retention" /\ x.op = "select" => x.rounds < MaxBackfill
        /\ w = "tool" => x.rounds = 0
  <2> DEFINE o == worker[w]
  <2>1. /\ o \in WorkerRows /\ \A e \in o.ids : rows[e].state \notin {"none", "reserved"}
        /\ w = "retention" /\ o.op = "select" => o.rounds < MaxBackfill
        /\ w = "tool" => o.rounds = 0
    BY <1>1 DEF WorkersFit
  <2>2. MaxBackfill \in Nat /\ MaxBackfill > 0 /\ BackfillBatch \in Nat
    BY RollupsAssumption
  <2>3. CASE Starts(w)
    <3>1. PICK x : x = [Resting EXCEPT !.op = "select"]
      OBVIOUS
    <3>2. worker' = [worker EXCEPT ![w] = x]
      BY <2>3, <3>1 DEF Starts
    <3>3. x.op = "select" /\ x.ids = {} /\ x.rounds = 0 /\ x \in WorkerRows
      BY <2>2, <3>1 DEF Resting, WorkerRows
    <3>4. Suits(x)
      BY <2>2, <3>2, <3>3
    <3>5. QED
      BY <1>4, <3>4
  <2>4. CASE SelectMissed(w)
    <3> DEFINE ids == FirstOf(Missed(w), BackfillBatch)
    <3>1. Missed(w) \in SUBSET Events /\ \A e \in Missed(w) : rows[e].state \notin {"none", "reserved"}
      BY DEF Missed
    <3>2. ids \subseteq Missed(w) /\ Cardinality(ids) \in 0..BackfillBatch
      BY <2>2, <3>1, FirstAreFew
    <3> HIDE DEF ids
    <3>3. PICK x : x = [op |-> "apply", ids |-> ids, found |-> Cardinality(ids),
                        rounds |-> IF w = "retention" THEN o.rounds + 1 ELSE o.rounds]
      OBVIOUS
    <3>4. o.op = "select" /\ worker' = [worker EXCEPT ![w] = x]
      BY <1>1, <2>4, <3>3 DEF SelectMissed, ids
    <3>5. x.rounds \in 0..MaxBackfill /\ (w = "tool" => x.rounds = 0)
      BY <1>3, <2>1, <2>2, <3>3, <3>4 DEF WorkerRows
    <3>6. x \in WorkerRows /\ x.op = "apply" /\ x.ids = ids
      BY <3>1, <3>2, <3>3, <3>5 DEF WorkerRows
    <3>7. Suits(x)
      BY <3>1, <3>2, <3>4, <3>5, <3>6
    <3>8. QED
      BY <1>4, <3>7
  <2>5. CASE BatchEnds(w)
    <3>1. PICK x : x = IF o.found = BackfillBatch /\ (w = "tool" \/ o.rounds < MaxBackfill)
                       THEN [o EXCEPT !.op = "select"]
                       ELSE IF w = "tool" THEN Resting ELSE [Resting EXCEPT !.op = "delete"]
      OBVIOUS
    <3>2. worker' = [worker EXCEPT ![w] = x]
      BY <1>1, <2>5, <3>1 DEF BatchEnds, Turns
    <3>3. /\ x \in WorkerRows /\ x.ids \subseteq o.ids
          /\ w = "retention" /\ x.op = "select" => x.rounds < MaxBackfill
          /\ w = "tool" => x.rounds = 0
      BY <1>3, <2>1, <2>2, <3>1 DEF Resting, WorkerRows
    <3>4. Suits(x)
      BY <2>1, <3>2, <3>3
    <3>5. QED
      BY <1>4, <3>4
  <2>6. CASE BatchFails(w)
    <3>1. PICK x : x = IF w = "tool" \/ o.op = "delete" THEN Resting ELSE [Resting EXCEPT !.op = "delete"]
      OBVIOUS
    <3>2. worker' = [worker EXCEPT ![w] = x]
      BY <1>1, <2>6, <3>1 DEF BatchFails
    <3>3. Suits(x)
      BY <2>2, <3>1, <3>2 DEF Resting, WorkerRows
    <3>4. QED
      BY <1>4, <3>3
  <2>7. QED
    BY <2>3, <2>4, <2>5, <2>6
<1>5. /\ worker' \in [Workers -> WorkerRows] /\ worker'[w] = x
      /\ \A v \in Workers : v # w => worker'[v] = worker[v]
  BY <1>1, <1>4
<1>6. \A v \in Workers : \A e \in worker'[v].ids : rows[e].state \notin {"none", "reserved"}
  BY <1>1, <1>4, <1>5 DEF WorkersFit
<1>7. /\ worker'["retention"].op = "select" => worker'["retention"].rounds < MaxBackfill
      /\ worker'["tool"].rounds = 0
  BY <1>1, <1>3, <1>4, <1>5 DEF WorkersFit
<1>8. QED
  BY <1>1, <1>2, <1>5, <1>6, <1>7, WorkerStep

LEMMA RollupsGoOn == UInv /\ [RollupsNext(Workers)]_rollupVars => UInv'
<1>1. SUFFICES ASSUME UInv, [RollupsNext(Workers)]_rollupVars PROVE UInv'
  OBVIOUS
<1>2. /\ rows \in [Events -> EventRows] /\ worker \in [Workers -> WorkerRows]
      /\ serving \in [Events -> ServingRows] /\ RowsFit /\ WorkersFit
      /\ schema \in {"old", "rollups"} /\ cutoff \in 0..(MaxSlot + 1)
  BY <1>1, TypesSay DEF UInv
<1>3. CASE UNCHANGED rollupVars
  <2>1. /\ UNCHANGED <<rows, serving, totals>> /\ schema' = schema /\ cutoff' = cutoff /\ worker' = worker
    BY <1>3 DEF rollupVars
  <2>2. QED
    BY <1>1, <1>2, <2>1, WorkerStep DEF WorkersFit
<1>4. ASSUME NEW e \in Events, RollUp(e) PROVE UInv'
  <2>1. /\ serving[e] = "rollup" /\ serving' = [serving EXCEPT ![e] = "done"]
        /\ ApplyRollups(e) /\ UNCHANGED <<schema, cutoff, worker>>
    BY <1>4 DEF RollUp
  <2>2. rows[e].state # "none"
    BY <1>2, <2>1 DEF RowsFit
  <2>3. serving' \in [Events -> ServingRows] /\ \A d \in Events : serving'[d] \in {serving[d], "done"}
        /\ serving'[e] = "done"
    BY <1>2, <2>1 DEF ServingRows
  <2>4. QED
    BY <1>1, <1>2, <2>1, <2>2, <2>3, RolledUp
<1>5. ASSUME NEW w \in Workers, ApplyNext(w) PROVE UInv'
  <2> DEFINE ids == worker[w].ids
  <2>1. PICK e : e = Min(ids)
    OBVIOUS
  <2>2. /\ ids # {} /\ worker' = [worker EXCEPT ![w].ids = @ \ {e}]
        /\ ApplyRollups(e) /\ UNCHANGED <<schema, serving, cutoff>>
    BY <1>5, <2>1 DEF ApplyNext
  <2>3. ids \subseteq Events /\ Events \subseteq Nat
    BY <1>2 DEF WorkerRows, Events
  <2>4. e \in ids
    <3>1. \E x \in ids : \A y \in ids : x <= y
      BY <2>2, <2>3, LeastElement
    <3>2. QED
      BY <2>1, <3>1 DEF Min
  <2>5. e \in Events /\ rows[e].state \notin {"none", "reserved"}
    BY <1>2, <2>3, <2>4 DEF WorkersFit
  <2>6. worker' \in [Workers -> WorkerRows]
        /\ \A v \in Workers : worker'[v].ids \subseteq worker[v].ids /\ worker'[v].op = worker[v].op
                              /\ worker'[v].rounds = worker[v].rounds
    BY <1>2, <2>2 DEF WorkerRows
  <2>7. QED
    BY <1>1, <1>2, <2>2, <2>5, <2>6, RolledUp
<1>6. CASE HourPasses
  <2>1. /\ UNCHANGED <<schema, rows, serving, totals, worker>>
        /\ cutoff' = cutoff + SlotsPerHour /\ cutoff + SlotsPerHour <= MaxSlot + 1
    BY <1>6 DEF HourPasses
  <2>2. cutoff' \in 0..(MaxSlot + 1)
    BY <1>2, <2>1, RollupsAssumption
  <2>3. QED
    BY <1>1, <1>2, <2>1, <2>2, WorkerStep DEF WorkersFit
<1>7. CASE RollupsNext(Workers)
  BY <1>1, <1>4, <1>5, <1>6, <1>7, HandlerSteps, EnsureStep, DeleteStep, WorkerSteps DEF RollupsNext
<1>8. QED
  BY <1>1, <1>3, <1>7

\* With the handlers, the retention loop and the tool all at work at once, each table of
\* totals counts each event rolled up once, where it belongs, and no uncounted one goes.
THEOREM UsageInductive == UsageSpec => []UInv
<1>1. RollupsInit => UInv
  BY UInitInv
<1>2. UInv /\ [RollupsNext(Workers)]_rollupVars => UInv'
  BY RollupsGoOn
<1>3. QED
  BY <1>1, <1>2, PTL DEF UsageSpec

-----------------------------------------------------------------------------
(* Slots, hours and days.                                                  *)

\* The q-th interval of p slots begins at q * p.
LEMMA Floor ==
  ASSUME NEW p \in Nat \ {0}, NEW s \in Nat
  PROVE  /\ s \div p \in Nat /\ (s \div p) * p <= s /\ s < (s \div p) * p + p
         /\ s % p = 0 => s = (s \div p) * p
<1>1. /\ p \in Int /\ p > 0 /\ s \in Int
      /\ s \div p \in Int /\ s % p \in 0..(p - 1) /\ s = p * (s \div p) + (s % p)
  OBVIOUS
<1>2. PICK q \in Int, r \in 0..(p - 1) : q = s \div p /\ r = s % p /\ s = p * q + r
  BY <1>1
<1>3. p * q = q * p
  BY <1>1, <1>2
<1>4. q >= 0
  <2>1. SUFFICES ASSUME q <= -1 PROVE FALSE
    BY <1>2
  <2>2. p * q <= -p
    BY <1>1, <1>2, <2>1
  <2>3. QED
    BY <1>1, <1>2, <2>2
<1>5. QED
  BY <1>1, <1>2, <1>3, <1>4

LEMMA Boundaries ==
  ASSUME NEW p \in Nat \ {0}, NEW q \in Nat, NEW s \in Nat, NEW k \in Nat,
         q * p <= s, s < q * p + p
  PROVE  (k * p <= s <=> k <= q) /\ (k * p <= q * p <=> k <= q)
<1>1. CASE k <= q
  <2>1. PICK j \in Nat : q = k + j
    <3>1. q - k \in Nat /\ q = k + (q - k)
      BY <1>1
    <3>2. QED
      BY <3>1
  <2>2. q * p = k * p + j * p /\ j * p >= 0 /\ k * p \in Nat
    BY <2>1
  <2>3. q * p \in Nat /\ j * p \in Nat
    BY <2>1
  <2>4. QED
    BY <1>1, <2>2, <2>3
<1>2. CASE k > q
  <2>1. PICK j \in Nat : k = q + 1 + j
    <3>1. k - (q + 1) \in Nat /\ k = q + 1 + (k - (q + 1))
      BY <1>2
    <3>2. QED
      BY <3>1
  <2>2. k * p = q * p + p + j * p /\ j * p >= 0
    BY <2>1
  <2>3. q * p \in Nat /\ j * p \in Nat /\ k * p \in Nat
    BY <2>1
  <2>4. QED
    BY <1>2, <2>2, <2>3
<1>3. QED
  BY <1>1, <1>2

\* A slot is before a full hour exactly if the beginning of its own hour is.
LEMMA HourEdges ==
  ASSUME NEW s \in Nat, NEW x \in Nat, HourAligned(x)
  PROVE  HourOf(s) \in Nat /\ (x <= s <=> x <= HourOf(s) * SlotsPerHour)
<1>1. SlotsPerHour \in Nat \ {0}
  BY RollupsAssumption
<1>2. PICK q \in Nat : q = HourOf(s) /\ q * SlotsPerHour <= s /\ s < q * SlotsPerHour + SlotsPerHour
  BY <1>1, Floor DEF HourOf
<1>3. PICK k \in Nat : x = k * SlotsPerHour
  BY <1>1, Floor DEF HourAligned
<1>4. QED
  BY <1>1, <1>2, <1>3, Boundaries

\* And so it is of days.
LEMMA DayEdges ==
  ASSUME NEW s \in Nat, NEW x \in Nat, DayAligned(x)
  PROVE  /\ DayOf(s) \in Nat /\ DayOf(x) \in Nat
         /\ x <= s <=> x <= DayStarts(DayOf(s))
         /\ DayStarts(DayOf(s)) <= s
<1> DEFINE p == SlotsPerHour
           g == HoursPerDay
           P == g * p
<1>1. p \in Nat \ {0} /\ g \in Nat \ {0} /\ P \in Nat \ {0}
  <2>1. p \in Nat \ {0} /\ g \in Nat \ {0}
    BY RollupsAssumption
  <2>2. PICK a \in Nat : g = a + 1
    <3>1. g - 1 \in Nat /\ g = (g - 1) + 1
      BY <2>1
    <3>2. QED
      BY <3>1
  <2>3. (a + 1) * p = a * p + p /\ a * p \in Nat
    BY <2>1, <2>2
  <2>4. QED
    BY <2>1, <2>2, <2>3
<1>2. ASSUME NEW n \in Nat
      PROVE  \E d \in Nat : d = DayOf(n) /\ d * P <= n /\ n < d * P + P
  <2>1. PICK q \in Nat : q = HourOf(n) /\ q * p <= n /\ n < q * p + p
    BY <1>1, Floor DEF HourOf
  <2>2. PICK d \in Nat : d = DayOf(n) /\ d * g <= q /\ q < d * g + g
    BY <1>1, <2>1, Floor DEF DayOf
  <2>3. PICK a \in Nat, b \in Nat : q = d * g + a /\ d * g + g = q + 1 + b
    <3>1. d * g \in Nat
      BY <1>1
    <3>2. q - d * g \in Nat /\ d * g + g - (q + 1) \in Nat
      BY <1>1, <2>2, <3>1
    <3>3. q = d * g + (q - d * g) /\ d * g + g = q + 1 + (d * g + g - (q + 1))
      BY <1>1, <3>1
    <3>4. QED
      BY <3>2, <3>3
  <2>4. d * P = (d * g) * p
    BY <1>1
  <2>5. PICK m \in Nat : m = d * g
    BY <1>1
  <2>6. q * p = m * p + a * p /\ (m + g) * p = q * p + p + b * p /\ (m + g) * p = m * p + P
    <3>1. q = m + a /\ m + g = q + 1 + b
      BY <2>3, <2>5
    <3>2. (m + a) * p = m * p + a * p /\ (q + 1 + b) * p = q * p + p + b * p
      BY <1>1
    <3>3. (m + g) * p = m * p + g * p
      BY <1>1
    <3>4. QED
      BY <3>1, <3>2, <3>3
  <2>7. a * p \in Nat /\ b * p \in Nat /\ q * p \in Nat /\ m * p \in Nat
    BY <1>1
  <2>8. d * P = m * p
    BY <2>4, <2>5
  <2> HIDE DEF P
  <2>9. d * P <= n /\ n < d * P + P
    BY <1>1, <2>1, <2>6, <2>7, <2>8
  <2>10. QED
    BY <2>2, <2>9
<1>3. PICK d \in Nat : d = DayOf(s) /\ d * P <= s /\ s < d * P + P
  BY <1>2
<1>4. PICK k \in Nat : k = DayOf(x) /\ k * P <= x /\ x < k * P + P
  BY <1>2
<1>5. x = k * P
  <2>1. PICK j \in Nat : x = j * P
    BY <1>1, Floor DEF DayAligned
  <2> HIDE DEF P
  <2>2. (j * P <= x <=> j <= k) /\ (j * P <= k * P <=> j <= k)
    BY <1>1, <1>4, Boundaries
  <2>3. k * P \in Nat /\ j * P \in Nat
    BY <1>1
  <2>4. QED
    BY <1>4, <2>1, <2>2, <2>3
<1>6. DayStarts(DayOf(s)) = d * P
  <2>1. d * P = d * g * p
    BY <1>1
  <2>2. QED
    BY <1>3, <2>1 DEF DayStarts
<1> HIDE DEF P
<1>7. (k * P <= s <=> k <= d) /\ (k * P <= d * P <=> k <= d)
  BY <1>1, <1>3, Boundaries
<1>8. QED
  BY <1>3, <1>4, <1>5, <1>6, <1>7

LEMMA TimesAreFinite ==
  /\ IsFiniteSet(Hours) /\ IsFiniteSet(Days) /\ IsFiniteSet(ShardNos)
  /\ \A s \in Slots : HourOf(s) \in Hours /\ DayOf(s) \in Days /\ s \in Nat
<1>1. MaxSlot \in Nat
  BY RollupsAssumption
<1>2. IsFiniteSet(Slots)
  BY <1>1, FS_Interval DEF Slots
<1>3. IsFiniteSet(Hours)
  <2> DEFINE f == [s \in Slots |-> HourOf(s)]
  <2>1. f \in Surjection(Slots, Hours)
    BY DEF Hours, Surjection
  <2>2. QED
    BY <1>2, <2>1, FS_Surjection
<1>4. IsFiniteSet(Days)
  <2> DEFINE f == [s \in Slots |-> DayOf(s)]
  <2>1. f \in Surjection(Slots, Days)
    BY DEF Days, Surjection
  <2>2. QED
    BY <1>2, <2>1, FS_Surjection
<1>5. IsFiniteSet(ShardNos)
  <2>1. 0 \in Int /\ Shards - 1 \in Int
    BY RollupsAssumption
  <2>2. IsFiniteSet(0..(Shards - 1)) /\ IsFiniteSet({0})
    BY <2>1, FS_Interval, FS_Singleton
  <2>3. QED
    BY <2>2 DEF ShardNos
<1>6. QED
  BY <1>1, <1>3, <1>4, <1>5 DEF Hours, Days, Slots

-----------------------------------------------------------------------------
(* What the pages read.                                                    *)

SideAt(rs, S, b, h) ==
  IF b THEN {e \in S : ShardedIn(rs, e) /\ HourIn(rs, e) = h} ELSE PlainAt(rs, S, h)
During(db, rs, S, since, until) == {e \in S : HourShown(db, since, HourIn(rs, e), until)}
OnDays(db, rs, S, since, until) == {e \in S : DayShown(db, since, DayIn(rs, e), until)}
OfRange(rs, S, since, until) == {e \in S : since <= rs[e].at /\ rs[e].at < until}
InHour(rs, S, h) == {e \in S : HourIn(rs, e) = h}

LEMMA PairFinite == ASSUME NEW x, NEW y PROVE IsFiniteSet({x, y})
<1>1. IsFiniteSet({x}) /\ IsFiniteSet({y}) /\ {x, y} = {x} \cup {y}
  BY FS_Singleton
<1>2. QED
  BY <1>1, FS_Union

LEMMA HoursIn ==
  ASSUME NEW rs \in [Events -> EventRows], NEW e \in Events
  PROVE  /\ HourIn(rs, e) \in Hours /\ DayIn(rs, e) \in Days /\ rs[e].at \in Nat /\ rs[e].at \in Slots
         /\ ShardedIn(rs, e) => ShardOf(e) \in ShardNos
<1>1. rs[e].at \in Slots
  BY DEF EventRows
<1>2. ShardedIn(rs, e) => ShardOf(e) \in ShardNos
  <2>1. SUFFICES ASSUME Shards > 0 PROVE e % Shards \in ShardNos
    BY DEF ShardedIn, ShardOf
  <2>2. e \in Int /\ Shards \in Nat
    BY RollupsAssumption DEF Events
  <2>3. QED
    BY <2>1, <2>2 DEF ShardNos
<1>3. QED
  BY <1>1, <1>2, TimesAreFinite DEF HourIn, DayIn

\* The shards of an hour add up to its sharded side, and its two sides to the hour.
LEMMA ShardsAdd ==
  ASSUME NEW rs \in [Events -> EventRows], NEW S \in SUBSET Events, NEW h,
         NEW f, f = [i \in ShardNos |-> CountIn(rs, ShardAt(rs, S, h, i))]
  PROVE  Plus(f) = CountIn(rs, SideAt(rs, S, TRUE, h))
<1> DEFINE U == SideAt(rs, S, TRUE, h)
           part == [i \in ShardNos |-> ShardAt(rs, S, h, i)]
<1>1. U \in SUBSET Events /\ IsFiniteSet(ShardNos)
  BY TimesAreFinite DEF SideAt
<1>2. part \in [ShardNos -> SUBSET U]
  BY DEF SideAt, ShardAt
<1>3. \A e \in U : \E i \in ShardNos : e \in part[i]
  BY HoursIn DEF SideAt, ShardAt
<1>4. \A i, j \in ShardNos : i # j => part[i] \cap part[j] = {}
  BY DEF ShardAt
<1>5. f = [i \in ShardNos |-> CountIn(rs, part[i])]
  OBVIOUS
<1> HIDE DEF U, part
<1>6. Plus(f) = CountIn(rs, U)
  BY <1>1, <1>2, <1>3, <1>4, <1>5, SumOfParts
<1>7. QED
  BY <1>6 DEF U

LEMMA SidesAdd ==
  ASSUME NEW rs, NEW S \in SUBSET Events, NEW h,
         NEW f, f = [b \in BOOLEAN |-> CountIn(rs, SideAt(rs, S, b, h))]
  PROVE  Plus(f) = CountIn(rs, InHour(rs, S, h))
<1> DEFINE U == InHour(rs, S, h)
           part == [b \in BOOLEAN |-> SideAt(rs, S, b, h)]
<1>1. U \in SUBSET Events
  BY DEF InHour
<1>2. IsFiniteSet(BOOLEAN)
  <2>1. IsFiniteSet({TRUE, FALSE})
    BY PairFinite
  <2>2. BOOLEAN = {TRUE, FALSE}
    OBVIOUS
  <2>3. QED
    BY <2>1, <2>2, Zenon
<1>3. part \in [BOOLEAN -> SUBSET U]
  BY DEF SideAt, PlainAt, InHour
<1>4. \A e \in U : \E b \in BOOLEAN : e \in part[b]
  <2>1. ASSUME NEW e \in U PROVE \E b \in BOOLEAN : e \in part[b]
    <3>1. CASE ShardedIn(rs, e)
      <4>1. e \in part[TRUE]
        BY <3>1 DEF SideAt, InHour
      <4>2. QED
        BY <4>1
    <3>2. CASE ~ShardedIn(rs, e)
      <4>1. e \in part[FALSE]
        BY <3>2 DEF SideAt, PlainAt, InHour
      <4>2. QED
        BY <4>1
    <3>3. QED
      BY <3>1, <3>2
  <2>2. QED
    BY <2>1
<1>5. \A i, j \in BOOLEAN : i # j => part[i] \cap part[j] = {}
  <2>1. part[TRUE] \cap part[FALSE] = {}
    BY DEF SideAt, PlainAt
  <2> HIDE DEF part
  <2>2. QED
    BY <2>1
<1>6. f = [b \in BOOLEAN |-> CountIn(rs, part[b])]
  OBVIOUS
<1> HIDE DEF U, part
<1>7. Plus(f) = CountIn(rs, U)
  BY <1>1, <1>2, <1>3, <1>4, <1>5, <1>6, SumOfParts
<1>8. QED
  BY <1>7 DEF U

\* The hours of a range add up to the range.
LEMMA HoursAdd ==
  ASSUME NEW rs \in [Events -> EventRows], NEW S \in SUBSET Events,
         NEW f, f = [h \in Hours |-> CountIn(rs, InHour(rs, S, h))]
  PROVE  Plus(f) = CountIn(rs, S)
<1> DEFINE part == [h \in Hours |-> InHour(rs, S, h)]
<1>1. part \in [Hours -> SUBSET S]
  BY DEF InHour
<1>2. \A e \in S : \E h \in Hours : e \in part[h]
  BY HoursIn DEF InHour
<1>3. \A i, j \in Hours : i # j => part[i] \cap part[j] = {}
  BY DEF InHour
<1>4. f = [h \in Hours |-> CountIn(rs, part[h])]
  OBVIOUS
<1> HIDE DEF part
<1>5. QED
  BY <1>1, <1>2, <1>3, <1>4, SumOfParts, TimesAreFinite

\* Between full hours, the segments hold each event of an hour shown on the side it was
\* added to, and no other.
WholeRange(since, until) ==
  /\ since \in Nat /\ until \in Nat /\ since < until
  /\ HourAligned(since) /\ HourAligned(until) /\ HourAligned(Cutover)

LEMMA SegmentsRight ==
  ASSUME NEW db \in Databases, NEW since, NEW until, WholeRange(since, until),
         NEW rs \in [Events -> EventRows]
  PROVE  /\ IsFiniteSet(Segments(since, until))
         /\ \A g \in Segments(since, until) : g.sharded \in BOOLEAN
         /\ \A g, k \in Segments(since, until) : g.sharded = k.sharded => g = k
         /\ \A e \in Events : HourShown(db, since, HourIn(rs, e), until) <=>
                \E g \in Segments(since, until) :
                    /\ In(db, g, HourIn(rs, e))
                    /\ g.sharded => ShardedIn(rs, e)
                    /\ ShardedIn(rs, e) => g.sharded
<1> DEFINE low == [from |-> since, to |-> Cutover, sharded |-> FALSE]
           high == [from |-> Cutover, to |-> until, sharded |-> TRUE]
           plain == [from |-> since, to |-> until, sharded |-> FALSE]
           parted == [from |-> since, to |-> until, sharded |-> TRUE]
<1>1. /\ since \in Nat /\ until \in Nat /\ since < until /\ Cutover \in Nat /\ Shards \in Nat
      /\ HourAligned(since) /\ HourAligned(until) /\ HourAligned(Cutover)
  BY RollupsAssumption DEF WholeRange
<1>2. ASSUME NEW e \in Events
      PROVE  \E m \in Nat : /\ m = HourIn(rs, e) * SlotsPerHour
                            /\ ShardedIn(rs, e) <=> Shards > 0 /\ Cutover <= m
  <2>1. PICK s \in Nat : s = rs[e].at
    BY HoursIn
  <2>2. PICK m \in Nat : m = HourOf(s) * SlotsPerHour
    <3>1. HourOf(s) \in Nat
      BY <1>1, HourEdges
    <3>2. QED
      BY <3>1, RollupsAssumption
  <2>3. Cutover <= s <=> Cutover <= m
    BY <1>1, <2>2, HourEdges
  <2>4. HourIn(rs, e) * SlotsPerHour = m
    BY <2>1, <2>2 DEF HourIn
  <2>5. QED
    BY <1>1, <2>1, <2>3, <2>4 DEF ShardedIn
<1>3. ASSUME NEW e \in Events, Shards = 0 \/ until <= Cutover
      PROVE  HourShown(db, since, HourIn(rs, e), until) <=>
                In(db, plain, HourIn(rs, e)) /\ ~ShardedIn(rs, e)
  <2>1. PICK m \in Nat : /\ m = HourIn(rs, e) * SlotsPerHour
                         /\ ShardedIn(rs, e) <=> Shards > 0 /\ Cutover <= m
    BY <1>2
  <2>2. In(db, plain, HourIn(rs, e)) <=> Within(db, since, m, until)
    BY <2>1 DEF In
  <2>3. QED
    BY <1>1, <1>3, <2>1, <2>2 DEF HourShown, Within, Databases
<1>4. ASSUME NEW e \in Events, ~(Shards = 0 \/ until <= Cutover), since >= Cutover
      PROVE  HourShown(db, since, HourIn(rs, e), until) <=>
                In(db, parted, HourIn(rs, e)) /\ ShardedIn(rs, e)
  <2>1. PICK m \in Nat : /\ m = HourIn(rs, e) * SlotsPerHour
                         /\ ShardedIn(rs, e) <=> Shards > 0 /\ Cutover <= m
    BY <1>2
  <2>2. In(db, parted, HourIn(rs, e)) <=> Within(db, since, m, until)
    BY <2>1 DEF In
  <2>3. QED
    BY <1>1, <1>4, <2>1, <2>2 DEF HourShown, Within, Databases
<1>5. ASSUME NEW e \in Events, ~(Shards = 0 \/ until <= Cutover), ~(since >= Cutover)
      PROVE  HourShown(db, since, HourIn(rs, e), until) <=>
                \/ In(db, low, HourIn(rs, e)) /\ ~ShardedIn(rs, e)
                \/ In(db, high, HourIn(rs, e)) /\ ShardedIn(rs, e)
  <2>1. PICK m \in Nat : /\ m = HourIn(rs, e) * SlotsPerHour
                         /\ ShardedIn(rs, e) <=> Shards > 0 /\ Cutover <= m
    BY <1>2
  <2>2. /\ In(db, low, HourIn(rs, e)) <=> Within(db, since, m, Cutover)
        /\ In(db, high, HourIn(rs, e)) <=> Within(db, Cutover, m, until)
    BY <2>1 DEF In
  <2>3. QED
    BY <1>1, <1>5, <2>1, <2>2 DEF HourShown, Within, Databases
<1>6. CASE Shards = 0 \/ until <= Cutover
  <2>1. Segments(since, until) = {plain} /\ plain.sharded = FALSE
    BY <1>6 DEF Segments
  <2>2. IsFiniteSet({plain})
    BY FS_Singleton
  <2>3. \A e \in Events : HourShown(db, since, HourIn(rs, e), until) <=>
                In(db, plain, HourIn(rs, e)) /\ ~ShardedIn(rs, e)
    BY <1>3, <1>6
  <2> HIDE DEF plain
  <2>4. QED
    BY <2>1, <2>2, <2>3
<1>7. CASE ~(Shards = 0 \/ until <= Cutover) /\ since >= Cutover
  <2>1. Segments(since, until) = {parted} /\ parted.sharded = TRUE
    BY <1>7 DEF Segments
  <2>2. IsFiniteSet({parted})
    BY FS_Singleton
  <2>3. \A e \in Events : HourShown(db, since, HourIn(rs, e), until) <=>
                In(db, parted, HourIn(rs, e)) /\ ShardedIn(rs, e)
    BY <1>4, <1>7
  <2> HIDE DEF parted
  <2>4. QED
    BY <2>1, <2>2, <2>3
<1>8. CASE ~(Shards = 0 \/ until <= Cutover) /\ ~(since >= Cutover)
  <2>1. /\ Segments(since, until) = {low, high}
        /\ low.sharded = FALSE /\ high.sharded = TRUE
    BY <1>8 DEF Segments
  <2>2. IsFiniteSet({low, high})
    BY PairFinite
  <2>3. \A e \in Events : HourShown(db, since, HourIn(rs, e), until) <=>
                \/ In(db, low, HourIn(rs, e)) /\ ~ShardedIn(rs, e)
                \/ In(db, high, HourIn(rs, e)) /\ ShardedIn(rs, e)
    BY <1>5, <1>8
  <2>4. low \in Segments(since, until) /\ high \in Segments(since, until)
        /\ \A g \in Segments(since, until) : g = low \/ g = high
    BY <2>1
  <2> HIDE DEF low, high
  <2>5. \A g, k \in Segments(since, until) : g.sharded = k.sharded => g = k
    BY <2>1, <2>4
  <2>6. QED
    BY <2>1, <2>2, <2>3, <2>4, <2>5
<1>9. QED
  BY <1>6, <1>7, <1>8

\* On MySQL the hours and the days shown are those of the range.
LEMMA RangesExact ==
  ASSUME NEW since, NEW until, WholeRange(since, until), NEW rs \in [Events -> EventRows],
         NEW S \in SUBSET Events
  PROVE  /\ During("mysql", rs, S, since, until) = OfRange(rs, S, since, until)
         /\ DayAligned(since) /\ DayAligned(until) =>
                OnDays("mysql", rs, S, since, until) = OfRange(rs, S, since, until)
<1>1. since \in Nat /\ until \in Nat /\ HourAligned(since) /\ HourAligned(until)
  BY DEF WholeRange
<1>2. ASSUME NEW e \in Events
      PROVE  HourShown("mysql", since, HourIn(rs, e), until) <=>
                since <= rs[e].at /\ rs[e].at < until
  <2>1. PICK s \in Nat : s = rs[e].at
    BY HoursIn
  <2>2. PICK m \in Nat : m = HourOf(s) * SlotsPerHour
    <3>1. HourOf(s) \in Nat
      BY <1>1, HourEdges
    <3>2. QED
      BY <3>1, RollupsAssumption
  <2>3. (since <= s <=> since <= m) /\ (until <= s <=> until <= m)
    BY <1>1, <2>2, HourEdges
  <2>4. HourIn(rs, e) * SlotsPerHour = m
    BY <2>1, <2>2 DEF HourIn
  <2>5. HourShown("mysql", since, HourIn(rs, e), until) <=> since <= m /\ m < until
    BY <2>4 DEF HourShown, Within
  <2>6. QED
    BY <1>1, <2>1, <2>3, <2>5
<1>3. ASSUME NEW e \in Events, DayAligned(since), DayAligned(until)
      PROVE  DayShown("mysql", since, DayIn(rs, e), until) <=>
                since <= rs[e].at /\ rs[e].at < until
  <2>1. PICK s \in Nat : s = rs[e].at
    BY HoursIn
  <2>2. PICK m \in Nat : m = DayStarts(DayOf(s))
    <3>1. DayOf(s) \in Nat
      BY <1>1, <1>3, DayEdges
    <3>2. QED
      BY <3>1, RollupsAssumption DEF DayStarts
  <2>3. (since <= s <=> since <= m) /\ (until <= s <=> until <= m)
    BY <1>1, <1>3, <2>2, DayEdges
  <2>4. DayStarts(DayIn(rs, e)) = m
    BY <2>1, <2>2 DEF DayIn
  <2>5. DayShown("mysql", since, DayIn(rs, e), until) <=> since <= m /\ m < until
    BY <2>4 DEF DayShown, Within
  <2>6. QED
    BY <1>1, <2>1, <2>3, <2>5
<1>4. QED
  BY <1>2, <1>3 DEF During, OnDays, OfRange

OfUser(rs, S, u) == {e \in S : rs[e].user = u}
OfModel(rs, S, x) == {e \in S : rs[e].user = x[1] /\ rs[e].model = x[2]}
OfHour(rs, S, x) == {e \in S : rs[e].user = x[1] /\ HourIn(rs, e) = x[2]}

\* What a range of whole hours reads from cells that are exact counts events once.
LEMMA ReadCounts ==
  ASSUME NEW db \in Databases, NEW since, NEW until, WholeRange(since, until),
         NEW rs \in [Events -> EventRows], NEW S \in SUBSET Events,
         NEW f, f = [x \in Read(db, since, until) |-> CountIn(rs, SideAt(rs, S, x[1].sharded, x[2]))]
  PROVE  Plus(f) = CountIn(rs, During(db, rs, S, since, until))
<1> DEFINE U == During(db, rs, S, since, until)
           I == Read(db, since, until)
           part == [x \in I |-> SideAt(rs, S, x[1].sharded, x[2])]
<1>1. /\ IsFiniteSet(Segments(since, until))
      /\ \A g \in Segments(since, until) : g.sharded \in BOOLEAN
      /\ \A g, k \in Segments(since, until) : g.sharded = k.sharded => g = k
      /\ \A e \in Events : HourShown(db, since, HourIn(rs, e), until) <=>
                \E g \in Segments(since, until) :
                    /\ In(db, g, HourIn(rs, e))
                    /\ g.sharded => ShardedIn(rs, e)
                    /\ ShardedIn(rs, e) => g.sharded
  BY SegmentsRight
<1>2. IsFiniteSet(I)
  <2>1. IsFiniteSet(Segments(since, until) \X Hours)
    BY <1>1, TimesAreFinite, FS_Product
  <2>2. I \in SUBSET (Segments(since, until) \X Hours)
    BY DEF Read
  <2>3. QED
    BY <2>1, <2>2, FS_Subset
<1>3. U \in SUBSET Events
  BY DEF During
<1>4. ASSUME NEW x \in I
      PROVE  \E g \in Segments(since, until), h \in Hours : x = <<g, h>> /\ x[1] = g /\ x[2] = h /\ In(db, g, h)
  BY DEF Read
<1>5. ASSUME NEW g \in Segments(since, until), NEW h, NEW e
      PROVE  e \in SideAt(rs, S, g.sharded, h) <=>
                /\ e \in S /\ HourIn(rs, e) = h
                /\ g.sharded => ShardedIn(rs, e)
                /\ ShardedIn(rs, e) => g.sharded
  BY <1>1 DEF SideAt, PlainAt
<1>6. part \in [I -> SUBSET U]
  <2>1. ASSUME NEW x \in I PROVE SideAt(rs, S, x[1].sharded, x[2]) \in SUBSET U
    <3>1. PICK g \in Segments(since, until), h \in Hours : x[1] = g /\ x[2] = h /\ In(db, g, h)
      BY <1>4
    <3>2. ASSUME NEW e \in SideAt(rs, S, g.sharded, h) PROVE e \in U
      <4>1. /\ e \in S /\ HourIn(rs, e) = h
            /\ g.sharded => ShardedIn(rs, e)
            /\ ShardedIn(rs, e) => g.sharded
        BY <1>5, <3>2
      <4>2. HourShown(db, since, HourIn(rs, e), until)
        BY <1>1, <3>1, <4>1
      <4>3. QED
        BY <4>1, <4>2 DEF During
    <3>3. QED
      BY <3>1, <3>2
  <2>2. QED
    BY <2>1
<1>7. \A e \in U : \E x \in I : e \in part[x]
  <2>1. SUFFICES ASSUME NEW e \in U PROVE \E x \in I : e \in part[x]
    OBVIOUS
  <2>2. e \in S /\ e \in Events /\ HourShown(db, since, HourIn(rs, e), until)
    BY DEF During
  <2>3. PICK g \in Segments(since, until) : /\ In(db, g, HourIn(rs, e))
                                            /\ g.sharded => ShardedIn(rs, e)
                                            /\ ShardedIn(rs, e) => g.sharded
    BY <1>1, <2>2
  <2>4. PICK x : x = <<g, HourIn(rs, e)>>
    OBVIOUS
  <2>5. x \in I /\ x[1] = g /\ x[2] = HourIn(rs, e)
    BY <2>2, <2>3, <2>4, HoursIn DEF Read
  <2>6. e \in SideAt(rs, S, g.sharded, HourIn(rs, e))
    BY <1>5, <2>2, <2>3
  <2>7. QED
    BY <2>5, <2>6
<1>8. \A x, y \in I : x # y => part[x] \cap part[y] = {}
  <2>1. SUFFICES ASSUME NEW x \in I, NEW y \in I, NEW e, e \in part[x], e \in part[y] PROVE x = y
    OBVIOUS
  <2>2. PICK g \in Segments(since, until), h \in Hours : x = <<g, h>> /\ x[1] = g /\ x[2] = h
    BY <1>4
  <2>3. PICK k \in Segments(since, until), j \in Hours : y = <<k, j>> /\ y[1] = k /\ y[2] = j
    BY <1>4
  <2>4. e \in SideAt(rs, S, g.sharded, h) /\ e \in SideAt(rs, S, k.sharded, j)
    BY <2>1, <2>2, <2>3
  <2>5. h = j /\ (g.sharded => k.sharded) /\ (k.sharded => g.sharded)
    BY <1>5, <2>4
  <2>6. g.sharded = k.sharded
    BY <1>1, <2>5
  <2>7. QED
    BY <1>1, <2>2, <2>3, <2>5, <2>6
<1>9. f = [x \in I |-> CountIn(rs, part[x])]
  OBVIOUS
<1> HIDE DEF U, part, I
<1>10. Plus(f) = CountIn(rs, U)
  BY <1>2, <1>3, <1>6, <1>7, <1>8, <1>9, SumOfParts
<1>11. QED
  BY <1>10 DEF U

\* And so does each hour of a series.
LEMMA HourCounts ==
  ASSUME NEW db \in Databases, NEW since, NEW until, WholeRange(since, until),
         NEW rs \in [Events -> EventRows], NEW S \in SUBSET Events, NEW h \in Hours,
         NEW f, f = [g \in SegmentsOf(db, since, until, h) |->
                        CountIn(rs, SideAt(rs, S, g.sharded, h))]
  PROVE  Plus(f) = CountIn(rs, InHour(rs, During(db, rs, S, since, until), h))
<1> DEFINE U == InHour(rs, During(db, rs, S, since, until), h)
           I == SegmentsOf(db, since, until, h)
           part == [g \in I |-> SideAt(rs, S, g.sharded, h)]
<1>1. /\ IsFiniteSet(Segments(since, until))
      /\ \A g \in Segments(since, until) : g.sharded \in BOOLEAN
      /\ \A g, k \in Segments(since, until) : g.sharded = k.sharded => g = k
      /\ \A e \in Events : HourShown(db, since, HourIn(rs, e), until) <=>
                \E g \in Segments(since, until) :
                    /\ In(db, g, HourIn(rs, e))
                    /\ g.sharded => ShardedIn(rs, e)
                    /\ ShardedIn(rs, e) => g.sharded
  BY SegmentsRight
<1>2. IsFiniteSet(I)
  BY <1>1, FS_Subset DEF SegmentsOf
<1>3. U \in SUBSET Events
  BY DEF During, InHour
<1>4. ASSUME NEW g \in Segments(since, until), NEW e
      PROVE  e \in SideAt(rs, S, g.sharded, h) <=>
                /\ e \in S /\ HourIn(rs, e) = h
                /\ g.sharded => ShardedIn(rs, e)
                /\ ShardedIn(rs, e) => g.sharded
  BY <1>1 DEF SideAt, PlainAt
<1>5. part \in [I -> SUBSET U]
  <2>1. ASSUME NEW g \in I PROVE SideAt(rs, S, g.sharded, h) \in SUBSET U
    <3>1. ASSUME NEW e \in SideAt(rs, S, g.sharded, h) PROVE e \in U
      <4>1. /\ e \in S /\ HourIn(rs, e) = h
            /\ g.sharded => ShardedIn(rs, e)
            /\ ShardedIn(rs, e) => g.sharded
        BY <1>4, <2>1, <3>1 DEF SegmentsOf
      <4>2. HourShown(db, since, HourIn(rs, e), until)
        BY <1>1, <2>1, <3>1, <4>1 DEF SegmentsOf, SideAt, PlainAt
      <4>3. QED
        BY <4>1, <4>2 DEF During, InHour
    <3>2. QED
      BY <3>1
  <2>2. QED
    BY <2>1
<1>6. \A e \in U : \E g \in I : e \in part[g]
  <2>1. SUFFICES ASSUME NEW e \in U PROVE \E g \in I : e \in part[g]
    OBVIOUS
  <2>2. e \in S /\ e \in Events /\ HourShown(db, since, HourIn(rs, e), until) /\ HourIn(rs, e) = h
    BY DEF During, InHour
  <2>3. PICK g \in Segments(since, until) : /\ In(db, g, HourIn(rs, e))
                                            /\ g.sharded => ShardedIn(rs, e)
                                            /\ ShardedIn(rs, e) => g.sharded
    BY <1>1, <2>2
  <2>4. g \in I /\ e \in SideAt(rs, S, g.sharded, h)
    BY <1>4, <2>2, <2>3 DEF SegmentsOf
  <2>5. QED
    BY <2>4
<1>7. \A g, k \in I : g # k => part[g] \cap part[k] = {}
  <2>1. SUFFICES ASSUME NEW g \in I, NEW k \in I, NEW e, e \in part[g], e \in part[k] PROVE g = k
    OBVIOUS
  <2>2. e \in SideAt(rs, S, g.sharded, h) /\ e \in SideAt(rs, S, k.sharded, h)
    BY <2>1
  <2>3. (g.sharded => k.sharded) /\ (k.sharded => g.sharded)
    BY <1>4, <2>1, <2>2 DEF SegmentsOf
  <2>4. g.sharded = k.sharded
    BY <1>1, <2>1, <2>3 DEF SegmentsOf
  <2>5. QED
    BY <1>1, <2>1, <2>4 DEF SegmentsOf
<1>8. f = [g \in I |-> CountIn(rs, part[g])]
  OBVIOUS
<1> HIDE DEF U, part, I
<1>9. Plus(f) = CountIn(rs, U)
  BY <1>2, <1>3, <1>5, <1>6, <1>7, <1>8, SumOfParts
<1>10. QED
  BY <1>9 DEF U

\* The days of a range of whole days hold a user's events of the days shown.
LEMMA DaysCount ==
  ASSUME NEW db \in Databases, NEW since, NEW until, WholeRange(since, until),
         DayAligned(since), DayAligned(until),
         NEW rs \in [Events -> EventRows], NEW S \in SUBSET Events, NEW u,
         NEW f, f = [d \in UserDays(db, since, until) |-> CountIn(rs, ByUser(rs, S, d, u))]
  PROVE  Plus(f) = CountIn(rs, OfUser(rs, OnDays(db, rs, S, since, until), u))
<1> DEFINE U == OfUser(rs, OnDays(db, rs, S, since, until), u)
           I == UserDays(db, since, until)
           part == [d \in I |-> ByUser(rs, S, d, u)]
<1>1. since \in Nat /\ until \in Nat
  BY DEF WholeRange
<1>2. DayStarts(DayOf(since)) = since /\ UntilDay(until) = until
  <2>1. since <= DayStarts(DayOf(since)) /\ DayStarts(DayOf(since)) <= since /\ DayOf(since) \in Nat
    BY <1>1, DayEdges
  <2>2. DayStarts(DayOf(since)) \in Nat
    BY <2>1, RollupsAssumption DEF DayStarts
  <2>3. QED
    BY <1>1, <2>1, <2>2 DEF UntilDay
<1>3. \A e \in Events :
        /\ DayIn(rs, e) \in Days
        /\ DayIn(rs, e) \in I <=> DayShown(db, since, DayIn(rs, e), until)
  BY <1>2, HoursIn DEF UserDays, DayShown
<1>4. IsFiniteSet(I)
  BY TimesAreFinite, FS_Subset DEF UserDays
<1>5. U \in SUBSET Events
  BY DEF OnDays, OfUser
<1> HIDE DEF I
<1>6. part \in [I -> SUBSET U]
  BY <1>3 DEF ByUser, OnDays, OfUser
<1>7. \A e \in U : \E d \in I : e \in part[d]
  BY <1>3 DEF ByUser, OnDays, OfUser
<1>8. \A i, j \in I : i # j => part[i] \cap part[j] = {}
  BY DEF ByUser
<1>9. f = [d \in I |-> CountIn(rs, part[d])]
  BY DEF I
<1> HIDE DEF U, part
<1>10. Plus(f) = CountIn(rs, U)
  BY <1>4, <1>5, <1>6, <1>7, <1>8, <1>9, SumOfParts
<1>11. QED
  BY <1>10 DEF U

\* Users, and users with their models, part the events.
LEMMA UsersAdd ==
  ASSUME NEW rs \in [Events -> EventRows], NEW S \in SUBSET Events,
         NEW f, f = [u \in Payers |-> CountIn(rs, OfUser(rs, S, u))]
  PROVE  Plus(f) = CountIn(rs, S)
<1> DEFINE part == [u \in Payers |-> OfUser(rs, S, u)]
<1>1. part \in [Payers -> SUBSET S] /\ IsFiniteSet(Payers)
  BY RollupsAssumption DEF OfUser
<1>2. \A e \in S : \E u \in Payers : e \in part[u]
  BY DEF EventRows, OfUser
<1>3. \A i, j \in Payers : i # j => part[i] \cap part[j] = {}
  BY DEF OfUser
<1>4. f = [u \in Payers |-> CountIn(rs, part[u])]
  OBVIOUS
<1> HIDE DEF part
<1>5. QED
  BY <1>1, <1>2, <1>3, <1>4, SumOfParts

LEMMA ModelsAdd ==
  ASSUME NEW rs \in [Events -> EventRows], NEW S \in SUBSET Events,
         NEW f, f = [x \in Payers \X Priced |-> CountIn(rs, OfModel(rs, S, x))]
  PROVE  Plus(f) = CountIn(rs, S)
<1> DEFINE I == Payers \X Priced
           part == [x \in I |-> OfModel(rs, S, x)]
<1>1. part \in [I -> SUBSET S] /\ IsFiniteSet(I)
  BY RollupsAssumption, FS_Product DEF OfModel
<1>2. \A e \in S : \E x \in I : e \in part[x]
  <2>1. SUFFICES ASSUME NEW e \in S PROVE \E x \in I : e \in part[x]
    OBVIOUS
  <2>2. <<rs[e].user, rs[e].model>> \in I
    BY DEF EventRows
  <2>3. QED
    BY <2>2 DEF OfModel
<1>3. \A i, j \in I : i # j => part[i] \cap part[j] = {}
  BY DEF OfModel
<1>4. f = [x \in I |-> CountIn(rs, part[x])]
  OBVIOUS
<1> HIDE DEF part, I
<1>5. QED
  BY <1>1, <1>2, <1>3, <1>4, SumOfParts

LEMMA UserHoursAdd ==
  ASSUME NEW rs \in [Events -> EventRows], NEW S \in SUBSET Events,
         NEW f, f = [x \in Payers \X Hours |-> CountIn(rs, OfHour(rs, S, x))]
  PROVE  Plus(f) = CountIn(rs, S)
<1> DEFINE I == Payers \X Hours
           part == [x \in I |-> OfHour(rs, S, x)]
<1>1. part \in [I -> SUBSET S] /\ IsFiniteSet(I)
  BY RollupsAssumption, TimesAreFinite, FS_Product DEF OfHour
<1>2. \A e \in S : \E x \in I : e \in part[x]
  <2>1. SUFFICES ASSUME NEW e \in S PROVE \E x \in I : e \in part[x]
    OBVIOUS
  <2>2. <<rs[e].user, HourIn(rs, e)>> \in I
    BY HoursIn DEF EventRows
  <2>3. QED
    BY <2>2 DEF OfHour
<1>3. \A i, j \in I : i # j => part[i] \cap part[j] = {}
  BY DEF OfHour
<1>4. f = [x \in I |-> CountIn(rs, part[x])]
  OBVIOUS
<1> HIDE DEF part, I
<1>5. QED
  BY <1>1, <1>2, <1>3, <1>4, SumOfParts

LEMMA ChannelsAdd ==
  ASSUME NEW rs, NEW S \in SUBSET Events, \A e \in S : rs[e].channel \in Upstreams,
         NEW f, f = [c \in Upstreams |-> CountIn(rs, Through(rs, S, c))]
  PROVE  Plus(f) = CountIn(rs, S)
<1> DEFINE part == [c \in Upstreams |-> Through(rs, S, c)]
<1>1. part \in [Upstreams -> SUBSET S] /\ IsFiniteSet(Upstreams)
  BY RollupsAssumption DEF Through
<1>2. \A e \in S : \E c \in Upstreams : e \in part[c]
  BY DEF Through
<1>3. \A i, j \in Upstreams : i # j => part[i] \cap part[j] = {}
  BY DEF Through
<1>4. f = [c \in Upstreams |-> CountIn(rs, part[c])]
  OBVIOUS
<1> HIDE DEF part
<1>5. QED
  BY <1>1, <1>2, <1>3, <1>4, SumOfParts

-----------------------------------------------------------------------------
(* The pages, in a state the invariant holds of.                           *)

\* A cell read for the whole of a side, of the totals of all or of a channel's.
LEMMA CellsRead ==
  ASSUME UInv, NEW K, Booked(rows, totals, K), NEW seg, seg.sharded \in BOOLEAN, NEW h \in Hours
  PROVE  /\ GlobalCell(seg, h) = CountIn(rows, SideAt(rows, Counted(rows), seg.sharded, h))
         /\ \A c \in Upstreams :
                ChannelCell(seg, h, c) = CountIn(rows, SideAt(rows, Through(rows, K, c), seg.sharded, h))
<1> DEFINE R == Counted(rows)
<1>1. rows \in [Events -> EventRows] /\ Exact(rows, totals)
  BY TypesSay DEF UInv
<1>2. R \in SUBSET Events /\ \A c : Through(rows, K, c) \in SUBSET Events
  BY DEF Counted, Through, Booked
<1>3. CASE seg.sharded
  <2>1. GlobalCell(seg, h) = CountIn(rows, SideAt(rows, R, TRUE, h))
    <3> DEFINE f == [i \in ShardNos |-> totals.globalHourSharded[<<h, i>>]]
    <3>1. f = [i \in ShardNos |-> CountIn(rows, ShardAt(rows, R, h, i))]
      BY <1>1 DEF Exact
    <3>2. GlobalCell(seg, h) = Plus(f)
      BY <1>3 DEF GlobalCell
    <3> HIDE DEF f, R
    <3>3. QED
      BY <1>1, <1>2, <3>1, <3>2, ShardsAdd
  <2>2. ASSUME NEW c \in Upstreams
        PROVE  ChannelCell(seg, h, c) = CountIn(rows, SideAt(rows, Through(rows, K, c), TRUE, h))
    <3> DEFINE f == [i \in ShardNos |-> totals.channelHourSharded[<<h, c, i>>]]
    <3>1. f = [i \in ShardNos |-> CountIn(rows, ShardAt(rows, Through(rows, K, c), h, i))]
      BY DEF Booked
    <3>2. ChannelCell(seg, h, c) = Plus(f)
      BY <1>3 DEF ChannelCell
    <3> HIDE DEF f
    <3>3. QED
      BY <1>1, <1>2, <3>1, <3>2, ShardsAdd
  <2>3. seg.sharded = TRUE
    BY <1>3
  <2>4. QED
    BY <2>1, <2>2, <2>3
<1>4. CASE ~seg.sharded
  <2>1. GlobalCell(seg, h) = totals.globalHour[h]
        /\ \A c : ChannelCell(seg, h, c) = totals.channelHour[<<h, c>>]
    BY <1>4 DEF GlobalCell, ChannelCell
  <2>2. \A S : SideAt(rows, S, seg.sharded, h) = PlainAt(rows, S, h)
    BY <1>4 DEF SideAt
  <2>3. totals.globalHour[h] = CountIn(rows, PlainAt(rows, R, h))
    BY <1>1 DEF Exact
  <2>4. \A c \in Upstreams :
            totals.channelHour[<<h, c>>] = CountIn(rows, PlainAt(rows, Through(rows, K, c), h))
    BY DEF Booked
  <2>5. QED
    BY <2>1, <2>2, <2>3, <2>4
<1>5. QED
  BY <1>3, <1>4

\* What the model calls a cell of events is their count.
LEMMA CellCounts == \A S : CellOf(S) = CountIn(rows, S)
BY DEF CellOf, CountIn, Paid

LEMMA TotalsRight == UInv => TotalsCountOnce
<1> DEFINE R == {e \in Events : rows[e].rolled}
<1>1. SUFFICES ASSUME UInv PROVE TotalsCountOnce
  OBVIOUS
<1>2. PICK K : Booked(rows, totals, K)
  BY <1>1 DEF UInv
<1>3. /\ R = Counted(rows) /\ R \in SUBSET Events /\ K \subseteq R /\ Exact(rows, totals)
      /\ \A e \in R : rows[e].state = "committed" => e \in K
  BY <1>1, <1>2 DEF UInv, Counted, Booked
<1> HIDE DEF R
<1>4. \A e \in Events : rows[e].gone => rows[e].rolled
  BY <1>1 DEF UInv, RowsFit
<1>5. ASSUME NEW h \in Hours
      PROVE  Plus([b \in BOOLEAN |-> GlobalCell([sharded |-> b], h)]) = CellOf({e \in R : H(e) = h})
  <2> DEFINE f == [b \in BOOLEAN |-> GlobalCell([sharded |-> b], h)]
  <2>1. ASSUME NEW b \in BOOLEAN
        PROVE  GlobalCell([sharded |-> b], h) = CountIn(rows, SideAt(rows, R, b, h))
    <3>1. PICK seg : seg = [sharded |-> b]
      OBVIOUS
    <3>2. seg.sharded = b /\ seg.sharded \in BOOLEAN
      BY <3>1
    <3>3. GlobalCell(seg, h) = CountIn(rows, SideAt(rows, Counted(rows), seg.sharded, h))
      BY <1>1, <1>2, <3>2, CellsRead
    <3>4. QED
      BY <1>3, <3>1, <3>2, <3>3
  <2>2. f = [b \in BOOLEAN |-> CountIn(rows, SideAt(rows, R, b, h))]
    BY <2>1
  <2> HIDE DEF f
  <2>3. Plus(f) = CountIn(rows, InHour(rows, R, h))
    BY <1>3, <2>2, SidesAdd
  <2>4. InHour(rows, R, h) = {e \in R : H(e) = h}
    BY DEF InHour, HourIn, H
  <2>5. QED
    BY <2>3, <2>4, CellCounts DEF f
<1>6. ASSUME NEW h \in Hours, NEW c \in Upstreams
      PROVE  LET cell == Plus([b \in BOOLEAN |-> ChannelCell([sharded |-> b], h, c)])
                 of == CellOf({e \in {d \in R : H(d) = h} : rows[e].channel = c})
             IN  cell.usd = of.usd /\ cell.n <= of.n
  <2> DEFINE f == [b \in BOOLEAN |-> ChannelCell([sharded |-> b], h, c)]
             S == Through(rows, K, c)
             T == {e \in {d \in R : H(d) = h} : rows[e].channel = c}
  <2>1. ASSUME NEW b \in BOOLEAN
        PROVE  ChannelCell([sharded |-> b], h, c) = CountIn(rows, SideAt(rows, S, b, h))
    <3>1. PICK seg : seg = [sharded |-> b]
      OBVIOUS
    <3>2. seg.sharded = b /\ seg.sharded \in BOOLEAN
      BY <3>1
    <3>3. ChannelCell(seg, h, c) = CountIn(rows, SideAt(rows, S, seg.sharded, h))
      BY <1>1, <1>2, <3>2, CellsRead
    <3>4. QED
      BY <3>1, <3>2, <3>3
  <2>2. f = [b \in BOOLEAN |-> CountIn(rows, SideAt(rows, S, b, h))]
    BY <2>1
  <2>3. S \in SUBSET Events
    BY <1>3 DEF Through
  <2> HIDE DEF f, S
  <2>4. Plus(f) = CountIn(rows, InHour(rows, S, h))
    BY <2>2, <2>3, SidesAdd
  <2>5. PICK A : A = InHour(rows, S, h)
    OBVIOUS
  <2>6. /\ A \subseteq T /\ T \in SUBSET Events
        /\ \A e \in T : rows[e].state = "committed" => e \in A
    BY <1>3, <2>5 DEF InHour, HourIn, H, S, Through
  <2> HIDE DEF T
  <2>7. IsFiniteSet(T) /\ Paid(rows, A) = Paid(rows, T)
    BY <2>6, EventsFinite DEF Paid
  <2>8. Cardinality(A) <= Cardinality(T)
    BY <2>6, <2>7, FS_Subset
  <2>9. CountIn(rows, A).usd = CountIn(rows, T).usd /\ CountIn(rows, A).n <= CountIn(rows, T).n
    BY <2>7, <2>8 DEF CountIn
  <2>10. Plus(f).usd = CellOf(T).usd /\ Plus(f).n <= CellOf(T).n
    BY <2>4, <2>5, <2>9, CellCounts
  <2>11. QED
    BY <2>10 DEF f, T
<1>7. ASSUME NEW d \in Days, NEW u \in Payers
      PROVE  totals.userDay[<<d, u>>] = CellOf({e \in R : D(e) = d /\ rows[e].user = u})
  <2>1. ByUser(rows, R, d, u) = {e \in R : D(e) = d /\ rows[e].user = u}
    BY DEF ByUser, DayIn, D
  <2>2. totals.userDay[<<d, u>>] = CountIn(rows, ByUser(rows, R, d, u))
    BY <1>3 DEF Exact
  <2>3. QED
    BY <2>1, <2>2, CellCounts
<1>8. ASSUME NEW d \in Days, NEW m \in Priced
      PROVE  totals.modelDay[<<d, m>>] = CellOf({e \in R : D(e) = d /\ rows[e].model = m})
  <2>1. ByModel(rows, R, d, m) = {e \in R : D(e) = d /\ rows[e].model = m}
    BY DEF ByModel, DayIn, D
  <2>2. totals.modelDay[<<d, m>>] = CountIn(rows, ByModel(rows, R, d, m))
    BY <1>3 DEF Exact
  <2>3. QED
    BY <2>1, <2>2, CellCounts
<1>9. QED
  BY <1>4, <1>5, <1>6, <1>7, <1>8 DEF TotalsCountOnce, R

\* What the totals show of a range of whole hours.
LEMMA TotalsOfRange ==
  ASSUME UInv, schema = "rollups", NEW K, Booked(rows, totals, K),
         NEW db \in Databases, NEW since, NEW until, WholeRange(since, until)
  PROVE  /\ UseRollups(since, until)
         /\ GlobalTotal(db, since, until) = CountIn(rows, During(db, rows, Counted(rows), since, until))
         /\ Plus(GlobalSeries(db, since, until)) = GlobalTotal(db, since, until)
         /\ \A c \in Upstreams :
                /\ ChannelTotals(db, since, until)[c] =
                        CountIn(rows, During(db, rows, Through(rows, K, c), since, until))
                /\ Plus(ChannelSeries(db, c, since, until)) = ChannelTotals(db, since, until)[c]
<1> DEFINE R == Counted(rows)
           I == Read(db, since, until)
<1>1. rows \in [Events -> EventRows] /\ R \in SUBSET Events
      /\ \A c : Through(rows, K, c) \in SUBSET Events
  BY TypesSay DEF UInv, Counted, Through, Booked
<1>2. \A g \in Segments(since, until) : g.sharded \in BOOLEAN
  BY <1>1, SegmentsRight
<1>3. \A x \in I : x[1] \in Segments(since, until) /\ x[2] \in Hours
  BY DEF Read
<1> HIDE DEF R, I
<1>4. UseRollups(since, until)
  <2>1. SlotsPerHour \in Nat \ {0} /\ since \in Nat /\ until \in Nat /\ since < until
    BY RollupsAssumption DEF WholeRange
  <2>2. PICK k \in Nat : since = k * SlotsPerHour
    BY <2>1, Floor DEF WholeRange, HourAligned
  <2>3. PICK j \in Nat : until = j * SlotsPerHour
    BY <2>1, Floor DEF WholeRange, HourAligned
  <2>4. /\ ~(j * SlotsPerHour <= since)
        /\ k * SlotsPerHour <= since
        /\ since < k * SlotsPerHour + SlotsPerHour
    BY <2>1, <2>2, <2>3
  <2>5. ~(j <= k)
    BY <2>1, <2>4, Boundaries
  <2>6. PICK i \in Nat : j = k + 1 + i
    <3>1. j - (k + 1) \in Nat /\ j = k + 1 + (j - (k + 1))
      BY <2>5
    <3>2. QED
      BY <3>1
  <2>7. /\ j * SlotsPerHour = k * SlotsPerHour + SlotsPerHour + i * SlotsPerHour
        /\ i * SlotsPerHour \in Nat
    BY <2>1, <2>6
  <2>8. until - since >= SlotsPerHour
    BY <2>1, <2>2, <2>3, <2>7
  <2>9. QED
    BY <2>8 DEF UseRollups
<1>5. GlobalTotal(db, since, until) = CountIn(rows, During(db, rows, R, since, until))
  <2> DEFINE f == [x \in Read(db, since, until) |-> GlobalCell(x[1], x[2])]
  <2>1. \A x \in I : GlobalCell(x[1], x[2]) = CountIn(rows, SideAt(rows, R, x[1].sharded, x[2]))
    BY <1>2, <1>3, CellsRead DEF R
  <2>2. f = [x \in Read(db, since, until) |-> CountIn(rows, SideAt(rows, R, x[1].sharded, x[2]))]
    BY <2>1 DEF I
  <2>3. GlobalTotal(db, since, until) = Plus(f)
    BY <1>4 DEF GlobalTotal
  <2> HIDE DEF f
  <2>4. QED
    BY <1>1, <2>2, <2>3, ReadCounts
<1>6. Plus(GlobalSeries(db, since, until)) = GlobalTotal(db, since, until)
  <2> DEFINE S == During(db, rows, R, since, until)
             f == GlobalSeries(db, since, until)
  <2>1. ASSUME NEW h \in Hours PROVE f[h] = CountIn(rows, InHour(rows, S, h))
    <3> DEFINE g == [seg \in SegmentsOf(db, since, until, h) |-> GlobalCell(seg, h)]
    <3>1. \A seg \in Segments(since, until) :
            GlobalCell(seg, h) = CountIn(rows, SideAt(rows, R, seg.sharded, h))
      BY <1>2, CellsRead DEF R
    <3>2. g = [seg \in SegmentsOf(db, since, until, h) |->
                    CountIn(rows, SideAt(rows, R, seg.sharded, h))]
      BY <3>1 DEF SegmentsOf
    <3>3. f[h] = Plus(g)
      BY <1>4 DEF GlobalSeries
    <3> HIDE DEF f, g, S
    <3>4. Plus(g) = CountIn(rows, InHour(rows, During(db, rows, R, since, until), h))
      BY <1>1, <3>2, HourCounts
    <3>5. QED
      BY <3>3, <3>4 DEF S
  <2>2. f = [h \in Hours |-> CountIn(rows, InHour(rows, S, h))]
    <3>1. f = [h \in Hours |-> f[h]]
      BY DEF GlobalSeries
    <3> HIDE DEF f, S
    <3>2. QED
      BY <2>1, <3>1
  <2>3. S \in SUBSET Events
    BY <1>1 DEF During
  <2> HIDE DEF f, S
  <2>4. Plus(f) = CountIn(rows, S)
    BY <1>1, <2>2, <2>3, HoursAdd
  <2>5. QED
    BY <1>5, <2>4 DEF f, S
<1>7. ASSUME NEW c \in Upstreams
      PROVE  /\ ChannelTotals(db, since, until)[c] =
                        CountIn(rows, During(db, rows, Through(rows, K, c), since, until))
             /\ Plus(ChannelSeries(db, c, since, until)) = ChannelTotals(db, since, until)[c]
  <2> DEFINE T == Through(rows, K, c)
             S == During(db, rows, T, since, until)
             f == [x \in Read(db, since, until) |-> ChannelCell(x[1], x[2], c)]
             s == ChannelSeries(db, c, since, until)
  <2>1. \A x \in I : ChannelCell(x[1], x[2], c) = CountIn(rows, SideAt(rows, T, x[1].sharded, x[2]))
    BY <1>2, <1>3, CellsRead
  <2>2. f = [x \in Read(db, since, until) |-> CountIn(rows, SideAt(rows, T, x[1].sharded, x[2]))]
    BY <2>1 DEF I
  <2>3. ChannelTotals(db, since, until)[c] = Plus(f)
    BY <1>4 DEF ChannelTotals
  <2>4. T \in SUBSET Events
    BY <1>1
  <2>5. ASSUME NEW h \in Hours PROVE s[h] = CountIn(rows, InHour(rows, S, h))
    <3> DEFINE g == [seg \in SegmentsOf(db, since, until, h) |-> ChannelCell(seg, h, c)]
    <3>1. \A seg \in Segments(since, until) :
            ChannelCell(seg, h, c) = CountIn(rows, SideAt(rows, T, seg.sharded, h))
      BY <1>2, CellsRead
    <3>2. g = [seg \in SegmentsOf(db, since, until, h) |->
                    CountIn(rows, SideAt(rows, T, seg.sharded, h))]
      BY <3>1 DEF SegmentsOf
    <3>3. s[h] = Plus(g)
      BY <1>4 DEF ChannelSeries
    <3> HIDE DEF f, g, s, T, S
    <3>4. Plus(g) = CountIn(rows, InHour(rows, During(db, rows, T, since, until), h))
      BY <1>1, <2>4, <3>2, HourCounts
    <3>5. QED
      BY <3>3, <3>4 DEF S
  <2>6. s = [h \in Hours |-> CountIn(rows, InHour(rows, S, h))]
    <3>1. s = [h \in Hours |-> s[h]]
      BY DEF ChannelSeries
    <3> HIDE DEF s, S, T, f
    <3>2. QED
      BY <2>5, <3>1
  <2> HIDE DEF f, T, s
  <2>7. Plus(f) = CountIn(rows, S)
    BY <1>1, <2>2, <2>4, ReadCounts
  <2>8. S \in SUBSET Events
    BY <2>4 DEF During
  <2> HIDE DEF S
  <2>9. Plus(s) = CountIn(rows, S)
    BY <1>1, <2>6, <2>8, HoursAdd
  <2>10. QED
    BY <2>3, <2>7, <2>9 DEF S, T, s
<1>8. QED
  BY <1>4, <1>5, <1>6, <1>7 DEF R

\* What the days show of a range of whole days.
LEMMA DaysOfRange ==
  ASSUME UInv, schema = "rollups", NEW db \in Databases, NEW since, NEW until, WholeRange(since, until),
         UseRollups(since, until), DayAligned(since), DayAligned(until)
  PROVE  Plus([u \in Payers |-> UserTotal(db, u, since, until)]) =
            CountIn(rows, OnDays(db, rows, Counted(rows), since, until))
<1> DEFINE R == Counted(rows)
           S == OnDays(db, rows, R, since, until)
           f == [u \in Payers |-> UserTotal(db, u, since, until)]
<1>1. rows \in [Events -> EventRows] /\ R \in SUBSET Events /\ Exact(rows, totals)
  BY TypesSay DEF UInv, Counted
<1>2. S \in SUBSET Events
  BY <1>1 DEF OnDays
<1>3. ASSUME NEW u \in Payers PROVE UserTotal(db, u, since, until) = CountIn(rows, OfUser(rows, S, u))
  <2> DEFINE I == UserDays(db, since, until)
             g == [d \in I |-> totals.userDay[<<d, u>>]]
  <2>1. \A d \in Days : totals.userDay[<<d, u>>] = CountIn(rows, ByUser(rows, R, d, u))
    BY <1>1 DEF Exact
  <2>2. g = [d \in I |-> CountIn(rows, ByUser(rows, R, d, u))]
    BY <2>1 DEF UserDays
  <2>3. UserTotal(db, u, since, until) = Plus(g)
    BY DEF UserTotal
  <2> HIDE DEF g, R
  <2>4. Plus(g) = CountIn(rows, OfUser(rows, OnDays(db, rows, R, since, until), u))
    BY <1>1, <2>2, DaysCount
  <2>5. QED
    BY <2>3, <2>4
<1>4. f = [u \in Payers |-> CountIn(rows, OfUser(rows, S, u))]
  BY <1>3
<1> HIDE DEF f, S
<1>5. Plus(f) = CountIn(rows, S)
  BY <1>1, <1>2, <1>4, UsersAdd
<1>6. QED
  BY <1>5 DEF f, S

\* What a user sees of his own, read from the events, adds up to the events listed; on
\* MySQL, while none of them is missing, these are the events counted.
LEMMA OwnPages ==
  ASSUME UInv, NEW db \in Databases, NEW since, NEW until
  PROVE  LET L == Listed(db, since, until)
         IN  /\ Plus([x \in Payers \X Priced |-> OwnModels(db, x[1], since, until)[x[2]]]) = CellOf(L)
             /\ Plus([x \in Payers \X Hours |-> OwnSeries(db, x[1], since, until)[x[2]]]) = CellOf(L)
             /\ \A u \in Payers :
                    OwnRequests(db, u, since, until) = Plus(OwnSeries(db, u, since, until)).n
             /\ db = "mysql" /\ Untouched(since, until) =>
                    L = OfRange(rows, Counted(rows), since, until)
<1> DEFINE L == Listed(db, since, until)
<1>1. rows \in [Events -> EventRows] /\ RowsFit
  BY TypesSay DEF UInv
<1>2. /\ L \in SUBSET Events
      /\ db = "mysql" /\ Untouched(since, until) =>
            L = OfRange(rows, Counted(rows), since, until)
  BY <1>1 DEF Listed, Within, OfRange, Counted, Untouched, RowsFit
<1>3. \A u : OwnOf(db, u, since, until) = OfUser(rows, L, u)
  BY DEF OwnOf, OfUser
<1> HIDE DEF L
<1>4. ASSUME NEW u \in Payers, NEW m \in Priced
      PROVE  OwnModels(db, u, since, until)[m] = CountIn(rows, OfModel(rows, L, <<u, m>>))
  <2>1. {e \in OwnOf(db, u, since, until) : rows[e].model = m} = OfModel(rows, L, <<u, m>>)
    BY <1>3 DEF OfUser, OfModel
  <2>2. OwnModels(db, u, since, until)[m] = CellOf({e \in OwnOf(db, u, since, until) : rows[e].model = m})
    BY DEF OwnModels
  <2>3. QED
    BY <2>1, <2>2, CellCounts
<1>5. ASSUME NEW u \in Payers, NEW h \in Hours
      PROVE  /\ OwnSeries(db, u, since, until)[h] = CountIn(rows, OfHour(rows, L, <<u, h>>))
             /\ OwnSeries(db, u, since, until)[h] = CountIn(rows, InHour(rows, OfUser(rows, L, u), h))
  <2>1. {e \in OwnOf(db, u, since, until) : H(e) = h} = OfHour(rows, L, <<u, h>>)
    BY <1>3 DEF OfUser, OfHour, H, HourIn
  <2>2. {e \in OwnOf(db, u, since, until) : H(e) = h} = InHour(rows, OfUser(rows, L, u), h)
    BY <1>3 DEF InHour, H, HourIn
  <2>3. OwnSeries(db, u, since, until)[h] = CellOf({e \in OwnOf(db, u, since, until) : H(e) = h})
    BY DEF OwnSeries
  <2>4. QED
    BY <2>1, <2>2, <2>3, CellCounts
<1>6. Plus([x \in Payers \X Priced |-> OwnModels(db, x[1], since, until)[x[2]]]) = CountIn(rows, L)
  <2> DEFINE f == [x \in Payers \X Priced |-> OwnModels(db, x[1], since, until)[x[2]]]
  <2>1. \A x \in Payers \X Priced : OwnModels(db, x[1], since, until)[x[2]] = CountIn(rows, OfModel(rows, L, x))
    BY <1>4
  <2>2. f = [x \in Payers \X Priced |-> CountIn(rows, OfModel(rows, L, x))]
    BY <2>1
  <2> HIDE DEF f
  <2>3. Plus(f) = CountIn(rows, L)
    BY <1>1, <1>2, <2>2, ModelsAdd
  <2>4. QED
    BY <2>3 DEF f
<1>7. Plus([x \in Payers \X Hours |-> OwnSeries(db, x[1], since, until)[x[2]]]) = CountIn(rows, L)
  <2> DEFINE f == [x \in Payers \X Hours |-> OwnSeries(db, x[1], since, until)[x[2]]]
  <2>1. \A x \in Payers \X Hours : OwnSeries(db, x[1], since, until)[x[2]] = CountIn(rows, OfHour(rows, L, x))
    BY <1>5
  <2>2. f = [x \in Payers \X Hours |-> CountIn(rows, OfHour(rows, L, x))]
    BY <2>1
  <2> HIDE DEF f
  <2>3. Plus(f) = CountIn(rows, L)
    BY <1>1, <1>2, <2>2, UserHoursAdd
  <2>4. QED
    BY <2>3 DEF f
<1>8. ASSUME NEW u \in Payers
      PROVE  OwnRequests(db, u, since, until) = Plus(OwnSeries(db, u, since, until)).n
  <2> DEFINE T == OfUser(rows, L, u)
             f == OwnSeries(db, u, since, until)
  <2>1. f = [h \in Hours |-> f[h]]
    BY DEF OwnSeries
  <2>2. \A h \in Hours : f[h] = CountIn(rows, InHour(rows, T, h))
    BY <1>5
  <2>3. T \in SUBSET Events /\ OwnRequests(db, u, since, until) = Cardinality(T)
    BY <1>2, <1>3 DEF OfUser, OwnRequests
  <2> HIDE DEF T, f
  <2>4. f = [h \in Hours |-> CountIn(rows, InHour(rows, T, h))]
    BY <2>1, <2>2
  <2>5. Plus(f) = CountIn(rows, T)
    BY <1>1, <2>3, <2>4, HoursAdd
  <2>6. Plus(f).n = Cardinality(T)
    BY <2>5 DEF CountIn
  <2>7. QED
    BY <2>3, <2>6 DEF f
<1>9. CellOf(L) = CountIn(rows, L)
  BY CellCounts
<1>10. QED
  BY <1>2, <1>6, <1>7, <1>8, <1>9 DEF L

LEMMA PagesRight == UInv => PagesAgree
<1>1. SUFFICES ASSUME UInv, HourAligned(Cutover), schema = "rollups", NEW db \in Databases,
                      NEW since \in Slots, NEW until \in 1..LastEnd,
                      HourAligned(since), HourAligned(until), since < until
               PROVE  AgreeOn(db, since, until)
  BY RangesAssumption DEF PagesAgree
<1> DEFINE R == Counted(rows)
           S == During(db, rows, R, since, until)
           A == OnDays(db, rows, R, since, until)
           users == Plus([u \in Payers |-> UserTotal(db, u, since, until)])
           listed == CellOf(Listed(db, since, until))
<1>2. PICK K : Booked(rows, totals, K)
  BY <1>1 DEF UInv
<1>3. WholeRange(since, until)
  BY <1>1, RollupsAssumption DEF WholeRange, Slots, LastEnd
<1>4. /\ UseRollups(since, until)
      /\ GlobalTotal(db, since, until) = CountIn(rows, S)
      /\ Plus(GlobalSeries(db, since, until)) = GlobalTotal(db, since, until)
      /\ \A c \in Upstreams :
            /\ ChannelTotals(db, since, until)[c] =
                        CountIn(rows, During(db, rows, Through(rows, K, c), since, until))
            /\ Plus(ChannelSeries(db, c, since, until)) = ChannelTotals(db, since, until)[c]
  BY <1>1, <1>2, <1>3, TotalsOfRange
<1>5. CellOf({e \in Events : rows[e].rolled /\ HourShown(db, since, H(e), until)}) = CountIn(rows, S)
  <2>1. {e \in Events : rows[e].rolled /\ HourShown(db, since, H(e), until)} = S
    BY DEF During, Counted, H, HourIn
  <2>2. QED
    BY <2>1, CellCounts
<1>6. Plus(ChannelTotals(db, since, until)).usd = CountIn(rows, S).usd
  <2> DEFINE T == During(db, rows, K, since, until)
             f == ChannelTotals(db, since, until)
  <2>1. \A c \in Upstreams :
            Through(rows, T, c) = During(db, rows, Through(rows, K, c), since, until)
    BY DEF Through, During
  <2>2. f = [c \in Upstreams |-> f[c]]
    BY DEF ChannelTotals
  <2>3. T \in SUBSET Events /\ \A e \in T : rows[e].channel \in Upstreams
    BY <1>2 DEF During, Booked, Counted
  <2>4. Paid(rows, T) = Paid(rows, S)
    BY <1>2 DEF Paid, During, Booked
  <2> HIDE DEF f, T, S, R
  <2>5. f = [c \in Upstreams |-> CountIn(rows, Through(rows, T, c))]
    BY <1>4, <2>1, <2>2 DEF f
  <2>6. Plus(f) = CountIn(rows, T)
    BY <2>3, <2>5, ChannelsAdd
  <2>7. CountIn(rows, T).usd = CountIn(rows, S).usd
    BY <2>4 DEF CountIn
  <2>8. QED
    BY <2>6, <2>7 DEF f
<1>7. ASSUME DayAligned(since), DayAligned(until)
      PROVE  /\ users = CountIn(rows, A)
             /\ CellOf({e \in Events : rows[e].rolled /\ DayShown(db, since, D(e), until)}) =
                    CountIn(rows, A)
  <2>1. users = CountIn(rows, A)
    BY <1>1, <1>3, <1>4, <1>7, DaysOfRange
  <2>2. {e \in Events : rows[e].rolled /\ DayShown(db, since, D(e), until)} = A
    BY DEF OnDays, Counted, D, DayIn
  <2>3. QED
    BY <2>1, <2>2, CellCounts
<1>8. /\ Plus([x \in Payers \X Priced |-> OwnModels(db, x[1], since, until)[x[2]]]) = listed
      /\ Plus([x \in Payers \X Hours |-> OwnSeries(db, x[1], since, until)[x[2]]]) = listed
      /\ \A u \in Payers : OwnRequests(db, u, since, until) = Plus(OwnSeries(db, u, since, until)).n
      /\ db = "mysql" /\ Untouched(since, until) =>
            Listed(db, since, until) = OfRange(rows, R, since, until)
  BY <1>1, OwnPages
<1>9. ASSUME db = "mysql"
       PROVE  /\ CountIn(rows, S) = CellOf(RolledIn(since, until))
              /\ DayAligned(since) /\ DayAligned(until) => users = CountIn(rows, S)
              /\ Untouched(since, until) => listed = CountIn(rows, S)
              /\ Untouched(since, until) /\ until = LastEnd =>
                    GlobalSince(db, since) = CountIn(rows, S)
  <2>1. rows \in [Events -> EventRows] /\ R \in SUBSET Events
    BY <1>1, TypesSay DEF UInv, Counted
  <2>2. PICK O : O = OfRange(rows, R, since, until)
    OBVIOUS
  <2>3. S = O /\ (DayAligned(since) /\ DayAligned(until) => A = O)
    BY <1>3, <1>9, <2>1, <2>2, RangesExact
  <2>4. RolledIn(since, until) = O
    BY <2>2 DEF RolledIn, OfRange, Counted
  <2> HIDE DEF S, A, R
  <2>5. CountIn(rows, S) = CellOf(RolledIn(since, until))
    BY <2>3, <2>4, CellCounts
  <2>6. DayAligned(since) /\ DayAligned(until) => users = CountIn(rows, S)
    BY <1>7, <2>3
  <2>7. Untouched(since, until) => listed = CountIn(rows, S)
    BY <1>8, <1>9, <2>2, <2>3, CellCounts
  <2>8. Untouched(since, until) /\ until = LastEnd => GlobalSince(db, since) = CountIn(rows, S)
    BY <2>7 DEF GlobalSince
  <2>9. QED
    BY <2>5, <2>6, <2>7, <2>8
<1> HIDE DEF S, R, A
<1>10. QED
  BY <1>4, <1>5, <1>6, <1>7, <1>8, <1>9 DEF AgreeOn

\* In every state the totals hold each event once, and the pages of statistics each event
\* of the hours and days they show, on SQLite as on MySQL: for any number of events,
\* users, models, channels and shards, any cutover and any hours.
THEOREM PagesCountRight == UsageSpec => []PagesCountOnce
<1>1. UInv => PagesCountOnce
  <2>1. UInv => RollupsTypeOK
    BY DEF UInv
  <2>2. QED
    BY <2>1, TotalsRight, PagesRight DEF PagesCountOnce
<1>2. QED
  BY <1>1, UsageInductive, PTL

=============================================================================
