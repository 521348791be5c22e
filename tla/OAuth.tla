-------------------------------- MODULE OAuth --------------------------------
(***************************************************************************)
(* The OAuth provider: applications, the consent of a user, authorization  *)
(* codes and the API tokens they are exchanged for.                        *)
(*                                                                         *)
(*   router/oauth_authorize_api_routes.go, oauth_token_public.go,          *)
(*   admin_oauth_apps_api_routes.go                             (handlers) *)
(*   internal/store/oauth_apps.go                                  (store) *)
(*                                                                         *)
(* An exchange is a chain of store calls with no transaction around them.  *)
(* Every application made by the handlers has a secret; ids are not reused.*)
(***************************************************************************)
EXTENDS Naturals, FiniteSets

CONSTANTS
    Apps,       \* ids of applications ever created
    Owners,     \* users who consent
    URIs, Scopes,
    Exchanges,  \* requests at the token endpoint
    MaxCodes,   \* authorization codes ever issued (a bound)
    MaxKeys     \* secrets ever set (a bound)

Nothing == "none"
ASSUME NothingAssumption == Nothing \notin Apps \cup Owners \cup URIs \cup Scopes
ASSUME BoundsAssumption == MaxCodes \in Nat /\ MaxKeys \in Nat
CodeIds == 1..MaxCodes

VARIABLES
    apps,     \* oauth_apps: status, and the number of the secret
    keys,     \* secrets set so far
    uris,     \* oauth_app_redirect_uris
    grant,    \* oauth_user_grants: the remembered scope
    codes,    \* oauth_auth_codes
    issued,   \* user_tokens named oauth:...: one per <<exchange, code>>
    recorded, \* oauth_app_tokens
    steps,    \* where each request at the token endpoint is
    approved, \* history: what users have said yes to
    handed    \* history: tokens a client has got
oauthVars == <<apps, keys, uris, grant, codes, issued, recorded, steps, approved, handed>>

AppRows == [state: {"new", "on", "off"}, key: 0..MaxKeys]
CodeRows == [state: {"new", "open", "used", "late"}, app: Apps \cup {Nothing},
             user: Owners \cup {Nothing}, uri: URIs \cup {Nothing},
             scope: Scopes \cup {Nothing}, challenge: BOOLEAN]
NoCode == [state |-> "new", app |-> Nothing, user |-> Nothing, uri |-> Nothing,
           scope |-> Nothing, challenge |-> FALSE]
\* A token remembers the code it came from.
TokenRows == [by: Exchanges, code: CodeIds, app: Apps, user: Owners, scope: Scopes]
NoStep == [op |-> "idle", app |-> Nothing, uri |-> Nothing, code |-> 0, verifier |-> FALSE]

OAuthTypeOK ==
    /\ apps \in [Apps -> AppRows] /\ keys \in 0..MaxKeys
    /\ uris \in [Apps -> SUBSET URIs]
    /\ grant \in [Owners \X Apps -> Scopes \cup {Nothing}]
    /\ codes \in [CodeIds -> CodeRows]
    /\ issued \subseteq TokenRows /\ recorded \subseteq TokenRows /\ handed \subseteq TokenRows
    /\ approved \subseteq (Owners \X Apps) \X Scopes
OAuthInit ==
    /\ apps = [p \in Apps |-> [state |-> "new", key |-> 0]] /\ keys = 0
    /\ uris = [p \in Apps |-> {}]
    /\ grant = [x \in Owners \X Apps |-> Nothing]
    /\ codes = [n \in CodeIds |-> NoCode]
    /\ issued = {} /\ recorded = {} /\ handed = {} /\ approved = {}
    /\ steps = [x \in Exchanges |-> NoStep]

-----------------------------------------------------------------------------
(* Applications.                                                           *)

desk == <<grant, codes, issued, recorded, steps, approved, handed>>

\* CreateOAuthApp; then the URIs, a step of their own which may not come.
CreateApp(p, on) ==
    /\ apps[p].state = "new" /\ keys < MaxKeys
    /\ keys' = keys + 1
    /\ apps' = [apps EXCEPT ![p] = [state |-> IF on THEN "on" ELSE "off", key |-> keys + 1]]
    /\ UNCHANGED <<uris, desk>>
UpdateApp(p, on) ==
    /\ apps[p].state # "new"
    /\ apps' = [apps EXCEPT ![p].state = IF on THEN "on" ELSE "off"]
    /\ UNCHANGED <<keys, uris, desk>>
\* ReplaceOAuthAppRedirectURIs: the transaction that ends a creation or an update.
ReplaceURIs(p, us) ==
    /\ apps[p].state # "new" /\ us # {}
    /\ uris' = [uris EXCEPT ![p] = us]
    /\ UNCHANGED <<apps, keys, desk>>
\* adminRotateOAuthAppSecretHandler
RotateKey(p) ==
    /\ apps[p].state # "new" /\ keys < MaxKeys
    /\ keys' = keys + 1 /\ apps' = [apps EXCEPT ![p].key = keys + 1]
    /\ UNCHANGED <<uris, desk>>

-----------------------------------------------------------------------------
(* Consent.                                                                *)

\* Both handlers ask this of the application first; a change of the application
\* between this and the code is not told apart from one after it.
Admits(p, u) == apps[p].state = "on" /\ u \in uris[p]

\* issueOAuthAuthCodeRedirect
IssueCode(u, p, uri, s, challenge) ==
    \E n \in CodeIds :
        /\ codes[n].state = "new" /\ \A m \in 1..(n - 1) : codes[m].state # "new"
        /\ codes' = [codes EXCEPT ![n] = [state |-> "open", app |-> p, user |-> u,
                        uri |-> uri, scope |-> s, challenge |-> challenge]]

\* A Prepare that takes any remembered consent.
PrepareAnyScope(u, p, uri, s, challenge) ==
    /\ Admits(p, uri) /\ grant[<<u, p>>] # Nothing
    /\ IssueCode(u, p, uri, s, challenge)
    /\ UNCHANGED <<apps, keys, uris, grant, issued, recorded, steps, approved, handed>>

\* oauthAuthorizePrepareHandler: a remembered consent to the very same scope
\* answers for the user.
Prepare(u, p, uri, s, challenge) ==
    /\ Admits(p, uri) /\ grant[<<u, p>>] = s
    /\ IssueCode(u, p, uri, s, challenge)
    /\ UNCHANGED <<apps, keys, uris, grant, issued, recorded, steps, approved, handed>>

\* oauthAuthorizeDecisionHandler, approved.  The consent may fail to be
\* remembered, the code to be stored.
Approve(u, p, uri, s, challenge, remember) ==
    /\ Admits(p, uri)
    /\ approved' = approved \cup {<<<<u, p>>, s>>}
    /\ grant' \in {grant} \cup (IF remember THEN {[grant EXCEPT ![<<u, p>>] = s]} ELSE {})
    /\ IssueCode(u, p, uri, s, challenge) \/ codes' = codes
    /\ UNCHANGED <<apps, keys, uris, issued, recorded, steps, handed>>

\* A code is good for ten minutes.
ExpireCode(n) ==
    /\ codes[n].state = "open" /\ codes' = [codes EXCEPT ![n].state = "late"]
    /\ UNCHANGED <<apps, keys, uris, grant, issued, recorded, steps, approved, handed>>

-----------------------------------------------------------------------------
(* oauthTokenHandler.                                                      *)

Doing(x, op) == steps[x].op = op
StepTo(x, op) == steps' = [steps EXCEPT ![x].op = op]
StepEnds(x) == steps' = [steps EXCEPT ![x] = NoStep]
counter == <<apps, keys, uris, grant, approved>>
TokenOf(x) ==
    LET c == codes[steps[x].code]
    IN  [by |-> x, code |-> steps[x].code, app |-> c.app, user |-> c.user, scope |-> c.scope]

\* The application, its URI and its secret are checked.  Whether the client
\* brings the verifier of the code's challenge is its affair.
CheckClient(x, p, uri, key, n, verifier) ==
    /\ Doing(x, "idle") /\ Admits(p, uri) /\ key = apps[p].key /\ codes[n].state # "new"
    /\ steps' = [steps EXCEPT ![x] =
            [op |-> "consume", app |-> p, uri |-> uri, code |-> n, verifier |-> verifier]]
    /\ UNCHANGED <<counter, codes, issued, recorded, handed>>

\* A ConsumeCode that looks the code up first and marks it afterwards.
LookThenConsume(x) ==
    LET w == steps[x]  c == codes[w.code]
        good == c.app = w.app /\ c.uri = w.uri /\ c.state # "late"
    IN  /\ Doing(x, "consume")
        /\ \/ good /\ codes' = [codes EXCEPT ![w.code].state = "used"] /\ StepTo(x, "verify")
           \/ ~good /\ codes' = codes /\ StepEnds(x)
        /\ UNCHANGED <<counter, issued, recorded, handed>>

\* ConsumeOAuthAuthCode: one UPDATE finds and takes a code of this application
\* and this URI that is open.
ConsumeCode(x) ==
    LET w == steps[x]  c == codes[w.code]
        good == c.state = "open" /\ c.app = w.app /\ c.uri = w.uri
    IN  /\ Doing(x, "consume")
        /\ \/ good /\ codes' = [codes EXCEPT ![w.code].state = "used"] /\ StepTo(x, "verify")
           \/ ~good /\ codes' = codes /\ StepEnds(x)
        /\ UNCHANGED <<counter, issued, recorded, handed>>

\* The verifier is checked when the code is spent already.
VerifyCode(x) ==
    /\ Doing(x, "verify")
    /\ IF codes[steps[x].code].challenge /\ ~steps[x].verifier THEN StepEnds(x) ELSE StepTo(x, "token")
    /\ UNCHANGED <<counter, codes, issued, recorded, handed>>
MakeToken(x) ==
    /\ Doing(x, "token") /\ StepTo(x, "record")
    /\ issued' = issued \cup {TokenOf(x)}
    /\ UNCHANGED <<counter, codes, recorded, handed>>

\* A RecordToken that goes on when it fails.
RecordIfItCan(x) ==
    /\ Doing(x, "record") /\ StepTo(x, "answer") /\ UNCHANGED issued
    /\ recorded' \in {recorded, recorded \cup {TokenOf(x)}}
    /\ UNCHANGED <<counter, codes, handed>>

\* CreateOAuthAppToken; if it fails the token is deleted, an error that is dropped.
RecordToken(x) ==
    /\ Doing(x, "record")
    /\ \/ recorded' = recorded \cup {TokenOf(x)} /\ StepTo(x, "answer") /\ UNCHANGED issued
       \/ recorded' = recorded /\ StepEnds(x) /\ issued' \in {issued, issued \ {TokenOf(x)}}
    /\ UNCHANGED <<counter, codes, handed>>
AnswerToken(x) ==
    /\ Doing(x, "answer") /\ StepEnds(x)
    /\ handed' = handed \cup {TokenOf(x)}
    /\ UNCHANGED <<counter, codes, issued, recorded>>

\* A store call fails, the client leaves or the process ends.
Breaks(x) ==
    /\ ~Doing(x, "idle") /\ StepEnds(x)
    /\ UNCHANGED <<counter, codes, issued, recorded, handed>>

OAuthNext ==
    \/ \E p \in Apps :
        \/ \E on \in BOOLEAN : CreateApp(p, on) \/ UpdateApp(p, on)
        \/ \E us \in SUBSET URIs : ReplaceURIs(p, us)
        \/ RotateKey(p)
    \/ \E u \in Owners, p \in Apps, uri \in URIs, s \in Scopes, challenge \in BOOLEAN :
        \/ Prepare(u, p, uri, s, challenge)
        \/ \E remember \in BOOLEAN : Approve(u, p, uri, s, challenge, remember)
    \/ \E n \in CodeIds : ExpireCode(n)
    \/ \E x \in Exchanges :
        \/ \E p \in Apps, uri \in URIs, key \in 1..MaxKeys, n \in CodeIds, v \in BOOLEAN :
            CheckClient(x, p, uri, key, n, v)
        \/ ConsumeCode(x) \/ VerifyCode(x) \/ MakeToken(x) \/ RecordToken(x) \/ AnswerToken(x)
        \/ Breaks(x)

-----------------------------------------------------------------------------
(* Properties.                                                             *)

\* A code is worth at most one token, however many exchanges bring it at once,
\* and a token a client holds is on record with the application its code was
\* issued to (oauthTokenHandler, ConsumeOAuthAuthCode, CreateOAuthAppToken).
OneTokenPerCode ==
    /\ \A s, t \in issued : s.code = t.code => s = t
    /\ handed \subseteq issued \cap recorded

\* No code exists that its user did not agree to: what prepare issues without
\* asking, he has approved of for this application and scope before.
CodesHaveConsent ==
    \A n \in CodeIds :
        codes[n].state # "new" =>
            <<<<codes[n].user, codes[n].app>>, codes[n].scope>> \in approved

=============================================================================
