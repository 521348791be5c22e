------------------------------ MODULE Accounts ------------------------------
(***************************************************************************)
(* Users: registration, sessions, e-mail addresses proved by a code,       *)
(* passwords, and their administration.                                    *)
(*                                                                         *)
(*   router/user_api_routes.go, account_api_routes.go, auth_middleware.go, *)
(*   admin_users_api_routes.go, email_verification_public.go    (handlers) *)
(*   internal/store/store.go, admin.go, email_verifications.go     (store) *)
(*                                                                         *)
(* A session is a signed cookie: the server keeps none.  It carries the    *)
(* user's updated_at in whole seconds and is refused once the row is newer.*)
(***************************************************************************)
EXTENDS Catalog

CONSTANT MaxCodes  \* codes ever sent (a bound)
ASSUME CodesAssumption == MaxCodes \in Nat
Codes == 1..MaxCodes

VARIABLES
    verifies, \* the setting that registration asks for a code
    codes,    \* email_verifications: the code in force of each address, 0 when none
    sent,     \* codes sent so far
    uses,     \* history: how often each code was accepted
    cookies   \* the sessions in the browsers

accountVars == <<verifies, codes, sent, uses, cookies>>
away == <<nested, overtaken, members, default, groups, channelTables, pointers, mains, granted, bound, tags,
          verifies>>
mail == <<codes, sent, uses>>

-----------------------------------------------------------------------------
(* Sessions.                                                               *)

\* requireUserSession, requireRootSession: the row is read again every time.
Accepted(k) ==
    /\ users[k.user].state = "on"
    /\ k.stamp = 0 \/ users[k.user].changed <= k.stamp
AcceptedRoot(k) == Accepted(k) /\ users[k.user].root
CookieOf(u) ==
    [user |-> u, stamp |-> users[u].changed, password |-> users[u].password,
     seen |-> users[u].password, made |-> second]

\* userLoginHandler, with the right password: the row is read, and what is made
\* of it saved as the browser's cookie.
Login(a, u) ==
    /\ Free(a) /\ users[u].state = "on"
    /\ Waits(a, "cookie", [Idle EXCEPT !.cookie = CookieOf(u)])
    /\ UNCHANGED <<lastIds, users, tokens, mainOf, second, away, mail, cookies, caches>>
SaveSession(a) ==
    /\ At(a, "cookie") /\ Done(a)
    /\ cookies' = cookies \cup {work[a].cookie}
    /\ UNCHANGED <<lastIds, users, tokens, mainOf, second, away, mail, caches>>
\* userLogoutHandler; a changed address or password clears the cookie it came
\* with in the same way.
Logout(k) ==
    /\ cookies' = cookies \ {k}
    /\ UNCHANGED <<lastIds, users, tokens, mainOf, second, away, work, mail, caches>>

-----------------------------------------------------------------------------
(* Writes of the users table.                                              *)

Taken(e) == \E u \in Users : Registered(u) /\ users[u].email = e
\* CreateUser: address and name are unique.
InsertUser(u, e, root) ==
    /\ lastIds' = [lastIds EXCEPT !.password = @ + 1]
    /\ users' = [users EXCEPT ![u] = [state |-> "on", root |-> root, email |-> e,
                    password |-> lastIds.password + 1, changed |-> second]]
CanInsert(u, e) == users[u].state = "new" /\ ~Taken(e)
\* UpdateUserEmail, SetUserStatus, SetUserRole: no row, no error.
Touch(u, row) == users' = IF Registered(u) THEN [users EXCEPT ![u] = [row EXCEPT !.changed = second]]
                          ELSE users

\* A SetPassword with updated_at left as it was.
SetPasswordOnly(u) ==
    /\ lastIds' = [lastIds EXCEPT !.password = @ + 1]
    /\ users' = IF Registered(u) THEN [users EXCEPT ![u].password = lastIds.password + 1] ELSE users

SetPassword(u) ==
    /\ lastIds' = [lastIds EXCEPT !.password = @ + 1]
    /\ Touch(u, [users[u] EXCEPT !.password = lastIds.password + 1])
CanSetPassword == lastIds.password < MaxPasswords

-----------------------------------------------------------------------------
(* Codes sent by mail.                                                     *)

\* emailVerificationSendHandler: a new code replaces the address's old one.
SendCode(a, e) ==
    /\ Free(a) /\ verifies /\ ~Taken(e) /\ sent < MaxCodes
    /\ sent' = sent + 1 /\ codes' = [codes EXCEPT ![e] = sent + 1]
    /\ UNCHANGED <<lastIds, users, tokens, mainOf, second, away, work, uses, cookies, caches>>
\* After ten minutes.
Expire(e) ==
    /\ codes[e] # 0 /\ codes' = [codes EXCEPT ![e] = 0]
    /\ UNCHANGED <<lastIds, users, tokens, mainOf, second, away, work, sent, uses, cookies, caches>>

\* A Consume that looks the code up and leaves it for a later sweep.
ConsumeLater(e, n) ==
    codes[e] = n /\ codes' = codes /\ uses' = [uses EXCEPT ![n] = @ + 1]

\* ConsumeEmailVerification: one DELETE finds the code and takes it.
Consume(e, n) ==
    /\ codes[e] = n
    /\ codes' = [codes EXCEPT ![e] = 0] /\ uses' = [uses EXCEPT ![n] = @ + 1]

ProveEmail(a) ==
    LET w == work[a]
    IN  /\ At(a, "prove")
        /\ \/ /\ Consume(w.email, w.code)
              /\ Waits(a, IF w.todo = {} THEN "count" ELSE "email", w)
           \/ codes[w.email] # w.code /\ Done(a) /\ UNCHANGED <<codes, uses>>
        /\ UNCHANGED <<lastIds, users, tokens, mainOf, second, away, sent, cookies, caches>>

-----------------------------------------------------------------------------
(* userRegisterHandler.                                                    *)

\* The name must be free; u is the id the account will have, k the session the
\* browser already has, if any.
Register(a, u, e, n, k) ==
    /\ Free(a) /\ users[u].state = "new"
    /\ Waits(a, IF verifies THEN "prove" ELSE "count",
             [Idle EXCEPT !.who = u, !.email = e, !.code = n, !.cookie = k])
    /\ UNCHANGED <<lastIds, users, tokens, mainOf, second, away, mail, cookies, caches>>
\* The first user becomes root; nobody does when the count fails.
CountUsers(a) ==
    /\ At(a, "count")
    /\ \E first \in {FALSE, \A u \in Users : ~Registered(u)} :
        Waits(a, "insert", [work[a] EXCEPT !.flag = first])
    /\ UNCHANGED <<lastIds, users, tokens, mainOf, second, away, mail, cookies, caches>>
CreateUser(a) ==
    LET w == work[a]  u == w.who  n == lastIds.password + 1
    IN  /\ At(a, "insert")
        /\ \/ /\ CanInsert(u, w.email) /\ CanSetPassword /\ InsertUser(u, w.email, w.flag)
              /\ Waits(a, "session",
                       [w EXCEPT !.cookie.user = u, !.cookie.password = n, !.cookie.seen = n])
           \/ ~CanInsert(u, w.email) /\ Done(a) /\ UNCHANGED <<lastIds, users>>
        /\ UNCHANGED <<tokens, mainOf, second, away, mail, cookies, caches>>
\* The row is read again for its stamp; when that fails the session keeps the
\* stamp it had.
ReadBack(a) ==
    LET w == work[a]  u == w.who
    IN  /\ At(a, "session")
        /\ \/ Waits(a, "cookie", w)
           \/ /\ Registered(u)
              /\ Waits(a, "cookie", [w EXCEPT !.cookie = [CookieOf(u) EXCEPT !.password = w.cookie.password]])
        /\ UNCHANGED <<lastIds, users, tokens, mainOf, second, away, mail, cookies, caches>>

-----------------------------------------------------------------------------
(* accountUpdateEmailHandler, accountUpdatePasswordHandler.                *)

ChangeEmail(a, k, e, n) ==
    /\ Free(a) /\ Accepted(k) /\ verifies /\ ~Taken(e)
    /\ Waits(a, "prove", [Idle EXCEPT !.who = k.user, !.email = e, !.code = n, !.todo = {"email"}])
    /\ UNCHANGED <<lastIds, users, tokens, mainOf, second, away, mail, cookies, caches>>
ChangePassword(a, k) ==
    /\ Free(a) /\ Accepted(k)
    /\ Waits(a, "password", [Idle EXCEPT !.who = k.user])
    /\ UNCHANGED <<lastIds, users, tokens, mainOf, second, away, mail, cookies, caches>>
WritePassword(a) ==
    /\ At(a, "password") /\ Done(a) /\ CanSetPassword /\ SetPassword(work[a].who)
    /\ UNCHANGED <<tokens, mainOf, second, away, mail, cookies, caches>>

-----------------------------------------------------------------------------
(* Administration of users.                                                *)

NextEdit(todo) ==
    IF "email" \in todo THEN "email" ELSE IF "status" \in todo THEN "status"
    ELSE IF "role" \in todo THEN "role" ELSE "main"
GoesOn(a, w, todo) ==
    IF todo = {} THEN Done(a) ELSE Waits(a, NextEdit(todo), [w EXCEPT !.todo = todo])

\* adminUpdateUserHandler: what is to change is decided from the row as it is
\* read first; a root neither disables nor demotes himself.
EditUser(a, k, u, e, on, root, m) ==
    /\ Free(a) /\ AcceptedRoot(k) /\ Registered(u)
    /\ k.user = u => on /\ root
    /\ GoesOn(a, [Idle EXCEPT !.who = u, !.email = e, !.on = on, !.flag = root, !.name = m],
              {x \in {"email", "status", "role", "main"} :
                    \/ x = "email" /\ e # users[u].email
                    \/ x = "status" /\ on # (users[u].state = "on")
                    \/ x = "role" /\ root # users[u].root
                    \/ x = "main" /\ m # mainOf[u]})
    /\ UNCHANGED <<lastIds, users, tokens, mainOf, second, away, mail, cookies, caches>>
WriteEmail(a) ==
    LET w == work[a]
    IN  /\ At(a, "email")
        /\ \/ ~Taken(w.email) /\ Touch(w.who, [users[w.who] EXCEPT !.email = w.email])
              /\ GoesOn(a, w, w.todo \ {"email"})
           \/ Taken(w.email) /\ users' = users /\ Done(a)
        /\ UNCHANGED <<lastIds, tokens, mainOf, second, away, mail, cookies, caches>>
SetUserStatus(a) ==
    LET w == work[a]
    IN  /\ At(a, "status")
        /\ Touch(w.who, [users[w.who] EXCEPT !.state = IF w.on THEN "on" ELSE "off"])
        /\ GoesOn(a, w, w.todo \ {"status"})
        /\ PurgeAndBump
        /\ UNCHANGED <<lastIds, tokens, mainOf, second, away, mail, cookies>>
SetUserRole(a) ==
    LET w == work[a]
    IN  /\ At(a, "role")
        /\ Touch(w.who, [users[w.who] EXCEPT !.root = w.flag])
        /\ GoesOn(a, w, w.todo \ {"role"})
        /\ PurgeAndBump
        /\ UNCHANGED <<lastIds, tokens, mainOf, second, away, mail, cookies>>

\* The DeleteUser transaction: his tokens go with him.
DeleteUserRows(u) ==
    /\ users' = [users EXCEPT ![u] = [NoUser EXCEPT !.state = "gone"]]
    /\ tokens' = [t \in Tokens |->
            IF OwnerOf[t] = u /\ Made(t) THEN [tokens[t] EXCEPT !.state = "gone"] ELSE tokens[t]]
    /\ mainOf' = [mainOf EXCEPT ![u] = None]

\* SetUserMainGroup: the main group is looked up, then the user is updated.  On
\* an error a user just created is deleted again.
CheckUserMain(a) ==
    LET w == work[a]  ok == w.name # None /\ mains[w.name] = "on"
    IN  /\ At(a, "main")
        /\ \/ ok /\ Waits(a, "setmain", w) /\ UNCHANGED <<users, tokens, mainOf, caches>>
           \/ ~ok /\ "undo" \in w.todo /\ Done(a) /\ DeleteUserRows(w.who) /\ PurgeAndBump
           \/ ~ok /\ "undo" \notin w.todo /\ Done(a) /\ UNCHANGED <<users, tokens, mainOf, caches>>
        /\ UNCHANGED <<lastIds, second, away, mail, cookies>>
SetUserMainGroup(a) ==
    LET w == work[a]
    IN  /\ At(a, "setmain") /\ Done(a)
        /\ \/ /\ Registered(w.who) /\ Touch(w.who, users[w.who])
              /\ mainOf' = [mainOf EXCEPT ![w.who] = w.name]
              /\ PurgeAndBump
           \/ ~Registered(w.who) /\ UNCHANGED <<users, mainOf, caches>>
        /\ UNCHANGED <<lastIds, tokens, second, away, mail, cookies>>

\* adminCreateUserHandler
AdminCreateUser(a, k, u, e, root, m) ==
    /\ Free(a) /\ AcceptedRoot(k) /\ CanInsert(u, e) /\ CanSetPassword
    /\ InsertUser(u, e, root)
    /\ Waits(a, "main", [Idle EXCEPT !.who = u, !.name = m, !.todo = {"main", "undo"}])
    /\ UNCHANGED <<tokens, mainOf, second, away, mail, cookies, caches>>
\* adminResetUserPasswordHandler
ResetPassword(a, k, u) ==
    /\ Free(a) /\ AcceptedRoot(k) /\ CanSetPassword /\ SetPassword(u)
    /\ UNCHANGED <<tokens, mainOf, second, away, work, mail, cookies, caches>>

\* adminDeleteUserHandler: a root does not delete himself.
DeleteUser(a, k, u) ==
    /\ Free(a) /\ AcceptedRoot(k) /\ k.user # u /\ Registered(u)
    /\ DeleteUserRows(u) /\ PurgeAndBump
    /\ UNCHANGED <<lastIds, second, away, work, mail, cookies>>

NextSecond ==
    /\ second < MaxSecond /\ second' = second + 1
    /\ UNCHANGED <<lastIds, users, tokens, mainOf, away, work, mail, cookies, caches>>

AccountsBegin(a) ==
    \/ \E u \in Users :
        \/ Login(a, u)
        \/ \E e \in Emails, n \in Codes, k \in cookies \cup {NoCookie} : Register(a, u, e, n, k)
    \/ \E e \in Emails : SendCode(a, e)
    \/ \E k \in cookies :
        \/ ChangePassword(a, k)
        \/ \E e \in Emails, n \in Codes : ChangeEmail(a, k, e, n)
        \/ \E u \in Users :
            \/ ResetPassword(a, k, u) \/ DeleteUser(a, k, u)
            \/ \E e \in Emails, root \in BOOLEAN, m \in Mains \cup {None} :
                \/ AdminCreateUser(a, k, u, e, root, m)
                \/ \E on \in BOOLEAN : EditUser(a, k, u, e, on, root, m)
AccountsGoOn(a) ==
    \/ ProveEmail(a) \/ CountUsers(a) \/ CreateUser(a) \/ ReadBack(a) \/ SaveSession(a)
    \/ WritePassword(a)
    \/ WriteEmail(a) \/ SetUserStatus(a) \/ SetUserRole(a)
    \/ CheckUserMain(a) \/ SetUserMainGroup(a)
AccountsBy == NextSecond \/ (\E k \in cookies : Logout(k)) \/ (\E e \in Emails : Expire(e))

-----------------------------------------------------------------------------
(* Properties.                                                             *)

\* A code proves one address once, however many requests bring it at the same
\* time and whatever fails after (ConsumeEmailVerification).
CodesProveOnce == \A n \in Codes : uses[n] <= 1

\* A browser that was let in with an earlier password is let in no more
\* (staleSession).  Left out are the cookies without a stamp; those whose stamp was
\* read during the very second the row was last written, as updated_at tells only
\* seconds apart; and those of a registration that read the row back when its
\* password had been changed already.
PasswordEndsSessions ==
    \A k \in cookies :
        Accepted(k) /\ k.password # users[k.user].password =>
            k.stamp \in {0, k.made} \/ k.seen # k.password

=============================================================================
