------------------------------ MODULE Sessions ------------------------------
(***************************************************************************)
(* Accounts and sessions of the backend template: the authentication       *)
(* service with its local, Facebook and Google parts, behind the /auth     *)
(* endpoints and the bearer strategy, over the PostgreSQL tables they use. *)
(*                                                                         *)
(* A request is a process, and a step of it is one query, or one           *)
(* transaction where the code opens one (it is atomic: what it reads was   *)
(* read before).  Unique keys and the cascading foreign keys to a user are *)
(* those of the migrations.  A request inserts at most one row into a      *)
(* table, which is named after it.  Hashing, delays against timing         *)
(* attacks, input validation, permission scopes and the profile that is    *)
(* created with a user are left out; the accounts of Facebook and Google   *)
(* all have an email address.                                              *)
(***************************************************************************)
EXTENDS Naturals, FiniteSets

CONSTANTS
  Requests,       \* requests to the endpoints, each of them sent at most once
  First,          \* a registration long ago
  Names,          \* usernames, which are email addresses
  Passwords,
  Providers,      \* Facebook, Google
  Ids,            \* ids of their accounts
  FirstName, FirstPassword,  \* of the first user
  None,           \* null
  QueriesMayFail  \* may the connection to PostgreSQL fail?

Row == Requests \cup {First}  (* uids of users, and tokens *)

ASSUME FirstAssumption == /\ First \notin Requests
                          /\ FirstName \in Names
                          /\ FirstPassword \in Passwords
ASSUME NoneAssumption == None \notin Row \cup Names \cup Passwords \cup Ids
ASSUME FlagAssumption == QueriesMayFail \in BOOLEAN

VARIABLES
  users,     \* the table Users: a record for each uid
  access, refresh, resets,  \* token tables: the user of each token
  expired,   \* tokens that are not valid any longer: <<table, token>>
  floating,  \* token insertions nobody waits for: <<table, token, user>>
  doomed,    \* expired refresh tokens that are being deleted out of chain
  pc, op,    \* of a request: where it is, which endpoint it is for
  arg,       \* what it was sent with
  me, seen,  \* the user it found, and what it read of a user it will save
  todo,      \* its insertions of tokens that are not finished
  delivered, \* history: requests answered with tokens
  mailed,    \* history: reset tokens that were mailed
  loggedOut, \* history: what logouts ended, <<table, row>>
  exchanged  \* history: <<refresh token, request>> answered with new tokens

tables == <<users, access, refresh, resets, expired, floating, doomed>>
locals == <<op, arg, me, seen, todo>>
history == <<delivered, mailed, loggedOut, exchanged>>
vars == <<tables, pc, locals, history>>

Account == [name: Names \cup {None}, password: Passwords \cup {None},
            id: [Providers -> Ids \cup {None}], active: BOOLEAN]
Argument == [name: Names \cup {None}, password: Passwords \cup {None},
             provider: Providers \cup {None}, id: Ids \cup {None},
             token: Row \cup {None}, second: Row \cup {None}]
Kinds == {"access", "refresh"}
Answered == {"ok", "rejected", "failed"}

TypeOK ==
  /\ DOMAIN users \subseteq Row /\ users \in [DOMAIN users -> Account]
  /\ \A table \in {access, refresh, resets} :
       /\ DOMAIN table \subseteq Row
       /\ table \in [DOMAIN table -> DOMAIN users]
  /\ expired \subseteq {"access", "refresh", "reset"} \X Row
  /\ floating \subseteq Kinds \X Row \X Row
  /\ doomed \subseteq Row
  /\ pc \in [Requests -> {"idle", "issue", "rotate", "guest", "save", "create",
                          "merge", "findrefresh", "logout", "findreset",
                          "createreset", "mail", "reset"} \cup Answered]
  /\ op \in [Requests -> {"none", "login", "refresh", "guest", "register",
                          "social", "logout", "forgot", "complete",
                          "completeform"}]
  /\ arg \in [Requests -> Argument]
  /\ me \in [Requests -> Row \cup {None}]
  /\ seen \in [Requests -> Account \cup {None}]
  /\ todo \in [Requests -> SUBSET Kinds]
  /\ delivered \subseteq Row /\ mailed \subseteq Row
  /\ exchanged \subseteq Row \X Requests
  /\ loggedOut \subseteq {"access", "refresh", "user"} \X Row

NoArgument == [name |-> None, password |-> None, provider |-> None,
               id |-> None, token |-> None, second |-> None]
NoIds == [p \in Providers |-> None]
FirstUser == [name |-> FirstName, password |-> FirstPassword, id |-> NoIds,
              active |-> TRUE]

(* One user has registered, holds the tokens of that, and has got a mail   *)
(* after forgetting the password.                                          *)
Init ==
  /\ users = [u \in {First} |-> FirstUser]
  /\ access = [t \in {First} |-> First]
  /\ refresh = [t \in {First} |-> First]
  /\ resets = [t \in {First} |-> First]
  /\ expired = {} /\ floating = {} /\ doomed = {}
  /\ pc = [r \in Requests |-> "idle"]
  /\ op = [r \in Requests |-> "none"]
  /\ arg = [r \in Requests |-> NoArgument]
  /\ me = [r \in Requests |-> None]
  /\ seen = [r \in Requests |-> None]
  /\ todo = [r \in Requests |-> {}]
  /\ delivered = {First} /\ mailed = {First}
  /\ loggedOut = {} /\ exchanged = {}

-----------------------------------------------------------------------------
(* Variants of the helpers below, each with a plausible mistake that one   *)
(* of the properties rules out.                                            *)
NeverTaken(a, others) == FALSE                   \* no unique keys
Exists(t, u) == t \in DOMAIN refresh             \* anybody's refresh token
AccessOnly(table, r) == {arg[r].token}           \* refresh token forgotten
AtFirst(left) == TRUE                            \* Promise.race
SaveAll(r, a) == [seen[r] EXCEPT !.id[arg[r].provider] = arg[r].id,
                                 !.name = arg[r].name]

(* Helpers *)
Without(table, S) == [t \in DOMAIN table \ S |-> table[t]]
Put(table, t, x) == [s \in DOMAIN table \cup {t} |->
                       IF s = t THEN x ELSE table[s]]

(* ON DELETE CASCADE of the users U *)
Cascade(table, U) == [t \in {s \in DOMAIN table : table[s] \notin U} |->
                        table[t]]

IsGuest(a) == a.id = NoIds /\ (a.password = None \/ a.name = None)

(* the unique keys of Users: another row has the name or an id of a *)
Taken(a, others) ==
  \E v \in others :
    \/ a.name # None /\ users[v].name = a.name
    \/ \E p \in Providers : a.id[p] # None /\ users[v].id[p] = a.id[p]

(* the refresh token t as logout looks for it *)
OwnedBy(t, u) == t \in DOMAIN refresh /\ refresh[t] = u

(* the token of each table that a logout destroys *)
Sent(table, r) == {IF table = "access" THEN arg[r].token ELSE arg[r].second}

(* Promise.all of the insertions resolves when none is left. *)
AllSettled(left) == left = {}

(* save(): an UPDATE of what was changed in the copy that was read *)
Saved(r, a) ==
  LET p == arg[r].provider IN
  [a EXCEPT !.id[p] = IF seen[r].id[p] = arg[r].id THEN @ ELSE arg[r].id,
            !.name = IF seen[r].name = arg[r].name THEN @ ELSE arg[r].name]

(* validateToken: an account that its provider vouches for *)
Vouched(p, i, n) == [NoArgument EXCEPT !.provider = p, !.id = i, !.name = n]

(* MailService.send: nothing is sent if that fails or is not enabled. *)
Mail(r) == mailed' \in {mailed, mailed \cup {r}}

(* The first query finds something: the request goes on with user u. *)
Begin(r, what, a, u, where) ==
  /\ op' = [op EXCEPT ![r] = what]
  /\ arg' = [arg EXCEPT ![r] = a]
  /\ me' = [me EXCEPT ![r] = u]
  /\ pc' = [pc EXCEPT ![r] = where]

Goto(r, where) ==
  /\ pc' = [pc EXCEPT ![r] = where]
  /\ UNCHANGED <<op, arg, me, seen>>

(* The request is answered, and its local variables are gone. *)
Respond(r, how) ==
  /\ pc' = [pc EXCEPT ![r] = how]
  /\ op' = [op EXCEPT ![r] = "none"]
  /\ arg' = [arg EXCEPT ![r] = NoArgument]
  /\ me' = [me EXCEPT ![r] = None]
  /\ seen' = [seen EXCEPT ![r] = None]

(* generateAuthTokens for a user with credentials: insert two tokens. *)
Issue(r, u) ==
  /\ pc' = [pc EXCEPT ![r] = "issue"]
  /\ me' = [me EXCEPT ![r] = u]
  /\ todo' = [todo EXCEPT ![r] = Kinds]
  /\ UNCHANGED <<op, arg, seen>>

(* The request was answered with tokens. *)
Deliver(r) ==
  /\ Respond(r, "ok")
  /\ delivered' = delivered \cup {r}
  /\ exchanged' = IF op[r] = "refresh"
                  THEN exchanged \cup {<<arg[r].token, r>>} ELSE exchanged

-----------------------------------------------------------------------------
(* Login, refresh, guests and registration *)

Login(r, n, w) ==
  /\ pc[r] = "idle"
  /\ \/ /\ \A u \in DOMAIN users :
             users[u].name = n /\ users[u].password = w => ~users[u].active
        /\ Respond(r, "rejected")
        /\ UNCHANGED todo
     \/ \E u \in DOMAIN users :
          /\ users[u].name = n /\ users[u].password = w /\ users[u].active
          /\ Begin(r, "login", NoArgument, u, "issue")
          /\ todo' = [todo EXCEPT ![r] = Kinds]
          /\ UNCHANGED seen
  /\ UNCHANGED <<tables, history>>

(* authenticateWithRefreshToken up to its first DELETE; that of an expired *)
(* token is not waited for.                                                *)
Refresh(r, t) ==
  /\ pc[r] = "idle"
  /\ \/ /\ t \in DOMAIN refresh => /\ <<"refresh", t>> \notin expired
                                   /\ ~users[refresh[t]].active
        /\ Respond(r, "rejected")
        /\ UNCHANGED doomed
     \/ /\ t \in DOMAIN refresh /\ <<"refresh", t>> \in expired
        /\ Respond(r, "rejected")
        /\ doomed' = doomed \cup {t}
     \/ /\ t \in DOMAIN refresh /\ <<"refresh", t>> \notin expired
        /\ users[refresh[t]].active
        /\ Begin(r, "refresh", [NoArgument EXCEPT !.token = t], refresh[t],
                 "rotate")
        /\ UNCHANGED <<seen, doomed>>
  /\ UNCHANGED <<users, access, refresh, resets, expired, floating, todo,
                 history>>

(* The old token is deleted; deleting no row at all is fine, too. *)
Rotate(r) ==
  /\ pc[r] = "rotate"
  /\ refresh' = Without(refresh, {arg[r].token})
  /\ Issue(r, me[r])
  /\ UNCHANGED <<users, access, resets, expired, floating, doomed, history>>

DeleteDoomed(t) ==
  /\ t \in doomed
  /\ doomed' = doomed \ {t}
  /\ \/ refresh' = Without(refresh, {t})
     \/ QueriesMayFail /\ UNCHANGED refresh
  /\ UNCHANGED <<users, access, resets, expired, floating, pc, locals,
                 history>>

(* One of the insertions of Promise.all *)
Insert(r, k) ==
  /\ k \in todo[r]
  /\ access' = IF k = "access" THEN Put(access, r, me[r]) ELSE access
  /\ refresh' = IF k = "refresh" THEN Put(refresh, r, me[r]) ELSE refresh
  /\ todo' = [todo EXCEPT ![r] = @ \ {k}]
  /\ IF AllSettled(todo'[r])
     THEN Deliver(r)
     ELSE UNCHANGED <<pc, op, arg, me, seen, delivered, exchanged>>
  /\ UNCHANGED <<users, resets, expired, floating, doomed, mailed, loggedOut>>

(* The first that fails answers the request, and the other one goes on. *)
InsertFails(r, k) ==
  /\ QueriesMayFail
  /\ k \in todo[r]
  /\ todo' = [todo EXCEPT ![r] = {}]
  /\ floating' = floating \cup {<<other, r, me[r]>> : other \in todo[r] \ {k}}
  /\ Respond(r, "failed")
  /\ UNCHANGED <<users, access, refresh, resets, expired, doomed, history>>

FloatingInsert(f) ==
  /\ f \in floating
  /\ floating' = floating \ {f}
  /\ access' = IF f[1] = "access" THEN Put(access, f[2], f[3]) ELSE access
  /\ refresh' = IF f[1] = "refresh" THEN Put(refresh, f[2], f[3]) ELSE refresh
  /\ UNCHANGED <<users, resets, expired, doomed, pc, locals, history>>

(* createGuestUser: the transaction, and then the permanent access token.  *)
Guest(r) ==
  /\ pc[r] = "idle"
  /\ users' = Put(users, r, [name |-> None, password |-> None, id |-> NoIds,
                             active |-> TRUE])
  /\ Begin(r, "guest", NoArgument, r, "guest")
  /\ UNCHANGED <<access, refresh, resets, expired, floating, doomed, seen,
                 todo, history>>

GuestToken(r) ==
  /\ pc[r] = "guest"
  /\ access' = Put(access, r, me[r])
  /\ Deliver(r)
  /\ UNCHANGED <<users, refresh, resets, expired, floating, doomed, todo,
                 mailed, loggedOut>>

(* register: the count, ... *)
Register(r, n, w) ==
  /\ pc[r] = "idle"
  /\ IF \E u \in DOMAIN users : users[u].name = n
     THEN Respond(r, "rejected")
     ELSE /\ Begin(r, "register",
                   [NoArgument EXCEPT !.name = n, !.password = w], None,
                   "save")
          /\ UNCHANGED seen
  /\ UNCHANGED <<tables, todo, history>>

(* ... and the transaction, which the unique key may abort. *)
SaveUser(r) ==
  LET a == [name |-> arg[r].name, password |-> arg[r].password, id |-> NoIds,
            active |-> TRUE] IN
  /\ pc[r] = "save"
  /\ IF Taken(a, DOMAIN users)
     THEN Respond(r, "failed") /\ UNCHANGED <<users, todo>>
     ELSE users' = Put(users, r, a) /\ Issue(r, r)
  /\ UNCHANGED <<access, refresh, resets, expired, floating, doomed, history>>

-----------------------------------------------------------------------------
(* Facebook and Google *)

(* The provider vouches for the id and the email address; some user found  *)
(* with either one is taken.                                               *)
Social(r, p, i, n) ==
  LET a == Vouched(p, i, n)
      found == {u \in DOMAIN users :
                  users[u].id[p] = i \/ users[u].name = n} IN
  /\ pc[r] = "idle"
  /\ \/ /\ found = {}
        /\ Begin(r, "social", a, None, "create")
        /\ UNCHANGED seen
     \/ \E u \in found :
          IF users[u].active
          THEN /\ Begin(r, "social", a, u, "merge")
               /\ seen' = [seen EXCEPT ![r] = users[u]]
          ELSE Respond(r, "rejected")
  /\ UNCHANGED <<tables, todo, history>>

CreateSocial(r) ==
  LET a == [name |-> arg[r].name, password |-> None, active |-> TRUE,
            id |-> [NoIds EXCEPT ![arg[r].provider] = arg[r].id]] IN
  /\ pc[r] = "create"
  /\ IF Taken(a, DOMAIN users)
     THEN Respond(r, "failed") /\ UNCHANGED <<users, todo>>
     ELSE users' = Put(users, r, a) /\ Issue(r, r)
  /\ UNCHANGED <<access, refresh, resets, expired, floating, doomed, history>>

MergeSocial(r) ==
  LET u == me[r] IN
  /\ pc[r] = "merge"
  /\ IF Taken(Saved(r, users[u]), DOMAIN users \ {u})
     THEN Respond(r, "failed") /\ UNCHANGED <<users, todo>>
     ELSE users' = [users EXCEPT ![u] = Saved(r, @)] /\ Issue(r, u)
  /\ UNCHANGED <<access, refresh, resets, expired, floating, doomed, history>>

-----------------------------------------------------------------------------
(* Logout *)

(* The bearer strategy looks the access token and its user up; then the    *)
(* refresh token, if one was sent, must be one of the same user, ...       *)
Logout(r, t, s) ==
  /\ pc[r] = "idle"
  /\ IF /\ t \in DOMAIN access /\ <<"access", t>> \notin expired
        /\ users[access[t]].active
     THEN /\ Begin(r, "logout", [NoArgument EXCEPT !.token = t, !.second = s],
                   access[t], IF s = None THEN "logout" ELSE "findrefresh")
          /\ UNCHANGED seen
     ELSE Respond(r, "rejected")
  /\ UNCHANGED <<tables, todo, history>>

FindRefresh(r) ==
  /\ pc[r] = "findrefresh"
  /\ IF OwnedBy(arg[r].second, me[r])
     THEN Goto(r, "logout")
     ELSE Respond(r, "rejected")
  /\ UNCHANGED <<tables, todo, history>>

(* ... and both are destroyed in a transaction, with a guest's account.    *)
DestroySession(r) ==
  LET U == {u \in DOMAIN users : u = me[r] /\ IsGuest(users[u])} IN
  /\ pc[r] = "logout"
  /\ users' = Without(users, U)
  /\ access' = Cascade(Without(access, Sent("access", r)), U)
  /\ refresh' = Cascade(Without(refresh, Sent("refresh", r)), U)
  /\ resets' = Cascade(resets, U)
  /\ loggedOut' = loggedOut \cup {<<"access", arg[r].token>>}
       \cup {<<"refresh", t>> : t \in {arg[r].second} \ {None}}
       \cup {<<"user", u>> : u \in U}
  /\ Respond(r, "ok")
  /\ UNCHANGED <<expired, floating, doomed, todo, delivered, mailed,
                 exchanged>>

-----------------------------------------------------------------------------
(* Forgotten passwords: whatever happens, the request is told "success".   *)

InitiatePasswordReset(r, n) ==
  /\ pc[r] = "idle"
  /\ \/ /\ \A u \in DOMAIN users : users[u].name = n => ~users[u].active
        /\ Respond(r, "ok")
     \/ \E u \in DOMAIN users :
          /\ users[u].name = n /\ users[u].active
          /\ Begin(r, "forgot", NoArgument, u, "findreset")
          /\ UNCHANGED seen
  /\ UNCHANGED <<tables, todo, history>>

(* A token that is valid for another minute is taken to have been mailed;  *)
(* one in its last minute is not found.                                    *)
FindReset(r) ==
  /\ pc[r] = "findreset"
  /\ \/ /\ \E t \in DOMAIN resets :
             resets[t] = me[r] /\ <<"reset", t>> \notin expired
        /\ Respond(r, "ok")
     \/ Goto(r, "createreset")
  /\ UNCHANGED <<tables, todo, history>>

CreateReset(r) ==
  /\ pc[r] = "createreset"
  /\ resets' = Put(resets, r, me[r])
  /\ Goto(r, "mail")
  /\ UNCHANGED <<users, access, refresh, expired, floating, doomed, todo,
                 history>>

SendPasswordForgot(r) ==
  /\ pc[r] = "mail"
  /\ Mail(r)
  /\ Respond(r, "ok")
  /\ UNCHANGED <<tables, todo, delivered, loggedOut, exchanged>>

(* completePasswordReset: find the token with its user, ... *)
CompletePasswordReset(r, how, t, w) ==
  /\ pc[r] = "idle"
  /\ IF t \in DOMAIN resets /\ <<"reset", t>> \notin expired
     THEN /\ Begin(r, how, [NoArgument EXCEPT !.token = t, !.password = w],
                   resets[t], "reset")
          /\ UNCHANGED seen
     ELSE Respond(r, "rejected")
  /\ UNCHANGED <<tables, todo, history>>

(* ... and delete the token and save the password in a transaction, which  *)
(* also issues tokens if the request came from an app.                     *)
SetPassword(r) ==
  /\ pc[r] = "reset"
  /\ resets' = Without(resets, {arg[r].token})
  /\ users' = [users EXCEPT ![me[r]].password = arg[r].password]
  /\ IF op[r] = "complete"
     THEN /\ access' = Put(access, r, me[r])
          /\ refresh' = Put(refresh, r, me[r])
          /\ Deliver(r)
     ELSE /\ Respond(r, "ok")
          /\ UNCHANGED <<access, refresh, delivered, exchanged>>
  /\ UNCHANGED <<expired, floating, doomed, todo, mailed, loggedOut>>

-----------------------------------------------------------------------------
(* A query or a transaction fails, and with it the request.  The browser's *)
(* form is answered before its transaction commits, though.                *)
Fails(r) ==
  /\ QueriesMayFail
  /\ pc[r] \notin {"idle", "issue", "mail"} \cup Answered
  /\ \/ Respond(r, "failed")
     \/ pc[r] = "reset" /\ op[r] = "completeform" /\ Respond(r, "ok")
  /\ UNCHANGED <<tables, todo, history>>

(* Tokens that were handed out come to their end; guests' never do. *)
Expire(table, t) ==
  /\ <<table, t>> \notin expired
  /\ \/ table = "access" /\ t \in delivered \cap DOMAIN access
        /\ ~IsGuest(users[access[t]])
     \/ table = "refresh" /\ t \in delivered \cap DOMAIN refresh
     \/ table = "reset" /\ t \in mailed \cap DOMAIN resets
  /\ expired' = expired \cup {<<table, t>>}
  /\ UNCHANGED <<users, access, refresh, resets, floating, doomed, pc, locals,
                 history>>

(* An administrator deactivates a user in the database. *)
Deactivate(u) ==
  /\ users[u].active
  /\ users' = [users EXCEPT ![u].active = FALSE]
  /\ UNCHANGED <<access, refresh, resets, expired, floating, doomed, pc,
                 locals, history>>

Send(r) ==
  \/ \E n \in Names, w \in Passwords : Login(r, n, w) \/ Register(r, n, w)
  \/ \E t \in delivered : Refresh(r, t)
  \/ Guest(r)
  \/ \E p \in Providers, i \in Ids, n \in Names : Social(r, p, i, n)
  \/ \E t \in delivered, s \in delivered \cup {None} : Logout(r, t, s)
  \/ \E n \in Names : InitiatePasswordReset(r, n)
  \/ \E how \in {"complete", "completeform"}, t \in mailed, w \in Passwords :
       CompletePasswordReset(r, how, t, w)

Continue(r) ==
  \/ Rotate(r)
  \/ \E k \in Kinds : Insert(r, k) \/ InsertFails(r, k)
  \/ GuestToken(r)
  \/ SaveUser(r)
  \/ CreateSocial(r) \/ MergeSocial(r)
  \/ FindRefresh(r) \/ DestroySession(r)
  \/ FindReset(r) \/ CreateReset(r) \/ SendPasswordForgot(r)
  \/ SetPassword(r)
  \/ Fails(r)

Background ==
  \/ \E t \in doomed : DeleteDoomed(t)
  \/ \E f \in floating : FloatingInsert(f)
  \/ \E table \in {"access", "refresh", "reset"}, t \in Row : Expire(table, t)
  \/ \E u \in DOMAIN users : Deactivate(u)

Next == Background \/ \E r \in Requests : Send(r) \/ Continue(r)

Spec == Init /\ [][Next]_vars

-----------------------------------------------------------------------------
(* Of requests that race for a username or for the account of a provider,  *)
(* one gets it.                                                            *)
UniqueAccounts ==
  \A u, v \in DOMAIN users :
    u # v => /\ users[u].name = users[v].name => users[u].name = None
             /\ \A p \in Providers :
                  users[u].id[p] = users[v].id[p] => users[u].id[p] = None

(* Logged out for good: nothing that was still going on brings back the    *)
(* tokens that a logout destroyed, or the guest that it logged out.        *)
LogoutEnds ==
  /\ \A t \in DOMAIN access : <<"access", t>> \notin loggedOut
  /\ \A t \in DOMAIN refresh : <<"refresh", t>> \notin loggedOut
  /\ \A u \in DOMAIN users : <<"user", u>> \notin loggedOut

(* A logout takes nothing from other users. *)
LogoutConfined ==
  [][\A r \in Requests :
       pc[r] = "logout" /\ pc'[r] = "ok" =>
         /\ DOMAIN users \ {me[r]} \subseteq DOMAIN users'
         /\ \A t \in DOMAIN access : access[t] # me[r] => t \in DOMAIN access'
         /\ \A t \in DOMAIN refresh :
              refresh[t] # me[r] => t \in DOMAIN refresh'
    ]_vars

(* Who is answered with tokens has all of them, and they are of the user   *)
(* that was found.                                                         *)
TokensDelivered ==
  [][\A r \in delivered' \ delivered :
       /\ r \in DOMAIN access' /\ access'[r] = me[r]
       /\ op[r] # "guest" => r \in DOMAIN refresh' /\ refresh'[r] = me[r]
    ]_vars

(* What was read of a user earlier is never written back: no request       *)
(* reactivates a user, and only a completed reset changes a password.      *)
NoLostUpdates ==
  [][\A u \in DOMAIN users \cap DOMAIN users' :
       /\ users'[u].active => users[u].active
       /\ users'[u].password # users[u].password =>
            \E r \in Requests : /\ pc[r] = "reset" /\ me[r] = u
                                /\ users'[u].password = arg[r].password
    ]_vars

-----------------------------------------------------------------------------
(* What the documentation says and the code does not do *)

(* A refresh token that was used is replaced: "should throw error when     *)
(* trying to authenticate with same refresh token twice".                  *)
RefreshTokenExchangedOnce ==
  \A x, y \in exchanged : x[1] = y[1] => x = y
=============================================================================
