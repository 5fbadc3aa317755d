---------------------------- MODULE SessionsProofs ----------------------------
(***************************************************************************)
(* Proofs about Sessions, for any number of requests, users and providers, *)
(* whether or not queries fail.                                            *)
(***************************************************************************)
EXTENDS Sessions, TLAPS

-----------------------------------------------------------------------------
(* The invariant                                                           *)

(* Users that somebody can be found as, by a name or by credentials.       *)
Member(a) == a.name # None /\ ~IsGuest(a)
GuestOnly(a) == a.name = None /\ a.password = None /\ a.id = NoIds
Members == {u \in DOMAIN users : Member(users[u])}

(* Requests of which no token and no user is known to anybody yet *)
Hidden == {r \in Requests : pc[r] \in {"idle", "save", "create", "guest"}}

(* A user is a guest or a member, and what the tables have is of users     *)
(* that stay: only guests are ever deleted.                                *)
TableInv ==
  /\ \A u \in DOMAIN users : Member(users[u]) \/ GuestOnly(users[u])
  /\ \A u \in Members : u \notin Hidden
  /\ \A t \in DOMAIN refresh : refresh[t] \in Members
  /\ \A t \in DOMAIN resets : resets[t] \in Members
  /\ \A t \in DOMAIN access : access[t] \notin Hidden
  /\ \A f \in floating : /\ f[3] \in Members
                         /\ f[2] \in Requests /\ pc[f[2]] = "failed"
  /\ doomed \subseteq delivered
  /\ \A r \in Requests : r \in delivered => pc[r] = "ok"

(* What was logged out had been handed out, and is gone. *)
LogoutInv ==
  /\ \A t \in Row : <<"access", t>> \in loggedOut =>
                      t \in delivered /\ t \notin DOMAIN access
  /\ \A t \in Row : <<"refresh", t>> \in loggedOut =>
                      t \in delivered /\ t \notin DOMAIN refresh
  /\ \A u \in Row : <<"user", u>> \in loggedOut =>
                      u \notin Hidden /\ u \notin DOMAIN users

(* the token t of a table, if it is there, is of the user u *)
OfUser(table, t, u) == t \in DOMAIN table => table[t] = u
Has(table, t, u) == t \in DOMAIN table /\ table[t] = u

(* What a request knows between two of its queries *)
Holds(r) ==
  /\ todo[r] # {} <=> pc[r] = "issue"
  /\ op[r] = "refresh" => arg[r].token \in delivered
  /\ pc[r] \in {"idle", "save", "create"} => r \notin DOMAIN users
  /\ pc[r] \in {"issue", "rotate", "merge", "findreset", "createreset", "mail",
                "reset"} => me[r] \in Members
  /\ pc[r] = "issue" =>
       /\ "access" \notin todo[r] => Has(access, r, me[r])
       /\ "refresh" \notin todo[r] => Has(refresh, r, me[r])
  /\ pc[r] = "rotate" => op[r] = "refresh"
  /\ pc[r] = "guest" => op[r] = "guest" /\ me[r] = r /\ r \in DOMAIN users
  /\ pc[r] \in {"save", "reset"} => arg[r].password # None
  /\ pc[r] \in {"create", "merge"} => arg[r].provider \in Providers /\ arg[r].id # None
  /\ pc[r] \in {"save", "create", "merge"} => arg[r].name # None
  /\ pc[r] = "merge" => seen[r] \in Account
  /\ pc[r] \in {"findrefresh", "logout"} =>
       /\ me[r] \in Row \ Hidden
       /\ arg[r].token \in delivered /\ OfUser(access, arg[r].token, me[r])
       /\ arg[r].second \in delivered \cup {None}
  /\ pc[r] = "logout" /\ arg[r].second # None =>
       OfUser(refresh, arg[r].second, me[r])

RequestInv == \A r \in Requests : Holds(r)

IInv == TypeOK /\ TableInv /\ LogoutInv /\ RequestInv

-----------------------------------------------------------------------------
(* Tables                                                                  *)

Table(table, T) == DOMAIN table \subseteq Row /\ table \in [DOMAIN table -> T]

(* Inserting, deleting and cascading keep the type of a table.             *)
LEMMA PutType ==
  ASSUME NEW T, NEW table, Table(table, T), NEW t \in Row, NEW x \in T
  PROVE  Table(Put(table, t, x), T)
BY DEF Put, Table

LEMMA WithoutType ==
  ASSUME NEW T, NEW table, Table(table, T), NEW S
  PROVE  Table(Without(table, S), T)
BY DEF Without, Table

LEMMA CascadeType ==
  ASSUME NEW T, NEW table, Table(table, T), NEW U
  PROVE  Table(Cascade(table, U), T \ U)
BY DEF Cascade, Table

(* A table whose rows refer to fewer users than there are *)
LEMMA TableGrows ==
  ASSUME NEW T, NEW S, T \subseteq S, NEW table, Table(table, T)
  PROVE  Table(table, S)
BY DEF Table

(* The type invariant, in parts *)
UsersTypeOK == Table(users, Account)
TokensTypeOK ==
  /\ Table(access, DOMAIN users)
  /\ Table(refresh, DOMAIN users)
  /\ Table(resets, DOMAIN users)
LocalTypeOK ==
  /\ pc \in [Requests -> {"idle", "issue", "rotate", "guest", "save", "create",
                          "merge", "findrefresh", "logout", "findreset",
                          "createreset", "mail", "reset"} \cup Answered]
  /\ op \in [Requests -> {"none", "login", "refresh", "guest", "register",
                          "social", "logout", "forgot", "complete",
                          "completeform"}]
  /\ arg \in [Requests -> Argument]
  /\ me \in [Requests -> Row \cup {None}]
  /\ seen \in [Requests -> Account \cup {None}]
  /\ todo \in [Requests -> SUBSET Kinds]
RestTypeOK ==
  /\ expired \subseteq {"access", "refresh", "reset"} \X Row
  /\ floating \subseteq Kinds \X Row \X Row
  /\ doomed \subseteq Row
  /\ delivered \subseteq Row /\ mailed \subseteq Row
  /\ exchanged \subseteq Row \X Requests
  /\ loggedOut \subseteq {"access", "refresh", "user"} \X Row

(* The type invariant is its parts, now and in the next state.             *)
LEMMA TypeParts ==
  /\ TypeOK <=> UsersTypeOK /\ TokensTypeOK /\ LocalTypeOK /\ RestTypeOK
  /\ TypeOK' <=> UsersTypeOK' /\ TokensTypeOK' /\ LocalTypeOK' /\ RestTypeOK'
<1>1. TypeOK <=> UsersTypeOK /\ TokensTypeOK /\ LocalTypeOK /\ RestTypeOK
  BY Zenon DEF TypeOK, UsersTypeOK, TokensTypeOK, LocalTypeOK, RestTypeOK, Table
<1>2. QED
  BY <1>1, PTL

-----------------------------------------------------------------------------
(* What a step of one request leaves of the others'                        *)

Undisturbed(s) ==
  /\ pc'[s] = pc[s] /\ op'[s] = op[s] /\ arg'[s] = arg[s]
  /\ me'[s] = me[s] /\ seen'[s] = seen[s] /\ todo'[s] = todo[s]

(* Delivered tokens change no hands, and those just inserted stay.         *)
Respected(old, new, s) ==
  /\ \A t \in delivered, u \in Row : OfUser(old, t, u) => OfUser(new, t, u)
  /\ pc[s] = "issue" => \A u \in Members : Has(old, s, u) => Has(new, s, u)

(* The tables change only so that what the request s knows stays true.     *)
Respects(s) ==
  /\ Members \subseteq Members' /\ Hidden' \subseteq Hidden
  /\ delivered \subseteq delivered'
  /\ s \in Hidden => (s \in DOMAIN users <=> s \in DOMAIN users')
  /\ Respected(access, access', s) /\ Respected(refresh, refresh', s)

(* What a request knows stays true when others change the tables.          *)
LEMMA HoldsKept ==
  ASSUME TypeOK, NEW s \in Requests, Holds(s), Undisturbed(s), Respects(s)
  PROVE  Holds(s)'
<1>1. /\ todo'[s] # {} <=> pc'[s] = "issue"
      /\ op'[s] = "refresh" => arg'[s].token \in delivered'
      /\ pc'[s] = "rotate" => op'[s] = "refresh"
      /\ pc'[s] \in {"save", "reset"} => arg'[s].password # None
      /\ pc'[s] \in {"create", "merge"} =>
           arg'[s].provider \in Providers /\ arg'[s].id # None
      /\ pc'[s] \in {"save", "create", "merge"} => arg'[s].name # None
      /\ pc'[s] = "merge" => seen'[s] \in Account
  BY DEF Holds, Undisturbed, Respects
<1>2. /\ pc'[s] \in {"idle", "save", "create"} => s \notin DOMAIN users'
      /\ pc'[s] = "guest" => op'[s] = "guest" /\ me'[s] = s /\ s \in DOMAIN users'
  BY DEF Holds, Undisturbed, Respects, Hidden
<1>3. pc'[s] \in {"issue", "rotate", "merge", "findreset", "createreset", "mail",
                  "reset"} => me'[s] \in Members'
  BY DEF Holds, Undisturbed, Respects
<1>4. pc'[s] = "issue" =>
        /\ "access" \notin todo'[s] => Has(access', s, me'[s])
        /\ "refresh" \notin todo'[s] => Has(refresh', s, me'[s])
  BY DEF Holds, Undisturbed, Respects, Respected
<1>5. pc'[s] \in {"findrefresh", "logout"} =>
        /\ me'[s] \in Row \ Hidden'
        /\ arg'[s].token \in delivered' /\ OfUser(access', arg'[s].token, me'[s])
        /\ arg'[s].second \in delivered' \cup {None}
  BY DEF Holds, Undisturbed, Respects, Respected
<1>6. pc'[s] = "logout" /\ arg'[s].second # None =>
        OfUser(refresh', arg'[s].second, me'[s])
  BY DEF Holds, Undisturbed, Respects, Respected
<1>7. QED
  BY <1>1, <1>2, <1>3, <1>4, <1>5, <1>6 DEF Holds, Has, OfUser

-----------------------------------------------------------------------------
(* What a request does to its own variables                                *)

TodoOnly(r, left) ==
  /\ todo' \in [Requests -> SUBSET Kinds] /\ todo'[r] = left
  /\ \A s \in Requests \ {r} : todo'[s] = todo[s]

Alone(r) == \A s \in Requests \ {r} : Undisturbed(s)

(* A request that answers knows nothing any more.                          *)
LEMMA RespondFacts ==
  ASSUME LocalTypeOK, NEW r \in Requests, NEW how \in Answered,
         Respond(r, how), TodoOnly(r, {})
  PROVE  /\ LocalTypeOK' /\ pc'[r] = how /\ Holds(r)'
         /\ Alone(r) /\ Hidden' = Hidden \ {r}
<1>1. LocalTypeOK'
  BY NoneAssumption
     DEF LocalTypeOK, Respond, TodoOnly, Argument, NoArgument, Answered
<1>2. /\ pc'[r] = how /\ op'[r] = "none" /\ todo'[r] = {}
      /\ how \notin {"idle", "issue", "rotate", "guest", "save", "create",
                     "merge", "findrefresh", "logout", "findreset",
                     "createreset", "mail", "reset"}
  BY DEF LocalTypeOK, Respond, TodoOnly, Answered
<1>3. Alone(r)
  BY DEF LocalTypeOK, Respond, TodoOnly, Alone, Undisturbed
<1>4. Hidden' = Hidden \ {r}
  BY <1>2, <1>3 DEF Hidden, Alone, Undisturbed
<1>5. Holds(r)'
  BY <1>2 DEF Holds
<1>6. QED
  BY <1>1, <1>2, <1>3, <1>4, <1>5

(* the endpoints, and where their requests go on *)
Endpoints == {"login", "refresh", "guest", "register", "social", "logout",
              "forgot", "complete", "completeform"}
Beginnings == {"issue", "rotate", "guest", "save", "create", "merge",
               "findrefresh", "logout", "findreset", "reset"}

(* A request that has sent its first query.                                *)
LEMMA BeginFacts ==
  ASSUME LocalTypeOK, NEW r \in Requests, NEW a \in Argument,
         NEW u \in Row \cup {None},
         NEW what \in Endpoints, NEW where \in Beginnings,
         NEW left \in SUBSET Kinds, TodoOnly(r, left),
         seen' \in [Requests -> Account \cup {None}],
         \A s \in Requests \ {r} : seen'[s] = seen[s],
         Begin(r, what, a, u, where), pc[r] = "idle"
  PROVE  /\ LocalTypeOK' /\ Alone(r) /\ Hidden' \subseteq Hidden
         /\ pc'[r] = where /\ op'[r] = what /\ arg'[r] = a /\ me'[r] = u
         /\ todo'[r] = left
<1>1. LocalTypeOK'
  BY DEF LocalTypeOK, Begin, TodoOnly, Endpoints, Beginnings
<1>2. /\ pc'[r] = where /\ op'[r] = what /\ arg'[r] = a /\ me'[r] = u
      /\ todo'[r] = left
  BY DEF LocalTypeOK, Begin, TodoOnly
<1>3. Alone(r)
  BY DEF LocalTypeOK, Begin, TodoOnly, Alone, Undisturbed
<1>4. Hidden' \subseteq Hidden
  BY <1>2, <1>3 DEF Hidden, Alone, Undisturbed, Beginnings
<1>5. QED
  BY <1>1, <1>2, <1>3, <1>4

(* A request between two queries that change no table.                     *)
LEMMA GotoFacts ==
  ASSUME LocalTypeOK, NEW r \in Requests,
         NEW where \in {"logout", "createreset", "mail"},
         Goto(r, where), UNCHANGED todo, pc[r] \notin Answered
  PROVE  /\ LocalTypeOK' /\ Alone(r) /\ Hidden' \subseteq Hidden
         /\ pc'[r] = where /\ op'[r] = op[r] /\ arg'[r] = arg[r]
         /\ me'[r] = me[r] /\ seen'[r] = seen[r] /\ todo'[r] = todo[r]
<1>1. LocalTypeOK'
  BY DEF LocalTypeOK, Goto
<1>2. /\ pc'[r] = where /\ op'[r] = op[r] /\ arg'[r] = arg[r]
      /\ me'[r] = me[r] /\ seen'[r] = seen[r] /\ todo'[r] = todo[r]
  BY DEF LocalTypeOK, Goto
<1>3. Alone(r)
  BY DEF LocalTypeOK, Goto, Alone, Undisturbed
<1>4. Hidden' \subseteq Hidden
  BY <1>2, <1>3 DEF Hidden, Alone, Undisturbed
<1>5. QED
  BY <1>1, <1>2, <1>3, <1>4

(* A request that starts to insert its tokens.                             *)
LEMMA IssueFacts ==
  ASSUME LocalTypeOK, NEW r \in Requests, NEW u \in Row, Issue(r, u)
  PROVE  /\ LocalTypeOK' /\ Alone(r) /\ Hidden' = Hidden \ {r}
         /\ pc'[r] = "issue" /\ op'[r] = op[r] /\ arg'[r] = arg[r]
         /\ me'[r] = u /\ todo'[r] = Kinds
<1>1. LocalTypeOK'
  BY DEF LocalTypeOK, Issue
<1>2. /\ pc'[r] = "issue" /\ op'[r] = op[r] /\ arg'[r] = arg[r]
      /\ me'[r] = u /\ todo'[r] = Kinds
  BY DEF LocalTypeOK, Issue
<1>3. Alone(r)
  BY DEF LocalTypeOK, Issue, Alone, Undisturbed
<1>4. Hidden' = Hidden \ {r}
  BY <1>2, <1>3 DEF Hidden, Alone, Undisturbed
<1>5. QED
  BY <1>1, <1>2, <1>3, <1>4

-----------------------------------------------------------------------------
(* Steps that only read                                                    *)

(* Steps that change neither the tables nor what was logged out            *)
LEMMA QuietStep ==
  ASSUME IInv, NEW r \in Requests,
         UNCHANGED <<users, access, refresh, resets, floating, delivered,
                     loggedOut>>,
         doomed' \subseteq delivered, pc[r] \notin Answered,
         Alone(r), Hidden' \subseteq Hidden, Holds(r)'
  PROVE  TableInv' /\ LogoutInv' /\ RequestInv'
<1>1. Members' = Members
  BY DEF Members
<1>2. \A s \in Requests : pc[s] \in Answered => pc'[s] = pc[s]
  BY DEF Alone, Undisturbed
<1>3. TableInv'
  BY <1>1, <1>2 DEF IInv, TableInv, Answered
<1>4. LogoutInv'
  BY DEF IInv, LogoutInv
<1>5. ASSUME NEW s \in Requests \ {r}  PROVE Holds(s)'
  <2>1. Respects(s)
    BY <1>1 DEF Respects, Respected
  <2>2. QED
    BY <2>1, <1>5, HoldsKept DEF IInv, RequestInv, Alone
<1>6. QED
  BY <1>3, <1>4, <1>5 DEF RequestInv

LEMMA QuietIInv ==
  ASSUME IInv, NEW r \in Requests,
         UNCHANGED <<users, access, refresh, resets, expired, floating, doomed,
                     delivered, loggedOut, exchanged>>,
         mailed' \subseteq mailed \cup {r},
         pc[r] \notin Answered,
         LocalTypeOK', Alone(r), Hidden' \subseteq Hidden, Holds(r)'
  PROVE  IInv'
<1>1. TableInv' /\ LogoutInv' /\ RequestInv'
  BY QuietStep DEF IInv, TableInv
<1>2. TypeOK'
  <2>1. TypeOK
    BY DEF IInv
  <2>2. RestTypeOK'
    BY <2>1, TypeParts DEF RestTypeOK, Row
  <2>3. UsersTypeOK' /\ TokensTypeOK'
    BY <2>1, TypeParts DEF UsersTypeOK, TokensTypeOK
  <2>4. QED
    BY <2>2, <2>3, TypeParts
<1>3. QED
  BY <1>1, <1>2 DEF IInv

(* A request that is at a step that is not the insertion of tokens has no  *)
(* insertions left.                                                        *)
LEMMA NothingLeft ==
  ASSUME IInv, NEW r \in Requests, pc[r] # "issue", UNCHANGED todo
  PROVE  TodoOnly(r, {})
BY TypeParts DEF IInv, RequestInv, Holds, LocalTypeOK, TodoOnly

(* Steps that do nothing but answer                                        *)
LEMMA OnlyResponds ==
  ASSUME IInv, NEW r \in Requests, pc[r] \notin Answered \cup {"issue"},
         NEW how \in Answered, Respond(r, how),
         mailed' \subseteq mailed \cup {r},
         UNCHANGED <<tables, todo, delivered, loggedOut, exchanged>>
  PROVE  IInv'
<1>1. LocalTypeOK
  BY TypeParts DEF IInv
<1>2. TodoOnly(r, {})
  BY NothingLeft
<1>3. LocalTypeOK' /\ Alone(r) /\ Hidden' = Hidden \ {r} /\ Holds(r)'
  BY <1>1, <1>2, RespondFacts
<1>4. QED
  BY <1>3, QuietIInv DEF tables

(* The user found by a name or by credentials is a member. *)
LEMMA FoundIsMember ==
  ASSUME NEW u \in DOMAIN users, users[u].name # None \/ users[u].id # NoIds,
         TableInv
  PROVE  u \in Members /\ users[u].name # None
BY DEF TableInv, Members, Member, GuestOnly

(* Arguments have their type, also with one field set.                     *)
LEMMA NoArgumentType ==
  /\ NoArgument \in Argument
  /\ NoArgument.second = None
  /\ \A t \in Row : /\ [NoArgument EXCEPT !.token = t] \in Argument
                    /\ [NoArgument EXCEPT !.token = t].token = t
BY DEF NoArgument, Argument

(* The first step of a request, which finds something *)
LEMMA OnlyBegins ==
  ASSUME IInv, NEW r \in Requests, pc[r] = "idle",
         NEW a \in Argument, NEW u \in Row \cup {None},
         NEW what \in Endpoints, NEW where \in Beginnings,
         Begin(r, what, a, u, where), UNCHANGED <<tables, history>>,
         seen' \in [Requests -> Account \cup {None}],
         \A s \in Requests \ {r} : seen'[s] = seen[s],
         NEW left \in SUBSET Kinds, TodoOnly(r, left),
         (/\ pc'[r] = where /\ op'[r] = what /\ arg'[r] = a /\ me'[r] = u
          /\ todo'[r] = left /\ Hidden' \subseteq Hidden
          /\ Members' = Members)
            => Holds(r)'
  PROVE  IInv'
<1>1. LocalTypeOK
  BY TypeParts DEF IInv
<1>2. /\ LocalTypeOK' /\ Alone(r) /\ Hidden' \subseteq Hidden
      /\ pc'[r] = where /\ op'[r] = what /\ arg'[r] = a /\ me'[r] = u
      /\ todo'[r] = left
  BY <1>1, BeginFacts
<1>3. Members' = Members
  BY DEF Members, tables
<1>4. Holds(r)'
  BY <1>2, <1>3
<1>5. QED
  BY <1>2, <1>4, QuietIInv DEF tables, history, Answered

(* One lemma for each first query, ...                                     *)
LEMMA LoginStep ==
  ASSUME IInv, NEW r \in Requests, NEW n \in Names, NEW w \in Passwords,
         Login(r, n, w)
  PROVE  IInv'
<1>1. pc[r] = "idle" /\ UNCHANGED <<tables, history>>
  BY DEF Login
<1>2. CASE Respond(r, "rejected") /\ UNCHANGED todo
  BY <1>1, <1>2, OnlyResponds DEF Answered, history
<1>3. ASSUME NEW u \in DOMAIN users,
             users[u].name = n,
             Begin(r, "login", NoArgument, u, "issue"),
             todo' = [todo EXCEPT ![r] = Kinds], UNCHANGED seen
      PROVE  IInv'
  <2>1. u \in Members
    BY <1>3, FoundIsMember, NoneAssumption DEF IInv
  <2>2. u \in Row /\ LocalTypeOK
    BY TypeParts DEF IInv, UsersTypeOK, Table
  <2>3. TodoOnly(r, Kinds) /\ seen' \in [Requests -> Account \cup {None}]
    BY <2>2, <1>3 DEF TodoOnly, LocalTypeOK
  <2>4. (/\ pc'[r] = "issue" /\ op'[r] = "login" /\ me'[r] = u
         /\ todo'[r] = Kinds /\ Members' = Members)
          => Holds(r)'
    BY <2>1 DEF Holds, Kinds
  <2>5. QED
    BY <1>1, <1>3, <2>2, <2>3, <2>4, OnlyBegins, NoArgumentType
       DEF Endpoints, Beginnings
<1>4. QED
  BY <1>2, <1>3 DEF Login

(* A first step that finds something, and keeps seen as it is *)
LEMMA ReadsNothing ==
  ASSUME LocalTypeOK, UNCHANGED seen
  PROVE  /\ seen' \in [Requests -> Account \cup {None}]
         /\ \A r \in Requests : seen'[r] = seen[r]
BY DEF LocalTypeOK

LEMMA RegisterStep ==
  ASSUME IInv, NEW r \in Requests, NEW n \in Names, NEW w \in Passwords,
         Register(r, n, w)
  PROVE  IInv'
<1>1. pc[r] = "idle" /\ UNCHANGED <<tables, todo, history>>
  BY DEF Register
<1>2. CASE Respond(r, "rejected")
  BY <1>1, <1>2, OnlyResponds DEF Answered, history
<1> DEFINE a == [NoArgument EXCEPT !.name = n, !.password = w]
<1>3. CASE Begin(r, "register", a, None, "save") /\ UNCHANGED seen
  <2>1. a \in Argument /\ a.name # None /\ a.password # None
    BY NoneAssumption DEF NoArgument, Argument
  <2>2. LocalTypeOK /\ TodoOnly(r, {}) /\ r \notin DOMAIN users
    BY <1>1, TypeParts, NothingLeft DEF IInv, RequestInv, Holds
  <2>3. (/\ pc'[r] = "save" /\ op'[r] = "register" /\ arg'[r] = a
         /\ todo'[r] = {})
          => Holds(r)'
    BY <1>1, <2>1, <2>2 DEF Holds, tables
  <2> HIDE DEF a
  <2>4. QED
    BY <1>1, <1>3, <2>1, <2>2, <2>3, OnlyBegins, ReadsNothing
       DEF Endpoints, Beginnings
<1>4. QED
  BY <1>2, <1>3 DEF Register

LEMMA SocialStep ==
  ASSUME IInv, NEW r \in Requests, NEW p \in Providers, NEW i \in Ids,
         NEW n \in Names, Social(r, p, i, n)
  PROVE  IInv'
<1> DEFINE a == Vouched(p, i, n)
<1>1. pc[r] = "idle" /\ UNCHANGED <<tables, todo, history>>
  BY DEF Social
<1>2. /\ a \in Argument /\ a.name # None
      /\ a.id # None /\ a.provider \in Providers
  BY NoneAssumption DEF Vouched, NoArgument, Argument
<1>3. LocalTypeOK /\ TodoOnly(r, {}) /\ r \notin DOMAIN users
  BY <1>1, TypeParts, NothingLeft DEF IInv, RequestInv, Holds
<1>4. CASE Respond(r, "rejected")
  BY <1>1, <1>4, OnlyResponds DEF Answered, history
<1> HIDE DEF a
<1>5. CASE Begin(r, "social", a, None, "create") /\ UNCHANGED seen
  <2>1. (/\ pc'[r] = "create" /\ op'[r] = "social" /\ arg'[r] = a
         /\ todo'[r] = {})
          => Holds(r)'
    BY <1>1, <1>2, <1>3 DEF Holds, tables
  <2>2. QED
    BY <1>1, <1>2, <1>3, <1>5, <2>1, OnlyBegins, ReadsNothing
       DEF Endpoints, Beginnings
<1>6. ASSUME NEW u \in DOMAIN users, users[u].id[p] = i \/ users[u].name = n,
             Begin(r, "social", a, u, "merge"),
             seen' = [seen EXCEPT ![r] = users[u]]
      PROVE  IInv'
  <2>1. users[u].name # None \/ users[u].id # NoIds
    BY <1>6, NoneAssumption DEF NoIds
  <2>2. u \in Members /\ u \in Row /\ users[u] \in Account
    BY <2>1, FoundIsMember, TypeParts DEF IInv, UsersTypeOK, Table
  <2>3. /\ seen' \in [Requests -> Account \cup {None}] /\ seen'[r] = users[u]
        /\ \A s \in Requests \ {r} : seen'[s] = seen[s]
    BY <1>3, <1>6, <2>2 DEF LocalTypeOK
  <2>4. (/\ pc'[r] = "merge" /\ op'[r] = "social" /\ arg'[r] = a /\ me'[r] = u
         /\ todo'[r] = {} /\ Members' = Members)
          => Holds(r)'
    BY <1>2, <2>2, <2>3 DEF Holds
  <2>5. QED
    BY <1>1, <1>2, <1>3, <1>6, <2>2, <2>3, <2>4, OnlyBegins
       DEF Endpoints, Beginnings
<1>7. QED
  BY <1>4, <1>5, <1>6 DEF Social, a

LEMMA LogoutStep ==
  ASSUME IInv, NEW r \in Requests, NEW t \in delivered,
         NEW s \in delivered \cup {None}, Logout(r, t, s)
  PROVE  IInv'
<1> DEFINE a == [NoArgument EXCEPT !.token = t, !.second = s]
           where == IF s = None THEN "logout" ELSE "findrefresh"
<1>1. pc[r] = "idle" /\ UNCHANGED <<tables, todo, history>>
  BY DEF Logout
<1>2. LocalTypeOK /\ TodoOnly(r, {}) /\ t \in Row /\ s \in Row \cup {None}
  BY <1>1, TypeParts, NothingLeft DEF IInv, RestTypeOK
<1>3. a \in Argument /\ a.token = t /\ a.second = s
  BY <1>2 DEF NoArgument, Argument
<1>4. CASE Respond(r, "rejected")
  BY <1>1, <1>4, OnlyResponds DEF Answered, history
<1> HIDE DEF a
<1>5. CASE /\ t \in DOMAIN access
           /\ Begin(r, "logout", a, access[t], where) /\ UNCHANGED seen
  <2>1. access[t] \in Row \ Hidden
    BY <1>5, TypeParts DEF IInv, TableInv, TokensTypeOK, UsersTypeOK, Table
  <2>2. (/\ pc'[r] = where /\ op'[r] = "logout" /\ arg'[r] = a
         /\ me'[r] = access[t] /\ todo'[r] = {} /\ Hidden' \subseteq Hidden)
          => Holds(r)'
    BY <1>1, <1>3, <2>1 DEF Holds, OfUser, tables, history
  <2>3. where \in {"logout", "findrefresh"}
    OBVIOUS
  <2> HIDE DEF where
  <2>4. QED
    BY <1>1, <1>2, <1>3, <1>5, <2>1, <2>2, <2>3, OnlyBegins, ReadsNothing
       DEF Endpoints, Beginnings
<1>6. QED
  BY <1>4, <1>5 DEF Logout, a

(* ... and for each later one                                              *)
LEMMA FindRefreshStep ==
  ASSUME IInv, NEW r \in Requests, FindRefresh(r)
  PROVE  IInv'
<1>1. pc[r] = "findrefresh" /\ UNCHANGED <<tables, todo, history>>
  BY DEF FindRefresh
<1>2. CASE Respond(r, "rejected")
  BY <1>1, <1>2, OnlyResponds DEF Answered, history
<1>3. CASE OwnedBy(arg[r].second, me[r]) /\ Goto(r, "logout")
  <2>1. LocalTypeOK /\ Holds(r)
    BY TypeParts DEF IInv, RequestInv
  <2>2. /\ LocalTypeOK' /\ Alone(r) /\ Hidden' \subseteq Hidden
        /\ pc'[r] = "logout" /\ op'[r] = op[r] /\ arg'[r] = arg[r]
        /\ me'[r] = me[r] /\ todo'[r] = todo[r]
    BY <1>1, <1>3, <2>1, GotoFacts DEF Answered
  <2>3. Holds(r)'
    BY <1>1, <1>3, <2>1, <2>2 DEF Holds, OfUser, OwnedBy, tables, history
  <2>4. QED
    BY <1>1, <2>2, <2>3, QuietIInv DEF tables, history, Answered
<1>4. QED
  BY <1>1, <1>2, <1>3 DEF FindRefresh

LEMMA InitiateStep ==
  ASSUME IInv, NEW r \in Requests, NEW n \in Names, InitiatePasswordReset(r, n)
  PROVE  IInv'
<1>1. pc[r] = "idle" /\ UNCHANGED <<tables, todo, history>>
  BY DEF InitiatePasswordReset
<1>2. CASE Respond(r, "ok")
  BY <1>1, <1>2, OnlyResponds DEF Answered, history
<1>3. ASSUME NEW u \in DOMAIN users, users[u].name = n,
             Begin(r, "forgot", NoArgument, u, "findreset"), UNCHANGED seen
      PROVE  IInv'
  <2>1. u \in Members
    BY <1>3, FoundIsMember, NoneAssumption DEF IInv
  <2>2. u \in Row /\ LocalTypeOK /\ TodoOnly(r, {})
    BY <1>1, TypeParts, NothingLeft DEF IInv, UsersTypeOK, Table
  <2>3. (/\ pc'[r] = "findreset" /\ op'[r] = "forgot" /\ me'[r] = u
         /\ todo'[r] = {} /\ Members' = Members)
          => Holds(r)'
    BY <2>1 DEF Holds
  <2>4. QED
    BY <1>1, <1>3, <2>2, <2>3, OnlyBegins, NoArgumentType, ReadsNothing
       DEF Endpoints, Beginnings
<1>4. QED
  BY <1>2, <1>3 DEF InitiatePasswordReset

LEMMA FindResetStep ==
  ASSUME IInv, NEW r \in Requests, FindReset(r)
  PROVE  IInv'
<1>1. pc[r] = "findreset" /\ UNCHANGED <<tables, todo, history>>
  BY DEF FindReset
<1>2. CASE Respond(r, "ok")
  BY <1>1, <1>2, OnlyResponds DEF Answered, history
<1>3. CASE Goto(r, "createreset")
  <2>1. LocalTypeOK /\ Holds(r)
    BY TypeParts DEF IInv, RequestInv
  <2>2. /\ LocalTypeOK' /\ Alone(r) /\ Hidden' \subseteq Hidden
        /\ pc'[r] = "createreset" /\ op'[r] = op[r] /\ arg'[r] = arg[r]
        /\ me'[r] = me[r] /\ todo'[r] = todo[r]
    BY <1>1, <1>3, <2>1, GotoFacts DEF Answered
  <2>3. Members' = Members
    BY <1>1 DEF Members, tables
  <2>4. Holds(r)'
    BY <1>1, <2>1, <2>2, <2>3 DEF Holds, history
  <2>5. QED
    BY <1>1, <2>2, <2>4, QuietIInv DEF tables, history, Answered
<1>4. QED
  BY <1>2, <1>3 DEF FindReset

LEMMA SendPasswordForgotStep ==
  ASSUME IInv, NEW r \in Requests, SendPasswordForgot(r)
  PROVE  IInv'
<1>1. mailed' \subseteq mailed \cup {r}
  BY DEF SendPasswordForgot, Mail
<1>2. QED
  BY <1>1, OnlyResponds DEF SendPasswordForgot, Answered

LEMMA CompletePasswordResetStep ==
  ASSUME IInv, NEW r \in Requests, NEW how \in {"complete", "completeform"},
         NEW t \in mailed, NEW w \in Passwords, CompletePasswordReset(r, how, t, w)
  PROVE  IInv'
<1> DEFINE a == [NoArgument EXCEPT !.token = t, !.password = w]
<1>1. pc[r] = "idle" /\ UNCHANGED <<tables, todo, history>>
  BY DEF CompletePasswordReset
<1>2. CASE Respond(r, "rejected")
  BY <1>1, <1>2, OnlyResponds DEF Answered, history
<1>3. LocalTypeOK /\ TodoOnly(r, {}) /\ t \in Row
  BY <1>1, TypeParts, NothingLeft DEF IInv, RestTypeOK
<1>4. a \in Argument /\ a.password # None
  BY <1>3, NoneAssumption DEF NoArgument, Argument
<1> HIDE DEF a
<1>5. CASE /\ t \in DOMAIN resets
           /\ Begin(r, how, a, resets[t], "reset") /\ UNCHANGED seen
  <2>1. resets[t] \in Members /\ resets[t] \in Row
    BY <1>5, TypeParts DEF IInv, TableInv, TokensTypeOK, UsersTypeOK, Table
  <2>2. (/\ pc'[r] = "reset" /\ op'[r] = how /\ arg'[r] = a
         /\ me'[r] = resets[t] /\ todo'[r] = {} /\ Members' = Members)
          => Holds(r)'
    BY <1>4, <2>1 DEF Holds
  <2>3. QED
    BY <1>1, <1>3, <1>4, <1>5, <2>1, <2>2, OnlyBegins, ReadsNothing
       DEF Endpoints, Beginnings
<1>6. QED
  BY <1>2, <1>5 DEF CompletePasswordReset, a

(* A query that fails changes nothing but its request.                     *)
LEMMA FailsStep ==
  ASSUME IInv, NEW r \in Requests, Fails(r)
  PROVE  IInv'
BY OnlyResponds DEF Fails, Answered, history

-----------------------------------------------------------------------------
(* Steps that change tables                                                *)

(* A row for another request, which nobody knows yet, is no matter.        *)
LEMMA PutRespected ==
  ASSUME NEW table, NEW r \in Requests, r \notin delivered, NEW x,
         NEW s \in Requests \ {r}
  PROVE  Respected(table, Put(table, r, x), s)
BY DEF Respected, OfUser, Has, Put

(* Deleting delivered tokens does not touch those just inserted.           *)
LEMMA WithoutRespected ==
  ASSUME TableInv, NEW table, NEW S, S \subseteq delivered, NEW s \in Requests
  PROVE  Respected(table, Without(table, S), s)
<1>1. pc[s] = "issue" => s \notin S
  BY DEF TableInv
<1>2. QED
  BY <1>1 DEF Respected, OfUser, Has, Without

LEMMA SameRespected ==
  ASSUME NEW table, NEW s
  PROVE  Respected(table, table, s)
BY DEF Respected

(* All requests are right when this one is and others are respected.       *)
LEMMA OthersHold ==
  ASSUME IInv, NEW r \in Requests, Alone(r), Holds(r)',
         \A s \in Requests \ {r} : Respects(s)
  PROVE  RequestInv'
BY HoldsKept DEF IInv, RequestInv, Alone

(* Nothing but the tables changes. *)
LEMMA AllHold ==
  ASSUME IInv, UNCHANGED <<pc, locals>>, \A s \in Requests : Respects(s)
  PROVE  RequestInv'
BY HoldsKept DEF IInv, RequestInv, Undisturbed, locals

(* refresh: an expired token is doomed, a valid one about to be used.      *)
LEMMA RefreshStep ==
  ASSUME IInv, NEW r \in Requests, NEW t \in delivered, Refresh(r, t)
  PROVE  IInv'
<1>1. /\ pc[r] = "idle"
      /\ UNCHANGED <<users, access, refresh, resets, expired, floating, todo,
                     history>>
  BY DEF Refresh
<1>2. LocalTypeOK /\ TodoOnly(r, {}) /\ t \in Row
  BY <1>1, TypeParts, NothingLeft DEF IInv, RestTypeOK
<1>3. CASE Respond(r, "rejected") /\ UNCHANGED doomed
  BY <1>1, <1>3, OnlyResponds DEF Answered, history, tables
<1>4. CASE Respond(r, "rejected") /\ doomed' = doomed \cup {t}
  <2>1. LocalTypeOK' /\ Holds(r)' /\ Alone(r) /\ Hidden' = Hidden \ {r}
    BY <1>2, <1>4, RespondFacts DEF Answered
  <2>2. doomed' \subseteq delivered
    BY <1>4 DEF IInv, TableInv
  <2>3. TableInv' /\ LogoutInv' /\ RequestInv'
    BY <1>1, <2>1, <2>2, QuietStep DEF history, Answered
  <2>4. TypeOK'
    <3>1. UsersTypeOK /\ TokensTypeOK /\ RestTypeOK
      BY TypeParts DEF IInv
    <3>2. UsersTypeOK' /\ TokensTypeOK'
      BY <1>1, <3>1 DEF UsersTypeOK, TokensTypeOK
    <3>3. RestTypeOK'
      BY <1>1, <1>2, <1>4, <3>1 DEF RestTypeOK, history
    <3>4. QED
      BY <2>1, <3>2, <3>3, TypeParts
  <2>5. QED
    BY <2>3, <2>4 DEF IInv
<1> DEFINE a == [NoArgument EXCEPT !.token = t]
<1>5. CASE /\ t \in DOMAIN refresh
           /\ Begin(r, "refresh", a, refresh[t], "rotate")
           /\ UNCHANGED <<seen, doomed>>
  <2>1. refresh[t] \in Members /\ refresh[t] \in Row
    BY <1>5, TypeParts DEF IInv, TableInv, TokensTypeOK, UsersTypeOK, Table
  <2>2. a \in Argument /\ a.token = t
    BY <1>2, NoArgumentType
  <2> HIDE DEF a
  <2>3. (/\ pc'[r] = "rotate" /\ op'[r] = "refresh" /\ arg'[r] = a
         /\ me'[r] = refresh[t] /\ todo'[r] = {} /\ Members' = Members)
          => Holds(r)'
    BY <1>1, <2>1, <2>2 DEF Holds, history
  <2>4. UNCHANGED <<tables, history>>
    BY <1>1, <1>5 DEF tables
  <2>5. QED
    BY <1>1, <1>2, <1>5, <2>1, <2>2, <2>3, <2>4, OnlyBegins, ReadsNothing
       DEF Endpoints, Beginnings
<1>6. QED
  BY <1>3, <1>4, <1>5 DEF Refresh

(* The tokens of requests that are inserting are not handed out yet. *)
LEMMA NotDelivered ==
  ASSUME IInv, NEW r \in Requests, pc[r] # "ok"
  PROVE  r \notin delivered
BY DEF IInv, TableInv

LEMMA RotateStep ==
  ASSUME IInv, NEW r \in Requests, Rotate(r)
  PROVE  IInv'
<1>1. /\ pc[r] = "rotate" /\ Issue(r, me[r])
      /\ refresh' = Without(refresh, {arg[r].token})
      /\ UNCHANGED <<users, access, resets, expired, floating, doomed, history>>
  BY DEF Rotate
<1>2. /\ me[r] \in Members /\ arg[r].token \in delivered /\ op[r] = "refresh"
      /\ r \notin Hidden
  BY <1>1 DEF IInv, RequestInv, Holds, Hidden
<1>3. UsersTypeOK /\ TokensTypeOK /\ LocalTypeOK /\ RestTypeOK /\ TableInv
  BY TypeParts DEF IInv
<1>4. /\ LocalTypeOK' /\ Alone(r) /\ Hidden' = Hidden
      /\ pc'[r] = "issue" /\ op'[r] = op[r] /\ arg'[r] = arg[r]
      /\ me'[r] = me[r] /\ todo'[r] = Kinds
  BY <1>1, <1>2, <1>3, IssueFacts DEF UsersTypeOK, Table, Members
<1>5. /\ Table(refresh', DOMAIN users) /\ DOMAIN refresh' \subseteq DOMAIN refresh
      /\ \A t \in DOMAIN refresh' : refresh'[t] = refresh[t]
  BY <1>1, <1>3 DEF TokensTypeOK, Table, Without
<1>6. TypeOK'
  <2>1. UsersTypeOK' /\ RestTypeOK'
    BY <1>1, <1>3 DEF UsersTypeOK, RestTypeOK, history
  <2>2. TokensTypeOK'
    BY <1>1, <1>3, <1>5 DEF TokensTypeOK
  <2>3. QED
    BY <1>4, <2>1, <2>2, TypeParts
<1>7. Members' = Members
  BY <1>1 DEF Members
<1>8. TableInv'
  <2>1. \A s \in Requests : pc[s] \in Answered => pc'[s] = pc[s]
    BY <1>1, <1>4 DEF Alone, Undisturbed, Answered
  <2>2. \A f \in floating : pc'[f[2]] = "failed"
    BY <1>3, <2>1 DEF TableInv, Answered
  <2>3. \A s \in Requests : s \in delivered => pc'[s] = "ok"
    BY <1>3, <2>1 DEF TableInv, Answered
  <2>4. /\ UNCHANGED <<users, access, resets, floating, doomed, delivered>>
        /\ Members' = Members /\ Hidden' = Hidden
    BY <1>1, <1>4, <1>7 DEF history
  <2>5. \A t \in DOMAIN refresh' : refresh'[t] \in Members
    BY <1>3, <1>5 DEF TableInv
  <2>6. QED
    BY <1>3, <2>2, <2>3, <2>4, <2>5 DEF TableInv
<1>9. LogoutInv'
  BY <1>1, <1>4, <1>5 DEF IInv, LogoutInv, history
<1>10. Holds(r)'
  BY <1>1, <1>2, <1>4, <1>7 DEF Holds, Kinds, history
<1>11. ASSUME NEW s \in Requests \ {r}  PROVE Respects(s)
  <2>1. Respected(refresh, refresh', s)
    BY <1>1, <1>2, <1>3, WithoutRespected
  <2>2. QED
    BY <1>1, <1>4, <1>7, <2>1, SameRespected DEF Respects, history
<1>12. QED
  BY <1>4, <1>6, <1>8, <1>9, <1>10, <1>11, OthersHold DEF IInv

(* A step of no request: what requests know of themselves stays.           *)
LEMMA LocalsKept ==
  ASSUME LocalTypeOK, UNCHANGED <<pc, locals>>
  PROVE  LocalTypeOK' /\ Hidden' = Hidden
BY DEF LocalTypeOK, Hidden, locals

LEMMA DeleteDoomedStep ==
  ASSUME IInv, NEW t \in doomed, DeleteDoomed(t)
  PROVE  IInv'
<1>1. /\ UNCHANGED <<users, access, resets, expired, floating, pc, locals,
                     history>>
      /\ doomed' = doomed \ {t}
      /\ refresh' = Without(refresh, {t}) \/ refresh' = refresh
  BY DEF DeleteDoomed
<1>2. UsersTypeOK /\ TokensTypeOK /\ LocalTypeOK /\ RestTypeOK /\ TableInv
  BY TypeParts DEF IInv
<1>3. LocalTypeOK' /\ Hidden' = Hidden
  BY <1>1, <1>2, LocalsKept
<1>4. Members' = Members /\ t \in delivered
  BY <1>1, <1>2 DEF Members, TableInv
<1>5. /\ Table(refresh', DOMAIN users) /\ DOMAIN refresh' \subseteq DOMAIN refresh
      /\ \A s \in DOMAIN refresh' : refresh'[s] = refresh[s]
  BY <1>1, <1>2 DEF TokensTypeOK, Table, Without
<1>6. TypeOK'
  <2>1. UsersTypeOK' /\ RestTypeOK'
    BY <1>1, <1>2 DEF UsersTypeOK, RestTypeOK, history
  <2>2. TokensTypeOK'
    BY <1>1, <1>2, <1>5 DEF TokensTypeOK
  <2>3. QED
    BY <1>3, <2>1, <2>2, TypeParts
<1>7. TableInv'
  BY <1>1, <1>2, <1>3, <1>4, <1>5 DEF TableInv, history
<1>8. LogoutInv'
  BY <1>1, <1>3, <1>5 DEF IInv, LogoutInv, history
<1>9. ASSUME NEW s \in Requests  PROVE Respects(s)
  <2>1. Respected(refresh, refresh', s)
    BY <1>1, <1>2, <1>4, WithoutRespected, SameRespected
  <2>2. QED
    BY <1>1, <1>3, <1>4, <2>1, SameRespected DEF Respects, history
<1>10. QED
  BY <1>1, <1>6, <1>7, <1>8, <1>9, AllHold DEF IInv

(* Where requests insert tokens: of their own, for members.                *)
Inserted(old, new, r, u) == new = old \/ new = Put(old, r, u)

(* The users may change, but not which of them are members.                *)
UsersStay ==
  /\ UsersTypeOK' /\ DOMAIN users' = DOMAIN users /\ Members' = Members
  /\ \A v \in DOMAIN users' : Member(users'[v]) \/ GuestOnly(users'[v])

(* Users that do not change stay what they are.                            *)
LEMMA SameUsersStay ==
  ASSUME IInv, UNCHANGED users
  PROVE  UsersStay
BY TypeParts DEF IInv, TableInv, UsersStay, UsersTypeOK, Members

(* At most two rows of a token are inserted, both for a known user.        *)
LEMMA InsertedFacts ==
  ASSUME IInv, NEW r \in Requests, r \notin delivered,
         NEW u \in DOMAIN users, u \notin Hidden',
         UsersStay, UNCHANGED <<doomed, loggedOut>>,
         Table(resets', DOMAIN users),
         \A t \in DOMAIN resets' : resets'[t] \in Members,
         Inserted(access, access', r, u),
         \/ refresh' = refresh
         \/ Inserted(refresh, refresh', r, u) /\ u \in Members,
         Hidden' \subseteq Hidden, delivered \subseteq delivered',
         \A f \in floating' : f[3] \in Members /\ f[2] \in Requests
                                 /\ pc'[f[2]] = "failed",
         \A s \in Requests : s \in delivered' => pc'[s] = "ok"
  PROVE  /\ UsersTypeOK' /\ TokensTypeOK' /\ TableInv' /\ LogoutInv'
         /\ Members' = Members
         /\ \A s \in Requests \ {r} : Respects(s)
<1>1. UsersTypeOK /\ TokensTypeOK /\ TableInv /\ LogoutInv
  BY TypeParts DEF IInv
<1>2. Members' = Members /\ UsersTypeOK' /\ DOMAIN users' = DOMAIN users
  BY DEF UsersStay
<1>3. r \in Row
  BY DEF Row
<1>4. TokensTypeOK'
  <2>1. Table(access', DOMAIN users) /\ Table(refresh', DOMAIN users)
    BY <1>1, <1>3, PutType DEF TokensTypeOK, Inserted
  <2>2. QED
    BY <1>2, <2>1 DEF TokensTypeOK
<1>5. /\ \A t \in DOMAIN refresh' :
           \/ t = r /\ refresh'[t] = u /\ u \in Members
           \/ t \in DOMAIN refresh /\ refresh'[t] = refresh[t]
      /\ \A t \in DOMAIN access' :
           \/ t = r /\ access'[t] = u
           \/ t \in DOMAIN access /\ access'[t] = access[t]
  BY DEF Inserted, Put
<1>6. TableInv'
  BY <1>1, <1>2, <1>5 DEF TableInv, UsersStay
<1>7. LogoutInv'
  BY <1>1, <1>2, <1>5 DEF LogoutInv
<1>8. ASSUME NEW s \in Requests \ {r}  PROVE Respects(s)
  <2>1. Respected(access, access', s) /\ Respected(refresh, refresh', s)
    BY PutRespected, SameRespected DEF Inserted
  <2>2. QED
    BY <1>2, <2>1 DEF Respects
<1>9. QED
  BY <1>2, <1>4, <1>6, <1>7, <1>8

(* Inserting tokens of a member leaves everything else as it is.           *)
LEMMA MemberInserted ==
  ASSUME IInv, NEW r \in Requests, r \notin delivered, NEW u \in Members,
         UNCHANGED <<users, resets, doomed, loggedOut>>,
         Inserted(access, access', r, u), Inserted(refresh, refresh', r, u),
         Hidden' \subseteq Hidden, delivered \subseteq delivered',
         \A f \in floating' : f[3] \in Members /\ f[2] \in Requests
                                 /\ pc'[f[2]] = "failed",
         \A s \in Requests : s \in delivered' => pc'[s] = "ok"
  PROVE  /\ UsersTypeOK' /\ TokensTypeOK' /\ TableInv' /\ LogoutInv'
         /\ Members' = Members
         /\ \A s \in Requests \ {r} : Respects(s)
<1>1. /\ Table(resets', DOMAIN users) /\ u \in DOMAIN users /\ u \notin Hidden
      /\ \A t \in DOMAIN resets' : resets'[t] \in Members
  BY TypeParts DEF IInv, TokensTypeOK, TableInv, Members
<1>2. UsersStay
  BY SameUsersStay
<1>3. QED
  BY <1>1, <1>2, InsertedFacts

LEMMA FloatingInsertStep ==
  ASSUME IInv, NEW f \in floating, FloatingInsert(f)
  PROVE  IInv'
<1>1. /\ floating' = floating \ {f}
      /\ Inserted(access, access', f[2], f[3])
      /\ Inserted(refresh, refresh', f[2], f[3])
      /\ UNCHANGED <<users, resets, expired, doomed, pc, locals, history>>
  BY DEF FloatingInsert, Inserted
<1>2. LocalTypeOK /\ RestTypeOK /\ TableInv
  BY TypeParts DEF IInv
<1>3. /\ f[2] \in Requests /\ f[3] \in Members /\ pc[f[2]] = "failed"
      /\ f[2] \notin delivered
  BY <1>2 DEF TableInv
<1>4. LocalTypeOK' /\ Hidden' = Hidden
  BY <1>1, <1>2, LocalsKept
<1>5. /\ floating' \subseteq Kinds \X Row \X Row
      /\ \A g \in floating' : g[3] \in Members /\ g[2] \in Requests
                                 /\ pc'[g[2]] = "failed"
      /\ \A s \in Requests : s \in delivered' => pc'[s] = "ok"
  BY <1>1, <1>2 DEF RestTypeOK, TableInv, history
<1>6. /\ UsersTypeOK' /\ TokensTypeOK' /\ TableInv' /\ LogoutInv'
      /\ \A s \in Requests \ {f[2]} : Respects(s)
  BY <1>1, <1>3, <1>4, <1>5, MemberInserted DEF history
<1>7. RestTypeOK'
  BY <1>1, <1>2, <1>5 DEF RestTypeOK, history
<1>8. RequestInv'
  <2>1. Alone(f[2])
    BY <1>1 DEF Alone, Undisturbed, locals
  <2>2. Holds(f[2])'
    <3>1. Holds(f[2])
      BY <1>3 DEF IInv, RequestInv
    <3>2. pc'[f[2]] = "failed" /\ UNCHANGED <<todo, op, arg, delivered>>
      BY <1>1, <1>3 DEF locals, history
    <3>3. QED
      BY <1>3, <3>1, <3>2 DEF Holds
  <2>3. QED
    BY <1>3, <1>6, <2>1, <2>2, OthersHold
<1>9. QED
  BY <1>4, <1>6, <1>7, <1>8, TypeParts DEF IInv

LEMMA ExpireStep ==
  ASSUME IInv, NEW table \in {"access", "refresh", "reset"}, NEW t \in Row,
         Expire(table, t)
  PROVE  IInv'
<1>1. /\ UNCHANGED <<users, access, refresh, resets, floating, doomed, pc,
                     locals, history>>
      /\ expired' = expired \cup {<<table, t>>}
  BY DEF Expire
<1>2. TypeOK'
  BY <1>1 DEF IInv, TypeOK, locals, history
<1>3. Members' = Members /\ Hidden' = Hidden
  BY <1>1 DEF Members, Hidden
<1>4. TableInv' /\ LogoutInv'
  BY <1>1, <1>3 DEF IInv, TableInv, LogoutInv, history
<1>5. \A s \in Requests : Respects(s)
  BY <1>1, <1>3, SameRespected DEF Respects, history
<1>6. QED
  BY <1>1, <1>2, <1>4, <1>5, AllHold DEF IInv

(* The insertions of generateAuthTokens, each on its own                   *)
LEMMA InsertStep ==
  ASSUME IInv, NEW r \in Requests, NEW k \in Kinds, Insert(r, k)
  PROVE  IInv'
<1>1. /\ k \in todo[r] /\ todo' = [todo EXCEPT ![r] = @ \ {k}]
      /\ access' = IF k = "access" THEN Put(access, r, me[r]) ELSE access
      /\ refresh' = IF k = "refresh" THEN Put(refresh, r, me[r]) ELSE refresh
      /\ UNCHANGED <<users, resets, expired, floating, doomed, mailed,
                     loggedOut>>
  BY DEF Insert
<1>2. LocalTypeOK /\ RestTypeOK /\ TableInv /\ Holds(r)
  BY TypeParts DEF IInv, RequestInv
<1>3. pc[r] = "issue" /\ me[r] \in Members /\ r \notin delivered
  BY <1>1, <1>2, NotDelivered DEF Holds
<1>4. Inserted(access, access', r, me[r]) /\ Inserted(refresh, refresh', r, me[r])
  BY <1>1 DEF Inserted
<1>5. TodoOnly(r, todo[r] \ {k})
  BY <1>1, <1>2 DEF TodoOnly, LocalTypeOK
<1>6. CASE todo'[r] = {}
  <2>1. Deliver(r)
    BY <1>6 DEF Insert, AllSettled
  <2>2. /\ LocalTypeOK' /\ pc'[r] = "ok" /\ Holds(r)' /\ Alone(r)
        /\ Hidden' = Hidden \ {r}
    BY <1>2, <1>5, <1>6, <2>1, RespondFacts DEF Deliver, TodoOnly, Answered
  <2>3. delivered' = delivered \cup {r}
    BY <2>1 DEF Deliver
  <2>4. /\ \A f \in floating' : f[3] \in Members /\ f[2] \in Requests
                                   /\ pc'[f[2]] = "failed"
        /\ \A s \in Requests : s \in delivered' => pc'[s] = "ok"
    BY <1>1, <1>2, <1>3, <2>2, <2>3 DEF TableInv, Alone, Undisturbed
  <2>5. /\ UsersTypeOK' /\ TokensTypeOK' /\ TableInv' /\ LogoutInv'
        /\ \A s \in Requests \ {r} : Respects(s)
    BY <1>1, <1>2, <1>3, <1>4, <2>2, <2>3, <2>4, MemberInserted DEF RestTypeOK
  <2>6. RestTypeOK'
    <3>1. op[r] = "refresh" => arg[r].token \in Row
      BY <1>2 DEF Holds, RestTypeOK
    <3>2. exchanged' \subseteq Row \X Requests
      BY <1>2, <2>1, <3>1 DEF Deliver, RestTypeOK
    <3>3. QED
      BY <1>1, <1>2, <2>3, <3>2 DEF RestTypeOK, Row
  <2>7. QED
    BY <2>2, <2>5, <2>6, OthersHold, TypeParts DEF IInv
<1>7. CASE todo'[r] # {}
  <2>1. UNCHANGED <<pc, op, arg, me, seen, delivered, exchanged>>
    BY <1>7 DEF Insert, AllSettled
  <2>2. LocalTypeOK' /\ Alone(r) /\ Hidden' = Hidden
    BY <1>2, <1>5, <2>1
       DEF LocalTypeOK, TodoOnly, Alone, Undisturbed, Hidden
  <2>3. /\ UsersTypeOK' /\ TokensTypeOK' /\ TableInv' /\ LogoutInv'
        /\ Members' = Members /\ \A s \in Requests \ {r} : Respects(s)
    BY <1>1, <1>2, <1>3, <1>4, <2>1, <2>2, MemberInserted DEF RestTypeOK, TableInv
  <2>4. RestTypeOK'
    BY <1>1, <1>2, <2>1 DEF RestTypeOK
  <2>5. Holds(r)'
    <3>1. /\ todo'[r] = todo[r] \ {k}
          /\ \A u \in {me[r]} : k = "access" => Has(access', r, u)
          /\ \A u \in {me[r]} : k = "refresh" => Has(refresh', r, u)
      BY <1>1, <1>5 DEF TodoOnly, Has, Put
    <3>2. /\ "access" \notin todo'[r] => Has(access', r, me[r])
          /\ "refresh" \notin todo'[r] => Has(refresh', r, me[r])
      BY <1>1, <1>2, <1>3, <3>1 DEF Holds, Kinds
    <3>3. QED
      BY <1>2, <1>3, <1>7, <2>1, <2>3, <3>2 DEF Holds, Has
  <2>6. QED
    BY <2>2, <2>3, <2>4, <2>5, OthersHold, TypeParts DEF IInv
<1>8. QED
  BY <1>6, <1>7

LEMMA InsertFailsStep ==
  ASSUME IInv, NEW r \in Requests, NEW k \in Kinds, InsertFails(r, k)
  PROVE  IInv'
<1>1. /\ k \in todo[r] /\ todo' = [todo EXCEPT ![r] = {}]
      /\ Respond(r, "failed")
      /\ floating' = floating \cup {<<other, r, me[r]>> : other \in todo[r] \ {k}}
      /\ UNCHANGED <<users, access, refresh, resets, expired, doomed, history>>
  BY DEF InsertFails
<1>2. LocalTypeOK /\ RestTypeOK /\ TableInv /\ Holds(r)
  BY TypeParts DEF IInv, RequestInv
<1>3. pc[r] = "issue" /\ me[r] \in Members /\ r \notin delivered /\ me[r] \in Row
  <2>1. pc[r] = "issue" /\ me[r] \in Members /\ r \notin delivered
    BY <1>1, <1>2, NotDelivered DEF Holds
  <2>2. QED
    BY <2>1, TypeParts DEF IInv, UsersTypeOK, Table, Members
<1>4. TodoOnly(r, {})
  BY <1>1, <1>2 DEF TodoOnly, LocalTypeOK
<1>5. /\ LocalTypeOK' /\ pc'[r] = "failed" /\ Holds(r)' /\ Alone(r)
      /\ Hidden' = Hidden \ {r}
  BY <1>1, <1>2, <1>4, RespondFacts DEF Answered
<1>6. floating' \subseteq Kinds \X Row \X Row
  BY <1>1, <1>2, <1>3 DEF RestTypeOK, LocalTypeOK, Row
<1>7. \A f \in floating' : f[3] \in Members /\ f[2] \in Requests
                              /\ pc'[f[2]] = "failed"
  BY <1>1, <1>2, <1>3, <1>5 DEF TableInv, Alone, Undisturbed
<1>8. \A s \in Requests : s \in delivered' => pc'[s] = "ok"
  BY <1>1, <1>2, <1>3, <1>5 DEF TableInv, Alone, Undisturbed, history
<1>9. /\ UsersTypeOK' /\ TokensTypeOK' /\ TableInv' /\ LogoutInv'
      /\ \A s \in Requests \ {r} : Respects(s)
  BY <1>1, <1>3, <1>5, <1>6, <1>7, <1>8, MemberInserted DEF Inserted, history
<1>10. RestTypeOK'
  BY <1>1, <1>2, <1>6 DEF RestTypeOK, history
<1>11. QED
  BY <1>5, <1>9, <1>10, OthersHold, TypeParts DEF IInv

-----------------------------------------------------------------------------
(* Steps that change users                                                 *)

(* A request creates the user that is named after it. *)
LEMMA UserCreated ==
  ASSUME IInv, NEW r \in Requests, r \in Hidden, r \notin DOMAIN users,
         NEW a \in Account, Member(a) \/ GuestOnly(a),
         users' = Put(users, r, a),
         UNCHANGED <<access, refresh, resets, floating, doomed, delivered,
                     loggedOut>>,
         Alone(r), Hidden' \subseteq Hidden, Member(a) => r \notin Hidden',
         pc'[r] \notin Answered
  PROVE  /\ UsersTypeOK' /\ TokensTypeOK' /\ TableInv' /\ LogoutInv'
         /\ r \in DOMAIN users' /\ (Member(a) => r \in Members')
         /\ \A s \in Requests \ {r} : Respects(s)
<1>1. UsersTypeOK /\ TokensTypeOK /\ TableInv /\ LogoutInv
  BY TypeParts DEF IInv
<1>2. /\ DOMAIN users' = DOMAIN users \cup {r}
      /\ users'[r] = a /\ \A u \in DOMAIN users : users'[u] = users[u]
  BY DEF Put
<1>3. Members' = Members \cup (IF Member(a) THEN {r} ELSE {})
  BY <1>2 DEF Members
<1>4. pc[r] \notin Answered
  BY DEF Hidden, Answered
<1>5. UsersTypeOK'
  BY <1>1, PutType DEF UsersTypeOK, Row
<1>6. TokensTypeOK'
  BY <1>1, <1>2, TableGrows DEF TokensTypeOK
<1>7. TableInv'
  <2>1. \A u \in DOMAIN users' : Member(users'[u]) \/ GuestOnly(users'[u])
    BY <1>1, <1>2 DEF TableInv
  <2>2. \A f \in floating : pc[f[2]] = "failed" => pc'[f[2]] = "failed"
    BY <1>1, <1>4 DEF TableInv, Alone, Undisturbed, Answered
  <2>3. \A s \in Requests : s \in delivered => pc'[s] = "ok"
    BY <1>1, <1>4 DEF TableInv, Alone, Undisturbed, Answered
  <2>4. QED
    BY <1>1, <1>3, <2>1, <2>2, <2>3 DEF TableInv
<1>8. LogoutInv'
  BY <1>1, <1>2 DEF LogoutInv
<1>9. ASSUME NEW s \in Requests \ {r}  PROVE Respects(s)
  BY <1>2, <1>3, SameRespected DEF Respects
<1>10. QED
  BY <1>2, <1>3, <1>5, <1>6, <1>7, <1>8, <1>9

(* Users are inserted by the requests that nobody knows yet, ...           *)
LEMMA GuestStep ==
  ASSUME IInv, NEW r \in Requests, Guest(r)
  PROVE  IInv'
<1> DEFINE a == [name |-> None, password |-> None, id |-> NoIds, active |-> TRUE]
<1>1. /\ pc[r] = "idle" /\ users' = Put(users, r, a)
      /\ Begin(r, "guest", NoArgument, r, "guest")
      /\ UNCHANGED <<access, refresh, resets, expired, floating, doomed, seen,
                     todo, history>>
  BY DEF Guest
<1>2. /\ LocalTypeOK /\ RestTypeOK /\ TodoOnly(r, {}) /\ r \notin DOMAIN users
      /\ r \in Row /\ r \in Hidden
  BY <1>1, TypeParts, NothingLeft
     DEF IInv, RequestInv, Holds, Row, Hidden
<1>3. a \in Account /\ GuestOnly(a) /\ ~Member(a)
  BY DEF Account, NoIds, GuestOnly, Member
<1> HIDE DEF a
<1>4. /\ LocalTypeOK' /\ Alone(r) /\ Hidden' \subseteq Hidden
      /\ pc'[r] = "guest" /\ op'[r] = "guest" /\ me'[r] = r
      /\ todo'[r] = {}
  BY <1>1, <1>2, BeginFacts, NoArgumentType, ReadsNothing
     DEF Endpoints, Beginnings
<1>5. /\ UsersTypeOK' /\ TokensTypeOK' /\ TableInv' /\ LogoutInv'
      /\ r \in DOMAIN users' /\ \A s \in Requests \ {r} : Respects(s)
  BY <1>1, <1>2, <1>3, <1>4, UserCreated DEF history, Answered
<1>6. RestTypeOK'
  BY <1>1, <1>2 DEF RestTypeOK, history
<1>7. Holds(r)'
  BY <1>4, <1>5 DEF Holds
<1>8. QED
  BY <1>4, <1>5, <1>6, <1>7, OthersHold, TypeParts DEF IInv

(* saveUser and createSocial, when no unique key is violated *)
LEMMA MemberCreated ==
  ASSUME IInv, NEW r \in Requests, pc[r] \in {"save", "create"},
         NEW a \in Account, Member(a), users' = Put(users, r, a), Issue(r, r),
         UNCHANGED <<access, refresh, resets, expired, floating, doomed, history>>
  PROVE  IInv'
<1>1. /\ LocalTypeOK /\ RestTypeOK /\ r \notin DOMAIN users
      /\ r \in Row /\ r \in Hidden /\ Holds(r)
  BY TypeParts DEF IInv, RequestInv, Holds, Row, Hidden
<1>2. /\ LocalTypeOK' /\ Alone(r) /\ Hidden' = Hidden \ {r}
      /\ pc'[r] = "issue" /\ op'[r] = op[r] /\ arg'[r] = arg[r]
      /\ me'[r] = r /\ todo'[r] = Kinds
  BY <1>1, IssueFacts
<1>3. /\ UsersTypeOK' /\ TokensTypeOK' /\ TableInv' /\ LogoutInv'
      /\ r \in Members' /\ \A s \in Requests \ {r} : Respects(s)
  BY <1>1, <1>2, UserCreated DEF history, Answered
<1>4. RestTypeOK'
  BY <1>1 DEF RestTypeOK, history
<1>5. Holds(r)'
  BY <1>1, <1>2, <1>3 DEF Holds, Kinds, history
<1>6. QED
  BY <1>2, <1>3, <1>4, <1>5, OthersHold, TypeParts DEF IInv

LEMMA SaveUserStep ==
  ASSUME IInv, NEW r \in Requests, SaveUser(r)
  PROVE  IInv'
<1> DEFINE a == [name |-> arg[r].name, password |-> arg[r].password,
                 id |-> NoIds, active |-> TRUE]
<1>1. /\ pc[r] = "save"
      /\ UNCHANGED <<access, refresh, resets, expired, floating, doomed, history>>
  BY DEF SaveUser
<1>2. CASE Respond(r, "failed") /\ UNCHANGED <<users, todo>>
  BY <1>1, <1>2, OnlyResponds DEF Answered, history, tables
<1>3. CASE users' = Put(users, r, a) /\ Issue(r, r)
  <2>1. arg[r] \in Argument /\ arg[r].name # None /\ arg[r].password # None
    BY <1>1, TypeParts DEF IInv, RequestInv, Holds, LocalTypeOK
  <2>2. a \in Account /\ Member(a)
    BY <2>1 DEF Account, Argument, NoIds, Member, IsGuest
  <2> HIDE DEF a
  <2>3. QED
    BY <1>1, <1>3, <2>2, MemberCreated
<1>4. QED
  BY <1>2, <1>3 DEF SaveUser

LEMMA CreateSocialStep ==
  ASSUME IInv, NEW r \in Requests, CreateSocial(r)
  PROVE  IInv'
<1> DEFINE a == [name |-> arg[r].name, password |-> None, active |-> TRUE,
                 id |-> [NoIds EXCEPT ![arg[r].provider] = arg[r].id]]
<1>1. /\ pc[r] = "create"
      /\ UNCHANGED <<access, refresh, resets, expired, floating, doomed, history>>
  BY DEF CreateSocial
<1>2. CASE Respond(r, "failed") /\ UNCHANGED <<users, todo>>
  BY <1>1, <1>2, OnlyResponds DEF Answered, history, tables
<1>3. CASE users' = Put(users, r, a) /\ Issue(r, r)
  <2>1. /\ arg[r] \in Argument /\ arg[r].name # None
        /\ arg[r].provider \in Providers /\ arg[r].id # None
    BY <1>1, TypeParts DEF IInv, RequestInv, Holds, LocalTypeOK
  <2>2. a.id \in [Providers -> Ids \cup {None}] /\ a.id # NoIds
    BY <2>1 DEF Argument, NoIds
  <2>3. a \in Account /\ Member(a)
    BY <2>1, <2>2 DEF Account, Argument, Member, IsGuest
  <2> HIDE DEF a
  <2>4. QED
    BY <1>1, <1>3, <2>3, MemberCreated
<1>4. QED
  BY <1>2, <1>3 DEF CreateSocial

(* ... and updated so that members stay members and guests guests.         *)
LEMMA UserUpdated ==
  ASSUME IInv, NEW u \in DOMAIN users, NEW b \in Account,
         users' = [users EXCEPT ![u] = b],
         Member(users[u]) => Member(b), GuestOnly(users[u]) => GuestOnly(b)
  PROVE  UsersStay
<1>1. UsersTypeOK /\ TableInv
  BY TypeParts DEF IInv
<1>2. /\ UsersTypeOK' /\ DOMAIN users' = DOMAIN users
      /\ users'[u] = b /\ \A v \in DOMAIN users \ {u} : users'[v] = users[v]
  BY <1>1 DEF UsersTypeOK, Table
<1>3. \A v \in DOMAIN users' : Member(users'[v]) \/ GuestOnly(users'[v])
  BY <1>1, <1>2 DEF TableInv
<1>4. Member(b) => Member(users[u])
  <2>1. ~(Member(b) /\ GuestOnly(b))
    BY DEF Member, GuestOnly
  <2>2. QED
    BY <1>1, <2>1 DEF TableInv
<1>5. Members' = Members
  BY <1>2, <1>4 DEF Members
<1>6. QED
  BY <1>2, <1>3, <1>5 DEF UsersStay

(* The copy of a member that is saved *)
LEMMA SavedMember ==
  ASSUME NEW r \in Requests, NEW a \in Account, arg[r] \in Argument,
         seen[r] \in Account, Member(a), arg[r].provider \in Providers,
         arg[r].id # None, arg[r].name # None
  PROVE  /\ Saved(r, a) \in Account /\ Member(Saved(r, a))
         /\ Saved(r, a).password = a.password /\ Saved(r, a).active = a.active
<1> DEFINE p == arg[r].provider
           i == IF seen[r].id[p] = arg[r].id THEN a.id[p] ELSE arg[r].id
           n == IF seen[r].name = arg[r].name THEN a.name ELSE arg[r].name
           ids == [a.id EXCEPT ![p] = i]
           b == [name |-> n, password |-> a.password, id |-> ids,
                 active |-> a.active]
<1>1. /\ a = [name |-> a.name, password |-> a.password, id |-> a.id,
              active |-> a.active]
      /\ a.id \in [Providers -> Ids \cup {None}]
      /\ a.name \in Names \cup {None} /\ a.password \in Passwords \cup {None}
      /\ a.active \in BOOLEAN
  BY DEF Account
<1>2. /\ i \in Ids \cup {None} /\ n \in Names \cup {None} /\ p \in Providers
      /\ n # None /\ (i # None \/ i = a.id[p])
  BY <1>1 DEF Argument, Member
<1>3. Saved(r, a) = [a EXCEPT !.id[p] = i, !.name = n]
  BY DEF Saved
<1> HIDE DEF p, i, n
<1>4. Saved(r, a) = b
  BY <1>1, <1>3
<1>5. ids \in [Providers -> Ids \cup {None}]
  BY <1>1, <1>2
<1>6. a.id # NoIds => ids # NoIds
  <2>1. CASE i # None
    BY <1>1, <1>2, <2>1 DEF NoIds
  <2>2. CASE i = a.id[p]
    BY <1>1, <1>2, <2>2
  <2>3. QED
    BY <1>2, <2>1, <2>2
<1>7. b \in Account
  BY <1>1, <1>2, <1>5 DEF Account
<1>8. Member(b)
  BY <1>2, <1>6 DEF Member, IsGuest
<1>9. QED
  BY <1>4, <1>7, <1>8

LEMMA MergeSocialStep ==
  ASSUME IInv, NEW r \in Requests, MergeSocial(r)
  PROVE  IInv'
<1> DEFINE u == me[r]
           b == Saved(r, users[u])
<1>1. /\ pc[r] = "merge"
      /\ UNCHANGED <<access, refresh, resets, expired, floating, doomed, history>>
  BY DEF MergeSocial
<1>2. CASE Respond(r, "failed") /\ UNCHANGED <<users, todo>>
  BY <1>1, <1>2, OnlyResponds DEF Answered, history, tables
<1>3. CASE users' = [users EXCEPT ![u] = b] /\ Issue(r, u)
  <2>1. /\ LocalTypeOK /\ RestTypeOK /\ TokensTypeOK /\ UsersTypeOK /\ TableInv
        /\ Holds(r) /\ u \in Members /\ r \notin delivered
    BY <1>1, TypeParts, NotDelivered DEF IInv, RequestInv, Holds
  <2>2. /\ u \in DOMAIN users /\ u \in Row /\ Member(users[u])
        /\ users[u] \in Account /\ u \notin Hidden
    BY <2>1 DEF UsersTypeOK, Table, Members, TableInv
  <2>3. /\ arg[r] \in Argument /\ seen[r] \in Account
        /\ arg[r].provider \in Providers /\ arg[r].id # None
        /\ arg[r].name # None
    BY <1>1, <2>1 DEF Holds, LocalTypeOK
  <2>4. b \in Account /\ Member(b)
    BY <2>2, <2>3, SavedMember
  <2> HIDE DEF b
  <2>5. UsersStay
    <3>1. ~GuestOnly(users[u])
      BY <2>2 DEF Member, GuestOnly
    <3>2. QED
      BY <1>3, <2>2, <2>4, <3>1, UserUpdated
  <2>6. /\ LocalTypeOK' /\ Alone(r) /\ Hidden' = Hidden \ {r}
        /\ pc'[r] = "issue" /\ op'[r] = op[r] /\ arg'[r] = arg[r]
        /\ me'[r] = u /\ todo'[r] = Kinds
    BY <1>3, <2>1, <2>2, IssueFacts
  <2>7. /\ \A f \in floating' : f[3] \in Members /\ f[2] \in Requests
                                   /\ pc'[f[2]] = "failed"
        /\ \A s \in Requests : s \in delivered' => pc'[s] = "ok"
    BY <1>1, <2>1, <2>6 DEF TableInv, Alone, Undisturbed, history
  <2>8. /\ UsersTypeOK' /\ TokensTypeOK' /\ TableInv' /\ LogoutInv'
        /\ Members' = Members /\ \A s \in Requests \ {r} : Respects(s)
    BY <1>1, <2>1, <2>2, <2>5, <2>6, <2>7, InsertedFacts
       DEF TokensTypeOK, TableInv, Inserted, history
  <2>9. RestTypeOK'
    BY <1>1, <2>1 DEF RestTypeOK, history
  <2>10. Holds(r)'
    BY <1>1, <2>1, <2>6, <2>8 DEF Holds, Kinds, history
  <2>11. QED
    BY <2>6, <2>8, <2>9, <2>10, OthersHold, TypeParts DEF IInv
<1>4. QED
  BY <1>2, <1>3 DEF MergeSocial

LEMMA DeactivateStep ==
  ASSUME IInv, NEW u \in DOMAIN users, Deactivate(u)
  PROVE  IInv'
<1> DEFINE b == [users[u] EXCEPT !.active = FALSE]
<1>1. /\ users' = [users EXCEPT ![u] = b]
      /\ UNCHANGED <<access, refresh, resets, expired, floating, doomed, pc,
                     locals, history>>
  BY DEF Deactivate
<1>2. /\ LocalTypeOK /\ RestTypeOK /\ TokensTypeOK /\ TableInv /\ LogoutInv
      /\ users[u] \in Account
  BY TypeParts DEF IInv, UsersTypeOK, Table
<1>3. /\ b \in Account /\ b.name = users[u].name /\ b.id = users[u].id
      /\ b.password = users[u].password
  BY <1>2 DEF Account
<1> HIDE DEF b
<1>4. UsersStay
  BY <1>1, <1>3, UserUpdated DEF Member, GuestOnly, IsGuest
<1>5. LocalTypeOK' /\ Hidden' = Hidden
  BY <1>1, <1>2, LocalsKept
<1>6. TypeOK'
  <2>1. TokensTypeOK' /\ RestTypeOK'
    BY <1>1, <1>2, <1>4 DEF UsersStay, TokensTypeOK, RestTypeOK, history
  <2>2. QED
    BY <1>4, <1>5, <2>1, TypeParts DEF UsersStay
<1>7. TableInv' /\ LogoutInv'
  BY <1>1, <1>2, <1>4, <1>5 DEF TableInv, LogoutInv, UsersStay, history
<1>8. \A s \in Requests : Respects(s)
  BY <1>1, <1>4, <1>5, SameRespected DEF Respects, UsersStay, history
<1>9. QED
  BY <1>1, <1>6, <1>7, <1>8, AllHold DEF IInv

(* Tokens for resetting a password, tokens of guests                       *)
LEMMA CreateResetStep ==
  ASSUME IInv, NEW r \in Requests, CreateReset(r)
  PROVE  IInv'
<1>1. /\ pc[r] = "createreset" /\ resets' = Put(resets, r, me[r])
      /\ Goto(r, "mail")
      /\ UNCHANGED <<users, access, refresh, expired, floating, doomed, todo,
                     history>>
  BY DEF CreateReset
<1>2. /\ LocalTypeOK /\ RestTypeOK /\ TokensTypeOK /\ TableInv
      /\ Holds(r) /\ me[r] \in Members /\ r \notin delivered /\ r \in Row
  BY <1>1, TypeParts, NotDelivered DEF IInv, RequestInv, Holds, Row
<1>3. me[r] \in DOMAIN users /\ me[r] \notin Hidden
  BY <1>2 DEF Members, TableInv
<1>4. /\ LocalTypeOK' /\ Alone(r) /\ Hidden' \subseteq Hidden
      /\ pc'[r] = "mail" /\ op'[r] = op[r] /\ arg'[r] = arg[r]
      /\ me'[r] = me[r] /\ todo'[r] = todo[r]
  BY <1>1, <1>2, GotoFacts DEF Answered
<1>5. /\ Table(resets', DOMAIN users)
      /\ \A t \in DOMAIN resets' : resets'[t] \in Members
  <2>1. Table(resets', DOMAIN users)
    BY <1>1, <1>2, <1>3, PutType DEF TokensTypeOK
  <2>2. QED
    BY <1>1, <1>2, <2>1 DEF TableInv, Put
<1>6. /\ \A f \in floating' : f[3] \in Members /\ f[2] \in Requests
                                 /\ pc'[f[2]] = "failed"
      /\ \A s \in Requests : s \in delivered' => pc'[s] = "ok"
  BY <1>1, <1>2, <1>4 DEF TableInv, Alone, Undisturbed, history
<1>7. UsersStay
  BY <1>1, SameUsersStay
<1>8. /\ UsersTypeOK' /\ TokensTypeOK' /\ TableInv' /\ LogoutInv'
      /\ Members' = Members /\ \A s \in Requests \ {r} : Respects(s)
  BY <1>1, <1>2, <1>3, <1>4, <1>5, <1>6, <1>7, InsertedFacts
     DEF Inserted, history
<1>9. RestTypeOK'
  BY <1>1, <1>2 DEF RestTypeOK, history
<1>10. Holds(r)'
  BY <1>1, <1>2, <1>4, <1>8 DEF Holds, history
<1>11. QED
  BY <1>4, <1>8, <1>9, <1>10, OthersHold, TypeParts DEF IInv

LEMMA GuestTokenStep ==
  ASSUME IInv, NEW r \in Requests, GuestToken(r)
  PROVE  IInv'
<1>1. /\ pc[r] = "guest" /\ access' = Put(access, r, me[r]) /\ Deliver(r)
      /\ UNCHANGED <<users, refresh, resets, expired, floating, doomed, todo,
                     mailed, loggedOut>>
  BY DEF GuestToken
<1>2. /\ LocalTypeOK /\ RestTypeOK /\ TokensTypeOK /\ TableInv /\ Holds(r)
      /\ me[r] = r /\ op[r] = "guest" /\ r \in DOMAIN users
      /\ r \notin delivered /\ TodoOnly(r, {})
  BY <1>1, TypeParts, NotDelivered, NothingLeft DEF IInv, RequestInv, Holds
<1>3. /\ LocalTypeOK' /\ pc'[r] = "ok" /\ Holds(r)' /\ Alone(r)
      /\ Hidden' = Hidden \ {r}
  BY <1>1, <1>2, RespondFacts DEF Deliver, Answered
<1>4. delivered' = delivered \cup {r} /\ exchanged' = exchanged
  BY <1>1, <1>2 DEF Deliver
<1>5. /\ \A f \in floating' : f[3] \in Members /\ f[2] \in Requests
                                 /\ pc'[f[2]] = "failed"
      /\ \A s \in Requests : s \in delivered' => pc'[s] = "ok"
  BY <1>1, <1>2, <1>3, <1>4 DEF TableInv, Alone, Undisturbed
<1>6. UsersStay
  BY <1>1, SameUsersStay
<1>7. /\ UsersTypeOK' /\ TokensTypeOK' /\ TableInv' /\ LogoutInv'
      /\ \A s \in Requests \ {r} : Respects(s)
  <2>1. Inserted(access, access', r, r) /\ r \notin Hidden'
    BY <1>1, <1>2, <1>3 DEF Inserted
  <2>2. /\ Table(resets', DOMAIN users)
        /\ \A t \in DOMAIN resets' : resets'[t] \in Members
    BY <1>1, <1>2 DEF TokensTypeOK, TableInv
  <2>3. QED
    BY <1>1, <1>2, <1>3, <1>4, <1>5, <1>6, <2>1, <2>2, InsertedFacts
<1>8. RestTypeOK'
  BY <1>1, <1>2, <1>4 DEF RestTypeOK, Row
<1>9. QED
  BY <1>3, <1>7, <1>8, OthersHold, TypeParts DEF IInv

(* The password is set and the token used, in one transaction.             *)
LEMMA SetPasswordStep ==
  ASSUME IInv, NEW r \in Requests, SetPassword(r)
  PROVE  IInv'
<1> DEFINE u == me[r]
           b == [users[u] EXCEPT !.password = arg[r].password]
<1>1. /\ pc[r] = "reset" /\ resets' = Without(resets, {arg[r].token})
      /\ users' = [users EXCEPT ![u] = b]
      /\ UNCHANGED <<expired, floating, doomed, todo, mailed, loggedOut>>
  BY DEF SetPassword
<1>2. /\ LocalTypeOK /\ RestTypeOK /\ TokensTypeOK /\ UsersTypeOK /\ TableInv
      /\ Holds(r) /\ u \in Members /\ r \notin delivered /\ TodoOnly(r, {})
      /\ arg[r].password # None
  BY <1>1, TypeParts, NotDelivered, NothingLeft DEF IInv, RequestInv, Holds
<1>3. /\ u \in DOMAIN users /\ Member(users[u]) /\ users[u] \in Account
      /\ u \notin Hidden /\ arg[r] \in Argument
  BY <1>2 DEF UsersTypeOK, Table, Members, TableInv, LocalTypeOK
<1>4. b \in Account /\ Member(b) /\ ~GuestOnly(users[u])
  <2>1. /\ b \in Account /\ b.name = users[u].name /\ b.id = users[u].id
        /\ b.password # None
    BY <1>2, <1>3 DEF Account, Argument
  <2>2. QED
    BY <1>3, <2>1 DEF Member, GuestOnly, IsGuest
<1> HIDE DEF b
<1>5. UsersStay
  BY <1>1, <1>3, <1>4, UserUpdated
<1>6. /\ Table(resets', DOMAIN users)
      /\ \A t \in DOMAIN resets' : resets'[t] \in Members
  BY <1>1, <1>2 DEF TokensTypeOK, TableInv, Table, Without
<1>7. Inserted(access, access', r, u) /\ Inserted(refresh, refresh', r, u)
  BY DEF SetPassword, Inserted
<1>8. /\ Respond(r, "ok")
      /\ delivered' = delivered \cup {r} \/ delivered' = delivered
      /\ exchanged' \subseteq exchanged \cup
           (IF op[r] = "refresh" THEN {<<arg[r].token, r>>} ELSE {})
  BY DEF SetPassword, Deliver
<1>9. /\ LocalTypeOK' /\ pc'[r] = "ok" /\ Holds(r)' /\ Alone(r)
      /\ Hidden' = Hidden \ {r}
  BY <1>1, <1>2, <1>8, RespondFacts DEF Answered
<1>10. /\ \A f \in floating' : f[3] \in Members /\ f[2] \in Requests
                                  /\ pc'[f[2]] = "failed"
       /\ \A s \in Requests : s \in delivered' => pc'[s] = "ok"
  BY <1>1, <1>2, <1>8, <1>9 DEF TableInv, Alone, Undisturbed
<1>11. /\ UsersTypeOK' /\ TokensTypeOK' /\ TableInv' /\ LogoutInv'
       /\ \A s \in Requests \ {r} : Respects(s)
  BY <1>1, <1>2, <1>3, <1>5, <1>6, <1>7, <1>8, <1>9, <1>10, InsertedFacts
<1>12. RestTypeOK'
  <2>1. op[r] = "refresh" => arg[r].token \in Row
    BY <1>2 DEF Holds, RestTypeOK
  <2>2. exchanged' \subseteq Row \X Requests /\ delivered' \subseteq Row
    BY <1>2, <1>8, <2>1 DEF RestTypeOK, Row
  <2>3. QED
    BY <1>1, <1>2, <2>2 DEF RestTypeOK
<1>13. QED
  BY <1>9, <1>11, <1>12, OthersHold, TypeParts DEF IInv

(* The logout: two tokens of one user, and the user if a guest.            *)
LEMMA DestroySessionStep ==
  ASSUME IInv, NEW r \in Requests, DestroySession(r)
  PROVE  IInv'
<1> DEFINE U == {u \in DOMAIN users : u = me[r] /\ IsGuest(users[u])}
           t == arg[r].token
           second == {arg[r].second} \ {None}
<1>1. /\ pc[r] = "logout" /\ Respond(r, "ok")
      /\ users' = Without(users, U)
      /\ access' = Cascade(Without(access, {t}), U)
      /\ refresh' = Cascade(Without(refresh, {arg[r].second}), U)
      /\ resets' = Cascade(resets, U)
      /\ loggedOut' = loggedOut \cup {<<"access", t>>}
                        \cup {<<"refresh", s>> : s \in second}
                        \cup {<<"user", u>> : u \in U}
      /\ UNCHANGED <<expired, floating, doomed, todo, delivered, mailed,
                     exchanged>>
  BY DEF DestroySession, Sent
<1>2. /\ LocalTypeOK /\ RestTypeOK /\ TokensTypeOK /\ UsersTypeOK /\ TableInv
      /\ LogoutInv /\ Holds(r) /\ TodoOnly(r, {})
  BY <1>1, TypeParts, NothingLeft DEF IInv, RequestInv
<1>3. /\ me[r] \notin Hidden /\ t \in delivered /\ second \subseteq delivered
  BY <1>1, <1>2 DEF Holds
<1>4. /\ U \subseteq DOMAIN users /\ U \cap Members = {} /\ U \cap Hidden = {}
      /\ U \subseteq {me[r]}
  BY <1>3 DEF Members, Member
<1>5. arg[r].second \notin second => arg[r].second = None
  OBVIOUS
<1> HIDE DEF U, t, second
<1>6. /\ DOMAIN users' = DOMAIN users \ U
      /\ \A u \in DOMAIN users' : users'[u] = users[u]
      /\ Members' = Members
  <2>1. /\ DOMAIN users' = DOMAIN users \ U
        /\ \A u \in DOMAIN users' : users'[u] = users[u]
    BY <1>1 DEF Without
  <2>2. QED
    BY <1>4, <2>1 DEF Members
<1>7. /\ DOMAIN access' = {s \in DOMAIN access : s # t /\ access[s] \notin U}
      /\ \A s \in DOMAIN access' : access'[s] = access[s]
  BY <1>1 DEF Cascade, Without
<1>8. /\ DOMAIN refresh' = {s \in DOMAIN refresh :
                              s # arg[r].second /\ refresh[s] \notin U}
      /\ \A s \in DOMAIN refresh' : refresh'[s] = refresh[s]
  BY <1>1 DEF Cascade, Without
<1>9. /\ DOMAIN resets' = {s \in DOMAIN resets : resets[s] \notin U}
      /\ \A s \in DOMAIN resets' : resets'[s] = resets[s]
  BY <1>1 DEF Cascade
<1>10. /\ LocalTypeOK' /\ pc'[r] = "ok" /\ Holds(r)' /\ Alone(r)
       /\ Hidden' = Hidden \ {r}
  BY <1>1, <1>2, RespondFacts DEF Answered
<1>11. TypeOK'
  <2>1. UsersTypeOK'
    BY <1>1, <1>2, WithoutType DEF UsersTypeOK
  <2>2. TokensTypeOK'
    BY <1>1, <1>2, <1>6, WithoutType, CascadeType DEF TokensTypeOK
  <2>3. t \in Row /\ second \subseteq Row /\ U \subseteq Row
    BY <1>2, <1>3, <1>4 DEF RestTypeOK, UsersTypeOK, Table
  <2>4. RestTypeOK'
    BY <1>1, <1>2, <2>3 DEF RestTypeOK
  <2>5. QED
    BY <1>10, <2>1, <2>2, <2>4, TypeParts
<1>12. TableInv'
  <2>1. /\ \A u \in DOMAIN users' : Member(users'[u]) \/ GuestOnly(users'[u])
        /\ \A u \in Members' : u \notin Hidden'
    BY <1>2, <1>6, <1>10 DEF TableInv
  <2>2. /\ \A s \in DOMAIN refresh' : refresh'[s] \in Members'
        /\ \A s \in DOMAIN resets' : resets'[s] \in Members'
        /\ \A s \in DOMAIN access' : access'[s] \notin Hidden'
    BY <1>2, <1>6, <1>7, <1>8, <1>9, <1>10 DEF TableInv
  <2>3. /\ \A f \in floating' : /\ f[3] \in Members'
                                /\ f[2] \in Requests /\ pc'[f[2]] = "failed"
        /\ doomed' \subseteq delivered'
        /\ \A s \in Requests : s \in delivered' => pc'[s] = "ok"
    BY <1>1, <1>2, <1>6, <1>10 DEF TableInv, Alone, Undisturbed
  <2>4. QED
    BY <2>1, <2>2, <2>3 DEF TableInv
<1>13. LogoutInv'
  <2>1. ASSUME NEW s \in Row, <<"access", s>> \in loggedOut'
        PROVE  s \in delivered' /\ s \notin DOMAIN access'
    <3>1. <<"access", s>> \in loggedOut \/ s = t
      BY <1>1, <2>1
    <3>2. QED
      BY <1>1, <1>2, <1>3, <1>7, <3>1 DEF LogoutInv
  <2>2. ASSUME NEW s \in Row, <<"refresh", s>> \in loggedOut'
        PROVE  s \in delivered' /\ s \notin DOMAIN refresh'
    <3>1. <<"refresh", s>> \in loggedOut \/ s \in second
      BY <1>1, <2>2
    <3>2. s \in second => s = arg[r].second
      BY DEF second
    <3>3. QED
      BY <1>1, <1>2, <1>3, <1>8, <3>1, <3>2 DEF LogoutInv
  <2>3. ASSUME NEW u \in Row, <<"user", u>> \in loggedOut'
        PROVE  u \notin Hidden' /\ u \notin DOMAIN users'
    <3>1. <<"user", u>> \in loggedOut \/ u \in U
      BY <1>1, <2>3
    <3>2. QED
      BY <1>2, <1>4, <1>6, <1>10, <3>1 DEF LogoutInv
  <2>4. QED
    BY <2>1, <2>2, <2>3 DEF LogoutInv
<1>14. ASSUME NEW s \in Requests \ {r}  PROVE Respects(s)
  <2>1. pc[s] = "issue" => s \notin delivered /\ s # None
    BY <1>2, NoneAssumption DEF TableInv, Row
  <2>2. Respected(access, access', s)
    BY <1>3, <1>4, <1>7, <2>1 DEF Respected, OfUser, Has
  <2>3. Respected(refresh, refresh', s)
    BY <1>3, <1>4, <1>5, <1>8, <2>1 DEF Respected, OfUser, Has
  <2>4. QED
    BY <1>1, <1>4, <1>6, <1>10, <2>2, <2>3 DEF Respects
<1>15. QED
  BY <1>10, <1>11, <1>12, <1>13, <1>14, OthersHold DEF IInv

-----------------------------------------------------------------------------
(* The invariant holds at first, ...                                       *)
LEMMA InitIInv == Init => IInv
<1> SUFFICES ASSUME Init  PROVE IInv
  OBVIOUS
<1>1. FirstUser \in Account /\ Member(FirstUser) /\ First \in Row
  BY FirstAssumption, NoneAssumption
     DEF FirstUser, Account, NoIds, Member, IsGuest, Row
<1>2. /\ DOMAIN users = {First} /\ users[First] = FirstUser
      /\ Members = {First}
  BY <1>1 DEF Init, Members
<1>3. TypeOK
  <2>1. UsersTypeOK /\ TokensTypeOK
    BY <1>1, <1>2 DEF Init, UsersTypeOK, TokensTypeOK, Table
  <2>2. LocalTypeOK
    BY NoArgumentType DEF Init, LocalTypeOK
  <2>3. RestTypeOK
    BY <1>1 DEF Init, RestTypeOK
  <2>4. QED
    BY <2>1, <2>2, <2>3, TypeParts
<1>4. TableInv
  BY <1>1, <1>2, FirstAssumption DEF Init, TableInv, Hidden
<1>5. LogoutInv
  BY DEF Init, LogoutInv
<1>6. RequestInv
  BY <1>2, FirstAssumption
     DEF Init, RequestInv, Holds, NoArgument, Answered
<1>7. QED
  BY <1>3, <1>4, <1>5, <1>6 DEF IInv

(* ... and every step keeps it.                                            *)
LEMMA SendStep ==
  ASSUME IInv, NEW r \in Requests, Send(r)
  PROVE  IInv'
BY LoginStep, RegisterStep, RefreshStep, GuestStep, SocialStep, LogoutStep,
   InitiateStep, CompletePasswordResetStep DEF Send

LEMMA ContinueStep ==
  ASSUME IInv, NEW r \in Requests, Continue(r)
  PROVE  IInv'
BY RotateStep, InsertStep, InsertFailsStep, GuestTokenStep, SaveUserStep,
   CreateSocialStep, MergeSocialStep, FindRefreshStep, DestroySessionStep,
   FindResetStep, CreateResetStep, SendPasswordForgotStep, SetPasswordStep,
   FailsStep
   DEF Continue

LEMMA NextIInv == IInv /\ [Next]_vars => IInv'
<1> SUFFICES ASSUME IInv, [Next]_vars  PROVE IInv'
  OBVIOUS
<1>1. CASE Background
  BY <1>1, DeleteDoomedStep, FloatingInsertStep, ExpireStep, DeactivateStep
     DEF Background
<1>2. ASSUME NEW r \in Requests, Send(r) \/ Continue(r)  PROVE IInv'
  BY <1>2, SendStep, ContinueStep
<1>3. CASE UNCHANGED vars
  <2>1. /\ UNCHANGED <<users, access, refresh, resets, expired, floating, doomed>>
        /\ UNCHANGED <<pc, op, arg, me, seen, todo>>
        /\ UNCHANGED <<delivered, mailed, loggedOut, exchanged>>
    BY <1>3 DEF vars, tables, locals, history
  <2>2. TypeOK'
    BY <2>1 DEF IInv, TypeOK
  <2>3. Members' = Members /\ Hidden' = Hidden
    BY <2>1 DEF Members, Hidden
  <2>4. TableInv' /\ LogoutInv'
    BY <2>1, <2>3 DEF IInv, TableInv, LogoutInv
  <2>5. RequestInv'
    BY <2>1, <2>3, SameRespected, AllHold DEF Respects, locals
  <2>6. QED
    BY <2>2, <2>4, <2>5 DEF IInv
<1>4. QED
  BY <1>1, <1>2, <1>3 DEF Next

(* The tables, requests and history keep their types. (services/auth)      *)
THEOREM TypeCorrect == Spec => []TypeOK
<1>1. IInv => TypeOK
  BY DEF IInv
<1>2. QED
  BY <1>1, InitIInv, NextIInv, PTL DEF Spec

(* Whatever runs at the same time or fails halfway, no token or guest that *)
(* a logout destroyed is in the tables again. (auth.ts, logout)            *)
THEOREM Final == Spec => []LogoutEnds
<1>1. IInv => LogoutEnds
  BY TypeParts
     DEF IInv, LogoutInv, LogoutEnds, UsersTypeOK, TokensTypeOK, Table
<1>2. QED
  BY <1>1, InitIInv, NextIInv, PTL DEF Spec

-----------------------------------------------------------------------------
(* Who changes what                                                        *)

(* The steps that change users                                             *)
LEMMA UsersChange ==
  ASSUME [Next]_vars, users' # users
  PROVE  \/ \E r \in Requests : \/ Guest(r) \/ SaveUser(r) \/ CreateSocial(r)
                                \/ MergeSocial(r) \/ DestroySession(r)
                                \/ SetPassword(r)
         \/ \E u \in DOMAIN users : Deactivate(u)
<1>1. ASSUME NEW r \in Requests, Send(r)  PROVE Guest(r)
  BY <1>1 DEF Send, Login, Register, Refresh, Social, Logout,
              InitiatePasswordReset, CompletePasswordReset, tables
<1>2. ASSUME NEW r \in Requests, Continue(r)
      PROVE  \/ SaveUser(r) \/ CreateSocial(r) \/ MergeSocial(r)
             \/ DestroySession(r) \/ SetPassword(r)
  BY <1>2 DEF Continue, Rotate, Insert, InsertFails, GuestToken, FindRefresh,
              FindReset, CreateReset, SendPasswordForgot, Fails, tables
<1>3. CASE Background
  BY <1>3 DEF Background, DeleteDoomed, FloatingInsert, Expire
<1>4. CASE UNCHANGED vars
  BY <1>4 DEF vars, tables
<1>5. QED
  BY <1>1, <1>2, <1>3, <1>4 DEF Next

(* A step of one request leaves the others where they are. *)
LEMMA OthersStay ==
  ASSUME TypeOK, NEW r \in Requests, Send(r) \/ Continue(r),
         NEW s \in Requests \ {r}
  PROVE  pc'[s] = pc[s]
<1>1. pc \in [Requests -> {"idle", "issue", "rotate", "guest", "save", "create",
                           "merge", "findrefresh", "logout", "findreset",
                           "createreset", "mail", "reset"} \cup Answered]
  BY DEF TypeOK
<1>2. UNCHANGED pc \/ \E where : pc' = [pc EXCEPT ![r] = where]
  <2>1. CASE Send(r)
    BY <2>1 DEF Send, Login, Register, Refresh, Guest, Social, Logout,
                InitiatePasswordReset, CompletePasswordReset, Begin, Respond
  <2>2. CASE \/ Rotate(r) \/ \E k \in Kinds : Insert(r, k) \/ InsertFails(r, k)
             \/ GuestToken(r) \/ SaveUser(r) \/ CreateSocial(r) \/ MergeSocial(r)
    BY <2>2 DEF Rotate, Insert, InsertFails, GuestToken, SaveUser, CreateSocial,
                MergeSocial, Issue, Respond, Deliver
  <2>3. CASE \/ FindRefresh(r) \/ DestroySession(r) \/ FindReset(r)
             \/ CreateReset(r) \/ SendPasswordForgot(r) \/ SetPassword(r)
             \/ Fails(r)
    BY <2>3 DEF FindRefresh, DestroySession, FindReset, CreateReset,
                SendPasswordForgot, SetPassword, Fails, Goto, Respond, Deliver
  <2>4. QED
    BY <2>1, <2>2, <2>3 DEF Continue
<1>3. QED
  BY <1>1, <1>2

(* Only the destruction of a session answers a logout with success. *)
LEMMA LogoutAnswered ==
  ASSUME IInv, [Next]_vars, NEW r \in Requests,
         pc[r] = "logout", pc'[r] = "ok"
  PROVE  DestroySession(r)
<1>1. TypeOK /\ LocalTypeOK /\ todo[r] = {}
  BY TypeParts DEF IInv, RequestInv, Holds
<1>2. ASSUME NEW s \in Requests, Send(s) \/ Continue(s)  PROVE s = r
  BY <1>1, <1>2, OthersStay
<1>3. ~Send(r)
  BY DEF Send, Login, Register, Refresh, Guest, Social, Logout,
         InitiatePasswordReset, CompletePasswordReset
<1>4. ~Fails(r)
  BY <1>1 DEF Fails, Respond, LocalTypeOK
<1>5. ASSUME Continue(r)  PROVE DestroySession(r)
  BY <1>1, <1>4, <1>5
     DEF Continue, Rotate, Insert, InsertFails, GuestToken, SaveUser,
         CreateSocial, MergeSocial, FindRefresh, FindReset, CreateReset,
         SendPasswordForgot, SetPassword
<1>6. ~Background
  BY DEF Background, DeleteDoomed, FloatingInsert, Expire, Deactivate
<1>7. ~UNCHANGED vars
  BY DEF vars
<1>8. QED
  BY <1>2, <1>3, <1>5, <1>6, <1>7 DEF Next

(* Only these steps answer a request with tokens. *)
LEMMA Delivers ==
  ASSUME [Next]_vars, NEW r \in delivered' \ delivered
  PROVE  /\ r \in Requests
         /\ \/ \E k \in Kinds : Insert(r, k) /\ AllSettled(todo'[r])
            \/ GuestToken(r)
            \/ SetPassword(r) /\ op[r] = "complete"
<1>1. ASSUME NEW s \in Requests, Send(s)  PROVE FALSE
  BY <1>1 DEF Send, Login, Register, Refresh, Guest, Social, Logout,
              InitiatePasswordReset, CompletePasswordReset, history
<1>2. ASSUME NEW s \in Requests, Continue(s)
      PROVE  /\ s = r
             /\ \/ \E k \in Kinds : Insert(r, k) /\ AllSettled(todo'[r])
                \/ GuestToken(r)
                \/ SetPassword(r) /\ op[r] = "complete"
  <2>1. ASSUME NEW k \in Kinds, Insert(s, k)
        PROVE  s = r /\ Insert(r, k) /\ AllSettled(todo'[r])
    BY <2>1 DEF Insert, Deliver
  <2>2. ASSUME GuestToken(s)  PROVE s = r /\ GuestToken(r)
    BY <2>2 DEF GuestToken, Deliver
  <2>3. ASSUME SetPassword(s)
        PROVE  s = r /\ SetPassword(r) /\ op[r] = "complete"
    <3>1. CASE op[s] = "complete"
      <4>1. delivered' = delivered \cup {s}
        BY <2>3, <3>1 DEF SetPassword, Deliver
      <4>2. QED
        BY <2>3, <3>1, <4>1
    <3>2. CASE op[s] # "complete"
      <4>1. delivered' = delivered
        BY <2>3, <3>2 DEF SetPassword
      <4>2. QED
        BY <4>1
    <3>3. QED
      BY <3>1, <3>2
  <2>4. ASSUME \/ Rotate(s) \/ \E k \in Kinds : InsertFails(s, k)
               \/ SaveUser(s) \/ CreateSocial(s) \/ MergeSocial(s)
               \/ FindRefresh(s) \/ DestroySession(s) \/ FindReset(s)
               \/ CreateReset(s) \/ SendPasswordForgot(s) \/ Fails(s)
        PROVE  FALSE
    BY <2>4 DEF Rotate, InsertFails, SaveUser, CreateSocial, MergeSocial,
                FindRefresh, DestroySession, FindReset, CreateReset,
                SendPasswordForgot, Fails, history
  <2>5. QED
    BY <1>2, <2>1, <2>2, <2>3, <2>4 DEF Continue
<1>3. ~Background
  BY DEF Background, DeleteDoomed, FloatingInsert, Expire, Deactivate, history
<1>4. ~UNCHANGED vars
  BY DEF vars, history
<1>5. QED
  BY <1>1, <1>2, <1>3, <1>4 DEF Next

-----------------------------------------------------------------------------
(* The unique keys                                                         *)

(* A row is inserted, or saved, that takes nothing from the others; ...    *)
LEMMA UniqueSaved ==
  ASSUME UniqueAccounts, NEW u, NEW b, ~Taken(b, DOMAIN users \ {u}),
         DOMAIN users' = DOMAIN users \cup {u}, users'[u] = b,
         \A v \in DOMAIN users \ {u} : users'[v] = users[v]
  PROVE  UniqueAccounts'
<1>1. \A v \in DOMAIN users \ {u} :
        /\ users[v].name = b.name => b.name = None
        /\ \A p \in Providers : users[v].id[p] = b.id[p] => b.id[p] = None
  BY DEF Taken
<1>2. ASSUME NEW v \in DOMAIN users', NEW w \in DOMAIN users', v # w
      PROVE  /\ users'[v].name = users'[w].name => users'[v].name = None
             /\ \A p \in Providers :
                  users'[v].id[p] = users'[w].id[p] => users'[v].id[p] = None
  <2>1. CASE v = u
    BY <1>1, <1>2, <2>1
  <2>2. CASE w = u
    BY <1>1, <1>2, <2>2
  <2>3. CASE v # u /\ w # u
    BY <1>2, <2>3 DEF UniqueAccounts
  <2>4. QED
    BY <2>1, <2>2, <2>3
<1>3. QED
  BY <1>2 DEF UniqueAccounts

(* ... or rows leave, and the others keep their names and ids.             *)
LEMMA UniqueKept ==
  ASSUME UniqueAccounts, DOMAIN users' \subseteq DOMAIN users,
         \A u \in DOMAIN users' : /\ users'[u].name = users[u].name
                                  /\ users'[u].id = users[u].id
  PROVE  UniqueAccounts'
BY DEF UniqueAccounts

(* The users that are found have accounts. *)
LEMMA FoundHasAccount ==
  ASSUME IInv, NEW r \in Requests, pc[r] \in {"merge", "reset"}
  PROVE  /\ me[r] \in DOMAIN users /\ me[r] \in Members
         /\ users[me[r]] \in Account
BY TypeParts DEF IInv, RequestInv, Holds, Members, UsersTypeOK, Table

(* Every step keeps names and ids unique.                                  *)
LEMMA UniqueStep ==
  ASSUME IInv, UniqueAccounts, [Next]_vars
  PROVE  UniqueAccounts'
<1>1. /\ UsersTypeOK /\ RequestInv /\ UniqueAccounts
      /\ users \in [DOMAIN users -> Account]
  BY TypeParts DEF IInv, UsersTypeOK, Table
<1>2. ASSUME NEW r \in Requests, Guest(r)  PROVE UniqueAccounts'
  <2> DEFINE a == [name |-> None, password |-> None, id |-> NoIds,
                   active |-> TRUE]
  <2>1. ~Taken(a, DOMAIN users \ {r})
    BY DEF Taken, NoIds
  <2> HIDE DEF a
  <2>2. users' = Put(users, r, a)
    BY <1>2 DEF Guest, a
  <2>3. QED
    BY <1>1, <2>1, <2>2, UniqueSaved DEF Put
<1>3. ASSUME NEW r \in Requests, SaveUser(r) \/ CreateSocial(r), users' # users
      PROVE  UniqueAccounts'
  <2>1. \E a : ~Taken(a, DOMAIN users) /\ users' = Put(users, r, a)
    BY <1>3 DEF SaveUser, CreateSocial
  <2>2. r \notin DOMAIN users
    BY <1>1, <1>3 DEF RequestInv, Holds, SaveUser, CreateSocial
  <2>3. PICK a : ~Taken(a, DOMAIN users) /\ users' = Put(users, r, a)
    BY <2>1
  <2>4. DOMAIN users \ {r} = DOMAIN users
    BY <2>2
  <2>5. QED
    BY <1>1, <2>3, <2>4, UniqueSaved DEF Put
<1>4. ASSUME NEW r \in Requests, MergeSocial(r), users' # users
      PROVE  UniqueAccounts'
  <2>1. PICK b : /\ ~Taken(b, DOMAIN users \ {me[r]})
                 /\ users' = [users EXCEPT ![me[r]] = b]
    BY <1>4 DEF MergeSocial
  <2>2. me[r] \in DOMAIN users
    BY <1>4, FoundHasAccount DEF MergeSocial
  <2>3. QED
    BY <1>1, <2>1, <2>2, UniqueSaved
<1>5. ASSUME NEW u \in DOMAIN users, Deactivate(u)  PROVE UniqueAccounts'
  BY <1>1, <1>5, UniqueKept DEF Deactivate, Account
<1>6. ASSUME NEW r \in Requests, SetPassword(r)  PROVE UniqueAccounts'
  BY <1>1, <1>6, FoundHasAccount, UniqueKept DEF SetPassword, Account
<1>7. ASSUME NEW r \in Requests, DestroySession(r)  PROVE UniqueAccounts'
  BY <1>1, <1>7, UniqueKept DEF DestroySession, Without
<1>8. CASE users' = users
  BY <1>1, <1>8, UniqueKept
<1>9. QED
  BY <1>2, <1>3, <1>4, <1>5, <1>6, <1>7, <1>8, UsersChange

(* Two registrations that both counted no user with their name, or two     *)
(* sign-ins that both found nobody with the id of their account, never end *)
(* with a row each: the unique keys of the migrations abort the  *)
(* transaction of the second (auth.ts and the providers', which look first *)
(* and insert later).                                                      *)
THEOREM Unique == Spec => []UniqueAccounts
<1>1. Init => UniqueAccounts
  BY DEF Init, UniqueAccounts
<1>2. IInv /\ UniqueAccounts /\ [Next]_vars => UniqueAccounts'
  BY UniqueStep
<1>3. QED
  BY <1>1, <1>2, InitIInv, NextIInv, PTL DEF Spec

-----------------------------------------------------------------------------
(* What a step may not do                                                  *)

(* A logout destroys the access token that it was authenticated with, the  *)
(* refresh token that was found to be of the same user, and that user if   *)
(* it is a guest; nothing of anybody else, although tokens and users may   *)
(* have come and gone since it looked. (auth.ts, logout)                   *)
THEOREM Confined == Spec => LogoutConfined
<1> DEFINE Kept(r) ==
      /\ DOMAIN users \ {me[r]} \subseteq DOMAIN users'
      /\ \A t \in DOMAIN access : access[t] # me[r] => t \in DOMAIN access'
      /\ \A t \in DOMAIN refresh : refresh[t] # me[r] => t \in DOMAIN refresh'
<1>1. ASSUME IInv, [Next]_vars, NEW r \in Requests,
             pc[r] = "logout", pc'[r] = "ok"
      PROVE  Kept(r)
  <2>1. DestroySession(r) /\ Holds(r) /\ None \notin DOMAIN refresh
    BY <1>1, LogoutAnswered, TypeParts, NoneAssumption
       DEF IInv, RequestInv, TokensTypeOK, Table
  <2>2. /\ OfUser(access, arg[r].token, me[r])
        /\ OfUser(refresh, arg[r].second, me[r])
    BY <1>1, <2>1 DEF Holds, OfUser
  <2>3. PICK U \in SUBSET {me[r]} :
          /\ users' = Without(users, U)
          /\ access' = Cascade(Without(access, {arg[r].token}), U)
          /\ refresh' = Cascade(Without(refresh, {arg[r].second}), U)
    BY <2>1 DEF DestroySession, Sent
  <2>4. DOMAIN users \ {me[r]} \subseteq DOMAIN users'
    BY <2>3 DEF Without
  <2>5. \A t \in DOMAIN access : access[t] # me[r] => t \in DOMAIN access'
    BY <2>2, <2>3 DEF Without, Cascade, OfUser
  <2>6. \A t \in DOMAIN refresh : refresh[t] # me[r] => t \in DOMAIN refresh'
    BY <2>2, <2>3 DEF Without, Cascade, OfUser
  <2>7. QED
    BY <2>4, <2>5, <2>6
<1>2. IInv /\ [Next]_vars =>
        [\A r \in Requests : pc[r] = "logout" /\ pc'[r] = "ok" => Kept(r)]_vars
  BY <1>1
<1>3. QED
  BY <1>2, InitIInv, NextIInv, PTL DEF Spec, LogoutConfined

(* A request is answered with its tokens only when all of their rows are   *)
(* there, and they are of the user that it found: the insertions that it   *)
(* waits for finish in any order, while other requests log users out, use  *)
(* refresh tokens or change rows. (auth.ts, generateAuthTokens; refresh,   *)
(* completePasswordReset)                                                  *)
THEOREM Delivered == Spec => TokensDelivered
<1> DEFINE Complete(r) ==
      /\ r \in DOMAIN access' /\ access'[r] = me[r]
      /\ op[r] # "guest" => r \in DOMAIN refresh' /\ refresh'[r] = me[r]
<1>1. ASSUME IInv, [Next]_vars, NEW r \in delivered' \ delivered
      PROVE  Complete(r)
  <2>1. r \in Requests /\ Holds(r) /\ LocalTypeOK
    BY <1>1, Delivers, TypeParts DEF IInv, RequestInv
  <2>2. CASE \E k \in Kinds : Insert(r, k) /\ AllSettled(todo'[r])
    <3>1. PICK k \in Kinds : Insert(r, k) /\ AllSettled(todo'[r])
      BY <2>2
    <3>2. /\ k \in todo[r] /\ todo[r] \ {k} = {}
          /\ access' = IF k = "access" THEN Put(access, r, me[r]) ELSE access
          /\ refresh' = IF k = "refresh" THEN Put(refresh, r, me[r])
                        ELSE refresh
      BY <2>1, <3>1 DEF Insert, AllSettled, LocalTypeOK
    <3>3. /\ k # "access" => Has(access, r, me[r])
          /\ k # "refresh" => Has(refresh, r, me[r])
      BY <2>1, <3>2 DEF Holds
    <3>4. Has(access', r, me[r]) /\ Has(refresh', r, me[r])
      BY <3>2, <3>3 DEF Put, Has
    <3>5. QED
      BY <3>4 DEF Has
  <2>3. CASE GuestToken(r)
    BY <2>1, <2>3 DEF GuestToken, Holds, Put
  <2>4. CASE SetPassword(r) /\ op[r] = "complete"
    BY <2>4 DEF SetPassword, Put
  <2>5. QED
    BY <1>1, <2>2, <2>3, <2>4, Delivers
<1>2. IInv /\ [Next]_vars =>
        [\A r \in delivered' \ delivered : Complete(r)]_vars
  BY <1>1
<1>3. QED
  BY <1>2, InitIInv, NextIInv, PTL DEF Spec, TokensDelivered

(* A request that read a user, waited, and saves the copy writes only what *)
(* it changed: it reactivates nobody whom an administrator deactivated,    *)
(* and restores no password that was reset in the meantime.                *)
(* (auth.facebook.ts and auth.google.ts, save(); auth.ts,                  *)
(* completePasswordReset)                                                  *)
THEOREM NoneLost == Spec => NoLostUpdates
<1> DEFINE Sound(u) ==
      /\ users'[u].active => users[u].active
      /\ users'[u].password # users[u].password =>
           \E r \in Requests : /\ pc[r] = "reset" /\ me[r] = u
                               /\ users'[u].password = arg[r].password
<1>1. ASSUME IInv, [Next]_vars, NEW u \in DOMAIN users \cap DOMAIN users'
      PROVE  Sound(u)
  <2>1. /\ RequestInv /\ LocalTypeOK
        /\ users \in [DOMAIN users -> Account]
    BY <1>1, TypeParts DEF IInv, UsersTypeOK, Table
  <2>2. CASE users'[u] = users[u]
    BY <2>2
  <2>3. ASSUME NEW r \in Requests, Guest(r) \/ SaveUser(r) \/ CreateSocial(r)
        PROVE  users'[u] = users[u]
    BY <1>1, <2>1, <2>3
       DEF Guest, SaveUser, CreateSocial, Put, RequestInv, Holds
  <2>4. ASSUME NEW r \in Requests, MergeSocial(r), users'[u] # users[u]
        PROVE  Sound(u)
    <3>1. pc[r] = "merge" /\ users' = [users EXCEPT ![me[r]] = Saved(r, @)]
      BY <2>4 DEF MergeSocial
    <3>2. u = me[r] /\ users'[u] = Saved(r, users[u])
      BY <1>1, <2>4, <3>1
    <3>3. /\ Member(users[u]) /\ users[u] \in Account /\ seen[r] \in Account
          /\ arg[r] \in Argument /\ arg[r].provider \in Providers
          /\ arg[r].id # None /\ arg[r].name # None
      BY <1>1, <2>1, <3>1, <3>2, FoundHasAccount
         DEF RequestInv, Holds, Members, LocalTypeOK
    <3>4. QED
      BY <3>2, <3>3, SavedMember
  <2>5. ASSUME NEW r \in Requests, SetPassword(r)
        PROVE  Sound(u)
    <3>1. /\ pc[r] = "reset" /\ users[u] \in Account
          /\ users' = [users EXCEPT ![me[r]].password = arg[r].password]
      BY <1>1, <2>1, <2>5 DEF SetPassword
    <3>2. CASE u = me[r]
      BY <1>1, <3>1, <3>2 DEF Account
    <3>3. CASE u # me[r]
      BY <1>1, <3>1, <3>3
    <3>4. QED
      BY <3>2, <3>3
  <2>6. ASSUME NEW v \in DOMAIN users, Deactivate(v)  PROVE Sound(u)
    BY <1>1, <2>1, <2>6 DEF Deactivate, Account
  <2>7. ASSUME NEW r \in Requests, DestroySession(r)
        PROVE  users'[u] = users[u]
    BY <1>1, <2>7 DEF DestroySession, Without
  <2>8. QED
    BY <1>1, <2>2, <2>3, <2>4, <2>5, <2>6, <2>7, UsersChange
<1>2. IInv /\ [Next]_vars =>
        [\A u \in DOMAIN users \cap DOMAIN users' : Sound(u)]_vars
  BY <1>1
<1>3. QED
  BY <1>2, InitIInv, NextIInv, PTL DEF Spec, NoLostUpdates
=============================================================================
