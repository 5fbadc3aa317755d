-------------------------- MODULE DeliveriesProofs --------------------------
(***************************************************************************)
(* Proofs about Deliveries and the UserSettings it extends, for any users, *)
(* tokens, requests and notifications.                                     *)
(***************************************************************************)
EXTENDS Deliveries, FiniteSetTheorems, TLAPS

USE TodayAssumption, NoneAssumption
    DEF TodayAssumption, NoneAssumption, Null, Tomorrow

(* What a request has in hand between its query and its save: a token and  *)
(* the row that it found, or none; or a payload that the profile it read   *)
(* allows.                                                                 *)
Found == [uid : Rows, user : Users] \cup [uid : {None}, user : {None}]
Legal == [optOut : BOOLEAN, acceptedAt : Null .. Tomorrow]

RequestInv ==
  \A r \in Requests :
    /\ at[r] = "token" => what[r] \in Tokens /\ copy[r] \in Found
    /\ at[r] = "profile" =>
         /\ what[r] \in Patch /\ copy[r] \in Legal
         /\ what[r].acceptedAt # None =>
              Allowed(what[r].acceptedAt, copy[r].acceptedAt)

(* A hook that has found a row is one for an updated token. *)
HookInv == \A h \in hooks : h.row # None => h.new # None

(* The lists that were sent are no longer than the table.                  *)
ListInv ==
  \A n \in Notifications : /\ Len(androidTokens[n]) <= Cardinality(Rows)
                           /\ Len(appleTokens[n]) <= Cardinality(Rows)

(* Of a token that only one handler changes and that replaced none while   *)
(* it had a row: its row is one and names the user registered last; the    *)
(* request that registers it has read that row as it is.                   *)
OneRow(t) ==
  \A i \in RowsOf(t) : /\ \A j \in RowsOf(t) : i = j
                       /\ pushTokens[i].user = registered[t]
OneHandler(t) ==
  \A r \in Registering(t) :
    /\ \A s \in Registering(t) : r = s
    /\ \A i \in RowsOf(t) :
         copy[r].uid = i /\ copy[r].user = pushTokens[i].user
TokenInv ==
  \A t \in Tokens \ (contended \cup merged) : OneRow(t) /\ OneHandler(t)

(* Of a notification's handle a, its calls s and how often each of them    *)
(* was taken: there are no more tries than the retries allow, those that   *)
(* may yet be made included; calls are made one after the other, and only  *)
(* those that overlap may both be under way or have results.               *)
Waiting(s) == {k \in Sends : s[k] \in {"none", "backoff"}}
Active == {"sending", "backoff", "results"}
NotCalled(s) == \A k \in Sends : s[k] = "none"
TriesOK(a, s) ==
  a.currentTry + Cardinality(Waiting(s)) <= RetryCount + MaxSends
AnswersOK(a, s, took, overlap) ==
  /\ \A k \in Sends :
       /\ s[k] = "results" => took[k] = 1 /\ a.isSent
       /\ took[k] # 0 => s[k] \in {"results", "error"}
       /\ s[k] = "none" => \A j \in Sends : j > k => s[j] = "none"
  /\ ~overlap =>
       \A j, k \in Sends : s[j] \in Active /\ s[k] \in Active => j = k
SendOK(a, s, took, overlap) ==
  TriesOK(a, s) /\ AnswersOK(a, s, took, overlap)
SendInv ==
  \A n \in Notifications :
    /\ SendOK(android[n], sends[n], accepted[n], n \in overlapped)
    /\ apple[n] = "new" => NotCalled(sends[n])

(* The rows of a token that Apple reported are gone, or the hook that      *)
(* deletes them has not ended.                                             *)
Deletes(h, n, t) ==
  h.id[1] = n /\ h.id[2] = 0 /\ h.old = t /\ h.new = None
ExpiredInv ==
  \A n \in Notifications, t \in Ios :
    <<n, t>> \in expired =>
      RowsOf(t) = {} \/ (apple[n] = "hooks" /\ \E h \in hooks : Deletes(h, n, t))

(* The inductive invariant of the types, of the settings and of the        *)
(* deliveries.                                                             *)
SettingsInv == SettingsTypeOK /\ RequestInv /\ HookInv
DeliveryInv == TypeOK /\ ListInv /\ SendInv
IInv == SettingsInv /\ DeliveryInv

-----------------------------------------------------------------------------
(* The first rows: one for each registered token, that of its owner.       *)
LEMMA FirstRows ==
  ASSUME NEW owner \in [Tokens -> Users \cup {None}]
  PROVE  /\ RowsFor(owner) \in [Rows -> Row \cup {None}]
         /\ \E uid \in [Tokens -> Rows] :
              \A i \in Rows : RowsFor(owner)[i] # None =>
                \E t \in Tokens :
                  uid[t] = i /\ RowsFor(owner)[i] = [token |-> t,
                                                     user |-> owner[t]]
                             /\ owner[t] \in Users
<1> DEFINE uid == CHOOSE f \in [Tokens -> Rows] :
                    \A t, s \in Tokens : f[t] = f[s] => t = s
           first(i) == CHOOSE t \in Tokens : uid[t] = i
<1>1. /\ uid \in [Tokens -> Rows]
      /\ \A t, s \in Tokens : uid[t] = uid[s] => t = s
  BY RowsAssumption DEF RowsAssumption
<1>2. RowsFor(owner) =
        [i \in Rows |->
          IF \E t \in Tokens : uid[t] = i /\ owner[t] # None
          THEN [token |-> first(i), user |-> owner[first(i)]] ELSE None]
  BY DEF RowsFor
<1> HIDE DEF uid
<1>3. ASSUME NEW i \in Rows, NEW t \in Tokens, uid[t] = i, owner[t] # None
      PROVE  first(i) = t /\ owner[t] \in Users
  BY <1>1, <1>3
<1> HIDE DEF first
<1>4. \A i \in Rows :
        \/ RowsFor(owner)[i] = None
        \/ \E t \in Tokens :
             uid[t] = i /\ RowsFor(owner)[i] = [token |-> t, user |-> owner[t]]
                        /\ owner[t] \in Users
  BY <1>2, <1>3
<1>5. RowsFor(owner) \in [Rows -> Row \cup {None}]
  <2>1. ASSUME NEW i \in Rows PROVE RowsFor(owner)[i] \in Row \cup {None}
    <3>1. CASE RowsFor(owner)[i] = None
      BY <3>1
    <3>2. CASE RowsFor(owner)[i] # None
      <4>1. PICK t \in Tokens :
              RowsFor(owner)[i] = [token |-> t, user |-> owner[t]]
              /\ owner[t] \in Users
        BY <1>4, <3>2
      <4> QED
        BY <4>1 DEF Row
    <3> QED
      BY <3>1, <3>2
  <2>2. RowsFor(owner) = [i \in Rows |-> RowsFor(owner)[i]]
    BY <1>2
  <2> QED
    BY <2>1, <2>2
<1> QED
  BY <1>1, <1>4, <1>5

(* What holds of the settings at first. *)
LEMMA InitSettings == SettingsInit => SettingsInv /\ TokenInv
<1> SUFFICES ASSUME SettingsInit PROVE SettingsInv /\ TokenInv
  OBVIOUS
<1>1. registered \in [Tokens -> Users \cup {None}]
  BY OwnersAssumption DEF OwnersAssumption, SettingsInit
<1>2. pushTokens \in [Rows -> Row \cup {None}]
  BY <1>1, FirstRows DEF SettingsInit
<1>3. /\ profiles \in [Users -> [optOut : BOOLEAN, acceptedAt : 0 .. Today + 1]]
      /\ \A r \in Requests : at[r] = "new" /\ what[r] = None /\ copy[r] = None
      /\ hooks = {}
      /\ contended = {} /\ merged = {}
  BY DEF SettingsInit
<1>4. SettingsInv
  BY <1>1, <1>2, <1>3 DEF SettingsInit, SettingsInv, SettingsTypeOK, RequestInv,
    HookInv
<1>5. \A t \in Tokens : Registering(t) = {}
  BY <1>3 DEF Registering
<1>6. ASSUME NEW t \in Tokens, NEW i \in RowsOf(t)
      PROVE  /\ pushTokens[i].user = registered[t]
             /\ \A j \in RowsOf(t) : i = j
  <2>1. /\ pushTokens = RowsFor(registered)
        /\ \A k \in RowsOf(t) : /\ k \in Rows /\ pushTokens[k] # None
                                /\ pushTokens[k].token = t
    BY DEF SettingsInit, RowsOf
  <2>2. PICK uid \in [Tokens -> Rows] :
          \A k \in Rows : RowsFor(registered)[k] # None =>
            \E s \in Tokens :
              uid[s] = k /\ RowsFor(registered)[k] =
                             [token |-> s, user |-> registered[s]]
                        /\ registered[s] \in Users
    BY <1>1, FirstRows
  <2>3. ASSUME NEW k \in RowsOf(t)
        PROVE  uid[t] = k /\ pushTokens[k].user = registered[t]
    <3>1. PICK s \in Tokens :
            uid[s] = k /\ pushTokens[k] = [token |-> s,
                                           user |-> registered[s]]
      BY <2>1, <2>2
    <3>2. s = t
      BY <2>1, <3>1
    <3> QED
      BY <3>1, <3>2
  <2> QED
    BY <2>3
<1> QED
  BY <1>4, <1>5, <1>6 DEF TokenInv, OneRow, OneHandler
-----------------------------------------------------------------------------
(* What is in the table under a token.                                     *)
LEMMA RowOf ==
  ASSUME SettingsTypeOK, NEW t, NEW i \in RowsOf(t)
  PROVE  /\ i \in Rows /\ pushTokens[i] \in Row /\ pushTokens[i].token = t
         /\ t \in Tokens /\ pushTokens[i].user \in Users
BY DEF SettingsTypeOK, RowsOf, Row

(* The handler of push tokens keeps the types of what it has read.         *)
LEMMA TokenFound ==
  ASSUME SettingsInv, NEW r \in Requests, NEW t \in Tokens,
         FindOrInitialize(r, t)
  PROVE  SettingsInv'
<1>1. PICK c \in Found : copy' = [copy EXCEPT ![r] = c]
  <2>1. ASSUME NEW i \in Matching(t)
        PROVE  [uid |-> i, user |-> pushTokens[i].user] \in Found
    BY <2>1, RowOf DEF Matching, Found, SettingsInv
  <2>2. [uid |-> None, user |-> None] \in Found
    BY DEF Found
  <2> QED
    BY <2>1, <2>2 DEF FindOrInitialize
<1>2. /\ what' = [what EXCEPT ![r] = t]
      /\ at' = [at EXCEPT ![r] = "token"]
      /\ contended' \in {contended, contended \cup {t}}
      /\ UNCHANGED <<pushTokens, profiles, by, hooks, registered, merged>>
  BY DEF FindOrInitialize
<1>3. c \in Copy
  BY DEF Found, Copy
<1>4. SettingsTypeOK'
  BY <1>1, <1>2, <1>3 DEF SettingsInv, SettingsTypeOK
<1>5. RequestInv'
  <2>1. ASSUME NEW q \in Requests, q # r
        PROVE  at'[q] = at[q] /\ what'[q] = what[q] /\ copy'[q] = copy[q]
    BY <1>1, <1>2, <2>1 DEF SettingsInv, SettingsTypeOK
  <2>2. at'[r] = "token" /\ what'[r] = t /\ copy'[r] = c
    BY <1>1, <1>2 DEF SettingsInv, SettingsTypeOK
  <2>3. RequestInv
    BY DEF SettingsInv
  <2> QED
    BY <2>1, <2>2, <2>3 DEF RequestInv, Allowed
<1> QED
  BY <1>2, <1>4, <1>5 DEF SettingsInv, HookInv

(* Its save does, whichever query it is. *)
LEMMA TokenSaved ==
  ASSUME SettingsInv, NEW r \in Requests, SaveToken(r)
  PROVE  SettingsInv'
<1>1. what[r] \in Tokens /\ copy[r] \in Found /\ at[r] = "token"
  BY DEF SettingsInv, RequestInv, SaveToken
<1>2. by[r] \in Users
  BY DEF SettingsInv, SettingsTypeOK
<1> DEFINE NewTable == /\ pushTokens' \in [Rows -> Row \cup {None}]
                       /\ registered' \in [Tokens -> Users \cup {None}]
                       /\ contended' \subseteq Tokens
<1>3. NewTable
  <2>1. CASE InsertRow(r)
    <3>1. [token |-> what[r], user |-> by[r]] \in Row
      BY <1>1, <1>2 DEF Row
    <3> QED
      BY <2>1, <1>1, <1>2, <3>1 DEF InsertRow, SettingsInv, SettingsTypeOK
  <2>2. ASSUME NEW i \in Rows, UpdateRow(r, i)
        PROVE  NewTable
    <3>1. pushTokens[i] \in Row
      BY <2>2 DEF UpdateRow, SettingsInv, SettingsTypeOK
    <3>2. /\ [pushTokens[i] EXCEPT !.user = by[r]] \in Row
          /\ pushTokens[i].token \in Tokens
      BY <3>1, <1>2 DEF Row
    <3> QED
      BY <2>2, <1>1, <1>2, <3>2 DEF UpdateRow, SettingsInv, SettingsTypeOK
  <2>3. CASE LeaveRow(r)
    BY <2>3, <1>1, <1>2 DEF LeaveRow, SettingsInv, SettingsTypeOK
  <2> QED
    BY <2>1, <2>2, <2>3 DEF SaveToken
<1>4. /\ at' = [at EXCEPT ![r] = "done"]
      /\ what' = [what EXCEPT ![r] = None]
      /\ copy' = [copy EXCEPT ![r] = None]
      /\ UNCHANGED <<profiles, by, hooks, merged>>
  BY DEF SaveToken, Answered
<1>5. SettingsTypeOK'
  BY <1>3, <1>4 DEF SettingsInv, SettingsTypeOK
<1>6. RequestInv'
  BY <1>4 DEF SettingsInv, SettingsTypeOK, RequestInv, Allowed
<1> QED
  BY <1>4, <1>5, <1>6 DEF SettingsInv, HookInv

(* PATCH /user/legal goes on with a payload that the profile allows.       *)
LEMMA ProfileRead ==
  ASSUME SettingsInv, NEW r \in Requests, NEW patch \in Patches,
         ReadProfile(r, patch)
  PROVE  SettingsInv'
<1>1. UNCHANGED <<pushTokens, profiles, by, hooks, registered, contended,
                  merged>>
  BY DEF ReadProfile
<1>2. patch \in Patch
  BY PatchesAssumption DEF PatchesAssumption
<1>3. by[r] \in Users /\ profiles[by[r]] \in Legal
  BY DEF SettingsInv, SettingsTypeOK, Legal
<1>4. profiles[by[r]] \in Profile
  BY <1>3 DEF Legal, Profile, Dates
<1>5. CASE /\ patch.acceptedAt # None =>
                Allowed(patch.acceptedAt, profiles[by[r]].acceptedAt)
           /\ at' = [at EXCEPT ![r] = "profile"]
           /\ what' = [what EXCEPT ![r] = patch]
           /\ copy' = [copy EXCEPT ![r] = profiles[by[r]]]
  <2>1. SettingsTypeOK'
    BY <1>1, <1>2, <1>4, <1>5 DEF SettingsInv, SettingsTypeOK
  <2>2. /\ at'[r] = "profile" /\ what'[r] = patch
        /\ copy'[r] = profiles[by[r]]
        /\ \A q \in Requests \ {r} :
             at'[q] = at[q] /\ what'[q] = what[q] /\ copy'[q] = copy[q]
    BY <1>5 DEF SettingsInv, SettingsTypeOK
  <2>3. RequestInv'
    BY <1>2, <1>3, <1>5, <2>2 DEF SettingsInv, RequestInv, Allowed
  <2> QED
    BY <1>1, <2>1, <2>3 DEF SettingsInv, HookInv
<1>6. CASE Answered(r)
  <2>1. SettingsTypeOK'
    BY <1>1, <1>6 DEF SettingsInv, SettingsTypeOK, Answered
  <2>2. RequestInv'
    BY <1>6 DEF SettingsInv, SettingsTypeOK, RequestInv, Allowed, Answered
  <2> QED
    BY <1>1, <2>1, <2>2 DEF SettingsInv, HookInv
<1> QED
  BY <1>5, <1>6 DEF ReadProfile

(* What save() makes of a profile, given one read before: fields that the  *)
(* payload does not name stay; an acceptance stays; and the date goes back *)
(* only behind one that was read.                                          *)
Lawful(p, read, patch, new) ==
  /\ p.acceptedAt # Null => new.acceptedAt # Null
  /\ new.acceptedAt < p.acceptedAt => read.acceptedAt < p.acceptedAt
  /\ patch.optOut = None => new.optOut = p.optOut
  /\ patch.acceptedAt = None => new.acceptedAt = p.acceptedAt

LEMMA SavedProfile ==
  ASSUME NEW p \in Legal, NEW read \in Legal, NEW patch \in Patch,
         patch.acceptedAt # None => Allowed(patch.acceptedAt, read.acceptedAt),
         NEW new, new = Changed(p, read, patch)
  PROVE  new \in Legal /\ Lawful(p, read, patch, new)
<1>1. /\ new = [optOut |-> new.optOut, acceptedAt |-> new.acceptedAt]
      /\ new.optOut = IF patch.optOut \in {None, read.optOut} THEN p.optOut
                      ELSE patch.optOut
      /\ new.acceptedAt = IF patch.acceptedAt \in {None, read.acceptedAt}
                          THEN p.acceptedAt ELSE patch.acceptedAt
  BY DEF Changed
<1>2. /\ p.optOut \in BOOLEAN /\ p.acceptedAt \in 0 .. Today + 1
      /\ read.acceptedAt \in 0 .. Today + 1
      /\ patch.optOut \in BOOLEAN \cup {None}
      /\ patch.acceptedAt \in (0 .. Today + 2) \cup {None}
  BY DEF Legal, Patch, Dates
<1>3. new.optOut \in BOOLEAN /\ (patch.optOut = None => new.optOut = p.optOut)
  BY <1>1, <1>2
<1>4. CASE patch.acceptedAt \in {None, read.acceptedAt}
  <2>1. new.acceptedAt = p.acceptedAt
    BY <1>1, <1>4
  <2> QED
    BY <1>1, <1>2, <1>3, <2>1 DEF Legal, Lawful
<1>5. CASE patch.acceptedAt \notin {None, read.acceptedAt}
  <2>1. new.acceptedAt = patch.acceptedAt /\ patch.acceptedAt \in 0 .. Today + 2
    BY <1>1, <1>2, <1>5
  <2>2. /\ read.acceptedAt # 0 => new.acceptedAt # 0
        /\ new.acceptedAt <= Today + 1
        /\ new.acceptedAt # 0 => new.acceptedAt >= read.acceptedAt
    BY <1>5, <2>1 DEF Allowed
  <2>3. new.acceptedAt # 0
    BY <1>2, <1>5, <2>1, <2>2
  <2> QED
    BY <1>1, <1>2, <1>3, <1>5, <2>1, <2>2, <2>3 DEF Legal, Lawful
<1> QED
  BY <1>4, <1>5
(* Saving the legal settings does.                                         *)
LEMMA ProfileSaved ==
  ASSUME SettingsInv, NEW r \in Requests, SaveProfile(r)
  PROVE  SettingsInv'
<1>1. /\ what[r] \in Patch /\ copy[r] \in Legal
      /\ what[r].acceptedAt # None =>
           Allowed(what[r].acceptedAt, copy[r].acceptedAt)
      /\ by[r] \in Users /\ profiles[by[r]] \in Legal
  BY DEF SettingsInv, SettingsTypeOK, RequestInv, SaveProfile, Legal
<1>2. Changed(profiles[by[r]], copy[r], what[r]) \in Legal
  BY <1>1, SavedProfile
<1>3. /\ profiles' = [profiles EXCEPT
           ![by[r]] = Changed(profiles[by[r]], copy[r], what[r])]
      /\ at' = [at EXCEPT ![r] = "done"]
      /\ what' = [what EXCEPT ![r] = None]
      /\ copy' = [copy EXCEPT ![r] = None]
      /\ UNCHANGED <<pushTokens, by, hooks, registered, contended, merged>>
  BY DEF SaveProfile, Answered
<1>4. profiles' \in [Users -> Legal]
  BY <1>2, <1>3 DEF SettingsInv, SettingsTypeOK, Legal
<1>5. SettingsTypeOK'
  BY <1>3, <1>4 DEF SettingsInv, SettingsTypeOK, Legal
<1>6. RequestInv'
  BY <1>3 DEF SettingsInv, SettingsTypeOK, RequestInv, Allowed
<1> QED
  BY <1>3, <1>5, <1>6 DEF SettingsInv, HookInv

(* The hooks do: for an expired token, and for an updated one in two steps.*)
LEMMA HookSteps ==
  ASSUME SettingsInv, NEW h \in hooks,
         ExpireToken(h) \/ FindOldToken(h) \/ UpdateToken(h)
  PROVE  SettingsInv'
<1>1. /\ UNCHANGED <<profiles, requestVars>>
      /\ h \in HookCall
  BY DEF ExpireToken, FindOldToken, UpdateToken, SettingsInv, SettingsTypeOK
<1>2. RequestInv'
  BY <1>1 DEF SettingsInv, RequestInv, requestVars, Allowed
<1>3. CASE ExpireToken(h)
  <2>1. pushTokens' \in [Rows -> Row \cup {None}]
    BY <1>3 DEF ExpireToken, SettingsInv, SettingsTypeOK
  <2> QED
    BY <1>1, <1>2, <1>3, <2>1 DEF ExpireToken, SettingsInv, SettingsTypeOK,
      requestVars, HookInv
<1>4. CASE FindOldToken(h)
  <2>1. ASSUME NEW i \in RowsOf(h.old),
               hooks' = (hooks \ {h}) \cup {[h EXCEPT !.row = i]}
        PROVE  hooks' \subseteq HookCall /\ HookInv'
    <3>1. i \in Rows
      BY DEF RowsOf
    <3>2. [h EXCEPT !.row = i] \in HookCall
      BY <1>1, <3>1 DEF HookCall
    <3>3. [h EXCEPT !.row = i].new # None
      BY <1>1, <1>4 DEF HookCall, FindOldToken
    <3> QED
      BY <2>1, <3>2, <3>3 DEF HookInv, SettingsInv, SettingsTypeOK
  <2>2. CASE hooks' = hooks \ {h}
    BY <1>1, <1>2, <1>4, <2>2 DEF FindOldToken, SettingsInv, SettingsTypeOK,
      requestVars, HookInv
  <2> QED
    BY <1>1, <1>2, <1>4, <2>1, <2>2 DEF FindOldToken, SettingsInv,
      SettingsTypeOK, requestVars
<1>5. CASE UpdateToken(h)
  <2>1. h.new \in Tokens /\ h.row \in Rows /\ hooks' = hooks \ {h}
    BY <1>1, <1>5 DEF UpdateToken, SettingsInv, HookInv, HookCall
  <2>2. CASE pushTokens[h.row] # None
    <3>1. pushTokens[h.row] \in Row
      BY <2>1, <2>2 DEF SettingsInv, SettingsTypeOK
    <3>2. /\ [pushTokens[h.row] EXCEPT !.token = h.new] \in Row
          /\ pushTokens[h.row].user \in Users
      BY <2>1, <3>1 DEF Row
    <3>3. /\ pushTokens' \in [Rows -> Row \cup {None}]
          /\ registered' \in [Tokens -> Users \cup {None}]
          /\ contended' \subseteq Tokens /\ merged' \subseteq Tokens
      <4>1. /\ pushTokens' = [pushTokens EXCEPT
                 ![h.row] = [pushTokens[h.row] EXCEPT !.token = h.new]]
            /\ registered' =
                 [registered EXCEPT ![h.new] = pushTokens[h.row].user]
            /\ contended' \in {contended, contended \cup {h.new}}
            /\ merged' \in {merged, merged \cup {h.new}}
        BY <1>5, <2>2 DEF UpdateToken
      <4>2. /\ pushTokens \in [Rows -> Row \cup {None}]
            /\ registered \in [Tokens -> Users \cup {None}]
            /\ contended \subseteq Tokens /\ merged \subseteq Tokens
        BY DEF SettingsInv, SettingsTypeOK
      <4> QED
        BY <2>1, <3>2, <4>1, <4>2
    <3> QED
      BY <1>1, <1>2, <2>1, <3>3 DEF SettingsInv, SettingsTypeOK, requestVars,
        HookInv
  <2>3. CASE UNCHANGED <<pushTokens, registered, contended, merged>>
    BY <1>1, <1>2, <2>1, <2>3 DEF SettingsInv, SettingsTypeOK, requestVars,
      HookInv
  <2> QED
    BY <1>5, <2>2, <2>3 DEF UpdateToken
<1> QED
  BY <1>3, <1>4, <1>5

(* Every step of the settings keeps what is known of them.                 *)
LEMMA NextSettings == SettingsInv /\ SettingsNext => SettingsInv'
BY TokenFound, TokenSaved, ProfileRead, ProfileSaved, HookSteps
   DEF SettingsNext
-----------------------------------------------------------------------------
(* A step that gives a token no new row and no new handler, and leaves     *)
(* those that stay as they are, keeps the two invariants of the token.     *)
LEMMA Quiet ==
  ASSUME NEW t, OneRow(t), OneHandler(t),
         \A i \in RowsOf(t)' :
           i \in RowsOf(t) /\ pushTokens'[i].user = pushTokens[i].user,
         registered'[t] = registered[t],
         \A q \in Registering(t)' :
           q \in Registering(t) /\ copy'[q] = copy[q]
  PROVE  OneRow(t)' /\ OneHandler(t)'
<1>1. OneRow(t)'
  BY DEF OneRow
<1>2. OneHandler(t)'
  BY DEF OneHandler
<1> QED
  BY <1>1, <1>2

(* The request that is answered is no longer registering anything; other   *)
(* requests are as they were.                                              *)
LEMMA NoLonger ==
  ASSUME SettingsTypeOK, NEW r \in Requests, Answered(r), NEW t
  PROVE  \A q \in Registering(t)' :
           q # r /\ q \in Registering(t) /\ copy'[q] = copy[q]
BY DEF SettingsTypeOK, Answered, Registering

(* A handler begins: it is the only one of its token, and has read the row.*)
LEMMA FoundToken ==
  ASSUME SettingsInv, TokenInv, NEW r \in Requests, NEW s \in Tokens,
         FindOrInitialize(r, s)
  PROVE  TokenInv'
<1> SUFFICES ASSUME NEW t \in Tokens, t \notin contended' \cup merged'
             PROVE  OneRow(t)' /\ OneHandler(t)'
  BY DEF TokenInv
<1>1. SettingsTypeOK
  BY DEF SettingsInv
<1>2. OneRow(t) /\ OneHandler(t)
  BY DEF TokenInv, FindOrInitialize
<1>3. RowsOf(t)' = RowsOf(t) /\ UNCHANGED <<pushTokens, registered>>
  BY DEF RowsOf, FindOrInitialize
<1>4. /\ at[r] = "new" /\ what'[r] = s
      /\ \A q \in Requests : q # r =>
           at'[q] = at[q] /\ what'[q] = what[q] /\ copy'[q] = copy[q]
  BY <1>1 DEF FindOrInitialize, SettingsTypeOK
<1>5. CASE t # s
  <2>1. \A q \in Registering(t)' : q \in Registering(t) /\ copy'[q] = copy[q]
    BY <1>4, <1>5 DEF Registering
  <2> QED
    BY <1>2, <1>3, <2>1, Quiet
<1>6. CASE t = s
  <2>1. Registering(t) = {}
    BY <1>6 DEF FindOrInitialize
  <2>2. \A q \in Registering(t)' : q = r
    BY <1>4, <2>1 DEF Registering
  <2>3. ASSUME NEW j \in RowsOf(t)
        PROVE  copy'[r].uid = j /\ copy'[r].user = pushTokens[j].user
    <3>1. PICK i \in RowsOf(t) :
            copy' = [copy EXCEPT ![r] = [uid |-> i, user |-> pushTokens[i].user]]
      BY <1>6, <2>3 DEF FindOrInitialize, Matching
    <3>2. i = j
      BY <1>2 DEF OneRow
    <3> QED
      BY <1>1, <3>1, <3>2 DEF SettingsTypeOK
  <2> QED
    BY <1>2, <1>3, <2>2, <2>3 DEF OneRow, OneHandler
<1> QED
  BY <1>5, <1>6

(* A row is inserted for a token that has none. *)
LEMMA Inserted ==
  ASSUME SettingsInv, TokenInv, NEW r \in Requests, SaveToken(r), InsertRow(r)
  PROVE  TokenInv'
<1> SUFFICES ASSUME NEW t \in Tokens, t \notin contended' \cup merged'
             PROVE  OneRow(t)' /\ OneHandler(t)'
  BY DEF TokenInv
<1>1. /\ SettingsTypeOK /\ Answered(r)
      /\ at[r] = "token" /\ what[r] \in Tokens
  BY DEF SettingsInv, SaveToken, RequestInv
<1>2. OneRow(t) /\ OneHandler(t)
  BY DEF TokenInv, InsertRow, SaveToken
<1>3. PICK i \in Rows :
        /\ pushTokens[i] = None
        /\ pushTokens' = [pushTokens EXCEPT
                            ![i] = [token |-> what[r], user |-> by[r]]]
  BY DEF InsertRow, NewUid, IsKnown
<1>4. registered' = [registered EXCEPT ![what[r]] = by[r]]
  BY DEF InsertRow
<1>5. /\ pushTokens'[i] = [token |-> what[r], user |-> by[r]]
      /\ \A j \in Rows : j # i => pushTokens'[j] = pushTokens[j]
  BY <1>1, <1>3 DEF SettingsTypeOK
<1>6. CASE t # what[r]
  <2>1. \A j \in RowsOf(t)' :
          j \in RowsOf(t) /\ pushTokens'[j].user = pushTokens[j].user
    BY <1>5, <1>6 DEF RowsOf
  <2>2. registered'[t] = registered[t]
    BY <1>1, <1>4, <1>6 DEF SettingsTypeOK
  <2> QED
    BY <1>1, <1>2, <2>1, <2>2, Quiet, NoLonger
<1>7. CASE t = what[r]
  <2>1. r \in Registering(t)
    BY <1>1, <1>7 DEF Registering
  <2>2. RowsOf(t) = {}
    <3> SUFFICES ASSUME NEW j \in RowsOf(t) PROVE FALSE
      OBVIOUS
    <3>1. copy[r].uid = j
      BY <1>2, <2>1 DEF OneHandler
    <3> QED
      BY <3>1 DEF InsertRow, RowsOf
  <2>3. \A q \in Registering(t)' : FALSE
    BY <1>1, <1>2, <2>1, NoLonger DEF OneHandler
  <2>4. \A j \in RowsOf(t)' : j = i
    BY <1>5, <2>2 DEF RowsOf
  <2>5. registered'[t] = by[r]
    BY <1>1, <1>4, <1>7 DEF SettingsTypeOK
  <2> QED
    BY <1>5, <2>3, <2>4, <2>5 DEF OneRow, OneHandler
<1> QED
  BY <1>6, <1>7

(* A row is updated; it may have another token than when it was read.      *)
LEMMA Updated ==
  ASSUME SettingsInv, TokenInv, NEW r \in Requests, SaveToken(r),
         NEW i \in Rows, UpdateRow(r, i)
  PROVE  TokenInv'
<1> DEFINE w == pushTokens[i].token
<1> SUFFICES ASSUME NEW t \in Tokens, t \notin contended' \cup merged'
             PROVE  OneRow(t)' /\ OneHandler(t)'
  BY DEF TokenInv
<1>1. /\ SettingsTypeOK /\ Answered(r)
      /\ at[r] = "token" /\ what[r] \in Tokens /\ copy[r].uid = i
      /\ pushTokens[i] # None
  BY DEF SettingsInv, SaveToken, RequestInv, UpdateRow
<1>2. i \in RowsOf(w) /\ w \in Tokens
  BY <1>1 DEF RowsOf, SettingsTypeOK, Row
<1>3. OneRow(t) /\ OneHandler(t)
  BY DEF TokenInv, UpdateRow, SaveToken
<1>4. /\ pushTokens'[i] = [pushTokens[i] EXCEPT !.user = by[r]]
      /\ \A j \in Rows : j # i => pushTokens'[j] = pushTokens[j]
  BY <1>1 DEF UpdateRow, SettingsTypeOK
<1>5. pushTokens'[i].token = w /\ pushTokens'[i].user = by[r]
  BY <1>1, <1>4 DEF SettingsTypeOK, Row
<1>6. registered' = [registered EXCEPT ![what[r]] = by[r], ![w] = by[r]]
  BY DEF UpdateRow
<1>7. \A q \in Registering(t)' : q \in Registering(t) /\ q # r
  BY <1>1, NoLonger
<1>8. \A j \in RowsOf(t)' : j \in RowsOf(t)
  BY <1>1, <1>4, <1>5 DEF RowsOf
<1> HIDE DEF w
<1>9. CASE t = w
  <2>1. Registering(w) \ {r} = {}
    BY <1>9 DEF UpdateRow, w
  <2>2. \A q \in Registering(t)' : FALSE
    BY <1>7, <1>9, <2>1
  <2>3. \A j \in RowsOf(t)' : j = i
    BY <1>2, <1>3, <1>8, <1>9 DEF OneRow
  <2>4. registered'[t] = by[r]
    BY <1>1, <1>2, <1>6, <1>9 DEF SettingsTypeOK
  <2> QED
    BY <1>5, <2>2, <2>3, <2>4 DEF OneRow, OneHandler
<1>10. CASE t # w /\ t = what[r]
  <2>1. r \in Registering(t)
    BY <1>1, <1>10 DEF Registering
  <2>2. RowsOf(t) = {}
    <3> SUFFICES ASSUME NEW j \in RowsOf(t) PROVE FALSE
      OBVIOUS
    <3>1. copy[r].uid = j
      BY <1>3, <2>1 DEF OneHandler
    <3> QED
      BY <1>1, <1>10, <3>1 DEF RowsOf, w
  <2>3. \A q \in Registering(t)' : FALSE
    BY <1>3, <1>7, <2>1 DEF OneHandler
  <2> QED
    BY <1>8, <2>2, <2>3 DEF OneRow, OneHandler
<1>11. CASE t # w /\ t # what[r]
  <2>1. registered'[t] = registered[t]
    BY <1>1, <1>2, <1>6, <1>11 DEF SettingsTypeOK
  <2>2. \A j \in RowsOf(t)' : pushTokens'[j].user = pushTokens[j].user
    BY <1>4, <1>8, <1>11 DEF RowsOf, w
  <2> QED
    BY <1>1, <1>3, <1>8, <2>1, <2>2, Quiet, NoLonger
<1> QED
  BY <1>9, <1>10, <1>11

(* Nothing is written: the row is the user's already, or it is gone.       *)
LEMMA LeftAsItIs ==
  ASSUME SettingsInv, TokenInv, NEW r \in Requests, SaveToken(r), LeaveRow(r)
  PROVE  TokenInv'
<1> SUFFICES ASSUME NEW t \in Tokens, t \notin contended' \cup merged'
             PROVE  OneRow(t)' /\ OneHandler(t)'
  BY DEF TokenInv
<1>1. /\ SettingsTypeOK /\ Answered(r)
      /\ at[r] = "token" /\ what[r] \in Tokens
      /\ registered' = [registered EXCEPT ![what[r]] = by[r]]
      /\ UNCHANGED <<pushTokens, contended, merged>>
      /\ pushTokens[copy[r].uid] = None \/ copy[r].user = by[r]
  BY DEF SettingsInv, SaveToken, RequestInv, LeaveRow
<1>2. OneRow(t) /\ OneHandler(t) /\ RowsOf(t)' = RowsOf(t)
  BY <1>1 DEF TokenInv, RowsOf
<1>3. CASE t # what[r]
  BY <1>1, <1>2, <1>3, Quiet, NoLonger DEF SettingsTypeOK
<1>4. CASE t = what[r]
  <2>1. r \in Registering(t)
    BY <1>1, <1>4 DEF Registering
  <2>2. \A j \in RowsOf(t) : pushTokens[j].user = by[r]
    BY <1>1, <1>2, <2>1 DEF OneHandler, RowsOf
  <2>3. \A q \in Registering(t)' : FALSE
    BY <1>1, <1>2, <2>1, NoLonger DEF OneHandler
  <2>4. registered'[t] = by[r]
    BY <1>1, <1>4 DEF SettingsTypeOK
  <2> QED
    BY <1>1, <1>2, <2>2, <2>3, <2>4 DEF OneRow, OneHandler
<1> QED
  BY <1>3, <1>4
(* PATCH /user/legal touches no token.                                     *)
LEMMA ProfileSteps ==
  ASSUME SettingsInv, TokenInv, NEW r \in Requests,
         SaveProfile(r) \/ \E patch \in Patches : ReadProfile(r, patch)
  PROVE  TokenInv'
<1> SUFFICES ASSUME NEW t \in Tokens, t \notin contended' \cup merged'
             PROVE  OneRow(t)' /\ OneHandler(t)'
  BY DEF TokenInv
<1>1. /\ at[r] # "token" /\ at'[r] # "token"
      /\ \A q \in Requests : q # r =>
           at'[q] = at[q] /\ what'[q] = what[q] /\ copy'[q] = copy[q]
      /\ UNCHANGED <<pushTokens, registered, contended, merged>>
  BY DEF SettingsInv, SettingsTypeOK, SaveProfile, ReadProfile, Answered
<1>2. OneRow(t) /\ OneHandler(t) /\ RowsOf(t)' = RowsOf(t)
  BY <1>1 DEF TokenInv, RowsOf
<1>3. \A q \in Registering(t)' : q \in Registering(t) /\ copy'[q] = copy[q]
  BY <1>1 DEF Registering
<1> QED
  BY <1>1, <1>2, <1>3, Quiet

(* A hook deletes the rows of a token, or only looks for one.              *)
LEMMA Expired ==
  ASSUME SettingsInv, TokenInv, NEW h \in hooks,
         ExpireToken(h) \/ FindOldToken(h)
  PROVE  TokenInv'
<1> SUFFICES ASSUME NEW t \in Tokens, t \notin contended' \cup merged'
             PROVE  OneRow(t)' /\ OneHandler(t)'
  BY DEF TokenInv
<1>1. UNCHANGED <<registered, requestVars>>
  BY DEF ExpireToken, FindOldToken
<1>2. \A i \in RowsOf(t)' :
        i \in RowsOf(t) /\ pushTokens'[i].user = pushTokens[i].user
  BY DEF ExpireToken, FindOldToken, RowsOf
<1>3. \A q \in Registering(t)' : q \in Registering(t) /\ copy'[q] = copy[q]
  BY <1>1 DEF Registering, requestVars
<1>4. CASE t \notin contended \cup merged
  <2>1. OneRow(t) /\ OneHandler(t)
    BY <1>4 DEF TokenInv
  <2> QED
    BY <1>1, <1>2, <1>3, <2>1, Quiet
<1>5. CASE t \in contended \cup merged
  <2>1. ExpireToken(h) /\ h.old = t /\ Registering(t) = {}
    BY <1>5 DEF ExpireToken, FindOldToken
  <2>2. RowsOf(t)' = {}
    BY <2>1 DEF ExpireToken, RowsOf
  <2> QED
    BY <1>3, <2>1, <2>2 DEF OneRow, OneHandler
<1> QED
  BY <1>4, <1>5

(* A hook gives a row a new token, which had no other row and no handler.  *)
LEMMA Renamed ==
  ASSUME SettingsInv, TokenInv, NEW h \in hooks, UpdateToken(h)
  PROVE  TokenInv'
<1> SUFFICES ASSUME NEW t \in Tokens, t \notin contended' \cup merged'
             PROVE  OneRow(t)' /\ OneHandler(t)'
  BY DEF TokenInv
<1>1. /\ UNCHANGED requestVars
      /\ SettingsTypeOK /\ h.row \in Rows /\ h.new \in Tokens
  BY DEF UpdateToken, SettingsInv, SettingsTypeOK, HookInv, HookCall
<1>2. OneRow(t) /\ OneHandler(t)
  BY DEF TokenInv, UpdateToken
<1>3. \A q \in Registering(t)' : q \in Registering(t) /\ copy'[q] = copy[q]
  BY <1>1 DEF Registering, requestVars
<1>4. CASE UNCHANGED <<pushTokens, registered, contended, merged>>
  <2>1. RowsOf(t)' = RowsOf(t)
    BY <1>4 DEF RowsOf
  <2> QED
    BY <1>2, <1>3, <1>4, <2>1, Quiet
<1>5. CASE /\ pushTokens[h.row] # None
           /\ ~UNCHANGED <<pushTokens, registered, contended, merged>>
  <2>1. /\ pushTokens' = [pushTokens EXCEPT
             ![h.row] = [pushTokens[h.row] EXCEPT !.token = h.new]]
        /\ registered' =
             [registered EXCEPT ![h.new] = pushTokens[h.row].user]
        /\ contended' = IF Registering(h.new) = {} THEN contended
                        ELSE contended \cup {h.new}
        /\ merged' = IF RowsOf(h.new) \subseteq {h.row} THEN merged
                     ELSE merged \cup {h.new}
    BY <1>5 DEF UpdateToken
  <2>2. /\ pushTokens'[h.row].token = h.new
        /\ pushTokens'[h.row].user = pushTokens[h.row].user
        /\ \A j \in Rows : j # h.row => pushTokens'[j] = pushTokens[j]
    <3>1. pushTokens[h.row] \in Row /\ pushTokens \in [Rows -> Row \cup {None}]
      BY <1>1, <1>5 DEF SettingsTypeOK
    <3> QED
      BY <1>1, <2>1, <3>1 DEF Row
  <2>3. CASE t # h.new
    <3>1. registered'[t] = registered[t]
      BY <1>1, <2>1, <2>3 DEF SettingsTypeOK
    <3>2. \A i \in RowsOf(t)' :
            i \in RowsOf(t) /\ pushTokens'[i].user = pushTokens[i].user
      BY <2>2, <2>3 DEF RowsOf
    <3> QED
      BY <1>2, <1>3, <3>1, <3>2, Quiet
  <2>4. CASE t = h.new
    <3>1. RowsOf(t) \subseteq {h.row} /\ Registering(t) = {}
      BY <2>1, <2>4
    <3>2. \A i \in RowsOf(t)' : i = h.row
      BY <2>2, <3>1 DEF RowsOf
    <3>3. registered'[t] = pushTokens'[h.row].user
      BY <1>1, <2>1, <2>2, <2>4 DEF SettingsTypeOK
    <3> QED
      BY <1>3, <3>1, <3>2, <3>3 DEF OneRow, OneHandler
  <2> QED
    BY <2>3, <2>4
<1> QED
  BY <1>4, <1>5 DEF UpdateToken

(* Every step of the settings keeps the tokens in order.                   *)
LEMMA NextTokens == SettingsInv /\ TokenInv /\ SettingsNext => TokenInv'
<1> SUFFICES ASSUME SettingsInv, TokenInv, SettingsNext PROVE TokenInv'
  OBVIOUS
<1>1. ASSUME NEW r \in Requests, SaveToken(r) PROVE TokenInv'
  BY <1>1, Inserted, Updated, LeftAsItIs DEF SaveToken
<1> QED
  BY <1>1, FoundToken, ProfileSteps, Expired, Renamed DEF SettingsNext
-----------------------------------------------------------------------------
(* What is known of an AndroidPushNotification and of the calls of send(). *)
Handle == [currentTry : 0 .. RetryCount + MaxSends, isSent : BOOLEAN]
Stage == [Sends -> Stages]

USE CountsAssumption DEF CountsAssumption

(* Those that wait are finitely many, at most as many as the calls.        *)
LEMMA FewWaiting ==
  ASSUME NEW s
  PROVE  /\ IsFiniteSet(Waiting(s)) /\ Cardinality(Waiting(s)) \in Nat
         /\ Cardinality(Waiting(s)) <= MaxSends
<1>1. IsFiniteSet(Sends) /\ Cardinality(Sends) = MaxSends
  BY FS_Interval DEF Sends
<1>2. Waiting(s) \subseteq Sends
  BY DEF Waiting
<1>3. IsFiniteSet(Waiting(s)) /\ Cardinality(Waiting(s)) <= Cardinality(Sends)
  BY <1>1, <1>2, FS_Subset
<1> QED
  BY <1>1, <1>3, FS_CardinalityType

(* A call that waited has gone on: one call less waits.                    *)
LEMMA FewerWaiting ==
  ASSUME NEW s \in Stage, NEW k \in Sends, s[k] \in {"none", "backoff"},
         NEW stage \in {"sending", "rejected"}
  PROVE  Cardinality(Waiting([s EXCEPT ![k] = stage])) =
           Cardinality(Waiting(s)) - 1
<1>1. Waiting([s EXCEPT ![k] = stage]) = Waiting(s) \ {k}
  BY DEF Waiting, Stage
<1>2. k \in Waiting(s)
  BY DEF Waiting
<1>3. Cardinality(Waiting(s) \ {k}) = Cardinality(Waiting(s)) - 1
  BY <1>2, FewWaiting, FS_RemoveElement
<1> QED
  BY <1>1, <1>3

(* A call tries, for the first time or again: another try, but one that    *)
(* the bound has counted already.                                          *)
LEMMA TriedOK ==
  ASSUME NEW a \in Handle, NEW s \in Stage, TriesOK(a, s),
         NEW k \in Sends, s[k] \in {"none", "backoff"}
  PROVE  /\ Tried(a) \in Handle /\ Tried(a).isSent = a.isSent
         /\ TriesOK(Tried(a), [s EXCEPT ![k] = "sending"])
<1> DEFINE t == [s EXCEPT ![k] = "sending"]
           c == Cardinality(Waiting(s))
           d == Cardinality(Waiting(t))
<1>1. d = c - 1 /\ c \in Nat /\ d \in Nat
  BY FewerWaiting, FewWaiting
<1>2. a.currentTry \in Nat /\ a.currentTry + c <= RetryCount + MaxSends
  BY DEF Handle, TriesOK
<1>3. Tried(a).currentTry = a.currentTry + 1 /\ Tried(a).isSent = a.isSent
  BY DEF Tried, Handle
<1> HIDE DEF c, d
<1>4. a.currentTry + 1 \in 0 .. RetryCount + MaxSends
  BY <1>1, <1>2
<1>5. Tried(a) \in Handle
  BY <1>4 DEF Tried, Handle
<1>6. TriesOK(Tried(a), t)
  BY <1>1, <1>2, <1>3 DEF TriesOK, d
<1> QED
  BY <1>3, <1>5, <1>6

(* A try ends: with an answer, or with a delay while fewer tries have been *)
(* made than the configuration allows.                                     *)
LEMMA EndedOK ==
  ASSUME NEW a \in Handle, NEW s \in Stage, TriesOK(a, s),
         NEW k \in Sends, s[k] = "sending",
         NEW stage, \/ stage \in Answers
                    \/ stage = "backoff" /\ a.currentTry < RetryCount,
         NEW b \in Handle, b.currentTry = a.currentTry
  PROVE  TriesOK(b, [s EXCEPT ![k] = stage])
<1> DEFINE t == [s EXCEPT ![k] = stage]
<1>1. CASE stage \in Answers
  <2>1. Waiting(t) = Waiting(s)
    BY <1>1 DEF Waiting, Stage, Answers
  <2> QED
    BY <2>1 DEF TriesOK
<1>2. CASE stage = "backoff" /\ a.currentTry < RetryCount
  <2> DEFINE d == Cardinality(Waiting(t))
  <2>1. d \in Nat /\ d <= MaxSends
    BY FewWaiting
  <2>2. a.currentTry \in Nat
    BY DEF Handle
  <2> HIDE DEF d
  <2>3. b.currentTry + d <= RetryCount + MaxSends
    BY <1>2, <2>1, <2>2
  <2> QED
    BY <2>3 DEF TriesOK, d
<1> QED
  BY <1>1, <1>2

(* The tokens of a user's rows: a list that is no longer than the table.   *)
LEMMA UsersTokens ==
  ASSUME NEW u, NEW type, NEW s \in TokensOf(u, type)
  PROVE  s \in Seq(type) /\ Len(s) <= Cardinality(Rows)
<1> DEFINE uids == {i \in Rows : /\ pushTokens[i] # None
                                 /\ pushTokens[i].user = u
                                 /\ pushTokens[i].token \in type}
<1>1. Cardinality(uids) \in Nat /\ Cardinality(uids) <= Cardinality(Rows)
  <2>1. uids \subseteq Rows /\ IsFiniteSet(Rows)
    BY RowsAssumption DEF RowsAssumption
  <2> HIDE DEF uids
  <2> QED
    BY <2>1, FS_Subset, FS_CardinalityType
<1>2. PICK q \in [1 .. Cardinality(uids) -> uids] :
        s = [k \in DOMAIN q |-> pushTokens[q[k]].token]
  BY DEF TokensOf
<1>3. /\ s = [k \in 1 .. Cardinality(uids) |-> pushTokens[q[k]].token]
      /\ \A k \in 1 .. Cardinality(uids) : pushTokens[q[k]].token \in type
  BY <1>2
<1> HIDE DEF uids
<1>4. s \in [1 .. Cardinality(uids) -> type]
  BY <1>3
<1>5. s \in Seq(type) /\ Len(s) = Cardinality(uids)
  BY <1>1, <1>4
<1> QED
  BY <1>1, <1>5

(* The hook calls for a report are about tokens of the list and have found *)
(* no row yet; an expired token has no new one.                            *)
LEMMA CallsFor ==
  ASSUME NEW n \in Notifications, NEW k \in 0 .. MaxSends,
         NEW s \in Seq(Tokens), Len(s) <= Cardinality(Rows),
         NEW report \in [DOMAIN s -> {"ok", "failed"} \cup Tokens]
  PROVE  /\ Calls(n, k, s, report) \subseteq HookCall
         /\ \A h \in Calls(n, k, s, report) :
              /\ h.row = None /\ h.id[1] = n /\ h.id[2] = k
              /\ \E i \in DOMAIN s : h.old = s[i]
         /\ (\A i \in DOMAIN s : report[i] \in {"ok", "failed"}) =>
              \A h \in Calls(n, k, s, report) : h.new = None
<1> DEFINE call(i) == [id |-> <<n, k, i>>, old |-> s[i],
                       new |-> IF report[i] = "failed" THEN None
                               ELSE report[i],
                       row |-> None]
<1>1. Calls(n, k, s, report) = {call(i) : i \in {j \in DOMAIN s : report[j] # "ok"}}
  BY DEF Calls
<1>2. DOMAIN s \subseteq 1 .. Cardinality(Rows)
  <2>1. Cardinality(Rows) \in Nat
    BY RowsAssumption, FS_CardinalityType DEF RowsAssumption
  <2> QED
    BY <2>1
<1>3. ASSUME NEW i \in DOMAIN s, report[i] # "ok"
      PROVE  /\ call(i) \in HookCall
             /\ call(i).row = None /\ call(i).id[1] = n /\ call(i).id[2] = k
             /\ call(i).old = s[i]
             /\ report[i] \in {"ok", "failed"} => call(i).new = None
  <2>1. <<n, k, i>> \in CallIds
    BY <1>2, CallIdsAssumption DEF CallIdsAssumption
  <2>2. s[i] \in Tokens
    OBVIOUS
  <2>3. (IF report[i] = "failed" THEN None ELSE report[i]) \in Tokens \cup {None}
    BY <1>3
  <2> QED
    BY <1>3, <2>1, <2>2, <2>3 DEF HookCall
<1> HIDE DEF call
<1> QED
  BY <1>1, <1>3

(* A step that changes one notification, which is in order after it, keeps *)
(* the notifications in order.                                             *)
LEMMA OneSend ==
  ASSUME TypeOK, SendInv, NEW n \in Notifications,
         NEW a \in Handle, NEW s \in Stage, NEW took \in [Sends -> 0 .. 1],
         NEW o \in {overlapped, overlapped \cup {n}},
         SendOK(a, s, took, n \in o),
         android' = [android EXCEPT ![n] = a],
         sends' = [sends EXCEPT ![n] = s],
         accepted' = [accepted EXCEPT ![n] = took],
         overlapped' = o,
         \A m \in Notifications :
           apple'[m] = "new" => m # n /\ apple[m] = "new"
  PROVE  /\ android' \in [Notifications -> Handle]
         /\ sends' \in [Notifications -> Stage]
         /\ accepted' \in [Notifications -> [Sends -> 0 .. 1]]
         /\ overlapped' \subseteq Notifications
         /\ SendInv'
<1>1. /\ android \in [Notifications -> Handle]
      /\ sends \in [Notifications -> Stage]
      /\ accepted \in [Notifications -> [Sends -> 0 .. 1]]
      /\ overlapped \subseteq Notifications
  BY DEF TypeOK, Handle, Stage
<1>2. android'[n] = a /\ sends'[n] = s /\ accepted'[n] = took
  BY <1>1
<1>3. ASSUME NEW m \in Notifications
      PROVE  /\ SendOK(android'[m], sends'[m], accepted'[m], m \in overlapped')
             /\ apple'[m] = "new" => NotCalled(sends'[m])
  <2>1. CASE m = n
    BY <1>2, <2>1
  <2>2. CASE m # n
    <3>1. /\ android'[m] = android[m] /\ sends'[m] = sends[m]
          /\ accepted'[m] = accepted[m]
      BY <1>1, <2>2
    <3>2. m \in overlapped' <=> m \in overlapped
      BY <2>2
    <3>3. SendOK(android[m], sends[m], accepted[m], m \in overlapped)
      BY DEF SendInv
    <3>4. SendOK(android[m], sends[m], accepted[m], m \in overlapped')
      BY <3>2, <3>3 DEF SendOK, AnswersOK
    <3>5. apple[m] = "new" => NotCalled(sends[m])
      BY DEF SendInv
    <3> QED
      BY <3>1, <3>4, <3>5
  <2> QED
    BY <2>1, <2>2
<1>4. SendInv'
  BY <1>3 DEF SendInv
<1> QED
  BY <1>1, <1>4

(* A call of send() that reaches another stage leaves its siblings alone.  *)
LEMMA Reached ==
  ASSUME TypeOK, NEW n \in Notifications, NEW k \in Sends,
         NEW stage \in Stages, Reach(n, k, stage)
  PROVE  /\ sends[n] \in Stage
         /\ [sends[n] EXCEPT ![k] = stage] \in Stage
         /\ sends' = [sends EXCEPT ![n] = [sends[n] EXCEPT ![k] = stage]]
BY DEF TypeOK, Stage, Reach

(* What is known of the notification that makes a step.                    *)
LEMMA InOrder ==
  ASSUME DeliveryInv, NEW n \in Notifications
  PROVE  /\ android[n] \in Handle /\ sends[n] \in Stage
         /\ accepted[n] \in [Sends -> 0 .. 1]
         /\ TriesOK(android[n], sends[n])
         /\ AnswersOK(android[n], sends[n], accepted[n], n \in overlapped)
         /\ apple[n] = "new" => NotCalled(sends[n])
         /\ accepted = [accepted EXCEPT ![n] = accepted[n]]
         /\ hooks \subseteq HookCall
<1>1. /\ android[n] \in Handle /\ sends[n] \in Stage
      /\ accepted[n] \in [Sends -> 0 .. 1]
      /\ accepted = [accepted EXCEPT ![n] = accepted[n]]
      /\ hooks \subseteq HookCall
  BY DEF DeliveryInv, TypeOK, SettingsTypeOK, Handle, Stage
<1>2. /\ SendOK(android[n], sends[n], accepted[n], n \in overlapped)
      /\ apple[n] = "new" => NotCalled(sends[n])
  BY DEF DeliveryInv, SendInv
<1> QED
  BY <1>1, <1>2 DEF SendOK

(* sendPushNotificationToUserUid: the lists are the user's, and the first  *)
(* try has begun if there is anyone to send to.                            *)
LEMMA Notified ==
  ASSUME DeliveryInv, NEW n \in Notifications, NEW u \in Users, Notify(n, u)
  PROVE  DeliveryInv'
<1>1. TypeOK /\ ListInv /\ SendInv
  BY DEF DeliveryInv
<1>2. PICK s \in TokensOf(u, Android), t \in TokensOf(u, Ios) :
        /\ androidTokens' = [androidTokens EXCEPT ![n] = s]
        /\ appleTokens' = [appleTokens EXCEPT ![n] = t]
        /\ IF s = <<>> THEN UNCHANGED <<android, sends>>
           ELSE /\ android' = [android EXCEPT ![n] = Tried(@)]
                /\ Reach(n, 1, "sending")
        /\ apple' = [apple EXCEPT ![n] = IF t = <<>> THEN "none" ELSE "sending"]
  BY DEF Notify
<1>3. /\ s \in Seq(Android) /\ Len(s) <= Cardinality(Rows)
      /\ t \in Seq(Ios) /\ Len(t) <= Cardinality(Rows)
  BY UsersTokens
<1>4. /\ androidTokens' \in [Notifications -> Seq(Android)]
      /\ appleTokens' \in [Notifications -> Seq(Ios)]
      /\ apple' \in [Notifications -> {"new", "sending", "hooks", "ended", "none"}]
  BY <1>1, <1>2, <1>3 DEF TypeOK
<1>5. ListInv'
  BY <1>1, <1>2, <1>3 DEF TypeOK, ListInv
<1>6. /\ \A m \in Notifications : apple'[m] = "new" => m # n /\ apple[m] = "new"
      /\ apple[n] = "new"
  BY <1>1, <1>2 DEF TypeOK, Notify
<1>7. /\ accepted' = [accepted EXCEPT ![n] = accepted[n]]
      /\ UNCHANGED <<settingsVars, overlapped, expired, failedHook>>
  BY InOrder DEF Notify
<1>8. PICK a \in Handle, r \in Stage :
        /\ android' = [android EXCEPT ![n] = a]
        /\ sends' = [sends EXCEPT ![n] = r]
        /\ SendOK(a, r, accepted[n], n \in overlapped)
  <2>1. CASE s = <<>>
    <3>1. /\ android' = [android EXCEPT ![n] = android[n]]
          /\ sends' = [sends EXCEPT ![n] = sends[n]]
      BY <1>1, <1>2, <2>1 DEF TypeOK
    <3>2. SendOK(android[n], sends[n], accepted[n], n \in overlapped)
      BY InOrder DEF SendOK
    <3> QED
      BY <3>1, <3>2, InOrder
  <2>2. CASE s # <<>>
    <3> DEFINE r == [sends[n] EXCEPT ![1] = "sending"]
    <3>1. 1 \in Sends /\ "sending" \in Stages
      BY DEF Sends, Stages
    <3>2. /\ android' = [android EXCEPT ![n] = Tried(android[n])]
          /\ Reach(n, 1, "sending")
      BY <1>2, <2>2
    <3>3. r \in Stage /\ sends' = [sends EXCEPT ![n] = r]
      BY <1>1, <3>1, <3>2, Reached
    <3>4. /\ android[n] \in Handle /\ sends[n] \in Stage
          /\ \A k \in Sends : sends[n][k] = "none"
          /\ TriesOK(android[n], sends[n])
          /\ AnswersOK(android[n], sends[n], accepted[n], n \in overlapped)
      BY <1>6, InOrder DEF NotCalled
    <3>5. Tried(android[n]) \in Handle /\ TriesOK(Tried(android[n]), r)
      BY <3>1, <3>4, TriedOK
    <3>6. \A k \in Sends : r[k] = IF k = 1 THEN "sending" ELSE "none"
      BY <3>1, <3>4 DEF Stage
    <3> HIDE DEF r
    <3>7. AnswersOK(Tried(android[n]), r, accepted[n], n \in overlapped)
      BY <3>4, <3>6 DEF AnswersOK, Active, Sends
    <3> QED
      BY <3>2, <3>3, <3>5, <3>7 DEF SendOK
  <2> QED
    BY <2>1, <2>2
<1>9. /\ android' \in [Notifications -> Handle]
      /\ sends' \in [Notifications -> Stage]
      /\ accepted' \in [Notifications -> [Sends -> 0 .. 1]]
      /\ overlapped' \subseteq Notifications
      /\ SendInv'
  <2>1. accepted[n] \in [Sends -> 0 .. 1]
    BY InOrder
  <2> QED
    BY <1>1, <1>6, <1>7, <1>8, <2>1, OneSend
<1>10. SettingsTypeOK'
  BY <1>1, <1>7 DEF TypeOK, SettingsTypeOK, settingsVars, requestVars
<1> QED
  BY <1>1, <1>4, <1>5, <1>7, <1>9, <1>10 DEF DeliveryInv, TypeOK, Handle, Stage

(* A step of one notification that changes neither the settings nor the    *)
(* lists.                                                                  *)
LEMMA OneSendKeeps ==
  ASSUME DeliveryInv, NEW n \in Notifications,
         NEW a \in Handle, NEW s \in Stage, NEW took \in [Sends -> 0 .. 1],
         NEW o \in {overlapped, overlapped \cup {n}},
         TriesOK(a, s), AnswersOK(a, s, took, n \in o),
         android' = [android EXCEPT ![n] = a],
         sends' = [sends EXCEPT ![n] = s],
         accepted' = [accepted EXCEPT ![n] = took],
         overlapped' = o,
         ~NotCalled(sends[n]),
         UNCHANGED <<pushTokens, profiles, requestVars, registered, contended,
                     merged, apple, androidTokens, appleTokens, expired,
                     failedHook>>,
         hooks' \subseteq HookCall
  PROVE  DeliveryInv'
<1>1. TypeOK /\ ListInv /\ SendInv
  BY DEF DeliveryInv
<1>2. \A m \in Notifications : apple'[m] = "new" => m # n /\ apple[m] = "new"
  BY InOrder
<1>3. /\ android' \in [Notifications -> Handle]
      /\ sends' \in [Notifications -> Stage]
      /\ accepted' \in [Notifications -> [Sends -> 0 .. 1]]
      /\ overlapped' \subseteq Notifications
      /\ SendInv'
  <2>1. SendOK(a, s, took, n \in o)
    BY DEF SendOK
  <2> QED
    BY <1>1, <1>2, <2>1, OneSend
<1>4. SettingsTypeOK' /\ ListInv'
  BY <1>1 DEF TypeOK, SettingsTypeOK, requestVars, ListInv
<1> QED
  BY <1>1, <1>3, <1>4 DEF DeliveryInv, TypeOK, Handle, Stage

(* send() is called again: it is refused, or tries, beside the calls that  *)
(* have not ended.                                                         *)
LEMMA SentAgain ==
  ASSUME DeliveryInv, NEW n \in Notifications, NEW k \in Sends, SendAgain(n, k)
  PROVE  DeliveryInv'
<1> DEFINE a == android[n]
           s == sends[n]
<1>1. /\ a \in Handle /\ s \in Stage /\ accepted[n] \in [Sends -> 0 .. 1]
      /\ TriesOK(a, s) /\ AnswersOK(a, s, accepted[n], n \in overlapped)
      /\ TypeOK /\ hooks' \subseteq HookCall
  BY InOrder DEF SendAgain, settingsVars, DeliveryInv
<1>2. /\ s[k] = "none" /\ k > 1 /\ k - 1 \in Sends /\ s[k - 1] # "none"
      /\ ~NotCalled(s)
      /\ accepted' = [accepted EXCEPT ![n] = accepted[n]]
      /\ UNCHANGED <<pushTokens, profiles, requestVars, registered, contended,
                     merged, apple, androidTokens, appleTokens, expired,
                     failedHook>>
  BY InOrder DEF SendAgain, Sends, settingsVars, NotCalled
<1>3. CASE a.isSent /\ Reach(n, k, "rejected") /\ UNCHANGED <<android, overlapped>>
  <2> DEFINE t == [s EXCEPT ![k] = "rejected"]
  <2>1. t \in Stage /\ sends' = [sends EXCEPT ![n] = t]
    BY <1>1, <1>3, Reached DEF Stages, Answers
  <2>2. android' = [android EXCEPT ![n] = a]
    BY <1>1, <1>3 DEF TypeOK
  <2>3. TriesOK(a, t)
    <3> DEFINE c == Cardinality(Waiting(s))
               d == Cardinality(Waiting(t))
    <3>1. d = c - 1 /\ c \in Nat
      BY <1>1, <1>2, FewerWaiting, FewWaiting
    <3>2. a.currentTry \in Nat /\ a.currentTry + c <= RetryCount + MaxSends
      BY <1>1 DEF Handle, TriesOK
    <3> HIDE DEF c, d
    <3>3. a.currentTry + d <= RetryCount + MaxSends
      BY <3>1, <3>2
    <3> QED
      BY <3>3 DEF TriesOK, d
  <2>4. \A j \in Sends : t[j] = IF j = k THEN "rejected" ELSE s[j]
    BY <1>1 DEF Stage
  <2> HIDE DEF t, a, s
  <2>5. AnswersOK(a, t, accepted[n], n \in overlapped)
    <3>1. ASSUME NEW j \in Sends
          PROVE  /\ t[j] = "results" => accepted[n][j] = 1 /\ a.isSent
                 /\ accepted[n][j] # 0 => t[j] \in {"results", "error"}
                 /\ t[j] = "none" => \A i \in Sends : i > j => t[i] = "none"
      BY <1>1, <1>2, <2>4 DEF AnswersOK, Sends
    <3>2. ASSUME n \notin overlapped, NEW i \in Sends, NEW j \in Sends,
                 t[i] \in Active, t[j] \in Active
          PROVE  i = j
      BY <1>1, <2>4, <3>2 DEF AnswersOK, Active
    <3> QED
      BY <3>1, <3>2 DEF AnswersOK
  <2> QED
    BY <1>1, <1>2, <1>3, <2>1, <2>2, <2>3, <2>5, OneSendKeeps DEF a, s
<1>4. CASE /\ ~a.isSent /\ Reach(n, k, "sending")
           /\ android' = [android EXCEPT ![n] = Tried(@)]
           /\ overlapped' = IF \E j \in 1 .. k - 1 : s[j] \notin Answers
                            THEN overlapped \cup {n} ELSE overlapped
  <2> DEFINE t == [s EXCEPT ![k] = "sending"]
  <2>1. t \in Stage /\ sends' = [sends EXCEPT ![n] = t]
    BY <1>1, <1>4, Reached DEF Stages
  <2>2. android' = [android EXCEPT ![n] = Tried(a)]
    BY <1>4
  <2>3. /\ Tried(a) \in Handle /\ Tried(a).isSent = a.isSent
        /\ TriesOK(Tried(a), t)
    BY <1>1, <1>2, TriedOK
  <2>4. \A j \in Sends : t[j] = IF j = k THEN "sending" ELSE s[j]
    BY <1>1 DEF Stage
  <2>5. PICK o \in {overlapped, overlapped \cup {n}} :
          /\ overlapped' = o
          /\ (n \in o) <=> n \in overlapped
                           \/ \E j \in 1 .. k - 1 : s[j] \notin Answers
    BY <1>4
  <2> HIDE DEF t, a, s
  <2>6. ASSUME n \notin o, NEW j \in Sends, s[j] \in Active PROVE FALSE
    <3>1. \A i \in 1 .. k - 1 : s[i] \in Answers
      BY <2>5, <2>6
    <3>2. CASE j < k
      <4>1. s[j] = "results"
        BY <2>6, <3>1, <3>2 DEF Sends, Active, Answers
      <4> QED
        BY <1>1, <1>4, <4>1 DEF AnswersOK
    <3>3. CASE ~(j < k)
      <4>1. s[j] = "none"
        BY <1>1, <1>2, <3>3 DEF AnswersOK, Sends
      <4> QED
        BY <2>6, <4>1 DEF Active
    <3> QED
      BY <3>2, <3>3
  <2>7. AnswersOK(Tried(a), t, accepted[n], n \in o)
    <3>1. ASSUME NEW j \in Sends
          PROVE  /\ t[j] = "results" =>
                      accepted[n][j] = 1 /\ Tried(a).isSent
                 /\ accepted[n][j] # 0 => t[j] \in {"results", "error"}
                 /\ t[j] = "none" => \A i \in Sends : i > j => t[i] = "none"
      BY <1>1, <1>2, <2>3, <2>4 DEF AnswersOK, Sends
    <3>2. ASSUME n \notin o, NEW i \in Sends, NEW j \in Sends,
                 t[i] \in Active, t[j] \in Active
          PROVE  i = j
      BY <2>4, <2>6, <3>2
    <3> QED
      BY <3>1, <3>2 DEF AnswersOK
  <2> QED
    BY <1>1, <1>2, <2>1, <2>2, <2>3, <2>5, <2>7, OneSendKeeps DEF a, s
<1> HIDE DEF a, s
<1> QED
  BY <1>3, <1>4 DEF SendAgain, a, s

(* A call under way that goes from one try to its end, or to another one.  *)
LEMMA Proceeds ==
  ASSUME DeliveryInv, NEW n \in Notifications, NEW k \in Sends,
         sends[n][k] \in {"sending", "backoff"},
         NEW stage \in Stages \ {"none"}, Reach(n, k, stage),
         NEW a \in Handle, android' = [android EXCEPT ![n] = a],
         TriesOK(a, [sends[n] EXCEPT ![k] = stage]),
         android[n].isSent => a.isSent, stage = "results" => a.isSent,
         NEW more \in 0 .. 1,
         accepted' = [accepted EXCEPT ![n][k] = @ + more],
         stage = "results" => more = 1,
         more # 0 => stage \in {"results", "error"},
         UNCHANGED <<pushTokens, profiles, requestVars, registered, contended,
                     merged, overlapped, apple, androidTokens, appleTokens,
                     expired, failedHook>>,
         hooks' \subseteq HookCall
  PROVE  DeliveryInv'
<1> DEFINE s == sends[n]
           t == [s EXCEPT ![k] = stage]
           took == [accepted[n] EXCEPT ![k] = more]
<1>1. /\ s \in Stage /\ accepted[n] \in [Sends -> 0 .. 1]
      /\ AnswersOK(android[n], s, accepted[n], n \in overlapped)
      /\ TypeOK /\ ~NotCalled(s)
  BY InOrder DEF DeliveryInv, NotCalled
<1>2. accepted[n][k] = 0
  BY <1>1 DEF AnswersOK
<1>3. /\ took \in [Sends -> 0 .. 1]
      /\ accepted' = [accepted EXCEPT ![n] = took]
  <2>1. accepted \in [Notifications -> [Sends -> 0 .. 1]]
    BY <1>1 DEF TypeOK
  <2> QED
    BY <1>1, <1>2, <2>1
<1>4. t \in Stage /\ sends' = [sends EXCEPT ![n] = t]
  BY <1>1, Reached
<1>5. \A j \in Sends : /\ t[j] = IF j = k THEN stage ELSE s[j]
                       /\ took[j] = IF j = k THEN more ELSE accepted[n][j]
  BY <1>1 DEF Stage
<1> HIDE DEF s, t, took
<1>6. s[k] \in Active
  BY DEF s, Active
<1>7. AnswersOK(a, t, took, n \in overlapped)
  <2>1. ASSUME NEW j \in Sends
        PROVE  /\ t[j] = "results" => took[j] = 1 /\ a.isSent
               /\ took[j] # 0 => t[j] \in {"results", "error"}
    BY <1>1, <1>5 DEF AnswersOK
  <2>2. ASSUME NEW j \in Sends, t[j] = "none", NEW i \in Sends, i > j
        PROVE  t[i] = "none"
    <3>1. j # k /\ s[j] = "none" /\ s[i] = "none"
      BY <1>1, <1>5, <2>2 DEF AnswersOK
    <3>2. i # k
      BY <1>6, <3>1 DEF Active
    <3> QED
      BY <1>5, <3>1, <3>2
  <2>3. ASSUME n \notin overlapped, NEW i \in Sends, NEW j \in Sends,
               t[i] \in Active, t[j] \in Active
        PROVE  i = j
    <3>1. s[i] \in Active /\ s[j] \in Active
      BY <1>5, <1>6, <2>3
    <3> QED
      BY <1>1, <2>3, <3>1 DEF AnswersOK
  <2> QED
    BY <2>1, <2>2, <2>3 DEF AnswersOK
<1>8. TriesOK(a, t)
  BY DEF t, s
<1> QED
  BY <1>1, <1>3, <1>4, <1>7, <1>8, OneSendKeeps DEF s

(* The delay is over and the next try begins. *)
LEMMA TriedAgain ==
  ASSUME DeliveryInv, NEW n \in Notifications, NEW k \in Sends, Retry(n, k)
  PROVE  DeliveryInv'
<1>1. /\ android[n] \in Handle /\ sends[n] \in Stage
      /\ TriesOK(android[n], sends[n]) /\ sends[n][k] = "backoff"
      /\ hooks' \subseteq HookCall
  BY InOrder DEF Retry, settingsVars
<1>2. /\ Tried(android[n]) \in Handle
      /\ Tried(android[n]).isSent = android[n].isSent
      /\ TriesOK(Tried(android[n]), [sends[n] EXCEPT ![k] = "sending"])
  BY <1>1, TriedOK
<1>3. accepted' = [accepted EXCEPT ![n][k] = @ + 0]
  <2>1. accepted \in [Notifications -> [Sends -> 0 .. 1]]
    BY DEF DeliveryInv, TypeOK
  <2>2. accepted[n][k] \in 0 .. 1
    BY <2>1
  <2>3. accepted[n][k] + 0 = accepted[n][k]
    BY <2>2
  <2> QED
    BY <2>1, <2>3 DEF Retry
<1>4. "sending" \in Stages \ {"none"} /\ 0 \in 0 .. 1
  BY DEF Stages
<1>5. /\ android' = [android EXCEPT ![n] = Tried(android[n])]
      /\ Reach(n, k, "sending")
      /\ UNCHANGED <<pushTokens, profiles, requestVars, registered, contended,
                     merged, overlapped, apple, androidTokens, appleTokens,
                     expired, failedHook>>
  BY DEF Retry, settingsVars
<1> QED
  BY <1>1, <1>2, <1>3, <1>4, <1>5, Proceeds

(* A try ends without results: with an error, by which time the service    *)
(* may have taken the message, or with a status, or it is made again.      *)
LEMMA TryFailed ==
  ASSUME DeliveryInv, NEW n \in Notifications, NEW k \in Sends,
         NEW outcome \in Outcomes, TrySendFails(n, k, outcome)
  PROVE  DeliveryInv'
<1> DEFINE a == [android[n] EXCEPT !.isSent = @ \/ outcome # "lost"]
           stage == IF outcome \notin Retried
                      THEN IF outcome = "4xx" THEN "status" ELSE "error"
                    ELSE IF android[n].currentTry < RetryCount THEN "backoff"
                    ELSE "false"
<1>1. /\ android[n] \in Handle /\ sends[n] \in Stage
      /\ TriesOK(android[n], sends[n]) /\ sends[n][k] = "sending"
      /\ hooks' \subseteq HookCall
  BY InOrder DEF TrySendFails, settingsVars
<1>2. /\ a \in Handle /\ a.currentTry = android[n].currentTry
      /\ android[n].isSent => a.isSent
  BY <1>1 DEF Handle
<1>3. /\ android' = [android EXCEPT ![n] = a] /\ Reach(n, k, stage)
      /\ UNCHANGED <<pushTokens, profiles, requestVars, registered, contended,
                     merged, overlapped, apple, androidTokens, appleTokens,
                     expired, failedHook>>
  <2>1. android' = [android EXCEPT ![n].isSent = @ \/ outcome # "lost"]
    BY DEF TrySendFails
  <2>2. android' = [android EXCEPT ![n] = a]
    BY <1>1, <2>1
  <2> QED
    BY <2>2 DEF TrySendFails, settingsVars
<1>4. PICK took \in {0, 1} :
        /\ accepted' = [accepted EXCEPT ![n][k] = @ + took]
        /\ took = 1 => outcome = "lost"
  <2>1. PICK took \in IF outcome = "lost" THEN {0, 1} ELSE {0} :
          accepted' = [accepted EXCEPT ![n][k] = @ + took]
    BY DEF TrySendFails
  <2>2. took \in {0, 1} /\ (took = 1 => outcome = "lost")
    OBVIOUS
  <2> QED
    BY <2>1, <2>2
<1>5. /\ \/ stage \in Answers
         \/ stage = "backoff" /\ android[n].currentTry < RetryCount
      /\ stage \in Stages \ {"none"} /\ stage # "results"
      /\ outcome = "lost" => stage = "error"
  BY DEF Answers, Stages, Retried
<1> HIDE DEF a, stage
<1>6. TriesOK(a, [sends[n] EXCEPT ![k] = stage])
  BY <1>1, <1>2, <1>5, EndedOK
<1>7. took \in 0 .. 1 /\ (took # 0 => stage \in {"results", "error"})
  BY <1>4, <1>5
<1> QED
  BY <1>1, <1>2, <1>3, <1>4, <1>5, <1>6, <1>7, Proceeds

(* A try ends with status 200: the notification is sent, and, when there   *)
(* are results, hooks are called for them.                                 *)
LEMMA TrySucceeded ==
  ASSUME DeliveryInv, NEW n \in Notifications, NEW k \in Sends,
         NEW readable \in BOOLEAN, TrySendSucceeds(n, k, readable)
  PROVE  DeliveryInv' /\ (SettingsInv => SettingsInv')
<1> DEFINE a == [android[n] EXCEPT !.isSent = TRUE]
           stage == IF readable THEN "results" ELSE "error"
<1>1. /\ android[n] \in Handle /\ sends[n] \in Stage
      /\ TriesOK(android[n], sends[n]) /\ sends[n][k] = "sending"
  BY InOrder DEF TrySendSucceeds
<1>2. a \in Handle /\ a.currentTry = android[n].currentTry /\ a.isSent
  BY <1>1 DEF Handle
<1>3. /\ android' = [android EXCEPT ![n] = a] /\ Reach(n, k, stage)
      /\ accepted' = [accepted EXCEPT ![n][k] = @ + 1]
      /\ UNCHANGED <<pushTokens, profiles, requestVars, registered, contended,
                     merged, overlapped, apple, androidTokens, appleTokens,
                     expired, failedHook>>
  <2>1. android' = [android EXCEPT ![n].isSent = TRUE]
    BY DEF TrySendSucceeds
  <2>2. android' = [android EXCEPT ![n] = a]
    BY <1>1, <2>1
  <2> QED
    BY <2>2 DEF TrySendSucceeds
<1>4. /\ stage \in Answers /\ stage \in Stages \ {"none"}
      /\ stage \in {"results", "error"}
  BY DEF Answers, Stages
<1> HIDE DEF a, stage
<1>5. TriesOK(a, [sends[n] EXCEPT ![k] = stage])
  BY <1>1, <1>2, <1>4, EndedOK
<1>6. PICK report \in [DOMAIN androidTokens[n] ->
                         {"ok", "failed"} \cup Android] :
        hooks' = IF ~readable THEN hooks
                 ELSE hooks \cup Calls(n, k, androidTokens[n], report)
  BY DEF TrySendSucceeds
<1>7. /\ Calls(n, k, androidTokens[n], report) \subseteq HookCall
      /\ \A h \in Calls(n, k, androidTokens[n], report) : h.row = None
  <2>1. androidTokens[n] \in Seq(Tokens)
    BY DEF DeliveryInv, TypeOK, Android
  <2>2. Len(androidTokens[n]) <= Cardinality(Rows)
    BY DEF DeliveryInv, ListInv
  <2>3. report \in [DOMAIN androidTokens[n] -> {"ok", "failed"} \cup Tokens]
    BY DEF Android
  <2>4. k \in 0 .. MaxSends
    BY DEF Sends
  <2> QED
    BY <2>1, <2>2, <2>3, <2>4, CallsFor
<1>8. hooks' \subseteq HookCall
  BY <1>6, <1>7, InOrder
<1>9. DeliveryInv'
  <2>1. 1 \in 0 .. 1 /\ sends[n][k] \in {"sending", "backoff"}
    BY <1>1
  <2> QED
    BY <1>2, <1>3, <1>4, <1>5, <1>8, <2>1, Proceeds
<1>10. SettingsInv => SettingsInv'
  BY <1>3, <1>6, <1>7, <1>8 DEF SettingsInv, SettingsTypeOK, RequestInv,
    HookInv, Allowed, requestVars
<1> QED
  BY <1>9, <1>10

(* Apple's responses arrive: hooks are called for what they report.        *)
LEMMA AppleResponded ==
  ASSUME DeliveryInv, NEW n \in Notifications, AppleResponds(n)
  PROVE  /\ DeliveryInv' /\ (SettingsInv => SettingsInv')
         /\ \E calls : /\ hooks' = hooks \cup calls
                       /\ expired' = expired \cup {<<n, h.old>> : h \in calls}
                       /\ \A h \in calls : Deletes(h, n, h.old)
<1>1. PICK report \in [DOMAIN appleTokens[n] -> {"ok", "failed"}] :
        LET calls == Calls(n, 0, appleTokens[n], report)
        IN /\ hooks' = hooks \cup calls
           /\ expired' = expired \cup {<<n, h.old>> : h \in calls}
  BY DEF AppleResponds
<1> DEFINE calls == Calls(n, 0, appleTokens[n], report)
<1>2. /\ appleTokens[n] \in Seq(Ios) /\ appleTokens[n] \in Seq(Tokens)
      /\ Len(appleTokens[n]) <= Cardinality(Rows)
  BY IosAssumption DEF IosAssumption, DeliveryInv, TypeOK, ListInv
<1>3. /\ calls \subseteq HookCall
      /\ \A h \in calls : /\ h.row = None /\ h.id[1] = n /\ h.id[2] = 0
                          /\ \E i \in DOMAIN appleTokens[n] :
                               h.old = appleTokens[n][i]
                          /\ h.new = None
  <2>1. /\ \A i \in DOMAIN appleTokens[n] : report[i] \in {"ok", "failed"}
        /\ report \in [DOMAIN appleTokens[n] -> {"ok", "failed"} \cup Tokens]
    OBVIOUS
  <2> QED
    BY <1>2, <2>1, CallsFor
<1>4. /\ hooks' = hooks \cup calls
      /\ expired' = expired \cup {<<n, h.old>> : h \in calls}
  BY <1>1
<1> HIDE DEF calls
<1>5. \A h \in calls : h.old \in Ios /\ Deletes(h, n, h.old)
  BY <1>2, <1>3 DEF Deletes
<1>6. expired' \subseteq Notifications \X Ios
  BY <1>4, <1>5 DEF DeliveryInv, TypeOK
<1>7. /\ apple' = [apple EXCEPT ![n] = "hooks"]
      /\ UNCHANGED <<pushTokens, profiles, requestVars, registered, contended,
                     merged, sendVars, androidTokens, appleTokens, failedHook>>
  BY DEF AppleResponds
<1>8. hooks' \subseteq HookCall
  BY <1>3, <1>4, InOrder
<1>9. DeliveryInv'
  <2>1. TypeOK'
    BY <1>6, <1>7, <1>8 DEF DeliveryInv, TypeOK, SettingsTypeOK, requestVars,
      sendVars
  <2>2. \A m \in Notifications : apple'[m] = "new" => apple[m] = "new"
    BY <1>7 DEF DeliveryInv, TypeOK
  <2> QED
    BY <1>7, <2>1, <2>2 DEF DeliveryInv, ListInv, SendInv, sendVars
<1>10. SettingsInv => SettingsInv'
  BY <1>3, <1>4, <1>7, <1>8 DEF SettingsInv, SettingsTypeOK, RequestInv,
    HookInv, Allowed, requestVars
<1> QED
  BY <1>4, <1>5, <1>9, <1>10

(* The other steps: sending to Apple ends, a hook fails, or a step of the  *)
(* settings, after which fewer tokens are awaited to be gone.              *)
LEMMA OtherSteps ==
  ASSUME DeliveryInv, SettingsInv,
         \/ \E n \in Notifications : AppleEnds(n)
         \/ \E h \in hooks : HookFails(h)
         \/ Settings
  PROVE  DeliveryInv' /\ SettingsInv'
<1>1. ASSUME NEW n \in Notifications, AppleEnds(n)
      PROVE  DeliveryInv' /\ SettingsInv'
  <2>1. SettingsInv'
    BY <1>1 DEF AppleEnds, SettingsInv, SettingsTypeOK, RequestInv, HookInv,
      Allowed, settingsVars, requestVars
  <2>2. /\ apple' \in [Notifications ->
                          {"new", "sending", "hooks", "ended", "none"}]
        /\ \A m \in Notifications : apple'[m] = "new" => apple[m] = "new"
    BY <1>1 DEF AppleEnds, DeliveryInv, TypeOK
  <2> QED
    BY <1>1, <2>1, <2>2 DEF AppleEnds, DeliveryInv, TypeOK, ListInv, SendInv,
      SettingsInv, sendVars
<1>2. ASSUME NEW h \in hooks, HookFails(h) PROVE DeliveryInv' /\ SettingsInv'
  <2>1. SettingsInv'
    BY <1>2 DEF HookFails, SettingsInv, SettingsTypeOK, RequestInv, HookInv,
      Allowed, requestVars
  <2>2. failedHook' \in BOOLEAN /\ expired' \subseteq Notifications \X Ios
    BY <1>2 DEF HookFails, DeliveryInv, TypeOK
  <2> QED
    BY <1>2, <2>1, <2>2 DEF HookFails, DeliveryInv, TypeOK, ListInv, SendInv,
      SettingsInv, sendVars
<1>3. CASE Settings
  <2>1. SettingsInv'
    BY <1>3, NextSettings DEF Settings
  <2>2. expired' \subseteq expired
    BY <1>3 DEF Settings
  <2> QED
    BY <1>3, <2>1, <2>2 DEF Settings, DeliveryInv, TypeOK, ListInv, SendInv,
      SettingsInv, sendVars
<1> QED
  BY <1>1, <1>2, <1>3

(* The invariant holds at first, and every step keeps it. *)
LEMMA InitIInv == Init => IInv /\ TokenInv /\ ExpiredInv
<1> SUFFICES ASSUME Init PROVE IInv /\ TokenInv /\ ExpiredInv
  OBVIOUS
<1>1. SettingsInv /\ TokenInv
  BY InitSettings DEF Init
<1>2. /\ \A n \in Notifications : /\ android[n].currentTry = 0
                                   /\ NotCalled(sends[n])
                                   /\ \A k \in Sends : accepted[n][k] = 0
      /\ overlapped = {}
  BY DEF Init, NotCalled
<1>3. TypeOK
  <2>1. /\ android \in [Notifications -> Handle]
        /\ sends \in [Notifications -> Stage]
        /\ accepted \in [Notifications -> [Sends -> 0 .. 1]]
    BY DEF Init, Handle, Stage, Stages
  <2>2. /\ apple \in [Notifications ->
                       {"new", "sending", "hooks", "ended", "none"}]
        /\ androidTokens \in [Notifications -> Seq(Android)]
        /\ appleTokens \in [Notifications -> Seq(Ios)]
    BY DEF Init
  <2>3. expired \subseteq Notifications \X Ios /\ failedHook \in BOOLEAN
    BY DEF Init
  <2> QED
    BY <1>1, <1>2, <2>1, <2>2, <2>3 DEF TypeOK, SettingsInv, Handle, Stage
<1>4. ListInv
  <2>1. Cardinality(Rows) \in Nat
    BY RowsAssumption, FS_CardinalityType DEF RowsAssumption
  <2> QED
    BY <2>1 DEF Init, ListInv
<1>5. SendInv
  <2> SUFFICES ASSUME NEW n \in Notifications
               PROVE  SendOK(android[n], sends[n], accepted[n], n \in overlapped)
    BY <1>2 DEF SendInv
  <2> DEFINE c == Cardinality(Waiting(sends[n]))
  <2>1. android[n].currentTry = 0 /\ c \in Nat /\ c <= MaxSends
    BY <1>2, FewWaiting
  <2> HIDE DEF c
  <2>2. android[n].currentTry + c <= RetryCount + MaxSends
    BY <2>1
  <2>3. AnswersOK(android[n], sends[n], accepted[n], n \in overlapped)
    BY <1>2 DEF AnswersOK, NotCalled, Active
  <2> QED
    BY <2>2, <2>3 DEF SendOK, TriesOK, c
<1>6. ExpiredInv
  BY DEF Init, ExpiredInv
<1> QED
  BY <1>1, <1>3, <1>4, <1>5, <1>6 DEF IInv, DeliveryInv

(* Every step keeps the types, the settings and the notifications in order.*)
LEMMA NextIInv == IInv /\ [Next]_vars => IInv'
<1> SUFFICES ASSUME IInv, [Next]_vars PROVE IInv'
  OBVIOUS
<1>1. DeliveryInv /\ SettingsInv
  BY DEF IInv
<1>2. UNCHANGED settingsVars => SettingsInv'
  BY <1>1 DEF SettingsInv, SettingsTypeOK, RequestInv, HookInv, Allowed,
    settingsVars, requestVars
<1>3. ASSUME NEW n \in Notifications, NEW u \in Users, Notify(n, u)
      PROVE  IInv'
  BY <1>1, <1>2, <1>3, Notified DEF Notify, IInv
<1>4. ASSUME NEW n \in Notifications, NEW k \in Sends, SendAgain(n, k)
      PROVE  IInv'
  BY <1>1, <1>2, <1>4, SentAgain DEF SendAgain, IInv
<1>5. ASSUME NEW n \in Notifications, NEW k \in Sends, AndroidStep(n, k)
      PROVE  IInv'
  <2>1. CASE Retry(n, k)
    BY <1>1, <1>2, <2>1, TriedAgain DEF Retry, IInv
  <2>2. ASSUME NEW outcome \in Outcomes, TrySendFails(n, k, outcome)
        PROVE  IInv'
    BY <1>1, <1>2, <2>2, TryFailed DEF TrySendFails, IInv
  <2>3. ASSUME NEW readable \in BOOLEAN, TrySendSucceeds(n, k, readable)
        PROVE  IInv'
    BY <1>1, <2>3, TrySucceeded DEF IInv
  <2> QED
    BY <1>5, <2>1, <2>2, <2>3 DEF AndroidStep
<1>6. CASE UNCHANGED vars
  BY <1>1, <1>6 DEF IInv, DeliveryInv, TypeOK, ListInv, SendInv, SettingsInv,
    SettingsTypeOK, RequestInv, HookInv, Allowed, vars, settingsVars,
    deliveryVars, sendVars, requestVars
<1> QED
  BY <1>1, <1>3, <1>4, <1>5, <1>6, AppleResponded, OtherSteps DEF Next, IInv
-----------------------------------------------------------------------------
(* What holds                                                              *)

(* The types are right. *)
THEOREM TypeCorrect == Spec => []TypeOK
<1>1. IInv => TypeOK
  BY DEF IInv, DeliveryInv
<1> QED
  BY InitIInv, NextIInv, <1>1, PTL DEF Spec

(* Every step keeps the tokens in order: only the settings touch them.     *)
LEMMA NextTokenInv == IInv /\ TokenInv /\ [Next]_vars => TokenInv'
<1> SUFFICES ASSUME IInv, TokenInv, [Next]_vars PROVE TokenInv'
  OBVIOUS
<1>1. CASE Settings
  BY <1>1, NextTokens DEF Settings, IInv
<1>2. CASE UNCHANGED <<pushTokens, requestVars, registered, contended, merged>>
  BY <1>2 DEF TokenInv, OneRow, OneHandler, RowsOf, Registering, requestVars
<1> QED
  BY <1>1, <1>2 DEF Next, Notify, SendAgain, AndroidStep, TrySendFails,
    TrySendSucceeds, Retry, AppleResponds, AppleEnds, HookFails, vars,
    settingsVars

(* However requests and hooks interleave, a device has one row, and it is  *)
(* that of the user who registered it last, unless several handlers changed*)
(* the rows of its token at a time, or the service gave the token as a     *)
(* replacement while it had a row.                                         *)
(* (pushToken.controller.ts: push tokens are per device)                   *)
THEOREM PerDevice == Spec => []OneRowPerDevice
<1>1. TokenInv => OneRowPerDevice
  <2> SUFFICES ASSUME TokenInv, NEW t \in Tokens \ (contended \cup merged)
               PROVE  /\ Cardinality(RowsOf(t)) <= 1
                      /\ \A i \in RowsOf(t) : pushTokens[i].user = registered[t]
    BY DEF OneRowPerDevice
  <2>1. OneRow(t)
    BY DEF TokenInv
  <2>2. RowsOf(t) = {} \/ \E i : RowsOf(t) = {i}
    <3>1. \A i, j \in RowsOf(t) : i = j
      BY <2>1 DEF OneRow
    <3>2. CASE RowsOf(t) = {}
      BY <3>2
    <3>3. ASSUME NEW i \in RowsOf(t)  PROVE RowsOf(t) = {i}
      <4>1. \A j : j \in RowsOf(t) <=> j \in {i}
        BY <3>1, <3>3
      <4> QED
        BY <4>1
    <3> QED
      BY <3>2, <3>3
  <2>3. Cardinality(RowsOf(t)) \in {0, 1}
    BY <2>2, FS_EmptySet, FS_Singleton
  <2> QED
    BY <2>1, <2>3 DEF OneRow
<1> QED
  BY InitIInv, NextIInv, NextTokenInv, <1>1, PTL DEF Spec

(* A call of send() that was answered with results has sent the message on *)
(* once, one that ended in an error at most once, every other one never,   *)
(* however often tries were repeated and calls overlapped; two have results*)
(* only if calls overlapped.                                               *)
(* (AndroidPushNotification.ts: isSent, trySendMessage)                    *)
THEOREM Delivered == Spec => []DeliveredAsAnswered
<1>1. IInv => DeliveredAsAnswered
  <2> SUFFICES ASSUME IInv, NEW n \in Notifications, NEW k \in Sends
               PROVE  /\ sends[n][k] = "results" => accepted[n][k] = 1
                      /\ accepted[n][k] > 0 =>
                           /\ sends[n][k] \in {"results", "error"}
                           /\ accepted[n][k] = 1
                      /\ sends[n][k] = "results" /\ n \notin overlapped
                           => \A j \in Sends :
                                sends[n][j] = "results" => j = k
    BY DEF DeliveredAsAnswered
  <2>1. /\ accepted[n][k] \in 0 .. 1
        /\ AnswersOK(android[n], sends[n], accepted[n], n \in overlapped)
    BY InOrder DEF IInv
  <2> QED
    BY <2>1 DEF AnswersOK, Active
<1> QED
  BY InitIInv, NextIInv, <1>1, PTL DEF Spec

(* A token that Apple reported has no row, or its hook has not ended.      *)
LEMMA NextExpiredInv ==
  IInv /\ ExpiredInv /\ [Next]_vars => ExpiredInv'
<1> SUFFICES ASSUME IInv, ExpiredInv, [Next]_vars,
                    NEW n \in Notifications, NEW t \in Ios,
                    <<n, t>> \in expired'
             PROVE  \/ RowsOf(t)' = {}
                    \/ apple'[n] = "hooks" /\ \E h \in hooks' : Deletes(h, n, t)
  BY DEF ExpiredInv, Deletes
<1>a. apple \in [Notifications -> {"new", "sending", "hooks", "ended", "none"}]
  BY DEF IInv, DeliveryInv, TypeOK
<1>b. <<n, t>> \in expired =>
        RowsOf(t) = {} \/ (apple[n] = "hooks" /\ \E h \in hooks : Deletes(h, n, t))
  BY DEF ExpiredInv
<1>1. CASE Settings
  <2>1. <<n, t>> \in expired /\ RowsOf(t)' \subseteq RowsOf(t) /\ apple' = apple
    BY <1>1 DEF Settings
  <2>2. ASSUME NEW h \in hooks, Deletes(h, n, t), ~(h \in hooks')
        PROVE  RowsOf(t)' = {}
    <3>1. h.old = t /\ h.new = None /\ h.row = None
      BY <2>2 DEF Deletes, IInv, SettingsInv, HookInv
    <3>2. ExpireToken(h)
      BY <1>1, <2>2, <3>1 DEF Settings, SettingsNext, FindOrInitialize,
        ReadProfile, SaveToken, SaveProfile, ExpireToken, FindOldToken,
        UpdateToken
    <3> QED
      BY <3>1, <3>2 DEF ExpireToken, RowsOf
  <2> QED
    BY <1>b, <2>1, <2>2
<1>2. ASSUME NEW m \in Notifications, AppleResponds(m)
      PROVE  \/ RowsOf(t)' = {}
             \/ apple'[n] = "hooks" /\ \E h \in hooks' : Deletes(h, n, t)
  <2>1. PICK calls : /\ hooks' = hooks \cup calls
                     /\ expired' = expired \cup {<<m, h.old>> : h \in calls}
                     /\ \A h \in calls : Deletes(h, m, h.old)
    BY <1>2, AppleResponded DEF IInv
  <2>2. /\ apple[m] = "sending" /\ apple' = [apple EXCEPT ![m] = "hooks"]
        /\ RowsOf(t)' = RowsOf(t)
    BY <1>2 DEF AppleResponds, RowsOf
  <2>3. CASE <<n, t>> \in expired
    BY <1>a, <1>b, <2>1, <2>2, <2>3
  <2>4. CASE <<n, t>> \notin expired
    <3>1. PICK h \in calls : n = m /\ t = h.old
      BY <2>1, <2>4
    <3> QED
      BY <1>a, <2>1, <2>2, <3>1
  <2> QED
    BY <2>3, <2>4
<1>3. ASSUME NEW m \in Notifications, AppleEnds(m)
      PROVE  \/ RowsOf(t)' = {}
             \/ apple'[n] = "hooks" /\ \E h \in hooks' : Deletes(h, n, t)
  <2>1. /\ apple' = [apple EXCEPT ![m] = "ended"] /\ HooksEnded(m)
        /\ expired' = expired /\ hooks' = hooks /\ RowsOf(t)' = RowsOf(t)
    BY <1>3 DEF AppleEnds, settingsVars, RowsOf
  <2>2. \A h \in hooks : ~Deletes(h, m, t)
    BY <2>1 DEF HooksEnded, HookCalls, Deletes
  <2> QED
    BY <1>a, <1>b, <2>1, <2>2
<1>4. ASSUME NEW h \in hooks, HookFails(h)
      PROVE  \/ RowsOf(t)' = {}
             \/ apple'[n] = "hooks" /\ \E g \in hooks' : Deletes(g, n, t)
  <2>1. /\ hooks' = hooks \ {h} /\ apple' = apple /\ RowsOf(t)' = RowsOf(t)
        /\ expired' = expired \ {<<h.id[1], h.old>>}
    BY <1>4 DEF HookFails, RowsOf
  <2>2. ~Deletes(h, n, t)
    BY <2>1 DEF Deletes
  <2> QED
    BY <1>b, <2>1, <2>2
<1>5. ASSUME NEW m \in Notifications, NEW u \in Users, Notify(m, u)
      PROVE  \/ RowsOf(t)' = {}
             \/ apple'[n] = "hooks" /\ \E h \in hooks' : Deletes(h, n, t)
  <2>1. /\ expired' = expired /\ hooks' = hooks /\ RowsOf(t)' = RowsOf(t)
        /\ \E a \in {"none", "sending"} : apple' = [apple EXCEPT ![m] = a]
    BY <1>5 DEF Notify, settingsVars, RowsOf
  <2> QED
    BY <1>a, <1>b, <1>5, <2>1 DEF Notify
<1>6. ASSUME NEW m \in Notifications, NEW k \in Sends,
             AndroidStep(m, k) \/ SendAgain(m, k)
      PROVE  \/ RowsOf(t)' = {}
             \/ apple'[n] = "hooks" /\ \E h \in hooks' : Deletes(h, n, t)
  <2>1. expired' = expired /\ apple' = apple /\ RowsOf(t)' = RowsOf(t)
    BY <1>6 DEF AndroidStep, SendAgain, TrySendFails, TrySendSucceeds, Retry,
      settingsVars, RowsOf
  <2>2. hooks \subseteq hooks'
    BY <1>6 DEF AndroidStep, SendAgain, TrySendFails, TrySendSucceeds, Retry,
      settingsVars
  <2> QED
    BY <1>b, <2>1, <2>2
<1>7. CASE UNCHANGED vars
  BY <1>b, <1>7 DEF vars, settingsVars, deliveryVars, RowsOf
<1> QED
  BY <1>1, <1>2, <1>3, <1>4, <1>5, <1>6, <1>7 DEF Next

(* When sending to iOS devices has ended, the tokens that Apple reported   *)
(* as expired have no row, unless one was inserted since or a query failed,*)
(* in whatever order the hooks run.                                        *)
(* (ApplePushNotification.ts: await Promise.all of the hooks)              *)
THEOREM Leave == Spec => []ExpiredLeave
<1>1. ExpiredInv => ExpiredLeave
  BY DEF ExpiredInv, ExpiredLeave
<1> QED
  BY InitIInv, NextIInv, NextExpiredInv, <1>1, PTL DEF Spec
-----------------------------------------------------------------------------
(* What a step may not do                                                  *)

(* Once accepted, the legal terms stay accepted, with any requests at once;*)
(* the date goes back only by a request that had read an older one, and a  *)
(* request never undoes a setting that it was not asked to change.         *)
(* (legal.controller.ts: patchUserLegal, notes)                            *)
THEOREM Accepted == Spec => LegalDates
<1> DEFINE Saving(u) == {r \in Requests : by[r] = u /\ at[r] = "profile"
                                          /\ at'[r] = "done"}
           Legally(u) ==
             LET old == profiles[u]
                 new == profiles'[u]
                 Saving_ == {r \in Requests : by[r] = u /\ at[r] = "profile"
                                             /\ at'[r] = "done"}
             IN /\ old.acceptedAt # Null => new.acceptedAt # Null
                /\ new.acceptedAt <= Tomorrow
                /\ new # old => Saving_ # {}
                /\ \A r \in Saving_ :
                     /\ new.acceptedAt < old.acceptedAt
                          => copy[r].acceptedAt < old.acceptedAt
                     /\ what[r].optOut = None => new.optOut = old.optOut
                     /\ what[r].acceptedAt = None
                          => new.acceptedAt = old.acceptedAt
<1>1. ASSUME IInv, [Next]_vars, NEW u \in Users PROVE Legally(u)
  <2>1. /\ SettingsTypeOK /\ SettingsInv
        /\ profiles \in [Users -> Legal] /\ profiles[u] \in Legal
    BY <1>1 DEF IInv, SettingsInv, SettingsTypeOK, Legal
  <2>2. profiles[u].acceptedAt \in Nat /\ profiles[u].acceptedAt <= Today + 1
    BY <2>1 DEF Legal
  <2>3. ASSUME NEW r \in Requests, SaveProfile(r) PROVE Legally(u)
    <3>1. /\ what[r] \in Patch /\ copy[r] \in Legal
          /\ what[r].acceptedAt # None =>
               Allowed(what[r].acceptedAt, copy[r].acceptedAt)
          /\ at[r] = "profile" /\ by[r] \in Users
      BY <2>1, <2>3 DEF SettingsInv, SettingsTypeOK, RequestInv, SaveProfile
    <3>2. at' = [at EXCEPT ![r] = "done"]
      BY <2>3 DEF SaveProfile, Answered
    <3>3. Saving(u) = IF by[r] = u THEN {r} ELSE {}
      BY <2>1, <3>1, <3>2 DEF SettingsTypeOK
    <3>4. profiles' = [profiles EXCEPT
                         ![by[r]] = Changed(profiles[by[r]], copy[r], what[r])]
      BY <2>3 DEF SaveProfile
    <3>5. CASE by[r] = u
      <4>1. profiles'[u] = Changed(profiles[u], copy[r], what[r])
        BY <2>1, <3>4, <3>5
      <4>2. profiles'[u] \in Legal
            /\ Lawful(profiles[u], copy[r], what[r], profiles'[u])
        BY <2>1, <3>1, <4>1, SavedProfile
      <4>3. profiles'[u].acceptedAt <= Tomorrow
        BY <4>2 DEF Legal
      <4>4. Saving(u) = {r}
        BY <3>3, <3>5
      <4> QED
        BY <4>2, <4>3, <4>4 DEF Lawful
    <3>6. CASE by[r] # u
      <4>1. profiles'[u] = profiles[u] /\ Saving(u) = {}
        BY <2>1, <3>3, <3>4, <3>6
      <4> QED
        BY <2>2, <4>1
    <3> QED
      BY <3>5, <3>6
  <2>4. CASE profiles' = profiles /\ Saving(u) = {}
    BY <2>2, <2>4
  <2>5. CASE UNCHANGED <<profiles, at>>
    <3>1. Saving(u) = {}
      BY <2>5
    <3> QED
      BY <2>4, <2>5, <3>1
  <2>6. ASSUME NEW r \in Requests,
               \/ SaveToken(r)
               \/ \E t \in Tokens : FindOrInitialize(r, t)
               \/ \E patch \in Patches : ReadProfile(r, patch)
        PROVE  Legally(u)
    <3>1. /\ profiles' = profiles /\ at[r] # "profile"
          /\ \E a : at' = [at EXCEPT ![r] = a]
      BY <2>6 DEF SaveToken, FindOrInitialize, ReadProfile, Answered
    <3>2. Saving(u) = {}
      BY <2>1, <3>1 DEF SettingsTypeOK
    <3> QED
      BY <2>4, <3>1, <3>2
  <2>7. CASE Settings
    <3>1. ASSUME NEW h \in hooks, ExpireToken(h) \/ FindOldToken(h)
                                  \/ UpdateToken(h)
          PROVE  Legally(u)
      BY <2>5, <3>1 DEF ExpireToken, FindOldToken, UpdateToken, requestVars
    <3> QED
      BY <2>3, <2>6, <2>7, <3>1 DEF Settings, SettingsNext
  <2> HIDE DEF Legally
  <2> QED
    BY <1>1, <2>5, <2>7 DEF Next, Notify, SendAgain, AndroidStep, TrySendFails,
      TrySendSucceeds, Retry, AppleResponds, AppleEnds, HookFails, vars,
      settingsVars, requestVars
<1>2. IInv /\ [Next]_vars => [\A u \in Users : Legally(u)]_settingsVars
  BY <1>1
<1>3. QED
  BY <1>2, InitIInv, NextIInv, PTL DEF Spec, LegalDates
=============================================================================
