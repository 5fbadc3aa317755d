---------------------------- MODULE UserSettings ----------------------------
(***************************************************************************)
(* What a user tells the API about a device and about the legal terms: the *)
(* endpoints POST /user/pushtoken and PATCH /user/legal over their tables, *)
(* and the hooks that a push service's reports about tokens run; one query *)
(* at a time, each of them interleaved with all the others.                *)
(*                                                                         *)
(* A push token stands for its device and its type.  The migrations create *)
(* no unique index on it, so rows of one token may be many.  A date is a   *)
(* day, 0 is null, and dates after Today + 1 are too far in the future.    *)
(***************************************************************************)
EXTENDS Naturals, FiniteSets

CONSTANTS
  Requests, Users, Tokens, None,
  Rows,       \* bound: uids that are ever given to rows
  FirstOwners,  \* whom the tokens may be registered for at first
  Patches,      \* bound: payloads of PATCH /user/legal
  Today

ASSUME TodayAssumption == Today \in Nat
ASSUME NoneAssumption ==
  None \notin Rows /\ None \notin Tokens /\ None \notin Nat
ASSUME RowsAssumption ==
  /\ IsFiniteSet(Rows)
  /\ \E f \in [Tokens -> Rows] : \A t, s \in Tokens : f[t] = f[s] => t = s
ASSUME OwnersAssumption == FirstOwners \subseteq [Tokens -> Users \cup {None}]

VARIABLES
  pushTokens,    \* the table PushTokens: uid -> token and user, or None
  profiles,      \* the table AppUserProfiles
  at, by,        \* of a request: where it is, whose it is
  what,          \* its payload
  copy,          \* the instance that it has read: a row, a profile
  hooks,         \* calls of the token hooks that have not ended
  registered,    \* the user that a token was last registered for
  contended,     \* tokens that several handlers changed at a time
  merged         \* tokens that replaced one while they had a row already

requestVars == <<at, by, what, copy>>
settingsVars == <<pushTokens, profiles, requestVars, hooks, registered,
                  contended, merged>>

Null == 0
Tomorrow == Today + 1
Dates == Null .. Tomorrow + 1
Row == [token : Tokens, user : Users]
Profile == [optOut : BOOLEAN, acceptedAt : Dates]
Patch == [optOut : BOOLEAN \cup {None}, acceptedAt : Dates \cup {None}]
Copy == [uid : Rows \cup {None}, user : Users \cup {None}]

ASSUME PatchesAssumption == Patches \subseteq Patch

(* A call of a hook: id tells calls apart, new is None for an expired      *)
(* token, and row is what the hook for an updated one has found.           *)
CONSTANT CallIds
HookCall == [id : CallIds, old : Tokens, new : Tokens \cup {None},
             row : Rows \cup {None}]

SettingsTypeOK ==
  /\ pushTokens \in [Rows -> Row \cup {None}]
  /\ profiles \in [Users -> [optOut : BOOLEAN, acceptedAt : Null .. Tomorrow]]
  /\ at \in [Requests -> {"new", "token", "profile", "done"}]
  /\ by \in [Requests -> Users]
  /\ what \in [Requests -> Tokens \cup Patch \cup {None}]
  /\ copy \in [Requests -> Copy \cup Profile \cup {None}]
  /\ hooks \subseteq HookCall
  /\ registered \in [Tokens -> Users \cup {None}]
  /\ contended \subseteq Tokens
  /\ merged \subseteq Tokens

(* the rows of devices that are registered already *)
RowsFor(owner) ==
  LET uid == CHOOSE f \in [Tokens -> Rows] :
               \A t, s \in Tokens : f[t] = f[s] => t = s
  IN [i \in Rows |->
       IF \E t \in Tokens : uid[t] = i /\ owner[t] # None
       THEN LET t == CHOOSE t \in Tokens : uid[t] = i
            IN [token |-> t, user |-> owner[t]]
       ELSE None]

SettingsInit ==
  /\ profiles = [u \in Users |-> [optOut |-> FALSE, acceptedAt |-> Null]]
  /\ at = [r \in Requests |-> "new"]
  /\ by \in [Requests -> Users]
  /\ what = [r \in Requests |-> None]
  /\ copy = [r \in Requests |-> None]
  /\ hooks = {}
  /\ registered \in FirstOwners
  /\ pushTokens = RowsFor(registered)
  /\ contended = {}
  /\ merged = {}

-----------------------------------------------------------------------------
(* Variants of the helpers below, each with a plausible mistake.           *)
AlwaysNew(t) == {}                        \* create() instead of find
WriteAll(p, read, patch) ==               \* save() of the whole instance
  [optOut |-> IF patch.optOut = None THEN read.optOut ELSE patch.optOut,
   acceptedAt |-> IF patch.acceptedAt = None THEN read.acceptedAt
                  ELSE patch.acceptedAt]

(* Helpers *)
RowsOf(t) == {i \in Rows : pushTokens[i] # None /\ pushTokens[i].token = t}
IsKnown(i) ==                             \* uids are never given twice
  \/ pushTokens[i] # None
  \/ \E r \in Requests : at[r] = "token" /\ copy[r].uid = i
  \/ \E h \in hooks : h.row = i
NewUid == CHOOSE i \in Rows : ~IsKnown(i)
Matching(t) == RowsOf(t)

(* performLegalAcceptedAtHandling *)
Allowed(date, saved) ==
  /\ saved # Null => date # Null
  /\ date <= Tomorrow
  /\ date # Null => date >= saved

(* save() writes the fields that are not what they were when read *)
Changed(p, read, patch) ==
  [optOut |-> IF patch.optOut \in {None, read.optOut} THEN p.optOut
              ELSE patch.optOut,
   acceptedAt |-> IF patch.acceptedAt \in {None, read.acceptedAt}
                  THEN p.acceptedAt ELSE patch.acceptedAt]

Answered(r) ==
  /\ at' = [at EXCEPT ![r] = "done"]
  /\ what' = [what EXCEPT ![r] = None]
  /\ copy' = [copy EXCEPT ![r] = None]

Registering(t) == {r \in Requests : at[r] = "token" /\ what[r] = t}

-----------------------------------------------------------------------------
(* POST /user/pushtoken *)
FindOrInitialize(r, t) ==
  /\ at[r] = "new"
  /\ \/ \E i \in Matching(t) :
          copy' = [copy EXCEPT ![r] = [uid |-> i, user |-> pushTokens[i].user]]
     \/ /\ Matching(t) = {}
        /\ copy' = [copy EXCEPT ![r] = [uid |-> None, user |-> None]]
  /\ what' = [what EXCEPT ![r] = t]
  /\ at' = [at EXCEPT ![r] = "token"]
  /\ contended' = IF Registering(t) = {} THEN contended
                  ELSE contended \cup {t}
  /\ UNCHANGED <<pushTokens, profiles, by, hooks, registered, merged>>

(* instance.save(): an INSERT, an UPDATE of a row that may be gone or have *)
(* another token by now, or no query when the user is the one it has read  *)
InsertRow(r) ==
  /\ copy[r].uid = None
  /\ \E i \in Rows : ~IsKnown(i)
  /\ pushTokens' = [pushTokens EXCEPT
                      ![NewUid] = [token |-> what[r], user |-> by[r]]]
  /\ registered' = [registered EXCEPT ![what[r]] = by[r]]
  /\ UNCHANGED contended

UpdateRow(r, i) ==
  LET row == pushTokens[i] IN
  /\ i = copy[r].uid /\ row # None /\ copy[r].user # by[r]
  /\ pushTokens' = [pushTokens EXCEPT ![i].user = by[r]]
  /\ registered' = [registered EXCEPT ![what[r]] = by[r], ![row.token] = by[r]]
  /\ contended' = IF Registering(row.token) \ {r} = {} THEN contended
                  ELSE contended \cup {row.token}

LeaveRow(r) ==
  /\ copy[r].uid # None
  /\ pushTokens[copy[r].uid] = None \/ copy[r].user = by[r]
  /\ registered' = [registered EXCEPT ![what[r]] = by[r]]
  /\ UNCHANGED <<pushTokens, contended>>

SaveToken(r) ==
  /\ at[r] = "token"
  /\ InsertRow(r) \/ (\E i \in Rows : UpdateRow(r, i)) \/ LeaveRow(r)
  /\ Answered(r)
  /\ UNCHANGED <<profiles, by, hooks, merged>>

(* PATCH /user/legal: the profile is read and the payload checked against  *)
(* it; a payload that is refused is answered with 400                      *)
ReadProfile(r, patch) ==
  LET p == profiles[by[r]] IN
  /\ at[r] = "new"
  /\ \/ /\ patch.acceptedAt # None => Allowed(patch.acceptedAt, p.acceptedAt)
        /\ at' = [at EXCEPT ![r] = "profile"]
        /\ what' = [what EXCEPT ![r] = patch]
        /\ copy' = [copy EXCEPT ![r] = p]
     \/ /\ patch.acceptedAt # None
        /\ ~Allowed(patch.acceptedAt, p.acceptedAt)
        /\ Answered(r)
  /\ UNCHANGED <<pushTokens, profiles, by, hooks, registered, contended,
                 merged>>

(* save(), then reload(), which only reads the answer *)
SaveProfile(r) ==
  /\ at[r] = "profile"
  /\ profiles' = [profiles EXCEPT ![by[r]] = Changed(@, copy[r], what[r])]
  /\ Answered(r)
  /\ UNCHANGED <<pushTokens, by, hooks, registered, contended, merged>>

(* onExpiredToken: PushToken.destroy; with the rows goes what was done to  *)
(* them, unless somebody is registering the token.                         *)
ExpireToken(h) ==
  /\ h \in hooks /\ h.new = None
  /\ pushTokens' = [i \in Rows |-> IF i \in RowsOf(h.old) THEN None
                                  ELSE pushTokens[i]]
  /\ hooks' = hooks \ {h}
  /\ LET forgotten == IF Registering(h.old) = {} THEN {h.old} ELSE {}
     IN /\ contended' = contended \ forgotten
        /\ merged' = merged \ forgotten
  /\ UNCHANGED <<profiles, requestVars, registered>>

(* onUpdatedToken: findOne with the old token *)
FindOldToken(h) ==
  /\ h \in hooks /\ h.new # None /\ h.row = None
  /\ \/ /\ RowsOf(h.old) = {}
        /\ hooks' = hooks \ {h}
     \/ \E i \in RowsOf(h.old) :
          hooks' = (hooks \ {h}) \cup {[h EXCEPT !.row = i]}
  /\ UNCHANGED <<pushTokens, profiles, requestVars, registered, contended,
                 merged>>

(* token.update({ deviceToken }): the row keeps its user; nobody looks     *)
(* whether the new token has a row already                                 *)
UpdateToken(h) ==
  /\ h \in hooks /\ h.row # None
  /\ hooks' = hooks \ {h}
  /\ \/ /\ pushTokens[h.row] = None
        /\ UNCHANGED <<pushTokens, registered, contended, merged>>
     \/ /\ pushTokens[h.row] # None
        /\ pushTokens' = [pushTokens EXCEPT ![h.row].token = h.new]
        /\ registered' = [registered EXCEPT ![h.new] = pushTokens[h.row].user]
        /\ contended' = IF Registering(h.new) = {} THEN contended
                        ELSE contended \cup {h.new}
        /\ merged' = IF RowsOf(h.new) \subseteq {h.row} THEN merged
                     ELSE merged \cup {h.new}
  /\ UNCHANGED <<profiles, requestVars>>

SettingsNext ==
  \/ \E r \in Requests :
       \/ \E t \in Tokens : FindOrInitialize(r, t)
       \/ \E patch \in Patches : ReadProfile(r, patch)
       \/ SaveToken(r)
       \/ SaveProfile(r)
  \/ \E h \in hooks : ExpireToken(h) \/ FindOldToken(h) \/ UpdateToken(h)

-----------------------------------------------------------------------------
(* A device has one row, and it names the user that registered it last.    *)
(* This does not hold of tokens whose rows two handlers changed at a time, *)
(* nor of one that the service gave as the replacement of another while it *)
(* had a row: either may leave two rows, which the unique index declared   *)
(* in PushToken.ts would refuse if a migration created it.                 *)
(* (pushToken.controller.ts: push tokens are per device)                   *)
OneRowPerDevice ==
  \A t \in Tokens \ (contended \cup merged) :
    /\ Cardinality(RowsOf(t)) <= 1
    /\ \A i \in RowsOf(t) : pushTokens[i].user = registered[t]

(* Once accepted, the legal terms stay accepted, with any requests at once;*)
(* the date goes back only by a request that had read an older one, and a  *)
(* request never undoes a setting that it was not asked to change.         *)
(* (legal.controller.ts: patchUserLegal, notes)                            *)
LegalDates ==
  [][\A u \in Users :
       LET old == profiles[u]
           new == profiles'[u]
           Saving == {r \in Requests : by[r] = u /\ at[r] = "profile"
                                       /\ at'[r] = "done"}
       IN /\ old.acceptedAt # Null => new.acceptedAt # Null
          /\ new.acceptedAt <= Tomorrow
          /\ new # old => Saving # {}
          /\ \A r \in Saving :
               /\ new.acceptedAt < old.acceptedAt
                    => copy[r].acceptedAt < old.acceptedAt
               /\ what[r].optOut = None => new.optOut = old.optOut
               /\ what[r].acceptedAt = None
                    => new.acceptedAt = old.acceptedAt
    ]_settingsVars
=============================================================================
