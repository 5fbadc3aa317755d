----------------------------- MODULE Deliveries -----------------------------
(***************************************************************************)
(* Push notifications to a user's devices: the tokens are read from the    *)
(* table of UserSettings and handed to the two push services; Google's     *)
(* (AndroidPushNotification) is asked again when it answers with an error, *)
(* Apple's (ApplePushNotification) once.  What they report about tokens is *)
(* for the hooks of UserSettings.                                          *)
(*                                                                         *)
(* The services are the environment: an answer may be any status, may be   *)
(* late or lost, and a request whose answer is lost may have been served.  *)
(***************************************************************************)
EXTENDS UserSettings, Sequences

CONSTANTS
  Notifications,
  Ios,           \* the tokens of iOS devices
  RetryCount,    \* CONFIG.android.retryCount
  MaxSends,      \* bound: calls of send() for one notification
  MaxCalls       \* bound: requests and calls of send() but the first, in all

ASSUME IosAssumption == Ios \subseteq Tokens
ASSUME CountsAssumption ==
  RetryCount \in Nat /\ MaxSends \in Nat \ {0} /\ MaxCalls \in Nat
ASSUME CallIdsAssumption ==
  Notifications \X (0 .. MaxSends) \X (1 .. Cardinality(Rows)) \subseteq CallIds

VARIABLES
  android,       \* the AndroidPushNotification of a notification
  sends,         \* the calls of its send()
  overlapped,    \* notifications with a call before an earlier one ended
  apple,         \* where its ApplePushNotification is
  androidTokens, appleTokens,
  accepted,      \* how often Google's service took the message from a call
  expired,       \* tokens that Apple reported, not registered anew since
  failedHook     \* a hook called for Google's report has failed

sendVars == <<android, sends, overlapped, accepted>>
deliveryVars == <<sendVars, apple, androidTokens, appleTokens, expired,
                  failedHook>>
vars == <<settingsVars, deliveryVars>>

Android == Tokens \ Ios
Sends == 1 .. MaxSends

(* How a call of send() ends: with the service's results, with false, with *)
(* the status of the service, with the error of a request that failed, or  *)
(* at once because the notification was sent before                        *)
Answers == {"results", "false", "status", "error", "rejected"}
Stages == {"none", "sending", "backoff"} \cup Answers

TypeOK ==
  /\ SettingsTypeOK
  /\ android \in [Notifications ->
       [currentTry : 0 .. RetryCount + MaxSends, isSent : BOOLEAN]]
  /\ sends \in [Notifications -> [Sends -> Stages]]
  /\ overlapped \subseteq Notifications
  /\ apple \in [Notifications -> {"new", "sending", "hooks", "ended", "none"}]
  /\ androidTokens \in [Notifications -> Seq(Android)]
  /\ appleTokens \in [Notifications -> Seq(Ios)]
  /\ accepted \in [Notifications -> [Sends -> 0 .. 1]]
  /\ expired \subseteq Notifications \X Ios
  /\ failedHook \in BOOLEAN

Init ==
  /\ SettingsInit
  /\ android = [n \in Notifications |-> [currentTry |-> 0, isSent |-> FALSE]]
  /\ sends = [n \in Notifications |-> [k \in Sends |-> "none"]]
  /\ overlapped = {}
  /\ apple = [n \in Notifications |-> "new"]
  /\ androidTokens = [n \in Notifications |-> <<>>]
  /\ appleTokens = [n \in Notifications |-> <<>>]
  /\ accepted = [n \in Notifications |-> [k \in Sends |-> 0]]
  /\ expired = {}
  /\ failedHook = FALSE

-----------------------------------------------------------------------------
(* Variants of the helpers below, each with a plausible mistake.           *)
AnyFailure == {"4xx", "other", "lost"}    \* also when there was no answer
Uncounted(a) == a                         \* currentTry stays
HooksForgotten(n) == TRUE                 \* no await Promise.all

(* Helpers *)
Retried == {"5xx", "other"}               \* outcomes that are tried again
Tried(a) == [a EXCEPT !.currentTry = @ + 1]
Reach(n, k, stage) == sends' = [sends EXCEPT ![n][k] = stage]
HookCalls(n, k) == {h \in hooks : h.id[1] = n /\ h.id[2] = k}
HooksEnded(n) == HookCalls(n, 0) = {}
Called ==
  Cardinality({r \in Requests : at[r] # "new"})
  + Cardinality({c \in Notifications \X Sends :
                   c[2] > 1 /\ sends[c[1]][c[2]] # "none"})

(* the tokens of a user's rows of one type, in any order *)
TokensOf(u, type) ==
  LET uids == {i \in Rows : /\ pushTokens[i] # None
                            /\ pushTokens[i].user = u
                            /\ pushTokens[i].token \in type}
  IN {[k \in DOMAIN s |-> pushTokens[s[k]].token] :
        s \in {q \in [1 .. Cardinality(uids) -> uids] :
                 \A j, k \in DOMAIN q : q[j] = q[k] => j = k}}

(* The hook calls for a report: what the service says of the i-th token is *)
(* "ok", "failed" or, when it has been replaced, the new token.  0 is      *)
(* Apple's report, and k that on the k-th call of send().                  *)
Calls(n, k, tokens, report) ==
  {[id |-> <<n, k, i>>, old |-> tokens[i],
    new |-> IF report[i] = "failed" THEN None ELSE report[i], row |-> None] :
     i \in {j \in DOMAIN tokens : report[j] # "ok"}}

-----------------------------------------------------------------------------
(* sendPushNotificationToUserUid and sendMessage *)
Notify(n, u) ==
  /\ apple[n] = "new"
  /\ \E forAndroid \in TokensOf(u, Android), forApple \in TokensOf(u, Ios) :
       /\ androidTokens' = [androidTokens EXCEPT ![n] = forAndroid]
       /\ appleTokens' = [appleTokens EXCEPT ![n] = forApple]
       /\ IF forAndroid = <<>> THEN UNCHANGED <<android, sends>>
          ELSE /\ android' = [android EXCEPT ![n] = Tried(@)]
               /\ Reach(n, 1, "sending")
       /\ apple' = [apple EXCEPT
            ![n] = IF forApple = <<>> THEN "none" ELSE "sending"]
  /\ UNCHANGED <<settingsVars, overlapped, accepted, expired, failedHook>>

(* AndroidPushNotification.send, called again for the same notification at *)
(* any time: only an answer that has arrived already makes it refuse.      *)
SendAgain(n, k) ==
  /\ k > 1 /\ sends[n][k - 1] # "none" /\ sends[n][k] = "none"
  /\ Called < MaxCalls
  /\ \/ /\ android[n].isSent
        /\ Reach(n, k, "rejected")
        /\ UNCHANGED <<android, overlapped>>
     \/ /\ ~android[n].isSent
        /\ Reach(n, k, "sending")
        /\ android' = [android EXCEPT ![n] = Tried(@)]
        /\ overlapped' = IF \E j \in 1 .. k - 1 : sends[n][j] \notin Answers
                         THEN overlapped \cup {n} ELSE overlapped
  /\ UNCHANGED <<settingsVars, apple, androidTokens, appleTokens, accepted,
                 expired, failedHook>>

(* A request fails: with a status, or with no answer for 15 seconds, in    *)
(* which case the service may have taken it all the same.  currentTry is   *)
(* that of all the calls.                                                  *)
TrySendFails(n, k, outcome) ==
  /\ sends[n][k] = "sending"
  /\ \E took \in IF outcome = "lost" THEN {0, 1} ELSE {0} :
       accepted' = [accepted EXCEPT ![n][k] = @ + took]
  /\ android' = [android EXCEPT ![n].isSent = @ \/ outcome # "lost"]
  /\ Reach(n, k, IF outcome \notin Retried
                  THEN IF outcome = "4xx" THEN "status" ELSE "error"
                 ELSE IF android[n].currentTry < RetryCount THEN "backoff"
                 ELSE "false")
  /\ UNCHANGED <<settingsVars, overlapped, apple, androidTokens, appleTokens,
                 expired, failedHook>>

(* Status 200, with results that can be read, or not: processResponse      *)
(* calls the hooks, and nobody awaits them                                 *)
TrySendSucceeds(n, k, readable) ==
  /\ sends[n][k] = "sending"
  /\ accepted' = [accepted EXCEPT ![n][k] = @ + 1]
  /\ android' = [android EXCEPT ![n].isSent = TRUE]
  /\ Reach(n, k, IF readable THEN "results" ELSE "error")
  /\ \E report \in [DOMAIN androidTokens[n] -> {"ok", "failed"} \cup Android] :
       /\ \A i \in DOMAIN report : report[i] # androidTokens[n][i]
       /\ hooks' = IF ~readable THEN hooks
                   ELSE hooks \cup Calls(n, k, androidTokens[n], report)
  /\ UNCHANGED <<pushTokens, profiles, requestVars, registered, contended,
                 merged, overlapped, apple, androidTokens, appleTokens, expired,
                 failedHook>>

(* The delay before the next try is over. *)
Retry(n, k) ==
  /\ sends[n][k] = "backoff"
  /\ Reach(n, k, "sending")
  /\ android' = [android EXCEPT ![n] = Tried(@)]
  /\ UNCHANGED <<settingsVars, overlapped, apple, androidTokens, appleTokens,
                 accepted, expired, failedHook>>

(* ApplePushNotification.send continues with the provider's responses. *)
AppleResponds(n) ==
  /\ apple[n] = "sending"
  /\ apple' = [apple EXCEPT ![n] = "hooks"]
  /\ \E report \in [DOMAIN appleTokens[n] -> {"ok", "failed"}] :
       LET calls == Calls(n, 0, appleTokens[n], report)
       IN /\ hooks' = hooks \cup calls
          /\ expired' = expired \cup {<<n, h.old>> : h \in calls}
  /\ UNCHANGED <<pushTokens, profiles, requestVars, registered, contended,
                 merged, sendVars, androidTokens, appleTokens, failedHook>>

AppleEnds(n) ==
  /\ apple[n] = "hooks"
  /\ HooksEnded(n)
  /\ apple' = [apple EXCEPT ![n] = "ended"]
  /\ UNCHANGED <<settingsVars, sendVars, androidTokens, appleTokens, expired,
                 failedHook>>

(* A query of a hook fails. For Apple's report that is logged; for         *)
(* Google's it is an unhandled rejection, which ends the process later.    *)
HookFails(h) ==
  /\ h \in hooks
  /\ hooks' = hooks \ {h}
  /\ failedHook' = (failedHook \/ h.id[2] # 0)
  /\ expired' = expired \ {<<h.id[1], h.old>>}
  /\ UNCHANGED <<pushTokens, profiles, requestVars, registered, contended,
                 merged, sendVars, apple, androidTokens, appleTokens>>

Outcomes == {"5xx", "4xx", "other", "lost"}
AndroidStep(n, k) ==
  \/ \E outcome \in Outcomes : TrySendFails(n, k, outcome)
  \/ \E readable \in BOOLEAN : TrySendSucceeds(n, k, readable)
  \/ Retry(n, k)

Settings ==
  /\ SettingsNext
  /\ expired' = {e \in expired : RowsOf(e[2])' \subseteq RowsOf(e[2])}
  /\ UNCHANGED <<sendVars, apple, androidTokens, appleTokens, failedHook>>
  /\ Called' <= MaxCalls

Next ==
  \/ Settings
  \/ \E n \in Notifications :
       \/ \E u \in Users : Notify(n, u)
       \/ \E k \in Sends : SendAgain(n, k) \/ AndroidStep(n, k)
       \/ AppleResponds(n)
       \/ AppleEnds(n)
  \/ \E h \in hooks : HookFails(h)

Spec == Init /\ [][Next]_vars

(* Requests to Google have a timeout and delays end, as long as the        *)
(* process lives.                                                          *)
FairSpec ==
  /\ Spec
  /\ \A n \in Notifications, k \in Sends :
       WF_vars(~failedHook /\ AndroidStep(n, k))

-----------------------------------------------------------------------------
(* Each call of send() that was answered with results has sent the message *)
(* on once, one that ended in an error at most once, and every other one   *)
(* never, however the calls and their retries overlap.  Two calls are both *)
(* answered with results only if some call was made before an earlier one  *)
(* ended: such a call is not refused, although send() refuses others with  *)
(* "Cannot send the same AndroidPushNotification twice".                   *)
(* (AndroidPushNotification: trySendMessage, retry, isSent)                *)
DeliveredAsAnswered ==
  \A n \in Notifications, k \in Sends :
    /\ sends[n][k] = "results" => accepted[n][k] = 1
    /\ accepted[n][k] > 0 => /\ sends[n][k] \in {"results", "error"}
                             /\ accepted[n][k] = 1
    /\ sends[n][k] = "results" /\ n \notin overlapped
         => \A j \in Sends : sends[n][j] = "results" => j = k

(* When sending to iOS devices has ended, the tokens that Apple reported   *)
(* as expired have no row, unless one was inserted since or a query        *)
(* failed. (ApplePushNotification.send: await Promise.all of the hooks)    *)
ExpiredLeave ==
  \A n \in Notifications, t \in Ios :
    apple[n] = "ended" /\ <<n, t>> \in expired => RowsOf(t) = {}

(* Every call of send() ends, whatever the service answers, unless the     *)
(* process does. (AndroidPushNotification: currentTry, timeout)            *)
SendsEnd ==
  \A n \in Notifications, k \in Sends :
    sends[n][k] = "sending" ~> (sends[n][k] \in Answers \/ failedHook)
=============================================================================
