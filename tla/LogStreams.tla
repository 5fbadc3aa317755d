----------------------------- MODULE LogStreams -----------------------------
(***************************************************************************)
(* The logger's streams that leave the process: fatal errors are collected *)
(* and mailed once none has arrived for a while, and records are posted to *)
(* Slack.  Writing a record runs to its end, the warnings that the streams *)
(* log themselves included; timers, mails and posts are what interleaves.  *)
(* An exception or rejection that nobody handles is logged as a fatal      *)
(* error, and ends the process some time later.                            *)
(*                                                                         *)
(* Time passes in ticks.  A timer is the number of ticks that are left, or *)
(* None; one that is due runs before the next tick.                        *)
(***************************************************************************)
EXTENDS Naturals, FiniteSets

CONSTANTS
  Modules,       \* the parts of the program that hold a child logger
  None,
  Followup,      \* ticks in WAIT_FOR_FOLLOWUP_ERRORS_MS
  ExitDelay,     \* ticks in the uncaught exception handler's timeoutMS
  MaxFatals,     \* bound: fatal errors
  MaxPosts       \* bound: posts on their way to Slack that are counted

ASSUME TicksAssumption ==
  /\ Followup \in Nat \ {0}
  /\ ExitDelay \in Nat
ASSUME BoundsAssumption == MaxFatals \in Nat /\ MaxPosts \in Nat
ASSUME NoneAssumption == None \notin Nat

VARIABLES
  configured,          \* has logger.configure been called?
  loggerOf,            \* of a module: "mock", "child" or None
  warningsPosted,      \* does Slack get warnings (severity, requiredField)?
  slackEnabled,        \* config.slack.enabled
  posts, bodies,       \* posts and error answers' bodies being awaited
  fatals,              \* fatal errors so far: 1 .. fatals
  collectedErrors, sendErrorMailTimeout,
  mails,               \* mails being sent: what each reports
  mailed, failed,      \* errors whose mail was sent, or failed
  exitTimeout, exited, \* the earliest timer that ends the process
  cause                \* the unhandled error that set it, or None

loggerVars == <<configured, loggerOf, warningsPosted>>
slackVars == <<slackEnabled, posts, bodies>>
mailVars == <<collectedErrors, sendErrorMailTimeout, mails, mailed, failed>>
timeVars == <<exitTimeout, exited, cause>>
vars == <<loggerVars, slackVars, fatals, mailVars, timeVars>>

Fatals == 1 .. MaxFatals

TypeOK ==
  /\ configured \in BOOLEAN
  /\ loggerOf \in [Modules -> {"mock", "child", None}]
  /\ warningsPosted \in BOOLEAN /\ slackEnabled \in BOOLEAN
  /\ posts \in 0 .. MaxPosts /\ bodies \in 0 .. MaxPosts
  /\ fatals \in 0 .. MaxFatals
  /\ collectedErrors \subseteq Fatals
  /\ sendErrorMailTimeout \in 0 .. Followup \cup {None}
  /\ mails \subseteq SUBSET Fatals
  /\ mailed \subseteq Fatals /\ failed \subseteq Fatals
  /\ exitTimeout \in 0 .. ExitDelay \cup {None}
  /\ exited \in BOOLEAN
  /\ cause \in Fatals \cup {None}

Init ==
  /\ configured = FALSE
  /\ loggerOf = [m \in Modules |-> None]
  /\ warningsPosted \in BOOLEAN /\ slackEnabled \in BOOLEAN
  /\ posts = 0 /\ bodies = 0 /\ fatals = 0
  /\ collectedErrors = {} /\ sendErrorMailTimeout = None
  /\ mails = {} /\ mailed = {} /\ failed = {}
  /\ exitTimeout = None /\ exited = FALSE /\ cause = None

-----------------------------------------------------------------------------
(* Variants of the helpers below, each with a plausible mistake.           *)
OneAtATime == mails = {}                             \* waits for the callback
Immediately == 0                                     \* process.exit at once
KeptForLater == collectedErrors                      \* not emptied

(* Helpers *)
MaySend == TRUE
Pending == {}                             \* collectedErrors after sending
ExitIn == ExitDelay

(* posts that n warnings of the streams and m other records make *)
Posted(n, m) ==
  IF slackEnabled /\ configured THEN (IF warningsPosted THEN n ELSE 0) + m
  ELSE 0

Counted(n) == IF n <= MaxPosts THEN n ELSE MaxPosts

(* logger.fatal: the mail stream warns about it, and again when it clears  *)
(* a timeout, collects it and sets the timeout; then Slack's stream posts  *)
(* it.  Before that, done posts have gone.                                 *)
WriteFatal(done) ==
  LET f == fatals + 1
      warnings == IF sendErrorMailTimeout = None THEN 1 ELSE 2
  IN /\ f <= MaxFatals
     /\ fatals' = f
     /\ collectedErrors' = collectedErrors \cup {f}
     /\ sendErrorMailTimeout' = Followup
     /\ posts' = Counted(posts - done + Posted(warnings, 1))
     /\ UNCHANGED <<mails, mailed, failed, loggerVars, exited>>

(* attachGlobalUncaughtExceptionHandler *)
Unhandled(done) ==
  /\ WriteFatal(done)
  /\ exitTimeout' = IF exitTimeout = None THEN ExitIn ELSE exitTimeout
  /\ cause' = IF exitTimeout = None THEN fatals + 1 ELSE cause

(* a warning that a stream logs *)
Warn == posts' = Counted(posts + Posted(1, 0))

Running == ~exited
Due == sendErrorMailTimeout = 0 \/ exitTimeout = 0

-----------------------------------------------------------------------------
(* logger.configure, the second call of which changes nothing *)
Configure ==
  /\ Running /\ ~configured
  /\ configured' = TRUE
  /\ UNCHANGED <<loggerOf, warningsPosted, slackVars, fatals, mailVars,
                 timeVars>>

(* A module is loaded and takes its logger for good. *)
GetChildLogger(m) ==
  /\ Running /\ loggerOf[m] = None
  /\ loggerOf' = [loggerOf EXCEPT ![m] = IF configured THEN "child" ELSE "mock"]
  /\ UNCHANGED <<configured, warningsPosted, slackVars, fatals, mailVars,
                 timeVars>>

(* A module logs a fatal error, or another record that Slack is to get;    *)
(* what it logs with the mock logger reaches no stream.                    *)
LogFatal(m) ==
  /\ Running /\ loggerOf[m] = "child"
  /\ WriteFatal(0)
  /\ UNCHANGED <<slackEnabled, bodies, exitTimeout, cause>>

Log(m) ==
  /\ Running /\ loggerOf[m] = "child"
  /\ posts' = Counted(posts + Posted(0, 1))
  /\ UNCHANGED <<loggerVars, slackEnabled, bodies, fatals, mailVars,
                 timeVars>>

(* Nobody handles an exception or a rejection. *)
UncaughtException ==
  /\ Running /\ configured
  /\ Unhandled(0)
  /\ UNCHANGED <<slackEnabled, bodies>>

(* BunyanErrorMailStream: the timeout's callback *)
SendErrorMail ==
  /\ Running /\ sendErrorMailTimeout = 0 /\ MaySend
  /\ Warn
  /\ mails' = mails \cup {collectedErrors}
  /\ collectedErrors' = Pending
  /\ sendErrorMailTimeout' = None
  /\ UNCHANGED <<loggerVars, slackEnabled, bodies, fatals, mailed,
                 failed, timeVars>>

(* the transporter calls back *)
MailSent(mail) ==
  /\ Running /\ mail \in mails
  /\ Warn
  /\ mails' = mails \ {mail}
  /\ \/ mailed' = mailed \cup mail /\ UNCHANGED failed
     \/ failed' = failed \cup mail /\ UNCHANGED mailed
  /\ UNCHANGED <<loggerVars, slackEnabled, bodies, fatals,
                 collectedErrors, sendErrorMailTimeout, timeVars>>

(* Slack answers a post with 200, or with an error whose body is read. *)
SlackAnswers ==
  /\ Running /\ posts > 0
  /\ posts' = posts - 1
  /\ bodies' \in {bodies, Counted(bodies + 1)}
  /\ UNCHANGED <<loggerVars, slackEnabled, fatals, mailVars, timeVars>>

(* The request fails: fetch's promise has no handler for that. *)
SlackFails ==
  /\ Running /\ posts > 0
  /\ Unhandled(1)
  /\ UNCHANGED <<slackEnabled, bodies>>

(* The body is there: Slack's stream is turned off before it warns. *)
DisableSlack ==
  /\ Running /\ bodies > 0
  /\ bodies' = bodies - 1
  /\ slackEnabled' = FALSE
  /\ UNCHANGED <<loggerVars, posts, fatals, mailVars, timeVars>>

(* Reading the body fails; nobody handles that either. *)
BodyFails ==
  /\ Running /\ bodies > 0
  /\ Unhandled(0)
  /\ bodies' = bodies - 1
  /\ UNCHANGED slackEnabled

Tick ==
  /\ Running /\ ~Due
  /\ sendErrorMailTimeout' = IF sendErrorMailTimeout = None THEN None
                             ELSE sendErrorMailTimeout - 1
  /\ exitTimeout' = IF exitTimeout = None THEN None ELSE exitTimeout - 1
  /\ UNCHANGED <<loggerVars, slackVars, fatals, collectedErrors, mails,
                 mailed, failed, exited, cause>>

Exit ==
  /\ Running /\ exitTimeout = 0
  /\ exited' = TRUE
  /\ UNCHANGED <<loggerVars, slackVars, fatals, mailVars, exitTimeout,
                 cause>>

Next ==
  \/ Configure
  \/ \E m \in Modules :
       GetChildLogger(m) \/ LogFatal(m) \/ Log(m)
  \/ UncaughtException
  \/ SendErrorMail \/ \E mail \in mails : MailSent(mail)
  \/ SlackAnswers \/ SlackFails \/ DisableSlack \/ BodyFails
  \/ Tick \/ Exit

Spec == Init /\ [][Next]_vars

(* Time passes and node's timers run; no answer from outside is certain.   *)
FairSpec ==
  Spec /\ WF_vars(Tick) /\ WF_vars(SendErrorMail) /\ WF_vars(Exit)

-----------------------------------------------------------------------------
(* Every fatal error that reaches the streams is waiting to be mailed, is  *)
(* in exactly one mail, or was reported or failed with one; and the        *)
(* timeout is set just while errors are waiting.                           *)
(* (BunyanErrorMailStream.write: collectedErrors, sendErrorMailTimeout)    *)
EveryErrorOnce ==
  /\ 1 .. fatals = collectedErrors \cup (UNION mails) \cup mailed \cup failed
  /\ \A mail \in mails :
       /\ mail \cap (collectedErrors \cup mailed \cup failed) = {}
       /\ \A other \in mails : mail = other \/ mail \cap other = {}
  /\ collectedErrors \cap (mailed \cup failed) = {}
  /\ mailed \cap failed = {}
  /\ collectedErrors # {} <=> sendErrorMailTimeout # None

(* The unhandled error that ends the process is handed to the mail         *)
(* transport before, unless others kept putting the mail off: so many that *)
(* their time windows add up to the delay of the exit.                     *)
(* (attachGlobalUncaughtExceptionHandler: log ANY exception before exiting)*)
MailedBeforeExit ==
  exited /\ cause \in collectedErrors =>
    (fatals - cause + 1) * Followup >= ExitDelay

(* Once turned off by an error of Slack's API, Slack gets nothing any      *)
(* more, the warning about that error included.                            *)
(* (BunyanSlackStream.write: "disabling logger")                           *)
SlackStaysOff ==
  [][/\ ~slackEnabled => ~slackEnabled' /\ posts' <= posts
     /\ slackEnabled /\ ~slackEnabled' => posts' = posts]_vars

(* Errors are handed to the mail transport, unless the process ends.       *)
(* (BunyanErrorMailStream.write: setTimeout)                               *)
ErrorsHandedOver == collectedErrors # {} ~> (collectedErrors = {} \/ exited)
=============================================================================
