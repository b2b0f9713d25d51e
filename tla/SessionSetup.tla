---------------------------- MODULE SessionSetup ----------------------------
(***************************************************************************)
(* ConfigureSession, ApplySessionSetup and OpenSessionWithSetup            *)
(* (flinksqlgateway/session_setup.go, session.go): a plan of statements    *)
(* applied to a session under its gate, then verified, with a report of    *)
(* what was applied, what is unknown and what may remain, and with the     *)
(* session closed when the opening of it fails half way.                   *)
(*                                                                         *)
(* Each caller runs one flow.  The gate is SessionSetupGate; a flow acts   *)
(* while its caller is at "configuring" there.  Requests are the calls of  *)
(* ApiRequest.  A plan is compiled, and the version checked, before any of *)
(* this: a flow whose plan is refused never starts.                        *)
(***************************************************************************)
EXTENDS SessionSetupGate, SessionSetupPlan, ApiRequest, SequencesExt

(* Names that start with Bug are faulty variants of a definition that       *)
(* follows them; no specification uses them.                               *)

CONSTANTS
  SetupPlan,    \* what ApplySessionSetup and OpenSessionWithSetup are given
  OptionSets,   \* SessionSetupOptions: records of metadata, schema and keep
  OpenSessions  \* sessions that exist and are known to everybody

ASSUME OpenSessionsAreHandles == OpenSessions \subseteq Handles
ASSUME PlanCompiles == SetupPlan \in Plans /\ ~Rejected(SetupPlan)

VARIABLES
  task,       \* the flow of each caller and its report (`lost' is history:
              \*   the request that closes its session failed or was refused)
  processed,  \* how often the server has processed a step of a flow
  late,       \* steps the server processes some time after the client gave up
  session     \* the sessions on the server

setupVars == << task, processed, late, session >>
allVars == << vars, setupVars >>

Plan == Compile(SetupPlan)
Steps == DOMAIN Plan
StepsOf(c) == IF task[c].kind = "configure" THEN {1} ELSE Steps

Task(kind, options, at) ==
  [kind |-> kind, options |-> options, at |-> at, step |-> 0, applied |-> {}, verified |-> {},
   unknown |-> {}, failed |-> FALSE, complete |-> FALSE, mayRemain |-> FALSE,
   sessionClosed |-> FALSE, lost |-> FALSE]

SetupInit ==
  /\ Init
  /\ want \in [Callers -> OpenSessions]
  /\ task = [c \in Callers |-> Task("none", None, "idle")]
  /\ processed = [c \in Callers |-> [s \in Steps |-> 0]]
  /\ late = {}
  /\ session = [h \in Handles |-> IF h \in OpenSessions THEN "open" ELSE "none"]

Tasks ==
  [kind : {"none", "configure", "apply", "open"}, options : OptionSets \cup {None},
   at : {"idle", "opening", "gate", "post", "verify", "result", "closing", "done"},
   step : Nat, applied : SUBSET Steps, verified : SUBSET Steps, unknown : SUBSET Steps,
   failed : BOOLEAN, complete : BOOLEAN, mayRemain : BOOLEAN, sessionClosed : BOOLEAN,
   lost : BOOLEAN]

SetupTypeOK ==
  /\ TypeOK
  /\ task \in [Callers -> Tasks]
  /\ processed \in [Callers -> [Steps -> Nat]]
  /\ late \subseteq Callers \X Steps
  /\ session \in [Handles -> {"none", "open", "closed"}]

(***************************************************************************)
(* Entering and leaving the gate                                           *)
(***************************************************************************)
SetTask(c, t) == task' = [task EXCEPT ![c] = t]
MoveTo(c, at) == task' = [task EXCEPT ![c].at = at]

StartConfigure(c) ==
  /\ task[c].at = "idle"
  /\ Call(c) /\ want'[c] \in OpenSessions
  /\ SetTask(c, Task("configure", None, "gate"))
  /\ UNCHANGED << processed, late, session >>

StartApply(c, options) ==
  /\ task[c].at = "idle"
  /\ Call(c) /\ want'[c] \in OpenSessions
  /\ SetTask(c, Task("apply", options, "gate"))
  /\ UNCHANGED << processed, late, session >>

StartOpen(c, options) ==
  /\ task[c].at = "idle"
  /\ SetTask(c, Task("open", options, "opening"))
  /\ UNCHANGED << vars, processed, late, session >>

(* OpenSession. Without its answer the caller has no handle to clean up. *)
Opened(c) ==
  /\ task[c].at = "opening"
  /\ ~clientClosed
  /\ \E h \in Handles :
       /\ session[h] = "none"
       /\ session' = [session EXCEPT ![h] = "open"]
       /\ Call(c) /\ want'[c] = h
  /\ MoveTo(c, "gate")
  /\ UNCHANGED << processed, late >>

OpenFails(c) ==
  /\ task[c].at = "opening"
  /\ \/ UNCHANGED session
     \/ \E h \in Handles : session[h] = "none" /\ session' = [session EXCEPT ![h] = "open"]
  /\ MoveTo(c, "done")
  /\ UNCHANGED << vars, processed, late >>

PassGate(c) ==
  /\ JoinGate(c) \/ CreateGate(c) \/ TakeToken(c) \/ GiveUp(c) \/ ReturnToken(c)
  /\ UNCHANGED setupVars

(* A flow that is refused has no failed step, but it has failed. *)
RefuseFlow(c) ==
  /\ Refuse(c)
  /\ SetTask(c, [task[c] EXCEPT !.at = "result", !.failed = TRUE])
  /\ UNCHANGED << processed, late, session >>

EnterFlow(c) ==
  /\ CheckContext(c)
  /\ IF pc'[c] = "configuring"
       THEN SetTask(c, [task[c] EXCEPT !.at = "post", !.step = 1])
       ELSE UNCHANGED task
  /\ UNCHANGED << processed, late, session >>

LeaveFlow(c) ==
  /\ Leave(c)
  /\ SetTask(c, [task[c] EXCEPT !.at = "result", !.failed = ~task[c].complete])
  /\ UNCHANGED << processed, late, session >>

(***************************************************************************)
(* applyCompiledSessionSetup and the single request of ConfigureSession    *)
(***************************************************************************)
IsCreate(s) == IsCreateKind(Plan[s])

RequiresVerification(c, s) ==
  \/ IsCreate(s) /\ task[c].options.metadata
  \/ Plan[s].kind = "TABLE" /\ (task[c].options.schema \/ Plan[s].verify)

ToVerify(c) ==
  {s \in StepsOf(c) : task[c].kind # "configure" /\ RequiresVerification(c, s)}

(* sessionSetupPersistentChangesMayRemain *)
MayRemain(applied, unknown) == \E s \in applied \cup unknown : IsCreate(s)

(* The server's side of a POST. *)
Reaches(c, s, made) ==
  /\ processed' = [processed EXCEPT ![c][s] = @ + ProcessedNow(made)]
  /\ late' = IF ProcessedLater(made) THEN late \cup {<< c, s >>} ELSE late

(* failSessionSetup: the flow ends with its first failure. *)
Fail(c, t) ==
  /\ Configured(c)
  /\ SetTask(c, [t EXCEPT !.at = "gate", !.mayRemain = MayRemain(t.applied, t.unknown)])

PostSucceeds(c) ==
  /\ task[c].at = "post"
  /\ ~clientClosed
  /\ \E made \in UnsafeCalls : Succeeded(Last(made)) /\ Reaches(c, task[c].step, made)
  /\ LET t == [task[c] EXCEPT !.applied = @ \cup {task[c].step}]
     IN  IF \E s \in StepsOf(c) : s > t.step
           THEN SetTask(c, [t EXCEPT !.step = @ + 1])
           ELSE SetTask(c, [t EXCEPT !.at = "verify"])
  /\ UNCHANGED << vars, session >>

(* A statement that validateStatement refuses, or the closed client, is a  *)
(* request that was not sent.                                              *)
PostFails(c) ==
  /\ task[c].at = "post"
  /\ \E made \in UnsafeCalls :
       /\ ~Succeeded(Last(made))
       /\ Reaches(c, task[c].step, made)
       /\ Fail(c, IF OutcomeIsUnknown(Last(made))
                    THEN [task[c] EXCEPT !.unknown = @ \cup {task[c].step}]
                    ELSE task[c])
  /\ UNCHANGED session

Unverified(c) == ToVerify(c) \ task[c].verified

(* verifySessionSetupStep finds what the applied step has created. *)
VerifySucceeds(c) ==
  /\ task[c].at = "verify"
  /\ ~clientClosed
  /\ \E s \in Unverified(c) :
       /\ \A r \in Unverified(c) : s <= r
       /\ TRUE \in SafeVerdicts
       /\ processed[c][s] > 0
       /\ SetTask(c, [task[c] EXCEPT !.verified = @ \cup {s}])
  /\ UNCHANGED << vars, processed, late, session >>

(* The request fails, or somebody else has dropped the object. *)
VerifyFails(c) ==
  /\ task[c].at = "verify"
  /\ Unverified(c) # {}
  /\ Fail(c, task[c])
  /\ UNCHANGED << processed, late, session >>

CompleteFlow(c) ==
  /\ task[c].at = "verify"
  /\ Unverified(c) = {}
  /\ Configured(c)
  /\ SetTask(c, [task[c] EXCEPT !.at = "gate", !.complete = TRUE])
  /\ UNCHANGED << processed, late, session >>

(***************************************************************************)
(* The result, and the cleanup of OpenSessionWithSetup                     *)
(***************************************************************************)
Return(c) ==
  /\ task[c].at = "result"
  /\ MoveTo(c, IF task[c].kind = "open" /\ task[c].failed /\ ~task[c].options.keep
                 THEN "closing" ELSE "done")
  /\ UNCHANGED << vars, processed, late, session >>

CloseAnswered(c, made) ==
  /\ session' = IF Last(made).effect = "now" THEN [session EXCEPT ![want[c]] = "closed"]
                                             ELSE session
  /\ SetTask(c, [task[c] EXCEPT !.at = "done", !.sessionClosed = Succeeded(Last(made)),
                                !.lost = ~Succeeded(Last(made))])

BugCloseAfterFailure(c) ==
  /\ task[c].at = "closing"
  /\ IF clientClosed
       THEN MoveTo(c, "done") /\ UNCHANGED session
       ELSE \E made \in UnsafeCalls : CloseAnswered(c, made)
  /\ UNCHANGED << vars, processed, late >>

(* CloseSession marked as internal cleanup: the closed client lets it pass. *)
CloseAfterFailure(c) ==
  /\ task[c].at = "closing"
  /\ \E made \in UnsafeCalls : CloseAnswered(c, made)
  /\ UNCHANGED << vars, processed, late >>

(* Later than this the context only makes requests fail, which they may do *)
(* anyway.                                                                 *)
CancelFlow(c) ==
  /\ pc[c] \in {"entering", "waiting", "taken"}
  /\ c \notin cancelled
  /\ Cancel(c)
  /\ UNCHANGED setupVars

CloseClient == ~clientClosed /\ ClientClose /\ UNCHANGED setupVars

-----------------------------------------------------------------------------
FlowStep(c) ==
  \/ Opened(c) \/ OpenFails(c)
  \/ RefuseFlow(c) \/ EnterFlow(c) \/ LeaveFlow(c)
  \/ PostSucceeds(c) \/ PostFails(c)
  \/ VerifySucceeds(c) \/ VerifyFails(c) \/ CompleteFlow(c)
  \/ Return(c) \/ CloseAfterFailure(c)

SetupNext ==
  \/ \E c \in Callers :
       \/ StartConfigure(c)
       \/ \E options \in OptionSets : StartApply(c, options) \/ StartOpen(c, options)
       \/ FlowStep(c) \/ PassGate(c) \/ CancelFlow(c)
  \/ CloseClient

(* As in SessionSetupGate: every caller goes on, and a token is not given  *)
(* to others for ever.                                                     *)
SetupFairness ==
  \A c \in Callers : WF_allVars(FlowStep(c)) /\ SF_allVars(PassGate(c))

SetupSpec == SetupInit /\ [][SetupNext]_allVars
FairSetupSpec == SetupSpec /\ SetupFairness

(***************************************************************************)
(* Properties                                                              *)
(***************************************************************************)
\* How often the server has processed a step of a flow, or will.
Reached(c, s) == processed[c][s] + Cardinality({<< c, s >>} \cap late)

\* The report of a flow is true of the server: a step reported as applied was
\* processed once, one whose outcome is unknown at most once, and every other
\* step, those after the first failure included, never was and never will be.
\* So nothing is created whose container failed, and a plan that failed without
\* PersistentChangesMayRemain has created nothing, now or late.
ReportHonest ==
  \A c \in Callers : \A s \in Steps :
    /\ s \in task[c].applied => Reached(c, s) = 1
    /\ s \in task[c].unknown => Reached(c, s) <= 1
    /\ s \notin task[c].applied \cup task[c].unknown => Reached(c, s) = 0
    /\ Reached(c, s) > 0 /\ task[c].kind # "configure" =>
         \A r \in Steps : IsInside(Plan[s], Plan[r]) => r \in task[c].applied
    /\ task[c].at = "done" /\ task[c].failed /\ task[c].kind # "configure" /\ IsCreate(s) =>
         task[c].mayRemain \/ Reached(c, s) = 0

\* OpenSessionWithSetup that fails after OpenSession has answered (before, it has
\* no handle to clean up) leaves no session behind unless it was told to keep it
\* or the request that closes it was lost or refused by the gateway, also while
\* the client is being closed; and it reports the session as closed only if it is.
FailedOpenCloses ==
  \A c \in Callers :
    task[c].at = "done" /\ task[c].kind = "open" /\ task[c].failed =>
      /\ task[c].options.keep \/ task[c].lost \/ session[want[c]] = "closed"
      /\ task[c].sessionClosed => session[want[c]] = "closed"

\* Every flow comes to its end, whoever else waits at its gate.
FlowEnds ==
  \A c \in Callers : task[c].at \notin {"idle", "done"} ~> task[c].at = "done"
=============================================================================
