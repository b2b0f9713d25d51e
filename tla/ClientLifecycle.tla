-------------------------- MODULE ClientLifecycle --------------------------
(***************************************************************************)
(* One GatewayClient until after its Close (flinksqlgateway/lifecycle.go): *)
(*   - flows of OpenSessionFromRecipe (session_recipe.go), which open a    *)
(*     session, run statements in it one by one as activities of           *)
(*     c.executions, and close it when one fails;                          *)
(*   - users who close a session by its handle (session.go), or start a    *)
(*     heartbeat for it (heartbeat.go);                                    *)
(*   - the observer, whose callbacks run in a bounded number of slots, may *)
(*     never return, and may call Close themselves;                        *)
(*   - any number of calls of GatewayClient.Close.                         *)
(*                                                                         *)
(* The executions and the body of Close follow DrainProtocol: workers are  *)
(* the flows, and Client is the one closer.  Streams and managed sessions  *)
(* are closed by that body too; ResultStream and ManagedSession model it.  *)
(***************************************************************************)
EXTENDS DrainProtocol, Heartbeat

CONSTANTS
  Directs,     \* goroutines that call CloseSession
  Users,       \* goroutines that call GatewayClient.Close
  Slots,       \* c.observerSlots
  Statements,  \* the statements of a recipe are 1..Statements
  MaxRecipes,  \* bound: recipes one flow runs
  Casts        \* bound: who takes part: the actors of a behaviour and its open sessions

Client == "client"
Flows == Workers
Owners == Flows \cup Directs   \* goroutines that run CloseSession

(* Runners are named after the users who call StartHeartbeat. *)

ASSUME ClientIsCloser == Client \in Closers
ASSUME Distinct == Flows \cap Directs = {} /\ None \notin Owners
ASSUME Counts == Statements \in Nat \ {0} /\ MaxRecipes \in Nat
ASSUME CastsAreSets == \A c \in Casts : c.open \subseteq Handles /\ c.slots \subseteq Slots

(* Names that start with Bug are faulty variants of a definition that       *)
(* follows them; no specification uses them.                               *)

VARIABLES
  cast,         \* chosen once
  server,       \* the sessions on the server: "none" | "open" | "closed"
  issuedTo,     \* history: the flow that was given a handle last
  overtaken,    \* history: handles issued again while a close of them was in flight
  shared,       \* handles that users have been given
  clientClosed, \* c.clientClosed, and c.lifecycleCtx has ended
  flow,         \* the recipe of each flow and its result
  effects,      \* history: statements of the recipe the server has processed
  close         \* the CloseSession call of each owner

VARIABLES
  target,       \* the session of each user who starts a heartbeat
  body,         \* of Close: "new" | "streams" | "told" | "runners" | "wait" | "done"
  snapshot,     \* runners Close has found and still has to stop
  halting,      \* the one it waits for, or None
  late,         \* history: runners registered after Close took its snapshot
  caller,       \* each user who calls Close: "idle" | "called" | "returned"
  callback      \* each slot: "free" | "running" | "closing"

drainVars == vars
sessionVars == << server, issuedTo, overtaken, shared, registryVars >>
flowVars == << flow, effects >>
runnerVars == << beatVars, target, late >>
bodyVars == << clientClosed, body, snapshot, halting >>
observerVars == << caller, callback >>
lifecycleVars ==
  << drainVars, cast, sessionVars, flowVars, close, runnerVars, bodyVars, observerVars >>

NoRecipe == [at |-> "idle", count |-> 0, handle |-> None, keep |-> FALSE, applied |-> 0,
             told |-> FALSE]
NoClose == [at |-> "idle", handle |-> None, awaited |-> None, answer |-> "none"]

LifecycleInit ==
  /\ Init /\ HeartbeatInit
  /\ cast \in Casts
  /\ RegistryInit(cast.open)
  /\ server = [h \in Handles |-> IF h \in cast.open THEN "open" ELSE "none"]
  /\ issuedTo = [h \in Handles |-> None]
  /\ overtaken = {} /\ shared = cast.open
  /\ flow = [f \in Flows |-> NoRecipe]
  /\ effects = [f \in Flows |-> {}]
  /\ close = [p \in Owners |-> NoClose]
  /\ target = [r \in Runners |-> None] /\ late = {}
  /\ clientClosed = FALSE
  /\ body = "new" /\ snapshot = {} /\ halting = None
  /\ caller = [u \in Users |-> "idle"]
  /\ callback = [s \in Slots |-> "free"]

LifecycleTypeOK ==
  /\ TypeOK /\ HeartbeatTypeOK /\ RegistryTypeOK(Owners)
  /\ cast \in Casts
  /\ server \in [Handles -> {"none", "open", "closed"}]
  /\ issuedTo \in [Handles -> Flows \cup {None}]
  /\ overtaken \subseteq Handles /\ shared \subseteq Handles
  /\ clientClosed \in BOOLEAN
  /\ \A f \in Flows :
       /\ flow[f].at \in {"idle", "record", "statement", "running", "succeeded", "failed",
                          "closing", "report"}
       /\ flow[f].handle \in Handles \cup {None}
       /\ flow[f].applied \in 0..Statements
  /\ effects \in [Flows -> SUBSET (1..Statements)]
  /\ \A p \in Owners :
       /\ close[p].at \in {"idle", "enter", "join", "stop", "halt", "delete", "settle",
                           "returned"}
       /\ close[p].answer \in {"none", "ok", "err"}
  /\ target \in [Runners -> Handles \cup {None}] /\ late \subseteq Runners
  /\ body \in {"new", "streams", "told", "runners", "wait", "done"}
  /\ snapshot \subseteq Runners /\ halting \in Runners \cup {None}
  /\ caller \in [Users -> {"idle", "called", "returned"}]
  /\ callback \in [Slots -> {"free", "running", "closing"}]

SetFlow(f, record) == flow' = [flow EXCEPT ![f] = record]
FlowTo(f, at) == flow' = [flow EXCEPT ![f].at = at]
SetClose(p, record) == close' = [close EXCEPT ![p] = record]
CloseTo(p, at) == close' = [close EXCEPT ![p].at = at]

(***************************************************************************)
(* The observer (runObserver): a callback needs a slot, and an event that  *)
(* finds none is dropped.  Whoever emitted it waits for the callback or    *)
(* for ObserverTimeout, which is why going on is always possible.          *)
(***************************************************************************)
Free(s) == s \in cast.slots /\ callback[s] = "free"

Delivered == \E s \in Slots : Free(s) /\ callback' = [callback EXCEPT ![s] = "running"]
Dropped == (\A s \in Slots : ~Free(s)) /\ UNCHANGED callback

BugMayGoOn == \A s \in Slots : callback[s] = "free"

(* The select on the callback and the timer. *)
MayGoOn == TRUE

CallbackReturns(s) ==
  /\ callback[s] = "running" \/ (callback[s] = "closing" /\ body = "done")
  /\ callback' = [callback EXCEPT ![s] = "free"]
  /\ UNCHANGED << drainVars, cast, sessionVars, flowVars, close, runnerVars, bodyVars, caller >>

(* A callback may call GatewayClient.Close. *)
CallbackCloses(s) ==
  /\ callback[s] = "running"
  /\ callback' = [callback EXCEPT ![s] = "closing"]
  /\ UNCHANGED << drainVars, cast, sessionVars, flowVars, close, runnerVars, bodyVars, caller >>

(***************************************************************************)
(* OpenSessionFromRecipe                                                   *)
(***************************************************************************)

(* OpenSession has its answer.  The server may issue any handle that is not *)
(* in use, also one it has issued before.                                  *)
OpenAnswered(f, h) ==
  /\ flow[f].at = "idle" /\ flow[f].count < MaxRecipes
  /\ ~clientClosed /\ server[h] # "open"
  /\ server' = [server EXCEPT ![h] = "open"]
  /\ issuedTo' = [issuedTo EXCEPT ![h] = f]
  /\ \E keep \in BOOLEAN :
       SetFlow(f, [NoRecipe EXCEPT !.at = "record", !.count = flow[f].count + 1, !.handle = h,
                                   !.keep = keep])
  /\ effects' = [effects EXCEPT ![f] = {}]
  /\ UNCHANGED << drainVars, cast, overtaken, shared, registryVars, close, runnerVars, bodyVars,
                  observerVars >>

(* Its critical section.  A close in flight was for the session that had    *)
(* this handle before, but will be remembered for the new one.             *)
RecordHandle(f) ==
  LET h == flow[f].handle
  IN  /\ flow[f].at = "record"
      /\ RecordSession(h)
      /\ overtaken' = IF closeCalls[h] # None THEN overtaken \cup {h} ELSE overtaken
      /\ FlowTo(f, "statement")
      /\ UNCHANGED << drainVars, cast, server, issuedTo, shared, effects, close, runnerVars,
                      bodyVars, observerVars >>

BeginStatement(f) ==
  /\ flow[f].at = "statement"
  /\ BeginRun(f)
  /\ FlowTo(f, "running")
  /\ UNCHANGED << cast, sessionVars, effects, close, runnerVars, bodyVars, observerVars >>

(* What follows the failure of a statement: the cleanup, unless it is not   *)
(* wanted; its CloseSession has a context of its own.                      *)
AfterFailure(f) ==
  /\ SetFlow(f, [flow[f] EXCEPT !.told = FALSE, !.at = IF flow[f].keep THEN "report" ELSE "closing"])
  /\ IF flow[f].keep
       THEN UNCHANGED close
       ELSE SetClose(f, [NoClose EXCEPT !.at = "enter", !.handle = flow[f].handle])

RefuseStatement(f) ==
  /\ flow[f].at = "statement"
  /\ RefusedRun(f)
  /\ AfterFailure(f)
  /\ UNCHANGED << cast, sessionVars, effects, runnerVars, bodyVars, observerVars >>

(* The answer the statement gets; a failure may hide that it was processed. *)
StatementAnswered(f) ==
  LET h == flow[f].handle
      processed == [effects EXCEPT ![f] = @ \cup {flow[f].applied + 1}]
  IN  /\ flow[f].at = "running"
      /\ \/ /\ server[h] = "open"
            /\ effects' = processed
            /\ FlowTo(f, "succeeded")
         \/ /\ effects' \in {effects} \cup (IF server[h] = "open" THEN {processed} ELSE {})
            /\ FlowTo(f, "failed")
      /\ UNCHANGED << drainVars, cast, sessionVars, close, runnerVars, bodyVars, observerVars >>

(* The observation that goes with it, inside the activity. *)
Observe(f) ==
  /\ flow[f].at \in {"succeeded", "failed"} /\ ~flow[f].told
  /\ Delivered \/ Dropped
  /\ SetFlow(f, [flow[f] EXCEPT !.told = TRUE])
  /\ UNCHANGED << drainVars, cast, sessionVars, effects, close, runnerVars, bodyVars, caller >>

EndStatement(f) ==
  /\ flow[f].told /\ MayGoOn
  /\ EndRun(f)
  /\ \/ /\ flow[f].at = "succeeded"
        /\ SetFlow(f, [flow[f] EXCEPT !.applied = @ + 1, !.told = FALSE,
                         !.at = IF flow[f].applied + 1 < Statements THEN "statement" ELSE "report"])
        /\ UNCHANGED close
     \/ flow[f].at = "failed" /\ AfterFailure(f)
  /\ UNCHANGED << cast, sessionVars, effects, runnerVars, bodyVars, observerVars >>

(* Only now does the user have the handle and the result. *)
Returning(f) == flow[f].at = "report" \/ (flow[f].at = "closing" /\ close[f].at = "returned")

Report(f) ==
  /\ Returning(f)
  /\ shared' = shared \cup {flow[f].handle}
  /\ SetFlow(f, [NoRecipe EXCEPT !.count = flow[f].count])
  /\ SetClose(f, NoClose)
  /\ effects' = [effects EXCEPT ![f] = {}]
  /\ UNCHANGED << drainVars, cast, server, issuedTo, overtaken, registryVars, runnerVars, bodyVars,
                  observerVars >>

(***************************************************************************)
(* CloseSession                                                            *)
(***************************************************************************)
ClosingOnly == << drainVars, cast, server, issuedTo, overtaken, shared, flowVars, bodyVars,
                  observerVars >>

DirectClose(d, h) ==
  /\ d \in cast.actors /\ close[d] = NoClose /\ h \in shared
  /\ SetClose(d, [NoClose EXCEPT !.at = "enter", !.handle = h])
  /\ UNCHANGED << ClosingOnly, registryVars, runnerVars >>

CloseRemembered(p) ==
  /\ close[p].at = "enter" /\ close[p].handle \in remembered
  /\ SetClose(p, [close[p] EXCEPT !.at = "returned", !.answer = "ok"])
  /\ UNCHANGED << ClosingOnly, registryVars, runnerVars >>

CloseJoins(p) ==
  LET h == close[p].handle
  IN  /\ close[p].at = "enter" /\ h \notin remembered /\ closeCalls[h] # None
      /\ SetClose(p, [close[p] EXCEPT !.at = "join", !.awaited = closeCalls[h]])
      /\ UNCHANGED << ClosingOnly, registryVars, runnerVars >>

CloseOwns(p) ==
  /\ close[p].at = "enter"
  /\ OwnCloseCall(close[p].handle, p)
  /\ CloseTo(p, "stop")
  /\ UNCHANGED << ClosingOnly, runnerVars >>

(* StopHeartbeat: the runner is found and cancelled, then awaited. *)
CloseStopsRunner(p) ==
  LET r == heartbeats[close[p].handle]
  IN  /\ close[p].at = "stop"
      /\ CancelRunner(r)
      /\ SetClose(p, [close[p] EXCEPT !.at = "halt", !.awaited = r])
      /\ UNCHANGED << ClosingOnly, registryVars, target, late >>

CloseHalted(p) ==
  /\ close[p].at = "halt" /\ Ended(close[p].awaited)
  /\ SetClose(p, [close[p] EXCEPT !.at = "delete", !.awaited = None])
  /\ UNCHANGED << ClosingOnly, registryVars, runnerVars >>

(* The cleanup of a recipe may send its DELETE after the client is closed. *)
MayRequest(p) == p \in Flows \/ ~clientClosed

(* The answer to the DELETE; a failure may hide that it was processed.  A   *)
(* session that is not found is closed.                                    *)
DeleteAnswered(p) ==
  LET h == close[p].handle
      deleted == [server EXCEPT ![h] = "closed"]
  IN  /\ close[p].at = "delete"
      /\ \/ /\ MayRequest(p)
            /\ server' = deleted
            /\ SetClose(p, [close[p] EXCEPT !.at = "settle", !.answer = "ok"])
         \/ /\ server' \in {server} \cup (IF MayRequest(p) THEN {deleted} ELSE {})
            /\ SetClose(p, [close[p] EXCEPT !.at = "settle", !.answer = "err"])
      /\ UNCHANGED << drainVars, cast, issuedTo, overtaken, shared, registryVars, flowVars, runnerVars,
                      bodyVars, observerVars >>

(* Everybody who has joined finds the result of the owner. *)
SettleClose(p) ==
  LET result == close[p].answer
  IN  /\ close[p].at = "settle"
      /\ SettleCloseCall(close[p].handle, result = "ok")
      /\ close' = [q \in Owners |->
           IF q = p THEN [close[q] EXCEPT !.at = "returned"]
           ELSE IF close[q].at = "join" /\ close[q].awaited = p /\ close[q].answer = "none"
             THEN [close[q] EXCEPT !.answer = result]
           ELSE close[q]]
      /\ UNCHANGED << ClosingOnly, runnerVars >>

(* The call it waits for has ended, or its own context has. *)
JoinReturns(p) ==
  /\ close[p].at = "join"
  /\ \E answer \in {"err"} \cup ({close[p].answer} \ {"none"}) :
       SetClose(p, [close[p] EXCEPT !.at = "returned", !.awaited = None, !.answer = answer])
  /\ UNCHANGED << ClosingOnly, registryVars, runnerVars >>

CloseStep(p) ==
  \/ CloseRemembered(p) \/ CloseJoins(p) \/ CloseOwns(p) \/ CloseStopsRunner(p)
  \/ CloseHalted(p) \/ DeleteAnswered(p) \/ SettleClose(p) \/ JoinReturns(p)

(***************************************************************************)
(* StartHeartbeat: its look at clientClosed, and later its critical        *)
(* section, which finds the runner of somebody else or makes one.          *)
(***************************************************************************)
RunnersOnly == << drainVars, cast, sessionVars, flowVars, close, bodyVars, observerVars >>

StartHeartbeat(r, h) ==
  /\ r \in cast.actors /\ target[r] = None
  /\ ~clientClosed /\ h \in shared
  /\ target' = [target EXCEPT ![r] = h]
  /\ UNCHANGED << RunnersOnly, beatVars, late >>

Registered(r) ==
  /\ target[r] # None /\ beat[r] = "none"
  /\ RegisterRunner(target[r], r)
  /\ late' = IF body = "new" THEN late ELSE late \cup {r}
  /\ UNCHANGED << RunnersOnly, target >>

AlreadyBeating(r) ==
  /\ target[r] # None /\ beat[r] = "none"
  /\ heartbeats[target[r]] # None
  /\ target' = [target EXCEPT ![r] = None]
  /\ UNCHANGED << RunnersOnly, beatVars, late >>

(* Its context is the user's: the end of the client does not end it. *)
RunnerEnds(r) ==
  /\ BeatCancelled(r, r \in cancelled) \/ Leave(target[r], r)
  /\ UNCHANGED << RunnersOnly, target, late >>

RunnerFindsNoSession(r) ==
  /\ beat[r] = "waiting" /\ server[target[r]] # "open" /\ ~clientClosed
  /\ BeatFindsNoSession(r, r \in cancelled)
  /\ UNCHANGED << RunnersOnly, target, late >>

(***************************************************************************)
(* GatewayClient.Close                                                     *)
(***************************************************************************)
OthersThanBody == << cast, sessionVars, flowVars, close >>

CallClose(u) ==
  /\ u \in cast.actors /\ caller[u] = "idle"
  /\ caller' = [caller EXCEPT ![u] = "called"]
  /\ UNCHANGED << OthersThanBody, drainVars, runnerVars, bodyVars, callback >>

SomebodyCloses == (\E u \in Users : caller[u] = "called") \/ (\E s \in Slots : callback[s] = "closing")

(* The once and the critical section. *)
BodyStarts ==
  /\ body = "new" /\ SomebodyCloses
  /\ StopGroup(Client)
  /\ clientClosed' = TRUE
  /\ snapshot' = {heartbeats[h] : h \in Handles} \ {None}
  /\ body' = "streams"
  /\ UNCHANGED << OthersThanBody, runnerVars, halting, observerVars >>

(* The streams and managed sessions, if any: closing them emits events. *)
BodyObserves ==
  /\ body = "streams"
  /\ Delivered \/ Dropped
  /\ body' = "told"
  /\ UNCHANGED << OthersThanBody, drainVars, runnerVars, clientClosed, snapshot, halting, caller >>

BodyGoesOn ==
  /\ body = "told" /\ MayGoOn
  /\ body' = "runners"
  /\ UNCHANGED << OthersThanBody, drainVars, runnerVars, clientClosed, snapshot, halting,
                  observerVars >>

BodyStopsRunner(r) ==
  /\ body = "runners" /\ halting = None /\ r \in snapshot
  /\ CancelRunner(r)
  /\ halting' = r
  /\ snapshot' = snapshot \ {r}
  /\ UNCHANGED << OthersThanBody, drainVars, target, late, clientClosed, body, observerVars >>

RunnerStopped ==
  /\ body = "runners" /\ halting # None /\ Ended(halting)
  /\ halting' = None
  /\ UNCHANGED << OthersThanBody, drainVars, runnerVars, clientClosed, body, snapshot, observerVars >>

BodyWaits ==
  /\ body = "runners" /\ halting = None /\ snapshot = {}
  /\ CaptureIdle(Client)
  /\ body' = "wait"
  /\ UNCHANGED << OthersThanBody, runnerVars, clientClosed, snapshot, halting, observerVars >>

BodyEnds ==
  /\ body = "wait"
  /\ WaitReturns(Client) \/ WaitExpires(Client)
  /\ body' = "done"
  /\ UNCHANGED << OthersThanBody, runnerVars, clientClosed, snapshot, halting, observerVars >>

CloseReturned(u) ==
  /\ caller[u] = "called" /\ body = "done"
  /\ caller' = [caller EXCEPT ![u] = "returned"]
  /\ UNCHANGED << OthersThanBody, drainVars, runnerVars, bodyVars, callback >>

(***************************************************************************)
(* The specification.  Goroutines inside the library go on by themselves:  *)
(* their requests are bounded by RequestTimeout and their waits by the     *)
(* goroutines they wait for or by a timer.  Users, the server's choice to  *)
(* answer 404 to a heartbeat, and callbacks are not obliged to do anything.*)
(***************************************************************************)
FlowStep(f) ==
  \/ RecordHandle(f) \/ BeginStatement(f) \/ RefuseStatement(f) \/ StatementAnswered(f)
  \/ Observe(f) \/ EndStatement(f) \/ Report(f)

BodyStep ==
  \/ BodyStarts \/ BodyObserves \/ BodyGoesOn \/ (\E r \in Runners : BodyStopsRunner(r))
  \/ RunnerStopped \/ BodyWaits \/ BodyEnds

CallbackGoesOn(s) == callback[s] = "closing" /\ CallbackReturns(s)

Library ==
  \/ \E f \in Flows : FlowStep(f)
  \/ \E p \in Owners : CloseStep(p)
  \/ \E r \in Runners : Registered(r) \/ AlreadyBeating(r) \/ RunnerEnds(r)
  \/ BodyStep
  \/ \E u \in Users : CloseReturned(u)

Environment ==
  \/ \E f \in Flows, h \in Handles : f \in cast.actors /\ OpenAnswered(f, h)
  \/ \E d \in Directs, h \in Handles : DirectClose(d, h)
  \/ \E r \in Runners, h \in Handles : StartHeartbeat(r, h)
  \/ \E r \in Runners : RunnerFindsNoSession(r)
  \/ \E u \in Users : CallClose(u)
  \/ \E s \in Slots : CallbackCloses(s) \/ CallbackReturns(s)

LifecycleNext == Library \/ Environment

LifecycleFairness ==
  /\ \A f \in Flows : WF_lifecycleVars(FlowStep(f))
  /\ \A p \in Owners : WF_lifecycleVars(CloseStep(p))
  /\ \A r \in Runners : WF_lifecycleVars(RunnerEnds(r))
  /\ WF_lifecycleVars(BodyStep)
  /\ \A u \in Users : WF_lifecycleVars(CloseReturned(u))
  /\ \A s \in Slots : WF_lifecycleVars(CallbackGoesOn(s))

LifecycleSpec == LifecycleInit /\ [][LifecycleNext]_lifecycleVars
FairLifecycleSpec == LifecycleSpec /\ LifecycleFairness

(***************************************************************************)
(* Properties                                                              *)
(***************************************************************************)

\* After a Close that was not cut short by its timeout nothing it has to
\* wait for runs: no execution, and no heartbeat except one whose
\* StartHeartbeat passed ensureOpen before the Close and took stateMu after
\* its snapshot (lifecycle.go:43-86, heartbeat.go:51-87).
CloseLeavesQuiet ==
  /\ DrainSound
  /\ body = "done" => \A r \in Runners : Alive(r) => r \in late

\* What the client remembers agrees with the server and with itself: a
\* session that is remembered as closed is closed, unless its handle was
\* issued again while it was being closed; a recorded session of which no
\* close has succeeded is in c.sessions; the bounded memory lists each handle
\* once; and a registered heartbeat has a goroutine (session.go, heartbeat.go).
RegistrySound ==
  /\ \A h \in Handles \ overtaken :
       /\ h \in remembered /\ server[h] = "open" => \E f \in Flows :
            flow[f].at = "record" /\ flow[f].handle = h
       /\ h \in sessions => h \notin remembered
  /\ Len(closedOrder) <= MaxRemembered
  /\ remembered = Range(closedOrder) /\ Cardinality(remembered) = Len(closedOrder)
  /\ \A h \in Handles : heartbeats[h] # None =>
       target[heartbeats[h]] = h /\ beat[heartbeats[h]] \in {"waiting", "leaving"}

\* A recipe reports what happened: the statements it counts as applied are
\* the first ones and were processed, at most the one that failed may have
\* been as well, and a cleanup that reports no error has left no session
\* behind, whoever else closed it or was given its handle in the meantime
\* (session_recipe.go:95-141).
RecipeHonest ==
  \A f \in Flows :
    LET result == flow[f]
        h == result.handle
    IN  Returning(f) =>
          /\ 1..result.applied \subseteq effects[f]
          /\ effects[f] \subseteq 1..(result.applied + 1)
          /\ result.at = "closing" /\ close[f].answer = "ok" /\ h \notin overtaken
               => ~(server[h] = "open" /\ issuedTo[h] = f)

\* Every call of GatewayClient.Close returns: whatever the callbacks do,
\* also when they call Close themselves, and whatever the flows and runners
\* it waits for are doing (lifecycle.go:37-99, 152-176).
ClientCloseReturns ==
  /\ \A u \in Users : caller[u] = "called" ~> caller[u] = "returned"
  /\ \A s \in Slots : callback[s] = "closing" ~> callback[s] = "free"
=============================================================================
