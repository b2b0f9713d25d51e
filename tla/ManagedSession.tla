--------------------------- MODULE ManagedSession ---------------------------
(***************************************************************************)
(* One session opened by OpenManagedSession (managed_session.go), from the *)
(* opening to the DELETE, against everybody who may end it: users calling  *)
(* Close on it, users calling GatewayClient.CloseSession with its handle   *)
(* (session.go), the opener itself when the heartbeat cannot be started,   *)
(* and GatewayClient.Close (lifecycle.go), which closes the sessions and   *)
(* the heartbeats that are registered when it begins.  The session has a   *)
(* heartbeat (Heartbeat.tla), a monitor that turns its events into the     *)
(* health of the session, and users who stop it with StopHeartbeat.        *)
(*                                                                         *)
(* Three single-flight structures are stacked: shutdownOnce, the closeCall *)
(* of the session and the closeCalls of the client.  The session is opened *)
(* without Serialize; SerializedSession is the model of that wrapper.      *)
(***************************************************************************)
EXTENDS ActivityGroup, Heartbeat

(* Names that start with Bug are faulty variants of a definition that       *)
(* follows them; no specification uses them.                               *)

CONSTANTS
  Users,    \* goroutines that call ManagedSession.Close
  Directs,  \* goroutines that call the client with the handle
  Callers,  \* goroutines that call Execute or Stream
  MaxCalls, \* bound: calls of one caller
  FailureThreshold  \* options.FailureThreshold; failures are counted up to it

Client == "client"
Opener == "opener"
Managers == Users \cup {Client}            \* run closeWithContext
Closers == Managers \cup Directs \cup {Opener}  \* run CloseSession

Handle == CHOOSE h \in Handles : TRUE

ASSUME OneSession == Handles = {Handle}
ASSUME OneRunner == Runners = {Opener}
ASSUME ThresholdIsPositive == FailureThreshold \in Nat \ {0}
ASSUME Actors ==
  /\ IsFiniteSet(Users) /\ IsFiniteSet(Directs) /\ IsFiniteSet(Callers)
  /\ Client \notin Users /\ Opener \notin Users
  /\ Directs \cap (Users \cup {Client, Opener}) = {}
  /\ None \notin Closers

VARIABLES
  session,       \* on the server: "none" | "open" | "closed"
  faulty,        \* history: a request was lost, or a closer ran out of time
  clientClosed,  \* c.clientClosed and the end of c.lifecycleCtx
  managed,       \* the session is in c.managed
  lifecycleDone, \* m.lifecycleCtx has ended
  snapshot,      \* the runner GatewayClient.Close found in c.heartbeats
  failures,      \* consecutiveFailures, while the runner lives
  event,         \* the event in the channel, which has capacity one
  monitor,       \* monitorHeartbeat: "none" | "reading" | "done"
  health,        \* m.health
  pc             \* where each closer is

VARIABLES
  once,          \* m.shutdownOnce: "new" | "running" | "done"
  todo,          \* streams its owner still has to close
  seen,          \* idle channel captured by a manager in activity.wait
  mOwner,        \* owner of m.closeCall, or None
  mComplete,     \* m.closeComplete
  awaited,       \* the owner of a call, or the runner, that a closer waits for
  outcome        \* result of CloseSession for each closer

VARIABLES
  xpc,           \* where each caller is
  calls          \* calls it has made

serverVars == << session, faulty >>
clientVars == << clientClosed, managed, lifecycleDone, snapshot >>
channelVars == << failures, event >>
monitorVars == << monitor, health >>
aliveVars == << beatVars, channelVars, monitorVars >>
onceVars == << once, todo, seen >>
mCall == << mOwner, mComplete >>
closeVars == << onceVars, mCall, registryVars, awaited, outcome >>
callVars == << xpc, calls >>
others == << groupVars, serverVars, clientVars, aliveVars, callVars >>
vars == << others, pc, closeVars >>

PCs == {"idle", "open", "register", "ensure", "beat", "assign", "ready", "failed",
        "once", "streams", "heartbeat", "health", "capture", "wait",
        "closeMu", "joinM", "settleM", "enterC", "joinC", "stopC", "haltC", "deleteC",
        "settleC", "stopH", "runners", "drain", "returned"}

Event(kind, count) == [kind |-> kind, count |-> count]
NoEvent == Event("none", 0)
Success == Event("ok", 0)
Gone == Event("gone", 0)
Events == {NoEvent, Success, Gone} \cup {Event("failed", n) : n \in 1..FailureThreshold}

RunnerSet == monitor # "none"  \* m.runner has been assigned

Init ==
  /\ GroupInit
  /\ session = "none" /\ faulty = FALSE
  /\ clientClosed = FALSE /\ managed = FALSE /\ lifecycleDone = FALSE
  /\ HeartbeatInit
  /\ monitor = "none" /\ health = "healthy"
  /\ failures = 0 /\ event = NoEvent
  /\ pc = [p \in Closers |-> IF p = Opener THEN "open" ELSE "idle"]
  /\ once = "new" /\ todo = {} /\ seen = [p \in Managers |-> 0]
  /\ mOwner = None /\ mComplete = FALSE
  /\ RegistryInit({}) /\ snapshot = None
  /\ awaited = [p \in Closers |-> None]
  /\ outcome = [p \in Closers |-> "none"]
  /\ xpc = [x \in Callers |-> "idle"]
  /\ calls = [x \in Callers |-> 0]

TypeOK ==
  /\ GroupTypeOK(Callers)
  /\ session \in {"none", "open", "closed"}
  /\ {faulty, clientClosed, managed, lifecycleDone, mComplete} \subseteq BOOLEAN
  /\ HeartbeatTypeOK
  /\ snapshot \in Runners \cup {None}
  /\ monitor \in {"none", "reading", "done"}
  /\ health \in {"healthy", "degraded", "expired", "closed"}
  /\ failures \in 0..FailureThreshold /\ event \in Events
  /\ pc \in [Closers -> PCs]
  /\ once \in {"new", "running", "done"}
  /\ todo \subseteq Callers
  /\ seen \in [Managers -> Nat]
  /\ mOwner \in Managers \cup {None} /\ RegistryTypeOK(Closers)
  /\ awaited \in [Closers -> Closers \cup {None}]
  /\ outcome \in [Closers -> {"none", "ok", "err"}]
  /\ xpc \in [Callers -> {"idle", "begin", "running", "open"}]
  /\ calls \in [Callers -> 0..MaxCalls]

GoTo(p, step) == pc' = [pc EXCEPT ![p] = step]
XGoTo(x, step) == xpc' = [xpc EXCEPT ![x] = step]

(* GatewayClient.Close and the opener close with an internal cleanup context. *)
Internal(p) == p \in {Client, Opener}
BugMayRequest(p) == ~clientClosed
MayRequest(p) == Internal(p) \/ ~clientClosed

(***************************************************************************)
(* OpenManagedSession                                                      *)
(***************************************************************************)
OpenSession ==
  /\ pc[Opener] = "open"
  /\ \/ /\ ~clientClosed /\ session' = "open" /\ RecordSession(Handle)
        /\ GoTo(Opener, "register")
        /\ UNCHANGED faulty
     \/ /\ ~clientClosed /\ session' \in {"none", "open"} /\ faulty' = TRUE
        /\ GoTo(Opener, "failed")
        /\ UNCHANGED registryVars
     \/ clientClosed /\ GoTo(Opener, "failed") /\ UNCHANGED << serverVars, registryVars >>
  /\ UNCHANGED << groupVars, clientVars, aliveVars, onceVars, mCall, awaited, outcome, callVars >>

Register ==
  /\ pc[Opener] = "register"
  /\ managed' = ~clientClosed
  /\ lifecycleDone' = clientClosed
  /\ GoTo(Opener, IF clientClosed THEN "enterC" ELSE "ensure")
  /\ UNCHANGED << groupVars, serverVars, clientClosed, snapshot, aliveVars, closeVars, callVars >>

(* ensureOpen of startHeartbeat; its refusal undoes the registration. *)
EnsureOpen ==
  /\ pc[Opener] = "ensure"
  /\ managed' = (managed /\ ~clientClosed)
  /\ lifecycleDone' = (lifecycleDone \/ clientClosed)
  /\ GoTo(Opener, IF clientClosed THEN "enterC" ELSE "beat")
  /\ UNCHANGED << groupVars, serverVars, clientClosed, snapshot, aliveVars, closeVars, callVars >>

StartRunner ==
  /\ pc[Opener] = "beat"
  /\ RegisterRunner(Handle, Opener)
  /\ GoTo(Opener, "assign")
  /\ UNCHANGED << groupVars, serverVars, clientVars, channelVars, monitorVars, closeVars,
                  callVars >>

(* m.runner = runner, and the goroutine of the monitor. *)
AssignRunner ==
  /\ pc[Opener] = "assign"
  /\ monitor' = "reading"
  /\ GoTo(Opener, "ready")
  /\ UNCHANGED << groupVars, serverVars, clientVars, beatVars, channelVars, health, closeVars, callVars >>

(***************************************************************************)
(* The runner, monitorHeartbeat and StopHeartbeat                          *)
(***************************************************************************)

(* The context of the runner ends with the session's. *)
ContextEnded == Opener \in cancelled \/ lifecycleDone

BugPublish(e) == event' = IF event = NoEvent THEN e ELSE event

(* publishHeartbeatEvent: an event nobody has read yet is replaced. *)
Publish(e) == event' = e

HeartbeatSucceeds ==
  /\ session = "open" /\ ~clientClosed
  /\ BeatGoesOn(Opener, ContextEnded)
  /\ failures' = 0
  /\ Publish(Success)

(* A request may fail in any state; Heartbeat refuses on a closed client. *)
HeartbeatFails ==
  /\ BeatGoesOn(Opener, ContextEnded)
  /\ failures' = IF failures < FailureThreshold THEN failures + 1 ELSE failures
  /\ Publish(Event("failed", failures'))

HeartbeatFindsNoSession ==
  /\ session = "closed" /\ ~clientClosed
  /\ BeatFindsNoSession(Opener, ContextEnded)
  /\ Publish(Gone)
  /\ UNCHANGED failures

HeartbeatEnds ==
  /\ \/ BeatCancelled(Opener, ContextEnded) /\ UNCHANGED failures
     \/ Leave(Handle, Opener) /\ failures' = 0
  /\ UNCHANGED event

Beats ==
  /\ HeartbeatSucceeds \/ HeartbeatFails \/ HeartbeatFindsNoSession \/ HeartbeatEnds
  /\ UNCHANGED << groupVars, serverVars, clientVars, monitorVars, pc, closeVars, callVars >>

BugHealthAfter(e) ==
  CASE e.kind = "gone" -> "expired"
    [] e.kind = "ok" /\ health = "degraded" -> "healthy"
    [] e.kind = "failed" /\ e.count >= FailureThreshold -> "degraded"
    [] OTHER -> health

(* setHealth keeps CLOSED. *)
HealthAfter(e) ==
  CASE health = "closed" -> "closed"
    [] health # "closed" /\ e.kind = "gone" -> "expired"
    [] health = "degraded" /\ e.kind = "ok" -> "healthy"
    [] health # "closed" /\ e.kind = "failed" /\ e.count >= FailureThreshold -> "degraded"
    [] OTHER -> health

(* An event and its setHealth are one step: nothing it reads may change. *)
MonitorReads ==
  /\ monitor = "reading" /\ event # NoEvent
  /\ health' = HealthAfter(event)
  /\ event' = NoEvent
  /\ UNCHANGED << groupVars, serverVars, clientVars, beatVars, failures, monitor, pc, closeVars,
                  callVars >>

(* The channel is closed and empty. *)
MonitorEnds ==
  /\ monitor = "reading" /\ event = NoEvent /\ beat[Opener] = "done"
  /\ monitor' = "done"
  /\ UNCHANGED << groupVars, serverVars, clientVars, beatVars, channelVars, health, pc, closeVars,
                  callVars >>

MonitorStep == MonitorReads \/ MonitorEnds

(* StopHeartbeat, by a user: it cancels what it finds and waits for it. *)
StopHeartbeat(d) ==
  /\ pc[d] = "idle" /\ pc[Opener] = "ready"
  /\ CancelRunner(heartbeats[Handle])
  /\ awaited' = [awaited EXCEPT ![d] = heartbeats[Handle]]
  /\ GoTo(d, "stopH")
  /\ UNCHANGED << groupVars, serverVars, clientVars, channelVars, monitorVars, onceVars, mCall, registryVars,
                  outcome, callVars >>

StopReturns(d) ==
  /\ pc[d] = "stopH" /\ Ended(awaited[d])
  /\ awaited' = [awaited EXCEPT ![d] = None]
  /\ GoTo(d, "returned")
  /\ UNCHANGED << others, onceVars, mCall, registryVars, outcome >>

(***************************************************************************)
(* Who calls                                                               *)
(***************************************************************************)
UserClose(u) ==
  /\ pc[u] = "idle" /\ pc[Opener] = "ready"
  /\ GoTo(u, "once")
  /\ UNCHANGED << others, closeVars >>

DirectClose(d) ==
  /\ pc[d] = "idle" /\ pc[Opener] = "ready"
  /\ GoTo(d, "enterC")
  /\ UNCHANGED << others, closeVars >>

ClientClose ==
  /\ pc[Client] = "idle"
  /\ clientClosed' = TRUE
  /\ lifecycleDone' = TRUE
  /\ snapshot' = heartbeats[Handle]
  /\ GoTo(Client, IF managed THEN "once" ELSE "runners")
  /\ UNCHANGED << groupVars, serverVars, managed, aliveVars, closeVars, callVars >>

ClientStopsRunner ==
  /\ pc[Client] = "runners"
  /\ CancelRunner(snapshot)
  /\ GoTo(Client, "drain")
  /\ UNCHANGED << groupVars, serverVars, clientVars, channelVars, monitorVars, closeVars,
                  callVars >>

ClientDrained ==
  /\ pc[Client] = "drain" /\ Ended(snapshot)
  /\ snapshot' = None
  /\ GoTo(Client, "returned")
  /\ UNCHANGED << groupVars, serverVars, clientClosed, managed, lifecycleDone, aliveVars, callVars,
                  closeVars >>

ServerExpires ==
  /\ session = "open" /\ pc[Opener] # "open"
  /\ session' = "closed"
  /\ UNCHANGED << groupVars, faulty, clientVars, aliveVars, pc, closeVars, callVars >>

(***************************************************************************)
(* closeWithContext: the body of shutdownOnce                              *)
(***************************************************************************)
(* onClose of the stream: unregistering it and the end of the activity are  *)
(* one step, as a closer that comes between only finds less to close.      *)
EndStream(x) ==
  /\ streams' = streams \ {x}
  /\ active' = active - 1
  /\ shut' = IF active = 1 THEN shut \cup {idle} ELSE shut
  /\ XGoTo(x, "idle")
  /\ UNCHANGED << closed, idle >>

EnterOnce(p) ==
  /\ pc[p] = "once" /\ once = "new"
  /\ once' = "running"
  /\ Stop
  /\ todo' = streams
  /\ lifecycleDone' = TRUE
  /\ GoTo(p, "streams")
  /\ UNCHANGED << serverVars, clientClosed, managed, snapshot, aliveVars, seen, mCall, registryVars, awaited,
                  outcome, callVars >>

PassOnce(p) ==
  /\ pc[p] = "once" /\ once = "done"
  /\ GoTo(p, "capture")
  /\ UNCHANGED << others, closeVars >>

(* Closing a stream runs its onClose, unless somebody else has begun to. *)
CloseStream(p, x) ==
  /\ pc[p] = "streams" /\ x \in todo
  /\ todo' = todo \ {x}
  /\ IF xpc[x] = "open"
       THEN EndStream(x)
       ELSE UNCHANGED << groupVars, xpc >>
  /\ UNCHANGED << serverVars, clientVars, aliveVars, pc, once, seen, mCall, registryVars, awaited, outcome,
                  calls >>

StreamsClosed(p) ==
  /\ pc[p] = "streams" /\ todo = {}
  /\ CancelRunner(IF RunnerSet THEN Opener ELSE None)
  /\ GoTo(p, IF RunnerSet THEN "heartbeat" ELSE "health")
  /\ UNCHANGED << groupVars, serverVars, clientVars, channelVars, monitorVars, callVars,
                  closeVars >>

(* HeartbeatRunner.Stop and monitorDone have returned, if a runner was found. *)
LeaveOnce(p) ==
  /\ pc[p] = "health" \/ (pc[p] = "heartbeat" /\ monitor = "done")
  /\ health' = "closed"
  /\ once' = "done"
  /\ GoTo(p, "capture")
  /\ UNCHANGED << groupVars, serverVars, clientVars, beatVars, channelVars, monitor, todo, seen,
                  mCall, registryVars, awaited, outcome, callVars >>

(***************************************************************************)
(* closeWithContext: the wait and the closeCall of the session             *)
(***************************************************************************)
Finished(p) == GoTo(p, IF p = Client THEN "runners" ELSE "returned")
Answer(p, result) == outcome' = [outcome EXCEPT ![p] = result]
Fails(p) ==
  /\ Answer(p, "err")
  /\ faulty' = TRUE
  /\ Finished(p)
  /\ UNCHANGED << groupVars, session, clientVars, aliveVars, callVars, mCall, registryVars >>

CaptureIdle(p) ==
  /\ pc[p] = "capture"
  /\ seen' = [seen EXCEPT ![p] = idle]
  /\ GoTo(p, "wait")
  /\ UNCHANGED << others, once, todo, mCall, registryVars, awaited, outcome >>

BugWaitReturnsEarly(p) ==
  /\ pc[p] = "wait"
  /\ GoTo(p, "closeMu")
  /\ UNCHANGED << others, closeVars >>

WaitReturns(p) ==
  /\ pc[p] = "wait" /\ Released(seen[p])
  /\ seen' = [seen EXCEPT ![p] = 0]
  /\ GoTo(p, "closeMu")
  /\ UNCHANGED << others, once, todo, mCall, registryVars, awaited, outcome >>

WaitExpires(p) ==
  /\ pc[p] = "wait"
  /\ seen' = [seen EXCEPT ![p] = 0]
  /\ Fails(p)
  /\ UNCHANGED << once, todo, awaited >>

AlreadyClosed(p) ==
  /\ pc[p] = "closeMu" /\ mComplete
  /\ Answer(p, "ok")
  /\ Finished(p)
  /\ UNCHANGED << others, onceVars, mCall, registryVars, awaited >>

JoinManaged(p) ==
  /\ pc[p] = "closeMu" /\ ~mComplete /\ mOwner # None
  /\ awaited' = [awaited EXCEPT ![p] = mOwner]
  /\ GoTo(p, "joinM")
  /\ UNCHANGED << others, onceVars, mCall, registryVars, outcome >>

OwnManaged(p) ==
  /\ pc[p] = "closeMu" /\ ~mComplete /\ mOwner = None
  /\ mOwner' = p
  /\ GoTo(p, "enterC")
  /\ UNCHANGED << others, onceVars, mComplete, registryVars, awaited, outcome >>

(* The owner has closed call.done; it owns no second call. *)
JoinManagedReturns(p) ==
  /\ pc[p] = "joinM" /\ mOwner # awaited[p]
  /\ Answer(p, outcome[awaited[p]])
  /\ awaited' = [awaited EXCEPT ![p] = None]
  /\ Finished(p)
  /\ UNCHANGED << others, onceVars, mCall, registryVars >>

JoinManagedExpires(p) ==
  /\ pc[p] = "joinM"
  /\ awaited' = [awaited EXCEPT ![p] = None]
  /\ Fails(p)
  /\ UNCHANGED onceVars

SettleManaged(p) ==
  /\ pc[p] = "settleM"
  /\ mOwner' = None
  /\ mComplete' = (mComplete \/ outcome[p] = "ok")
  /\ managed' = (managed /\ outcome[p] # "ok")
  /\ Finished(p)
  /\ UNCHANGED << groupVars, serverVars, clientClosed, lifecycleDone, snapshot, aliveVars, onceVars,
                  registryVars, awaited, outcome, callVars >>

(***************************************************************************)
(* GatewayClient.CloseSession                                              *)
(***************************************************************************)
Returned(p) ==
  GoTo(p, CASE p \in Managers -> "settleM" [] p = Opener -> "failed" [] OTHER -> "returned")

Remembered(p) ==
  /\ pc[p] = "enterC" /\ Handle \in remembered
  /\ Answer(p, "ok")
  /\ Returned(p)
  /\ UNCHANGED << others, onceVars, mCall, registryVars, awaited >>

JoinClose(p) ==
  /\ pc[p] = "enterC" /\ Handle \notin remembered /\ closeCalls[Handle] # None
  /\ awaited' = [awaited EXCEPT ![p] = closeCalls[Handle]]
  /\ GoTo(p, "joinC")
  /\ UNCHANGED << others, onceVars, mCall, registryVars, outcome >>

BugOwnCloseAlways(p) ==
  /\ pc[p] = "enterC" /\ Handle \notin remembered
  /\ closeCalls' = [closeCalls EXCEPT ![Handle] = p]
  /\ GoTo(p, "stopC")
  /\ UNCHANGED << others, onceVars, mCall, sessions, memory, awaited, outcome >>

OwnClose(p) ==
  /\ pc[p] = "enterC"
  /\ OwnCloseCall(Handle, p)
  /\ GoTo(p, "stopC")
  /\ UNCHANGED << others, onceVars, mCall, awaited, outcome >>

BugJoinCloseIgnoresError(p) ==
  /\ pc[p] = "joinC" /\ closeCalls[Handle] # awaited[p]
  /\ Answer(p, "ok")
  /\ awaited' = [awaited EXCEPT ![p] = None]
  /\ Returned(p)
  /\ UNCHANGED << others, onceVars, mCall, registryVars >>

JoinCloseReturns(p) ==
  /\ pc[p] = "joinC" /\ closeCalls[Handle] # awaited[p]
  /\ Answer(p, outcome[awaited[p]])
  /\ awaited' = [awaited EXCEPT ![p] = None]
  /\ Returned(p)
  /\ UNCHANGED << others, onceVars, mCall, registryVars >>

JoinCloseExpires(p) ==
  /\ pc[p] = "joinC"
  /\ Answer(p, "err")
  /\ faulty' = (faulty \/ p # Opener)
  /\ awaited' = [awaited EXCEPT ![p] = None]
  /\ Returned(p)
  /\ UNCHANGED << groupVars, session, clientVars, aliveVars, callVars, onceVars, mCall, registryVars >>

StopSessionHeartbeat(p) ==
  /\ pc[p] = "stopC"
  /\ CancelRunner(heartbeats[Handle])
  /\ awaited' = [awaited EXCEPT ![p] = heartbeats[Handle]]
  /\ GoTo(p, "haltC")
  /\ UNCHANGED << groupVars, serverVars, clientVars, channelVars, monitorVars, callVars, onceVars, mCall,
                  registryVars, outcome >>

HeartbeatStopped(p) ==
  /\ pc[p] = "haltC" /\ Ended(awaited[p])
  /\ awaited' = [awaited EXCEPT ![p] = None]
  /\ GoTo(p, "deleteC")
  /\ UNCHANGED << groupVars, serverVars, clientVars, beatVars, channelVars, monitorVars, callVars, onceVars,
                  mCall, registryVars, outcome >>

(* Not found counts as success. A request that failed may have been served. *)
Delete(p) ==
  /\ pc[p] = "deleteC"
  /\ \/ MayRequest(p) /\ session' = "closed" /\ Answer(p, "ok") /\ UNCHANGED faulty
     \/ MayRequest(p) /\ session' \in {session, "closed"} /\ Answer(p, "err") /\ faulty' = TRUE
     \/ ~MayRequest(p) /\ Answer(p, "err") /\ UNCHANGED serverVars
  /\ GoTo(p, "settleC")
  /\ UNCHANGED << groupVars, clientVars, aliveVars, onceVars, mCall, registryVars, awaited, callVars >>

BugSettleKeepsCall(p) ==
  /\ pc[p] = "settleC"
  /\ IF outcome[p] = "ok" THEN Remember(Handle) ELSE UNCHANGED memory
  /\ Returned(p)
  /\ UNCHANGED << others, onceVars, mCall, sessions, closeCalls, awaited, outcome >>

SettleClose(p) ==
  /\ pc[p] = "settleC"
  /\ SettleCloseCall(Handle, outcome[p] = "ok")
  /\ Returned(p)
  /\ UNCHANGED << others, onceVars, mCall, awaited, outcome >>

(***************************************************************************)
(* Execute and Stream                                                      *)
(***************************************************************************)
Call(x) ==
  /\ xpc[x] = "idle" /\ pc[Opener] = "ready" /\ health \notin {"closed", "expired"}
  /\ calls[x] < MaxCalls
  /\ calls' = [calls EXCEPT ![x] = @ + 1]
  /\ XGoTo(x, "begin")
  /\ UNCHANGED << groupVars, serverVars, clientVars, aliveVars, pc, closeVars >>

BeginCall(x) ==
  /\ xpc[x] = "begin"
  /\ (Begin /\ XGoTo(x, "running")) \/ (Refuse /\ XGoTo(x, "idle"))
  /\ UNCHANGED << serverVars, clientVars, aliveVars, pc, closeVars, calls >>

RegisterCall(x) ==
  /\ xpc[x] = "running"
  /\ RegisterStream(x)
  /\ XGoTo(x, "open")
  /\ UNCHANGED << serverVars, clientVars, aliveVars, pc, closeVars, calls >>

(* Execute is over, ExecuteStream has failed, or the group has refused the  *)
(* stream, which is closed at once.                                        *)
CallReturns(x) ==
  /\ xpc[x] = "running"
  /\ End
  /\ XGoTo(x, "idle")
  /\ UNCHANGED << serverVars, clientVars, aliveVars, pc, closeVars, calls >>

FinishStream(x) ==
  /\ xpc[x] = "open"
  /\ EndStream(x)
  /\ UNCHANGED << serverVars, clientVars, aliveVars, pc, closeVars, calls >>

-----------------------------------------------------------------------------
OpenerStep ==
  OpenSession \/ Register \/ EnsureOpen \/ StartRunner \/ AssignRunner

ClientStep == ClientStopsRunner \/ ClientDrained

OnceStep(p) ==
  \/ EnterOnce(p) \/ PassOnce(p)
  \/ \E x \in Callers : CloseStream(p, x)
  \/ StreamsClosed(p) \/ LeaveOnce(p)

ManagerStep(p) ==
  \/ OnceStep(p)
  \/ CaptureIdle(p) \/ WaitReturns(p) \/ AlreadyClosed(p) \/ JoinManaged(p) \/ OwnManaged(p)
  \/ JoinManagedReturns(p) \/ SettleManaged(p)

CloseSessionStep(p) ==
  \/ Remembered(p) \/ JoinClose(p) \/ OwnClose(p) \/ JoinCloseReturns(p)
  \/ StopSessionHeartbeat(p) \/ HeartbeatStopped(p) \/ Delete(p) \/ SettleClose(p)

CallerStep(x) == BeginCall(x) \/ RegisterCall(x) \/ CallReturns(x)

Environment ==
  \/ \E u \in Users : UserClose(u)
  \/ \E d \in Directs : DirectClose(d) \/ StopHeartbeat(d)
  \/ \E p \in Managers : WaitExpires(p) \/ JoinManagedExpires(p)
  \/ \E p \in Closers : JoinCloseExpires(p)
  \/ \E x \in Callers : Call(x) \/ FinishStream(x)
  \/ ClientClose \/ ServerExpires

(* What each goroutine goes on to do. *)
Goroutine(p) ==
  \/ p \in Managers /\ ManagerStep(p)
  \/ p = Client /\ ClientStep
  \/ p = Opener /\ OpenerStep
  \/ p \in Directs /\ StopReturns(p)
  \/ CloseSessionStep(p)

Running ==
  (\E p \in Closers : Goroutine(p)) \/ (\E x \in Callers : CallerStep(x))

Next ==
  \/ Running
  \/ Beats \/ MonitorStep
  \/ Environment

(* Requests end by RequestTimeout and executions by their limits, and each *)
(* goroutine takes finitely many steps: it is enough that while some of    *)
(* them can go on, one does.  Only the runner and the monitor go on for    *)
(* ever.  Nobody has to call Close or to read a stream, and contexts need  *)
(* not end.                                                                *)
Fairness == WF_vars(Running) /\ WF_vars(Beats) /\ WF_vars(MonitorStep)

Spec == Init /\ [][Next]_vars
FairSpec == Spec /\ Fairness

(***************************************************************************)
(* Properties                                                              *)
(***************************************************************************)

\* No statement of the session runs while a Close of it deletes the session
\* on the server: executions have returned and every stream is finished
\* (managed_session.go closeWithContext waits before CloseSession).
QuietDelete ==
  \A p \in Managers :
    pc[p] \in {"stopC", "deleteC"} =>
      \A x \in Callers : xpc[x] \notin {"running", "open"}

\* However many Close and CloseSession calls meet, one request to delete the
\* session is in flight at a time, and its heartbeat has stopped, or its context has
\* ended with the client, so that it stops by itself (session.go CloseSession).
SingleDelete ==
  \A p, q \in Closers :
    pc[p] = "deleteC" =>
      /\ pc[q] \in {"stopC", "deleteC", "settleC"} => p = q
      /\ Alive(Opener) => lifecycleDone

\* A close that reports success, its memory in c.closed and in
\* m.closeComplete, and the removal of the session from c.managed all mean
\* that the server session is gone, also for those that only waited.
CloseIsHonest ==
  /\ (\E p \in Closers : outcome[p] = "ok") => session = "closed"
  /\ Handle \in remembered \/ mComplete => session = "closed"
  /\ pc[Opener] = "ready" /\ ~managed => session = "closed"

\* An OpenManagedSession that fails leaves no session behind on the server,
\* also when GatewayClient.Close runs into it, unless a request was lost:
\* what its own close has not done is done by the one it waited for.
NoLeakAfterFailedOpen ==
  pc[Opener] = "failed" /\ closeCalls[Handle] = None /\ ~faulty => session # "open"

\* The health of the session is what its heartbeats have found, although
\* events that are not read in time are replaced.  CLOSED is final and
\* EXPIRED is only said of a session that has gone.  Whenever the monitor has
\* read everything, DEGRADED means that the last heartbeat has failed,
\* HEALTHY that fewer than FailureThreshold have in a row, and a runner that
\* was told the session has gone has made it EXPIRED (heartbeat.go
\* publishHeartbeatEvent, managed_session.go monitorHeartbeat).
CaughtUp ==
  monitor # "none" /\ event = NoEvent

HealthHonest ==
  /\ once = "done" => health = "closed"
  /\ health = "expired" => session = "closed"
  /\ CaughtUp /\ Alive(Opener) /\ health = "healthy" => failures < FailureThreshold
  /\ CaughtUp /\ Alive(Opener) /\ health = "degraded" => failures > 0
  /\ CaughtUp /\ beat[Opener] \in {"leaving", "done"} /\ ~ContextEnded =>
       health \in {"expired", "closed"}

\* A session that has gone does not look healthy for ever: the monitor learns
\* of it, or at least of failing heartbeats, unless its runner was stopped.
GoneIsNoticed ==
  session = "closed" /\ Alive(Opener)
    ~> health # "healthy" \/ ContextEnded

\* GatewayClient.Close ends every session the client has opened: one is left
\* on the server only if a request was lost or a wait ran out of time.
ClientCloseReleases ==
  pc[Client] = "returned" /\ pc[Opener] = "ready" /\ ~faulty => session # "open"

\* Every Close returns, and so do CloseSession and StopHeartbeat.  When the
\* client is closed, the runner of the session ends.
CloseReturns ==
  /\ clientClosed /\ Alive(Opener) ~> ~Alive(Opener)
  /\ \A p \in Managers : pc[p] = "once" ~> pc[p] = "returned"
  /\ \A d \in Directs : pc[d] \in {"enterC", "stopH"} ~> pc[d] = "returned"
=============================================================================
