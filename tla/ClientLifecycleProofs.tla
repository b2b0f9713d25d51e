----------------------- MODULE ClientLifecycleProofs -----------------------
(***************************************************************************)
(* The activity group under its drain protocol, and a client until after   *)
(* its Close, for any number of workers, closers, flows, users,            *)
(* heartbeats, callbacks, sessions and recipes.                            *)
(*                                                                         *)
(* The executions: every step of the client is a step of DrainProtocol or  *)
(* none, so what is proved of that protocol holds here.  The heartbeats:   *)
(* a runner that is alive is registered, hence in the snapshot Close takes *)
(* with stateMu held, and stays accounted for - in the snapshot, or as the *)
(* one Close is waiting for - until it is gone.  The sessions: a handle    *)
(* that is remembered as closed, or is about to be, is open only while the *)
(* flow it was issued to last has not recorded it, and that flow cannot be *)
(* the one that is told of the close.                                      *)
(***************************************************************************)
EXTENDS ClientLifecycle, SequenceTheorems, FiniteSetTheorems, TLAPS

(***************************************************************************)
(* The drain protocol.  Beside the checked properties the inductive        *)
(* invariant says that channel numbers never run ahead of g.idle, and that *)
(* a closer that waits has captured the CURRENT channel: the group is      *)
(* stopped before the capture, so no begin can replace the channel under   *)
(* the waiter.                                                             *)
(***************************************************************************)
Stopped(k) == cpc[k] \in {"stopped", "waiting", "drained", "expired"}

WaiterInv(k) ==
  /\ Stopped(k) => closed
  /\ cpc[k] = "waiting" => seen[k] = idle
  /\ cpc[k] = "drained" => Running = {}

IInv ==
  /\ TypeOK
  /\ IdleMeansClosedChannel
  /\ \A ch \in shut : ch <= idle
  /\ \A k \in Closers : WaiterInv(k)

\* What a worker that starts or finishes does to the set of running workers
\* (begin and end keep g.active equal to its size).
LEMMA RunningSize ==
  ASSUME TypeOK, NEW w \in Workers
  PROVE /\ IsFiniteSet(Running)
        /\ Cardinality(Running) \in Nat
        /\ w \notin Running => Cardinality(Running \cup {w}) = Cardinality(Running) + 1
        /\ w \in Running => Cardinality(Running \ {w}) = Cardinality(Running) - 1
        /\ Cardinality(Running) = 0 <=> Running = {}
<1>1. IsFiniteSet(Running)
  BY WorkersFinite, FS_Subset DEF Running
<1>2. Cardinality(Running) \in Nat
  BY <1>1, FS_CardinalityType
<1>3. w \notin Running => Cardinality(Running \cup {w}) = Cardinality(Running) + 1
  BY <1>1, FS_AddElement
<1>4. w \in Running => Cardinality(Running \ {w}) = Cardinality(Running) - 1
  BY <1>1, FS_RemoveElement
<1>5. Cardinality(Running) = 0 <=> Running = {}
  BY <1>1, FS_EmptySet
<1> QED BY <1>1, <1>2, <1>3, <1>4, <1>5

\* The group of newActivityGroup satisfies the invariant.
LEMMA InitInv == Init => IInv
<1> SUFFICES ASSUME Init PROVE IInv
  OBVIOUS
<1>1. TypeOK
  <2>1. closed \in BOOLEAN /\ active \in Nat /\ idle \in Nat
    BY DEF Init, GroupInit
  <2>2. shut \subseteq Nat /\ streams \subseteq {}
    BY DEF Init, GroupInit
  <2>3. /\ wpc \in [Workers -> {"idle", "running", "refused"}]
        /\ runs \in [Workers -> Nat]
        /\ seen \in [Closers -> Nat]
    BY DEF Init
  <2>4. cpc \in [Closers -> {"idle", "stopped", "waiting", "drained", "expired"}]
    BY DEF Init
  <2> QED BY <2>1, <2>2, <2>3, <2>4 DEF TypeOK, GroupTypeOK
<1>2. Running = {}
  BY DEF Init, Running
<1>3. IdleMeansClosedChannel
  BY <1>2, FS_EmptySet DEF Init, GroupInit, IdleMeansClosedChannel
<1>4. \A ch \in shut : ch <= idle
  BY DEF Init, GroupInit
<1>5. \A k \in Closers : WaiterInv(k)
  BY DEF Init, WaiterInv, Stopped
<1> QED BY <1>1, <1>3, <1>4, <1>5 DEF IInv

\* begin() of an activity preserves the invariant: it needs an open group,
\* and an open group has no waiter to deceive.
LEMMA BeginInv ==
  ASSUME IInv, NEW w \in Workers, BeginRun(w)
  PROVE IInv'
<1> USE DEF BeginRun, Begin
<1>1. TypeOK'
  BY DEF IInv, TypeOK, GroupTypeOK
<1>2. w \notin Running /\ Running' = Running \cup {w}
  BY DEF IInv, TypeOK, Running
<1>3. active' = Cardinality(Running')
  BY <1>2, RunningSize DEF IInv, IdleMeansClosedChannel
<1>4. (idle' \in shut') <=> (active' = 0)
  BY DEF IInv, TypeOK, GroupTypeOK, IdleMeansClosedChannel
<1>5. \A ch \in shut' : ch <= idle'
  BY DEF IInv, TypeOK, GroupTypeOK
<1>6. \A k \in Closers : WaiterInv(k)'
  BY DEF IInv, WaiterInv, Stopped
<1> QED BY <1>1, <1>3, <1>4, <1>5, <1>6 DEF IInv, IdleMeansClosedChannel

\* end() of an activity preserves the invariant: the last one closes the
\* channel that every waiter holds.
LEMMA EndInv ==
  ASSUME IInv, NEW w \in Workers, EndRun(w)
  PROVE IInv'
<1> USE DEF EndRun, End
<1>1. TypeOK'
  BY DEF IInv, TypeOK, GroupTypeOK
<1>2. w \in Running /\ Running' = Running \ {w}
  BY DEF IInv, TypeOK, Running
<1>3. active # 0
  BY <1>2, RunningSize DEF IInv, IdleMeansClosedChannel
<1>4. active' = Cardinality(Running')
  BY <1>2, <1>3, RunningSize DEF IInv, IdleMeansClosedChannel
<1>5. (idle' \in shut') <=> (active' = 0)
  BY <1>3 DEF IInv, TypeOK, GroupTypeOK, IdleMeansClosedChannel
<1>6. \A ch \in shut' : ch <= idle'
  BY DEF IInv, TypeOK, GroupTypeOK
<1>7. \A k \in Closers : WaiterInv(k)'
  BY <1>2 DEF IInv, WaiterInv, Stopped
<1> QED BY <1>1, <1>4, <1>5, <1>6, <1>7 DEF IInv, IdleMeansClosedChannel

\* A step of a closer preserves the invariant. The wake-up is the step that
\* matters: the captured channel is the current one, and it is closed.
LEMMA CloserInv ==
  ASSUME IInv, NEW k \in Closers, CloserStep(k)
  PROVE IInv'
<1>1. /\ TypeOK'
      /\ UNCHANGED << active, idle, shut, wpc >>
  BY DEF IInv, TypeOK, GroupTypeOK, CloserStep, StopGroup, CaptureIdle, WaitReturns,
         WaitExpires, RetryClose, Stop, groupVars
<1>2. Running' = Running
  BY <1>1 DEF Running
<1>3. IdleMeansClosedChannel' /\ \A ch \in shut' : ch <= idle'
  BY <1>1, <1>2 DEF IInv, IdleMeansClosedChannel
<1>4. ASSUME NEW j \in Closers PROVE WaiterInv(j)'
  <2> USE DEF IInv, WaiterInv, Stopped, TypeOK
  <2>1. CASE StopGroup(k)
    BY <1>2, <2>1 DEF StopGroup, Stop
  <2>2. CASE CaptureIdle(k)
    BY <1>2, <2>2 DEF CaptureIdle, groupVars
  <2>3. CASE WaitReturns(k)
    <3>1. active = 0
      BY <2>3 DEF WaitReturns, Released, IdleMeansClosedChannel
    <3>2. Running = {}
      BY <3>1, RunningSize, FS_EmptySet, WorkersFinite, FS_Subset
      DEF IdleMeansClosedChannel, Running
    <3> QED BY <1>2, <2>3, <3>2 DEF WaitReturns, groupVars
  <2>4. CASE WaitExpires(k)
    BY <1>2, <2>4 DEF WaitExpires, groupVars
  <2>5. CASE RetryClose(k)
    BY <1>2, <2>5 DEF RetryClose, groupVars
  <2> QED BY <2>1, <2>2, <2>3, <2>4, <2>5 DEF CloserStep
<1> QED BY <1>1, <1>3, <1>4 DEF IInv

\* A step that leaves the group and every program counter alone.
LEMMA StutterInv ==
  ASSUME IInv, UNCHANGED << groupVars, cpc, seen, runs >>, TypeOK', Running' = Running
  PROVE IInv'
BY DEF IInv, IdleMeansClosedChannel, WaiterInv, Stopped, groupVars

\* The inductive invariant of the drain protocol.
LEMMA Inductive == IInv /\ [Next]_vars => IInv'
<1> SUFFICES ASSUME IInv, [Next]_vars PROVE IInv'
  OBVIOUS
<1>1. ASSUME NEW w \in Workers, BeginRun(w) PROVE IInv'
  BY <1>1, BeginInv
<1>2. ASSUME NEW w \in Workers, EndRun(w) PROVE IInv'
  BY <1>2, EndInv
<1>3. ASSUME NEW w \in Workers, RefusedRun(w) PROVE IInv'
  BY <1>3, StutterInv DEF RefusedRun, Refuse, IInv, TypeOK, GroupTypeOK, Running, groupVars
<1>4. ASSUME NEW k \in Closers, CloserStep(k) PROVE IInv'
  BY <1>4, CloserInv
<1>5. CASE UNCHANGED vars
  BY <1>5, StutterInv DEF vars, IInv, TypeOK, GroupTypeOK, Running, groupVars
<1> QED BY <1>1, <1>2, <1>3, <1>4, <1>5 DEF Next, WorkerStep

\* activityGroup keeps its types in every run of the drain protocol.
THEOREM TypeCorrect == Spec => []TypeOK
<1>1. IInv => TypeOK
  BY DEF IInv
<1> QED BY <1>1, InitInv, Inductive, PTL DEF Spec

\* g.idle is closed exactly while no activity runs, for every number of
\* goroutines: end never closes a channel twice and wait never sleeps on an
\* idle group.
THEOREM IdleChannelCorrect == Spec => []IdleMeansClosedChannel
<1>1. IInv => IdleMeansClosedChannel
  BY DEF IInv
<1> QED BY <1>1, InitInv, Inductive, PTL DEF Spec

\* A Close whose wait returned nil runs alone: the group is stopped and no
\* activity is running, and none will ever be again.
THEOREM DrainSafe == Spec => []DrainSound
<1>1. IInv => DrainSound
  BY DEF IInv, DrainSound, WaiterInv, Stopped
<1> QED BY <1>1, InitInv, Inductive, PTL DEF Spec

(***************************************************************************)
(* The executions                                                          *)
(***************************************************************************)
LEMMA FlowIsWorker ==
  ASSUME NEW f \in Flows, FlowStep(f)
  PROVE  [Next]_vars
<1>1. CASE BeginStatement(f)
  BY <1>1 DEF BeginStatement, Next, WorkerStep, Flows
<1>2. CASE RefuseStatement(f)
  BY <1>2 DEF RefuseStatement, Next, WorkerStep, Flows
<1>3. CASE EndStatement(f)
  BY <1>3 DEF EndStatement, Next, WorkerStep, Flows
<1>4. CASE RecordHandle(f) \/ StatementAnswered(f) \/ Observe(f) \/ Report(f)
  BY <1>4 DEF RecordHandle, StatementAnswered, Observe, Report, drainVars
<1> QED BY <1>1, <1>2, <1>3, <1>4 DEF FlowStep

LEMMA BodyIsCloser ==
  ASSUME BodyStep
  PROVE  [Next]_vars
<1>0. Client \in Closers
  BY ClientIsCloser
<1>1. CASE BodyStarts
  BY <1>0, <1>1 DEF BodyStarts, Next, CloserStep
<1>2. CASE BodyWaits
  BY <1>0, <1>2 DEF BodyWaits, Next, CloserStep
<1>3. CASE BodyEnds
  BY <1>0, <1>3 DEF BodyEnds, Next, CloserStep
<1>4. CASE BodyObserves \/ BodyGoesOn \/ RunnerStopped
  BY <1>4 DEF BodyObserves, BodyGoesOn, RunnerStopped, drainVars
<1>5. CASE \E r \in Runners : BodyStopsRunner(r)
  BY <1>5 DEF BodyStopsRunner, drainVars
<1> QED BY <1>1, <1>2, <1>3, <1>4, <1>5 DEF BodyStep

LEMMA CloseIsNoExecution ==
  ASSUME NEW p \in Owners, CloseStep(p)
  PROVE  UNCHANGED vars
BY DEF CloseStep, CloseRemembered, CloseJoins, CloseOwns, CloseStopsRunner, CloseHalted,
       DeleteAnswered, SettleClose, JoinReturns, ClosingOnly, drainVars

LEMMA OthersAreNoExecution ==
  ASSUME \/ Environment
         \/ \E r \in Runners : Registered(r) \/ AlreadyBeating(r) \/ RunnerEnds(r)
         \/ \E u \in Users : CloseReturned(u)
  PROVE  UNCHANGED vars
BY DEF Environment, OpenAnswered, DirectClose, ClosingOnly, StartHeartbeat, RunnersOnly, CallClose,
       RunnerFindsNoSession, CallbackCloses, CallbackReturns, Registered, AlreadyBeating, RunnerEnds,
       CloseReturned, drainVars

LEMMA LifecycleStepIsDrainStep ==
  [LifecycleNext]_lifecycleVars => [Next]_vars
<1>1. ASSUME UNCHANGED lifecycleVars
      PROVE  [Next]_vars
  BY <1>1 DEF lifecycleVars, drainVars
<1>2. ASSUME Library
      PROVE  [Next]_vars
  BY <1>2, FlowIsWorker, BodyIsCloser, CloseIsNoExecution, OthersAreNoExecution DEF Library
<1>3. ASSUME Environment
      PROVE  [Next]_vars
  BY <1>3, OthersAreNoExecution
<1> QED BY <1>1, <1>2, <1>3 DEF LifecycleNext

\* Recipes and GatewayClient.Close use c.executions as DrainProtocol says:
\* stop before wait, and one end for each begin (poller.go:18-21,
\* lifecycle.go:43-86).
THEOREM LifecycleUsesDrain == LifecycleSpec => Spec
<1>1. LifecycleInit => Init
  BY DEF LifecycleInit
<1> QED BY <1>1, LifecycleStepIsDrainStep, PTL DEF LifecycleSpec, Spec

(***************************************************************************)
(* The heartbeats                                                          *)
(***************************************************************************)
RunnerTypes ==
  /\ heartbeats \in [Handles -> Runners \cup {None}]
  /\ beat \in [Runners -> {"none", "waiting", "leaving", "done"}]
  /\ target \in [Runners -> Handles \cup {None}]

\* A runner that is alive is the registered one of some session.
AliveIsRegistered ==
  \A r \in Runners : Alive(r) => \E h \in Handles : heartbeats[h] = r

\* Once Close has begun, a runner that is alive is still to be stopped, is
\* being waited for, or came too late for the snapshot.
AliveIsCovered ==
  body # "new" => \A r \in Runners : Alive(r) => r \in snapshot \cup {halting} \cup late

AllStopped == body \in {"wait", "done"} => snapshot = {} /\ halting = None

RunnerInv == RunnerTypes /\ AliveIsRegistered /\ AliveIsCovered /\ AllStopped

LEMMA RunnerInit == LifecycleInit => RunnerInv
BY DEF LifecycleInit, HeartbeatInit, RunnerInv, RunnerTypes, AliveIsRegistered, AliveIsCovered,
       AllStopped, Alive

\* Whatever does not touch the runners or the body of Close.
LEMMA RunnerStutter ==
  ASSUME RunnerInv, UNCHANGED << runnerVars, bodyVars >>
  PROVE  RunnerInv'
BY DEF RunnerInv, RunnerTypes, AliveIsRegistered, AliveIsCovered, AllStopped, Alive, runnerVars,
       beatVars, bodyVars

\* Cancelling changes nothing of this: the runner is alive until it has seen it.
LEMMA CancelKeeps ==
  ASSUME RunnerInv, UNCHANGED << heartbeats, beat, target, late, bodyVars >>
  PROVE  RunnerInv'
BY DEF RunnerInv, RunnerTypes, AliveIsRegistered, AliveIsCovered, AllStopped, Alive, bodyVars

LEMMA RegisteredKeeps ==
  ASSUME RunnerInv, NEW r \in Runners, Registered(r)
  PROVE  RunnerInv'
<1>. DEFINE h == target[r]
<1>1. h \in Handles /\ heartbeats[h] = None
  BY DEF RunnerInv, RunnerTypes, Registered, RegisterRunner
<1>2. /\ heartbeats' = [heartbeats EXCEPT ![h] = r]
      /\ beat' = [beat EXCEPT ![r] = "waiting"]
      /\ target' = target
      /\ UNCHANGED bodyVars
  BY DEF Registered, RegisterRunner, BeatTo, RunnersOnly
<1>3. RunnerTypes'
  BY <1>1, <1>2 DEF RunnerInv, RunnerTypes
<1>4. AliveIsRegistered'
  <2>1. heartbeats'[h] = r
    BY <1>1, <1>2 DEF RunnerInv, RunnerTypes
  <2>2. ASSUME NEW q \in Runners, q # r, Alive(q)'
        PROVE  \E g \in Handles : heartbeats'[g] = q
    <3>1. Alive(q)
      BY <1>2, <2>2 DEF Alive, RunnerInv, RunnerTypes
    <3>2. PICK g \in Handles : heartbeats[g] = q
      BY <3>1 DEF RunnerInv, AliveIsRegistered
    <3>3. heartbeats'[g] = q
      BY <1>1, <1>2, <3>2, NoneIsNoRunner DEF RunnerInv, RunnerTypes
    <3> QED BY <3>3
  <2> QED BY <1>1, <2>1, <2>2 DEF AliveIsRegistered
<1>5. AliveIsCovered'
  BY <1>2 DEF Registered, RunnerInv, RunnerTypes, AliveIsCovered, Alive, bodyVars
<1> QED BY <1>2, <1>3, <1>4, <1>5 DEF RunnerInv, AllStopped, bodyVars

LEMMA RunnerEndsKeeps ==
  ASSUME RunnerInv, NEW r \in Runners, RunnerEnds(r) \/ RunnerFindsNoSession(r)
  PROVE  RunnerInv'
<1>1. /\ UNCHANGED << target, late, bodyVars >>
      /\ \E step \in {"leaving", "done"} : beat' = [beat EXCEPT ![r] = step]
      /\ \/ heartbeats' = heartbeats
         \/ heartbeats' = [heartbeats EXCEPT ![target[r]] = IF @ = r THEN None ELSE @]
  BY DEF RunnerEnds, RunnerFindsNoSession, BeatCancelled, BeatFindsNoSession, Leave, BeatTo,
         RunnersOnly
<1>2. RunnerTypes'
  BY <1>1 DEF RunnerInv, RunnerTypes
<1>3. \A q \in Runners : Alive(q)' => q # r /\ Alive(q)
  BY <1>1 DEF Alive, RunnerInv, RunnerTypes
<1>4. AliveIsRegistered'
  BY <1>1, <1>3 DEF RunnerInv, RunnerTypes, AliveIsRegistered
<1>5. AliveIsCovered'
  BY <1>1, <1>3 DEF RunnerInv, AliveIsCovered, bodyVars
<1> QED BY <1>1, <1>2, <1>4, <1>5 DEF RunnerInv, AllStopped, bodyVars

LEMMA BodyKeeps ==
  ASSUME RunnerInv, BodyStep
  PROVE  RunnerInv'
<1>1. CASE BodyStarts
  <2>1. /\ UNCHANGED << heartbeats, beat, target, late >>
        /\ body' = "streams"
        /\ snapshot' = {heartbeats[h] : h \in Handles} \ {None}
    BY <1>1 DEF BodyStarts, runnerVars, beatVars
  <2>2. \A r \in Runners : Alive(r) => r \in snapshot'
    BY <2>1, NoneIsNoRunner DEF RunnerInv, AliveIsRegistered
  <2> QED
    BY <2>1, <2>2 DEF RunnerInv, RunnerTypes, AliveIsRegistered, AliveIsCovered, AllStopped, Alive
<1>2. CASE BodyObserves \/ BodyGoesOn
  BY <1>2 DEF BodyObserves, BodyGoesOn, RunnerInv, RunnerTypes, AliveIsRegistered, AliveIsCovered,
              AllStopped, Alive, runnerVars, beatVars
<1>3. ASSUME NEW r \in Runners, BodyStopsRunner(r)
      PROVE  RunnerInv'
  <2>1. /\ UNCHANGED << heartbeats, beat, target, late, body >>
        /\ body = "runners"
        /\ halting = None /\ halting' = r /\ snapshot' = snapshot \ {r}
    BY <1>3 DEF BodyStopsRunner, CancelRunner
  <2> QED
    BY <2>1, NoneIsNoRunner
       DEF RunnerInv, RunnerTypes, AliveIsRegistered, AliveIsCovered, AllStopped, Alive
<1>4. CASE RunnerStopped
  <2>1. /\ UNCHANGED << heartbeats, beat, target, late, body, snapshot >>
        /\ body = "runners" /\ halting' = None
        /\ \A r \in Runners : Alive(r) => r # halting
    BY <1>4, NoneIsNoRunner DEF RunnerStopped, Ended, Alive, runnerVars, beatVars
  <2> QED
    BY <2>1 DEF RunnerInv, RunnerTypes, AliveIsRegistered, AliveIsCovered, AllStopped, Alive
<1>5. CASE BodyWaits \/ BodyEnds
  BY <1>5 DEF BodyWaits, BodyEnds, RunnerInv, RunnerTypes, AliveIsRegistered, AliveIsCovered,
              AllStopped, Alive, runnerVars, beatVars
<1> QED BY <1>1, <1>2, <1>3, <1>4, <1>5 DEF BodyStep

LEMMA CloseKeeps ==
  ASSUME RunnerInv, NEW p \in Owners, CloseStep(p)
  PROVE  RunnerInv'
<1>1. CASE CloseStopsRunner(p)
  BY <1>1, CancelKeeps DEF CloseStopsRunner, CancelRunner, ClosingOnly
<1>2. CASE ~CloseStopsRunner(p)
  <2>1. UNCHANGED << runnerVars, bodyVars >>
    BY <1>2 DEF CloseStep, CloseRemembered, CloseJoins, CloseOwns, CloseHalted, DeleteAnswered,
                SettleClose, JoinReturns, ClosingOnly
  <2> QED BY <2>1, RunnerStutter
<1> QED BY <1>1, <1>2

LEMMA FlowKeeps ==
  ASSUME RunnerInv, NEW f \in Flows, FlowStep(f)
  PROVE  RunnerInv'
<1>1. UNCHANGED << runnerVars, bodyVars >>
  BY DEF FlowStep, RecordHandle, BeginStatement, RefuseStatement, StatementAnswered, Observe,
         EndStatement, Report
<1> QED BY <1>1, RunnerStutter

LEMMA TargetKeeps ==
  ASSUME RunnerInv, NEW r \in Runners,
         AlreadyBeating(r) \/ \E h \in Handles : StartHeartbeat(r, h)
  PROVE  RunnerInv'
BY DEF AlreadyBeating, StartHeartbeat, RunnersOnly, RunnerInv, RunnerTypes, AliveIsRegistered,
       AliveIsCovered, AllStopped, Alive, beatVars, bodyVars

LEMMA EnvironmentKeeps ==
  ASSUME RunnerInv, Environment
  PROVE  RunnerInv'
<1>1. ASSUME NEW r \in Runners, RunnerFindsNoSession(r) \/ \E h \in Handles : StartHeartbeat(r, h)
      PROVE  RunnerInv'
  BY <1>1, RunnerEndsKeeps, TargetKeeps
<1>2. ASSUME \/ \E f \in Flows, h \in Handles : OpenAnswered(f, h)
             \/ \E d \in Directs, h \in Handles : DirectClose(d, h)
             \/ \E u \in Users : CallClose(u)
             \/ \E s \in Slots : CallbackCloses(s) \/ CallbackReturns(s)
      PROVE  RunnerInv'
  <2>1. UNCHANGED << runnerVars, bodyVars >>
    BY <1>2 DEF OpenAnswered, DirectClose, ClosingOnly, CallClose, CallbackCloses, CallbackReturns
  <2> QED BY <2>1, RunnerStutter
<1> QED BY <1>1, <1>2 DEF Environment

LEMMA RunnerInductive == RunnerInv /\ [LifecycleNext]_lifecycleVars => RunnerInv'
<1> SUFFICES ASSUME RunnerInv, [LifecycleNext]_lifecycleVars PROVE RunnerInv'
  OBVIOUS
<1>1. ASSUME NEW u \in Users, CloseReturned(u)
      PROVE  RunnerInv'
  BY <1>1, RunnerStutter DEF CloseReturned
<1>2. CASE Library
  BY <1>1, <1>2, FlowKeeps, CloseKeeps, RegisteredKeeps, TargetKeeps, RunnerEndsKeeps, BodyKeeps
     DEF Library
<1>3. CASE Environment
  BY <1>3, EnvironmentKeeps
<1>4. CASE UNCHANGED lifecycleVars
  BY <1>4, RunnerStutter DEF lifecycleVars
<1> QED BY <1>2, <1>3, <1>4 DEF LifecycleNext

\* A Close that was not cut short by its timeout has left no execution
\* running, and no Close has left a heartbeat alive that was registered when
\* it began (lifecycle.go:43-86).
THEOREM CloseQuiet == LifecycleSpec => []CloseLeavesQuiet
<1>1. LifecycleSpec => []RunnerInv
  BY RunnerInit, RunnerInductive, PTL DEF LifecycleSpec
<1>2. RunnerInv /\ DrainSound => CloseLeavesQuiet
  BY NoneIsNoRunner DEF RunnerInv, AliveIsCovered, AllStopped, CloseLeavesQuiet
<1> QED BY <1>1, <1>2, LifecycleUsesDrain, DrainSafe, PTL

(***************************************************************************)
(* The sessions                                                            *)
(***************************************************************************)
Recipes ==
  [at : {"idle", "record", "statement", "running", "succeeded", "failed", "closing", "report"},
   count : Nat, handle : Handles \cup {None}, keep : BOOLEAN, applied : Nat, told : BOOLEAN]

SessionCloses ==
  [at : {"idle", "enter", "join", "stop", "halt", "delete", "settle", "returned"},
   handle : Handles \cup {None}, awaited : Owners \cup Runners \cup {None},
   answer : {"none", "ok", "err"}]

SessionTypes ==
  /\ sessions \subseteq Handles /\ closeCalls \in [Handles -> Owners \cup {None}]
  /\ server \in [Handles -> {"none", "open", "closed"}]
  /\ issuedTo \in [Handles -> Flows \cup {None}]
  /\ overtaken \subseteq Handles /\ shared \subseteq Handles
  /\ flow \in [Flows -> Recipes] /\ close \in [Owners -> SessionCloses]
  /\ effects \in [Flows -> SUBSET Nat]
  /\ \A f \in Flows : flow[f].at # "idle" => flow[f].handle \in Handles
  /\ \A p \in Owners : close[p].at # "idle" => close[p].handle \in Handles
  /\ \A p \in Owners : close[p].at = "settle" => close[p].answer # "none"

\* A sequence that lists each element of a finite set once.
Lists(s, S) ==
  /\ S = Range(s)
  /\ \A i, j \in 1..Len(s) : s[i] = s[j] => i = j
  /\ IsFiniteSet(S) /\ Cardinality(S) = Len(s)

MemoryInv ==
  /\ remembered \subseteq Handles /\ closedOrder \in Seq(Handles)
  /\ Lists(closedOrder, remembered) /\ Len(closedOrder) <= MaxRemembered

\* A close in flight is registered while its owner is busy with it, and
\* whoever has joined it waits for a close of the same session.
Busy(p) == close[p].at \in {"stop", "halt", "delete", "settle"}

CallsInv ==
  /\ \A p \in Owners : Busy(p) => closeCalls[close[p].handle] = p
  /\ \A h \in Handles : closeCalls[h] # None =>
       Busy(closeCalls[h]) /\ close[closeCalls[h]].handle = h
  /\ \A q \in Owners : close[q].at = "join" /\ close[q].answer = "none" =>
       /\ close[q].awaited \in Owners
       /\ Busy(close[q].awaited) /\ close[close[q].awaited].handle = close[q].handle

\* If a handle is in use, then by the flow that is about to record it.
Recording(h) ==
  /\ issuedTo[h] \in Flows
  /\ flow[issuedTo[h]].at = "record" /\ flow[issuedTo[h]].handle = h

Closed(h) == server[h] = "open" => Recording(h)

ClosedInv ==
  /\ \A h \in remembered \ overtaken : Closed(h) /\ h \notin sessions
  /\ \A p \in Owners :
       /\ close[p].at = "settle" /\ close[p].answer = "ok" /\ close[p].handle \notin overtaken
       => Closed(close[p].handle)

\* The statements of a recipe are processed one after the other, and its
\* cleanup closes its own session.
RecipeOf(f) ==
  LET r == flow[f]
      h == r.handle
  IN  /\ r.at = "closing" <=> close[f].at # "idle"
      /\ r.at = "closing" => close[f].handle = h
      /\ 1..r.applied \subseteq effects[f] /\ effects[f] \subseteq 1..(r.applied + 1)
      /\ r.at \in {"idle", "record", "statement", "running"} => r.applied + 1 \notin effects[f]
      /\ r.at = "succeeded" => r.applied + 1 \in effects[f]
      /\ r.at = "closing" /\ close[f].answer = "ok" /\ h \notin overtaken
           => ~(server[h] = "open" /\ issuedTo[h] = f)

RecipeInv == \A f \in Flows : RecipeOf(f)

\* A registered heartbeat has a goroutine that beats for that session.
BeatInv ==
  \A h \in Handles : heartbeats[h] # None =>
    h # None /\ target[heartbeats[h]] = h /\ beat[heartbeats[h]] \in {"waiting", "leaving"}

SessionInv == SessionTypes /\ MemoryInv /\ CallsInv /\ ClosedInv /\ RecipeInv

LEMMA InRange ==
  ASSUME NEW S, NEW s \in Seq(S)
  PROVE  /\ Len(s) \in Nat
         /\ \A e : e \in Range(s) <=> \E i \in 1..Len(s) : s[i] = e
<1>1. Len(s) \in Nat /\ DOMAIN s = 1..Len(s)
  BY LenProperties
<1> QED BY <1>1 DEF Range

\* The order of the memory: rememberClosedSessionLocked appends and drops the
\* oldest, forgetClosedSessionLocked takes one out (session.go:270-301).
LEMMA AppendLists ==
  ASSUME NEW S, NEW s \in Seq(S), NEW R, Lists(s, R), NEW e \in S \ R
  PROVE  /\ Append(s, e) \in Seq(S) /\ Lists(Append(s, e), R \cup {e})
         /\ Len(Append(s, e)) = Len(s) + 1
<1> DEFINE t == Append(s, e)
<1>1. /\ t \in Seq(S) /\ Len(t) = Len(s) + 1
      /\ \A i \in 1..Len(s) : t[i] = s[i]
      /\ t[Len(s) + 1] = e
  BY AppendProperties
<1> HIDE DEF t
<1>2. /\ Len(s) \in Nat
      /\ \A x : x \in R <=> \E i \in 1..Len(s) : s[i] = x
      /\ \A x : x \in Range(t) <=> \E i \in 1..Len(t) : t[i] = x
  BY <1>1, InRange DEF Lists
<1>3. ASSUME NEW x PROVE x \in Range(t) <=> x \in R \cup {e}
  <2>1. ASSUME x \in Range(t) PROVE x \in R \cup {e}
    <3>1. PICK i \in 1..Len(t) : t[i] = x
      BY <1>2, <2>1
    <3> QED BY <1>1, <1>2, <3>1
  <2>2. ASSUME x \in R PROVE x \in Range(t)
    <3>1. PICK i \in 1..Len(s) : s[i] = x
      BY <1>2, <2>2
    <3>2. i \in 1..Len(t) /\ t[i] = x
      BY <1>1, <1>2, <3>1
    <3> QED BY <1>2, <3>2
  <2>3. e \in Range(t)
    <3>1. Len(s) + 1 \in 1..Len(t)
      BY <1>1, <1>2
    <3> QED BY <1>1, <1>2, <3>1
  <2> QED BY <2>1, <2>2, <2>3
<1>4. Range(t) = R \cup {e}
  BY <1>3
<1>5. \A i, j \in 1..Len(t) : t[i] = t[j] => i = j
  <2>1. \A i, j \in 1..Len(s) : s[i] = s[j] => i = j
    BY DEF Lists
  <2>2. \A i \in 1..Len(s) : s[i] # e
    BY <1>2
  <2> QED BY <1>1, <1>2, <2>1, <2>2
<1>6. IsFiniteSet(R \cup {e}) /\ Cardinality(R \cup {e}) = Len(t)
  BY <1>1, FS_AddElement DEF Lists
<1> QED BY <1>1, <1>4, <1>5, <1>6 DEF Lists, t

\* A sequence without its element at i.
LEMMA OneLess ==
  ASSUME NEW S, NEW s \in Seq(S), NEW R, Lists(s, R), NEW i \in 1..Len(s),
         NEW t \in Seq(S), Len(t) = Len(s) - 1,
         \A j \in 1..Len(t) : t[j] = IF j < i THEN s[j] ELSE s[j + 1]
  PROVE  Lists(t, R \ {s[i]})
<1>1. /\ Len(s) \in Nat
      /\ \A x : x \in R <=> \E j \in 1..Len(s) : s[j] = x
      /\ \A x : x \in Range(t) <=> \E j \in 1..Len(t) : t[j] = x
      /\ \A j, k \in 1..Len(s) : s[j] = s[k] => j = k
  BY InRange DEF Lists
<1>2. ASSUME NEW j \in 1..Len(t)
      PROVE  t[j] \in R \ {s[i]}
  <2>1. PICK k \in 1..Len(s) : k # i /\ t[j] = s[k]
    <3>1. CASE j < i
      BY <1>1, <3>1
    <3>2. CASE ~(j < i)
      <4>1. j + 1 \in 1..Len(s) /\ j + 1 # i /\ t[j] = s[j + 1]
        BY <1>1, <3>2
      <4> QED BY <4>1
    <3> QED BY <3>1, <3>2
  <2> QED BY <1>1, <2>1
<1>3. ASSUME NEW e \in R, e # s[i]
      PROVE  \E j \in 1..Len(t) : t[j] = e
  <2>1. PICK k \in 1..Len(s) : s[k] = e
    BY <1>1
  <2>2. CASE k < i
    BY <1>1, <2>1, <2>2
  <2>3. CASE k > i
    <3>1. k - 1 \in 1..Len(t) /\ ~(k - 1 < i) /\ (k - 1) + 1 = k
      BY <1>1, <2>3
    <3> QED BY <2>1, <3>1
  <2> QED BY <1>1, <1>3, <2>1, <2>2, <2>3
<1>4. Range(t) = R \ {s[i]}
  <2>1. ASSUME NEW x PROVE x \in Range(t) <=> x \in R \ {s[i]}
    BY <1>1, <1>2, <1>3
  <2> QED BY <2>1
<1>5. \A j, k \in 1..Len(t) : t[j] = t[k] => j = k
  BY <1>1
<1>6. IsFiniteSet(R \ {s[i]}) /\ Cardinality(R \ {s[i]}) = Len(t)
  <2>1. s[i] \in R
    BY <1>1
  <2> QED BY <2>1, FS_RemoveElement DEF Lists
<1> QED BY <1>4, <1>5, <1>6 DEF Lists

LEMMA TailLists ==
  ASSUME NEW S, NEW s \in Seq(S), NEW R, Lists(s, R), s # << >>
  PROVE  /\ Tail(s) \in Seq(S) /\ Lists(Tail(s), R \ {Head(s)})
         /\ Len(Tail(s)) = Len(s) - 1
<1> DEFINE t == Tail(s)
<1>1. /\ t \in Seq(S) /\ Len(t) = Len(s) - 1 /\ Head(s) = s[1]
      /\ \A j \in 1..Len(t) : t[j] = s[j + 1]
      /\ 1 \in 1..Len(s)
  BY HeadTailProperties, EmptySeq, LenProperties
<1>2. \A j \in 1..Len(t) : t[j] = IF j < 1 THEN s[j] ELSE s[j + 1]
  BY <1>1
<1> HIDE DEF t
<1>3. Lists(t, R \ {s[1]})
  BY <1>1, <1>2, OneLess
<1> QED BY <1>1, <1>3 DEF t

LEMMA Part ==
  ASSUME NEW S, NEW s \in Seq(S), NEW m \in 1..(Len(s) + 1), NEW n \in 0..Len(s), m <= n + 1
  PROVE  /\ SubSeq(s, m, n) \in Seq(S) /\ Len(SubSeq(s, m, n)) = n - m + 1
         /\ \A j \in 1..(n - m + 1) : SubSeq(s, m, n)[j] = s[m + j - 1]
<1>1. Len(s) \in Nat /\ \A j \in 1..Len(s) : s[j] \in S
  BY LenProperties, ElementOfSeq
<1>2. m \in Int /\ n \in Int /\ \A j \in m..n : s[j] \in S
  BY <1>1
<1>3. /\ SubSeq(s, m, n) \in Seq(S) /\ Len(SubSeq(s, m, n)) = IF m <= n THEN n - m + 1 ELSE 0
      /\ \A j \in 1..(n - m + 1) : SubSeq(s, m, n)[j] = s[m + j - 1]
  BY <1>2, SubSeqProperties
<1> QED BY <1>2, <1>3

LEMMA RemoveFirstLists ==
  ASSUME NEW S, NEW s \in Seq(S), NEW R, Lists(s, R), NEW e \in R
  PROVE  /\ RemoveFirst(s, e) \in Seq(S) /\ Lists(RemoveFirst(s, e), R \ {e})
         /\ Len(RemoveFirst(s, e)) = Len(s) - 1
<1>1. Len(s) \in Nat /\ \A j \in 1..Len(s) : s[j] \in S
  BY LenProperties, ElementOfSeq
<1>2. PICK i \in 1..Len(s) : s[i] = e
  BY InRange DEF Lists
<1>3. {k \in 1..Len(s) : s[k] = e} = {i}
  BY <1>2 DEF Lists
<1>4. SelectInSeq(s, LAMBDA v : v = e) = i
  BY <1>1, <1>3 DEF SelectInSeq, Min
<1> DEFINE t == RemoveFirst(s, e)
           before == SubSeq(s, 1, i - 1)
           after == SubSeq(s, i + 1, Len(s))
<1>5. t = before \o after
  BY <1>2, <1>4 DEF RemoveFirst, RemoveAt
<1>6. /\ before \in Seq(S) /\ Len(before) = i - 1
      /\ \A j \in 1..(i - 1) : before[j] = s[j]
  <2>1. 1 \in 1..(Len(s) + 1) /\ i - 1 \in 0..Len(s) /\ 1 <= (i - 1) + 1
    BY <1>1
  <2>2. PICK n : n = i - 1
    OBVIOUS
  <2>3. /\ SubSeq(s, 1, n) \in Seq(S) /\ Len(SubSeq(s, 1, n)) = n - 1 + 1
        /\ \A j \in 1..(n - 1 + 1) : SubSeq(s, 1, n)[j] = s[1 + j - 1]
    BY <2>1, <2>2, Part
  <2> QED BY <1>1, <2>2, <2>3
<1>7. /\ after \in Seq(S) /\ Len(after) = Len(s) - i
      /\ \A j \in 1..(Len(s) - i) : after[j] = s[i + j]
  <2>1. i + 1 \in 1..(Len(s) + 1) /\ Len(s) \in 0..Len(s) /\ i + 1 <= Len(s) + 1
    BY <1>1
  <2>2. PICK m : m = i + 1
    OBVIOUS
  <2>3. /\ SubSeq(s, m, Len(s)) \in Seq(S) /\ Len(SubSeq(s, m, Len(s))) = Len(s) - m + 1
        /\ \A j \in 1..(Len(s) - m + 1) : SubSeq(s, m, Len(s))[j] = s[m + j - 1]
    BY <2>1, <2>2, Part
  <2> QED BY <1>1, <2>2, <2>3
<1> HIDE DEF before, after, t
<1>8. /\ t \in Seq(S) /\ Len(t) = Len(before) + Len(after)
      /\ \A j \in 1..(Len(before) + Len(after)) :
             t[j] = IF j <= Len(before) THEN before[j] ELSE after[j - Len(before)]
  BY <1>5, <1>6, <1>7, ConcatProperties, Zenon
<1>9. Len(t) = Len(s) - 1 /\ \A j \in 1..Len(t) : t[j] = IF j < i THEN s[j] ELSE s[j + 1]
  <2>1. Len(t) = Len(s) - 1
    BY <1>1, <1>6, <1>7, <1>8
  <2>2. ASSUME NEW j \in 1..Len(t) PROVE t[j] = IF j < i THEN s[j] ELSE s[j + 1]
    <3>1. CASE j < i
      <4>1. j \in 1..(i - 1) /\ j <= Len(before)
        BY <1>1, <1>6, <2>1, <3>1
      <4> QED BY <1>6, <1>8, <3>1, <4>1
    <3>2. CASE ~(j < i)
      <4>1. j - Len(before) \in 1..(Len(s) - i) /\ ~(j <= Len(before))
        BY <1>1, <1>6, <2>1, <3>2
      <4>2. t[j] = after[j - Len(before)] /\ i + (j - Len(before)) = j + 1
        BY <1>1, <1>6, <1>8, <2>1, <4>1
      <4> QED BY <1>7, <3>2, <4>1, <4>2
    <3> QED BY <3>1, <3>2
  <2> QED BY <2>1, <2>2
<1>10. Lists(t, R \ {s[i]})
  BY <1>8, <1>9, OneLess
<1> QED BY <1>2, <1>8, <1>9, <1>10 DEF t

LEMMA ForgetKeeps ==
  ASSUME MemoryInv, NEW h \in Handles, Forget(h)
  PROVE  MemoryInv' /\ remembered' = remembered \ {h}
<1> USE DEF Forget, MemoryInv
<1>1. CASE h \in remembered
  <2>1. /\ RemoveFirst(closedOrder, h) \in Seq(Handles)
        /\ Lists(RemoveFirst(closedOrder, h), remembered \ {h})
        /\ Len(RemoveFirst(closedOrder, h)) = Len(closedOrder) - 1
    BY <1>1, RemoveFirstLists
  <2>2. Len(closedOrder) \in Nat
    BY LenProperties
  <2> QED BY <1>1, <2>1, <2>2, SomethingIsRemembered
<1>2. CASE h \notin remembered
  <2>1. remembered' = remembered /\ closedOrder' = closedOrder
    BY <1>2
  <2> QED BY <1>2, <2>1
<1> QED BY <1>1, <1>2

LEMMA RememberKeeps ==
  ASSUME MemoryInv, NEW h \in Handles, Remember(h)
  PROVE  MemoryInv' /\ remembered' \subseteq remembered \cup {h}
<1> USE SomethingIsRemembered DEF MemoryInv
<1>1. PICK order : order = IF h \in remembered THEN closedOrder ELSE Append(closedOrder, h)
  OBVIOUS
<1>2. Len(closedOrder) \in Nat
  BY LenProperties
<1>3. /\ order \in Seq(Handles) /\ Lists(order, remembered \cup {h})
      /\ Len(order) \in Nat /\ Len(order) <= MaxRemembered + 1
  <2>1. CASE h \in remembered
    <3>1. remembered \cup {h} = remembered
      BY <2>1
    <3>2. order = closedOrder
      BY <1>1, <2>1
    <3>3. Lists(order, remembered \cup {h})
      <4>1. Lists(closedOrder, remembered)
        OBVIOUS
      <4> QED BY <3>1, <3>2, <4>1, Zenon
    <3> QED BY <1>2, <3>2, <3>3
  <2>2. CASE h \notin remembered
    <3>1. order = Append(closedOrder, h)
      BY <1>1, <2>2
    <3> QED BY <1>2, <2>2, <3>1, AppendLists
  <2> QED BY <2>1, <2>2
<1>4. /\ remembered' = (remembered \cup {h}) \ (IF Len(order) > MaxRemembered THEN {Head(order)} ELSE {})
      /\ closedOrder' = IF Len(order) > MaxRemembered THEN Tail(order) ELSE order
  BY <1>1 DEF Remember
<1>5. CASE Len(order) > MaxRemembered
  <2>1. order # << >>
    BY <1>3, <1>5, EmptySeq
  <2>2. /\ Tail(order) \in Seq(Handles) /\ Lists(Tail(order), (remembered \cup {h}) \ {Head(order)})
        /\ Len(Tail(order)) = Len(order) - 1
    BY <1>3, <2>1, TailLists
  <2>3. remembered' = (remembered \cup {h}) \ {Head(order)} /\ closedOrder' = Tail(order)
    BY <1>4, <1>5
  <2> QED BY <1>3, <2>2, <2>3
<1>6. CASE ~(Len(order) > MaxRemembered)
  <2>1. remembered' = remembered \cup {h} /\ closedOrder' = order
    BY <1>4, <1>6
  <2> QED BY <1>3, <1>6, <2>1
<1> QED BY <1>5, <1>6

LEMMA MemoryStutter ==
  ASSUME MemoryInv, UNCHANGED memory
  PROVE  MemoryInv'
BY DEF MemoryInv, Lists, memory

\* One flow, or one owner of a close, moves.
FlowFrame(f) == flow' \in [Flows -> Recipes] /\ \A g \in Flows : g # f => flow'[g] = flow[g]
EffectsFrame(f) ==
  effects' \in [Flows -> SUBSET Nat] /\ \A g \in Flows : g # f => effects'[g] = effects[g]
CloseFrame(p) ==
  close' \in [Owners -> SessionCloses] /\ \A q \in Owners : q # p => close'[q] = close[q]

\* A flow past its opening neither records a handle nor takes a close.
LEMMA FlowMoves ==
  ASSUME SessionInv, NEW f \in Flows, FlowFrame(f), EffectsFrame(f), CloseFrame(f),
         UNCHANGED << server, issuedTo, overtaken, registryVars >>, shared' \subseteq Handles,
         flow[f].at \notin {"idle", "record"}, flow'[f].at # "record",
         flow'[f].at # "idle" => flow'[f].handle \in Handles,
         close'[f] # close[f] =>
           /\ close[f].at \in {"idle", "returned"}
           /\ close'[f].at \in {"idle", "enter"}
           /\ close'[f].at # "idle" => close'[f].handle \in Handles,
         RecipeOf(f)'
  PROVE  SessionInv'
<1> f \in Owners
  BY DEF Owners
<1>1. MemoryInv'
  BY MemoryStutter DEF SessionInv, registryVars
<1>2. SessionTypes'
  BY DEF SessionInv, SessionTypes, FlowFrame, EffectsFrame, CloseFrame, registryVars, memory
<1>3. CallsInv'
  <2>1. closeCalls' = closeCalls /\ (Busy(f)' <=> Busy(f)) /\ (Busy(f) => close' = close)
    <3>1. Busy(f) => close'[f] = close[f]
      BY DEF Busy
    <3>2. \A q \in Owners : Busy(f) => close'[q] = close[q]
      BY <3>1 DEF CloseFrame
    <3>3. close \in [Owners -> SessionCloses] /\ close' \in [Owners -> SessionCloses]
      BY DEF SessionInv, SessionTypes, CloseFrame
    <3> QED BY <3>1, <3>2, <3>3 DEF Busy, registryVars
  <2>2. \A q \in Owners : (Busy(q)' <=> Busy(q)) /\ (Busy(q) => close'[q] = close[q])
    BY <2>1 DEF CloseFrame, Busy
  <2>3. \A q \in Owners : close'[q].at = "join" /\ close'[q].answer = "none" => close'[q] = close[q]
    BY DEF CloseFrame
  <2>4. \A h \in Handles : closeCalls[h] \in Owners \cup {None}
    BY DEF SessionInv, SessionTypes
  <2>5. /\ \A p \in Owners : Busy(p) => closeCalls[close[p].handle] = p
        /\ \A h \in Handles : closeCalls[h] # None =>
             Busy(closeCalls[h]) /\ close[closeCalls[h]].handle = h
        /\ \A q \in Owners : close[q].at = "join" /\ close[q].answer = "none" =>
             /\ close[q].awaited \in Owners
             /\ Busy(close[q].awaited) /\ close[close[q].awaited].handle = close[q].handle
    BY DEF SessionInv, CallsInv
  <2> QED BY <2>1, <2>2, <2>3, <2>4, <2>5 DEF CallsInv
<1>4. ClosedInv'
  BY DEF SessionInv, ClosedInv, Closed, Recording, FlowFrame, CloseFrame, registryVars, memory
<1>5. ASSUME NEW g \in Flows, g # f PROVE RecipeOf(g)'
  <2>1. flow'[g] = flow[g] /\ effects'[g] = effects[g] /\ close'[g] = close[g]
    BY <1>5 DEF FlowFrame, EffectsFrame, CloseFrame, Owners
  <2>2. RecipeOf(g)
    BY DEF SessionInv, RecipeInv
  <2> QED BY <2>1, <2>2 DEF RecipeOf
<1> QED BY <1>1, <1>2, <1>3, <1>4, <1>5 DEF SessionInv, RecipeInv

\* An owner of a close moves on without a settlement: what it is told of its
\* session is true.
LEMMA CloseMoves ==
  ASSUME SessionInv, NEW p \in Owners, CloseFrame(p),
         UNCHANGED << server, issuedTo, overtaken, shared, registryVars, flowVars >>,
         close[p].at # "idle", close'[p].at # "idle", close'[p].handle = close[p].handle,
         Busy(p)' <=> Busy(p), close'[p].at # "settle",
         close'[p].at = "join" /\ close'[p].answer = "none" =>
           close'[p].awaited = closeCalls[close[p].handle] /\ close'[p].awaited # None,
         close'[p].answer = "ok" => close[p].answer = "ok" \/ close[p].handle \in remembered
  PROVE  SessionInv'
<1>1. MemoryInv'
  BY MemoryStutter DEF SessionInv, registryVars
<1>2. SessionTypes'
  BY DEF SessionInv, SessionTypes, CloseFrame, registryVars, memory, flowVars
<1>3. CallsInv'
  BY DEF SessionInv, SessionTypes, CallsInv, Busy, CloseFrame, registryVars
<1>4. ClosedInv'
  BY DEF SessionInv, ClosedInv, Closed, Recording, CloseFrame, registryVars, memory, flowVars
<1>5. ASSUME NEW g \in Flows PROVE RecipeOf(g)'
  <2>1. RecipeOf(g) /\ flow'[g] = flow[g] /\ effects' = effects
    BY DEF SessionInv, RecipeInv, flowVars
  <2>2. CASE g # p
    BY <2>1, <2>2 DEF RecipeOf, CloseFrame, Owners
  <2>3. CASE g = p
    <3>1. close[p].handle \in Handles
      BY DEF SessionInv, SessionTypes
    <3>2. close[p].handle \in remembered \ overtaken /\ server[close[p].handle] = "open"
          => flow[issuedTo[close[p].handle]].at = "record"
      BY DEF SessionInv, ClosedInv, Closed, Recording
    <3> QED BY <2>1, <2>3, <3>1, <3>2 DEF RecipeOf
  <2> QED BY <2>2, <2>3
<1> QED BY <1>1, <1>2, <1>3, <1>4, <1>5 DEF SessionInv, RecipeInv

\* The record a flow moves to.
LEMMA FlowUpdate ==
  ASSUME SessionTypes, NEW f \in Flows, NEW r \in Recipes, SetFlow(f, r)
  PROVE  FlowFrame(f) /\ flow'[f] = r
BY DEF SessionTypes, SetFlow, FlowFrame

LEMMA FlowGoes ==
  ASSUME SessionTypes, NEW f \in Flows,
         NEW at \in {"record", "statement", "running", "succeeded", "failed", "report"},
         FlowTo(f, at)
  PROVE  /\ FlowFrame(f) /\ flow'[f].at = at /\ flow'[f].handle = flow[f].handle
         /\ flow'[f].applied = flow[f].applied
BY DEF SessionTypes, FlowTo, FlowFrame, Recipes

LEMMA NothingElse ==
  ASSUME SessionTypes
  PROVE  /\ \A f \in Flows : effects' = effects => EffectsFrame(f)
         /\ \A p \in Owners : close' = close => CloseFrame(p)
         /\ Flows \subseteq Owners
BY DEF SessionTypes, EffectsFrame, CloseFrame, Owners

\* A failed statement is followed by the cleanup, if that is wanted
\* (session_recipe.go:108-128).
LEMMA CleanupBegins ==
  ASSUME SessionInv, NEW f \in Flows, AfterFailure(f),
         flow[f].at \notin {"idle", "closing"}
  PROVE  /\ FlowFrame(f) /\ CloseFrame(f) /\ flow'[f].handle = flow[f].handle
         /\ flow'[f].applied = flow[f].applied
         /\ \/ flow'[f].at = "report" /\ close' = close
            \/ /\ flow'[f].at = "closing"
               /\ close'[f].at = "enter" /\ close'[f].handle = flow[f].handle
               /\ close'[f].answer = "none"
<1> DEFINE r == [flow[f] EXCEPT !.told = FALSE,
                                !.at = IF flow[f].keep THEN "report" ELSE "closing"]
<1>1. SessionTypes /\ f \in Owners
  BY DEF SessionInv, Owners
<1>2. /\ r \in Recipes /\ r.handle = flow[f].handle /\ r.applied = flow[f].applied
      /\ r.at = IF flow[f].keep THEN "report" ELSE "closing"
  BY <1>1 DEF SessionTypes, Recipes
<1>3. FlowFrame(f) /\ flow'[f] = r
  <2>1. SetFlow(f, r)
    BY DEF AfterFailure
  <2> HIDE DEF r
  <2> QED BY <1>1, <1>2, <2>1, FlowUpdate
<1> HIDE DEF r
<1>4. CASE flow[f].keep
  BY <1>1, <1>2, <1>3, <1>4, NothingElse DEF AfterFailure
<1>5. CASE ~flow[f].keep
  <2> DEFINE n == [NoClose EXCEPT !.at = "enter", !.handle = flow[f].handle]
  <2>1. n \in SessionCloses /\ n.at = "enter" /\ n.handle = flow[f].handle /\ n.answer = "none"
    BY <1>1 DEF NoClose, SessionTypes, SessionCloses
  <2>2. close' = [close EXCEPT ![f] = n]
    BY <1>5 DEF AfterFailure, SetClose
  <2> HIDE DEF n
  <2>3. CloseFrame(f) /\ close'[f] = n
    BY <1>1, <2>1, <2>2 DEF SessionTypes, CloseFrame
  <2> QED BY <1>2, <1>3, <1>5, <2>1, <2>3
<1> QED BY <1>4, <1>5

\* What the flows do after they have recorded their session
\* (session_recipe.go:95-141).
LEMMA RecipeStepKeeps ==
  ASSUME SessionInv, NEW f \in Flows,
         \/ BeginStatement(f) \/ RefuseStatement(f) \/ StatementAnswered(f) \/ Observe(f)
         \/ EndStatement(f)
  PROVE  SessionInv'
<1>1. SessionTypes /\ RecipeOf(f) /\ flow[f] \in Recipes
  BY DEF SessionInv, SessionTypes, RecipeInv
<1>2. /\ UNCHANGED << server, issuedTo, overtaken, shared, registryVars >>
      /\ flow[f].at # "closing" => close[f].at = "idle"
      /\ shared \subseteq Handles
  BY <1>1 DEF BeginStatement, RefuseStatement, StatementAnswered, Observe, EndStatement,
              sessionVars, RecipeOf, SessionTypes
<1>3. ASSUME FlowFrame(f), EffectsFrame(f), UNCHANGED close,
             flow[f].at \notin {"idle", "record"}, flow'[f].at # "record",
             flow'[f].handle = flow[f].handle, RecipeOf(f)'
      PROVE  SessionInv'
  <2>1. flow[f].handle \in Handles /\ CloseFrame(f)
    BY <1>1, <1>3, NothingElse DEF SessionTypes
  <2> QED BY <1>2, <1>3, <2>1, FlowMoves
<1>4. ASSUME flow[f].at \in {"statement", "failed"}, AfterFailure(f), UNCHANGED effects
      PROVE  SessionInv'
  <2>1. /\ FlowFrame(f) /\ CloseFrame(f) /\ flow'[f].handle = flow[f].handle
        /\ flow'[f].applied = flow[f].applied
        /\ \/ flow'[f].at = "report" /\ close' = close
           \/ /\ flow'[f].at = "closing"
              /\ close'[f].at = "enter" /\ close'[f].handle = flow[f].handle
              /\ close'[f].answer = "none"
    BY <1>4, CleanupBegins
  <2>2. flow[f].handle \in Handles /\ EffectsFrame(f)
    BY <1>1, <1>4, NothingElse DEF SessionTypes
  <2>3. RecipeOf(f)'
    BY <1>1, <1>2, <1>4, <2>1 DEF RecipeOf
  <2> QED BY <1>2, <1>4, <2>1, <2>2, <2>3, FlowMoves
<1>5. CASE BeginStatement(f)
  <2>1. FlowTo(f, "running") /\ UNCHANGED << effects, close >> /\ flow[f].at = "statement"
    BY <1>5 DEF BeginStatement
  <2>2. /\ FlowFrame(f) /\ flow'[f].at = "running" /\ flow'[f].handle = flow[f].handle
        /\ flow'[f].applied = flow[f].applied /\ EffectsFrame(f)
    BY <1>1, <2>1, FlowGoes, NothingElse
  <2>3. RecipeOf(f)'
    BY <1>1, <1>2, <2>1, <2>2 DEF RecipeOf
  <2> QED BY <1>3, <2>1, <2>2, <2>3
<1>6. CASE RefuseStatement(f)
  BY <1>4, <1>6 DEF RefuseStatement
<1>7. CASE StatementAnswered(f)
  <2>1. PICK at \in {"succeeded", "failed"} :
          /\ FlowTo(f, at)
          /\ at = "succeeded" => effects' = [effects EXCEPT ![f] = @ \cup {flow[f].applied + 1}]
          /\ \/ effects' = effects
             \/ effects' = [effects EXCEPT ![f] = @ \cup {flow[f].applied + 1}]
    BY <1>7 DEF StatementAnswered
  <2>2. UNCHANGED close /\ flow[f].at = "running"
    BY <1>7 DEF StatementAnswered
  <2>3. /\ FlowFrame(f) /\ flow'[f].at = at /\ flow'[f].handle = flow[f].handle
        /\ flow'[f].applied = flow[f].applied
    BY <1>1, <2>1, FlowGoes
  <2>4. flow[f].applied \in Nat
    BY <1>1 DEF Recipes
  <2>5. EffectsFrame(f) /\ (effects'[f] = effects[f] \/ effects'[f] = effects[f] \cup {flow[f].applied + 1})
        /\ (at = "succeeded" => flow[f].applied + 1 \in effects'[f])
    BY <1>1, <2>1, <2>4 DEF SessionTypes, EffectsFrame
  <2>6. RecipeOf(f)'
    BY <1>1, <1>2, <2>2, <2>3, <2>4, <2>5 DEF RecipeOf
  <2> QED BY <1>3, <2>2, <2>3, <2>5, <2>6
<1>8. CASE Observe(f)
  <2> DEFINE r == [flow[f] EXCEPT !.told = TRUE]
  <2>1. /\ r \in Recipes /\ r.handle = flow[f].handle /\ r.applied = flow[f].applied
        /\ r.at = flow[f].at
    BY <1>1 DEF Recipes
  <2>2. SetFlow(f, r) /\ UNCHANGED << effects, close >> /\ flow[f].at \in {"succeeded", "failed"}
    BY <1>8 DEF Observe
  <2> HIDE DEF r
  <2>3. FlowFrame(f) /\ flow'[f] = r /\ EffectsFrame(f)
    BY <1>1, <2>1, <2>2, FlowUpdate, NothingElse
  <2>4. RecipeOf(f)'
    BY <1>1, <1>2, <2>1, <2>2, <2>3 DEF RecipeOf
  <2> QED BY <1>3, <2>1, <2>2, <2>3, <2>4
<1>9. CASE EndStatement(f) /\ flow[f].at = "succeeded"
  <2> DEFINE r == [flow[f] EXCEPT !.applied = @ + 1, !.told = FALSE,
                     !.at = IF flow[f].applied + 1 < Statements THEN "statement" ELSE "report"]
  <2>0. flow[f].applied + 1 \in Nat
    BY <1>1 DEF Recipes
  <2>1. /\ r \in Recipes /\ r.handle = flow[f].handle /\ r.applied = flow[f].applied + 1
        /\ r.at \in {"statement", "report"}
    <3>1. PICK n \in Nat, at \in {"statement", "report"} :
            r = [flow[f] EXCEPT !.applied = n, !.told = FALSE, !.at = at] /\ n = flow[f].applied + 1
      <4>1. CASE flow[f].applied + 1 < Statements
        BY <2>0, <4>1
      <4>2. CASE ~(flow[f].applied + 1 < Statements)
        BY <2>0, <4>2
      <4> QED BY <4>1, <4>2
    <3> HIDE DEF r
    <3> QED BY <1>1, <3>1 DEF Recipes
  <2>2. SetFlow(f, r) /\ UNCHANGED << effects, close >>
    BY <1>9 DEF EndStatement
  <2> HIDE DEF r
  <2>3. FlowFrame(f) /\ flow'[f] = r /\ EffectsFrame(f)
    BY <1>1, <2>1, <2>2, FlowUpdate, NothingElse
  <2>4. flow[f].applied \in Nat
    BY <1>1 DEF Recipes
  <2>5. RecipeOf(f)'
    <3>1. effects'[f] = effects[f] /\ close'[f] = close[f] /\ close[f].at = "idle"
      BY <1>2, <1>9, <2>2
    <3>2. /\ 1..(flow[f].applied + 1) \subseteq effects[f]
          /\ effects[f] \subseteq 1..((flow[f].applied + 1) + 1)
          /\ (flow[f].applied + 1) + 1 \notin effects[f]
      BY <1>1, <1>9, <2>4 DEF RecipeOf
    <3> QED BY <2>1, <2>3, <3>1, <3>2 DEF RecipeOf
  <2> QED BY <1>3, <1>9, <2>1, <2>2, <2>3, <2>5
<1>10. CASE EndStatement(f) /\ flow[f].at = "failed"
  BY <1>4, <1>10 DEF EndStatement
<1> QED BY <1>5, <1>6, <1>7, <1>8, <1>9, <1>10 DEF EndStatement

LEMMA ReportKeeps ==
  ASSUME SessionInv, NEW f \in Flows, Report(f)
  PROVE  SessionInv'
<1>1. SessionTypes /\ RecipeOf(f) /\ flow[f] \in Recipes /\ f \in Owners
  BY DEF SessionInv, SessionTypes, RecipeInv, Owners
<1> DEFINE r == [NoRecipe EXCEPT !.count = flow[f].count]
<1>2. r \in Recipes /\ r.at = "idle" /\ r.applied = 0
  BY <1>1 DEF NoRecipe, Recipes
<1>3. SetFlow(f, r)
  BY DEF Report
<1> HIDE DEF r
<1>4. FlowFrame(f) /\ flow'[f] = r
  BY <1>1, <1>2, <1>3, FlowUpdate
<1>5. NoClose \in SessionCloses /\ NoClose.at = "idle"
  BY DEF NoClose, SessionCloses
<1>6. CloseFrame(f) /\ close'[f] = NoClose /\ close[f].at \in {"idle", "returned"}
  BY <1>1, <1>5 DEF Report, Returning, SetClose, SessionTypes, CloseFrame, RecipeOf
<1>7. EffectsFrame(f) /\ effects'[f] = {}
  BY <1>1 DEF Report, SessionTypes, EffectsFrame
<1>8. RecipeOf(f)'
  BY <1>2, <1>4, <1>5, <1>6, <1>7 DEF RecipeOf
<1>9. /\ UNCHANGED << server, issuedTo, overtaken, registryVars >>
      /\ flow[f].at \in {"report", "closing"} /\ shared' \subseteq Handles
  BY <1>1 DEF Report, Returning, SessionTypes
<1> QED BY <1>1, <1>2, <1>4, <1>5, <1>6, <1>7, <1>8, <1>9, FlowMoves

\* The server gives a handle to a flow (session.go OpenSession).
LEMMA OpenKeeps ==
  ASSUME SessionInv, NEW f \in Flows, NEW h \in Handles, OpenAnswered(f, h)
  PROVE  SessionInv'
<1>1. /\ SessionTypes /\ RecipeOf(f) /\ flow[f] \in Recipes /\ f \in Owners
      /\ flow[f].at = "idle" /\ close[f].at = "idle"
  BY DEF SessionInv, SessionTypes, RecipeInv, Owners, OpenAnswered, RecipeOf
<1>2. PICK keep \in BOOLEAN :
        SetFlow(f, [NoRecipe EXCEPT !.at = "record", !.count = flow[f].count + 1, !.handle = h,
                                    !.keep = keep])
  BY DEF OpenAnswered
<1> DEFINE r == [NoRecipe EXCEPT !.at = "record", !.count = flow[f].count + 1, !.handle = h,
                                 !.keep = keep]
<1>3. r \in Recipes /\ r.at = "record" /\ r.handle = h /\ r.applied = 0
  <2>1. flow[f].count + 1 \in Nat
    BY <1>1 DEF Recipes
  <2> QED BY <2>1 DEF NoRecipe, Recipes
<1>4. SetFlow(f, r)
  BY <1>2
<1> HIDE DEF r
<1>5. FlowFrame(f) /\ flow'[f] = r
  BY <1>1, <1>3, <1>4, FlowUpdate
<1>6. /\ UNCHANGED << overtaken, shared, registryVars, close >>
      /\ server' = [server EXCEPT ![h] = "open"] /\ issuedTo' = [issuedTo EXCEPT ![h] = f]
      /\ effects' = [effects EXCEPT ![f] = {}]
  BY DEF OpenAnswered
<1>7. MemoryInv'
  BY <1>6, MemoryStutter DEF SessionInv, registryVars
<1>8. SessionTypes'
  BY <1>1, <1>3, <1>5, <1>6 DEF SessionTypes, FlowFrame, registryVars, memory
<1>9. CallsInv'
  BY <1>6 DEF SessionInv, CallsInv, Busy, registryVars
<1>10. \A g \in Handles : Closed(g) => Closed(g)'
  <2>1. Closed(h)'
    BY <1>1, <1>3, <1>5, <1>6 DEF Closed, Recording, SessionTypes
  <2>2. ASSUME NEW g \in Handles, g # h, Closed(g) PROVE Closed(g)'
    BY <1>1, <1>5, <1>6, <2>2 DEF Closed, Recording, SessionTypes, FlowFrame
  <2> QED BY <2>1, <2>2
<1>11. ClosedInv'
  BY <1>1, <1>6, <1>10 DEF SessionInv, ClosedInv, SessionTypes, MemoryInv, registryVars, memory
<1>12. RecipeOf(f)'
  BY <1>1, <1>3, <1>5, <1>6 DEF RecipeOf, SessionTypes
<1>13. ASSUME NEW g \in Flows, g # f PROVE RecipeOf(g)'
  <2>1. flow'[g] = flow[g] /\ effects'[g] = effects[g] /\ close' = close /\ overtaken' = overtaken
    BY <1>1, <1>5, <1>6, <1>13 DEF FlowFrame, SessionTypes
  <2>2. \A k \in Handles : server'[k] = "open" /\ issuedTo'[k] = g => server[k] = "open" /\ issuedTo[k] = g
    BY <1>1, <1>6, <1>13 DEF SessionTypes
  <2>3. RecipeOf(g) /\ (flow[g].at # "idle" => flow[g].handle \in Handles)
    BY <1>1 DEF SessionInv, RecipeInv, SessionTypes
  <2> QED BY <2>1, <2>2, <2>3 DEF RecipeOf
<1> QED BY <1>7, <1>8, <1>9, <1>11, <1>12, <1>13 DEF SessionInv, RecipeInv

\* Recording a handle forgets that a session with it was closed before, and
\* a close that is still in flight is overtaken (session.go:96-103).
LEMMA RecordKeeps ==
  ASSUME SessionInv, NEW f \in Flows, RecordHandle(f)
  PROVE  SessionInv'
<1> DEFINE h == flow[f].handle
<1>1. /\ SessionTypes /\ RecipeOf(f) /\ flow[f] \in Recipes /\ f \in Owners
      /\ flow[f].at = "record" /\ h \in Handles
  BY DEF SessionInv, SessionTypes, RecipeInv, Owners, RecordHandle
<1>2. /\ FlowFrame(f) /\ flow'[f].at = "statement" /\ flow'[f].handle = h
      /\ flow'[f].applied = flow[f].applied
  <2>1. FlowTo(f, "statement")
    BY DEF RecordHandle
  <2> QED BY <1>1, <2>1, FlowGoes
<1>3. /\ UNCHANGED << server, issuedTo, shared, closeCalls, effects, close >>
      /\ sessions' = sessions \cup {h}
      /\ overtaken' = IF closeCalls[h] # None THEN overtaken \cup {h} ELSE overtaken
  BY DEF RecordHandle, RecordSession
<1>4. MemoryInv' /\ remembered' = remembered \ {h}
  <2>1. Forget(h)
    BY DEF RecordHandle, RecordSession
  <2> QED BY <1>1, <2>1, ForgetKeeps DEF SessionInv
<1> HIDE DEF h
<1>5. SessionTypes'
  BY <1>1, <1>2, <1>3, NothingElse DEF SessionTypes, FlowFrame
<1>6. CallsInv'
  BY <1>3 DEF SessionInv, CallsInv, Busy
<1>7. ASSUME NEW k \in Handles, k # h, Closed(k) PROVE Closed(k)'
  BY <1>1, <1>2, <1>3, <1>7 DEF Closed, Recording, SessionTypes, FlowFrame, h
<1>8. ASSUME NEW p \in Owners, Busy(p), close[p].handle \notin overtaken'
      PROVE  close[p].handle # h
  <2>1. closeCalls[close[p].handle] = p /\ p # None
    BY <1>8, Distinct DEF SessionInv, CallsInv
  <2> QED BY <1>3, <1>8, <2>1
<1>9. ClosedInv'
  <2>1. overtaken \subseteq overtaken' /\ remembered \subseteq Handles
    BY <1>3 DEF SessionInv, MemoryInv
  <2>2. ASSUME NEW k \in remembered' \ overtaken' PROVE Closed(k)' /\ k \notin sessions'
    <3>1. k \in remembered \ overtaken /\ k # h /\ k \in Handles
      BY <1>4, <2>1
    <3>2. Closed(k) /\ k \notin sessions
      BY <3>1 DEF SessionInv, ClosedInv
    <3> QED BY <1>3, <1>7, <3>1, <3>2
  <2>3. ASSUME NEW p \in Owners, close'[p].at = "settle", close'[p].answer = "ok",
               close'[p].handle \notin overtaken'
        PROVE  Closed(close[p].handle)'
    <3>1. PICK k \in Handles : k = close[p].handle
      BY <1>1, <1>3, <2>3 DEF SessionTypes
    <3>2. Busy(p) /\ k \notin overtaken /\ k # h
      BY <1>3, <1>8, <2>1, <2>3, <3>1 DEF Busy
    <3>3. Closed(k)
      BY <1>3, <2>3, <3>1, <3>2 DEF SessionInv, ClosedInv
    <3>4. Closed(k)'
      BY <1>7, <3>2, <3>3
    <3> QED BY <1>3, <3>1, <3>4 DEF Closed, Recording
  <2> QED BY <2>2, <2>3 DEF ClosedInv
<1>10. ASSUME NEW g \in Flows PROVE RecipeOf(g)'
  <2>1. /\ UNCHANGED << server, issuedTo, effects, close >>
        /\ \A k : k \notin overtaken' => k \notin overtaken
    BY <1>3
  <2>2. RecipeOf(g)
    BY DEF SessionInv, RecipeInv
  <2>3. CASE g = f
    BY <1>1, <1>2, <2>1, <2>2, <2>3 DEF RecipeOf
  <2>4. CASE g # f
    <3>1. flow'[g] = flow[g]
      BY <1>2, <2>4 DEF FlowFrame
    <3> QED BY <2>1, <2>2, <3>1 DEF RecipeOf
  <2> QED BY <2>3, <2>4
<1> QED BY <1>4, <1>5, <1>6, <1>9, <1>10 DEF SessionInv, RecipeInv

LEMMA CloseUpdate ==
  ASSUME SessionTypes, NEW p \in Owners, NEW r \in SessionCloses, SetClose(p, r)
  PROVE  CloseFrame(p) /\ close'[p] = r
BY DEF SessionTypes, SetClose, CloseFrame

\* A call that finds the session remembered, joins another, stops the
\* heartbeat or returns (session.go:218-262).
LEMMA CloseStepKeeps ==
  ASSUME SessionInv, RunnerTypes, NEW p \in Owners,
         \/ CloseRemembered(p) \/ CloseJoins(p) \/ CloseStopsRunner(p) \/ CloseHalted(p)
         \/ JoinReturns(p)
  PROVE  SessionInv'
<1>1. SessionTypes /\ close[p] \in SessionCloses
  BY DEF SessionInv, SessionTypes
<1>2. UNCHANGED << server, issuedTo, overtaken, shared, registryVars, flowVars >>
  BY DEF CloseRemembered, CloseJoins, CloseStopsRunner, CloseHalted, JoinReturns, ClosingOnly
<1>3. close[p].at # "idle" /\ close[p].handle \in Handles
  BY <1>1 DEF CloseRemembered, CloseJoins, CloseStopsRunner, CloseHalted, JoinReturns, SessionTypes
<1>4. ASSUME NEW r \in SessionCloses, SetClose(p, r), r.handle = close[p].handle,
             r.at # "idle", r.at # "settle",
             r.at \in {"stop", "halt", "delete", "settle"} <=> Busy(p),
             r.at = "join" /\ r.answer = "none" =>
               r.awaited = closeCalls[close[p].handle] /\ r.awaited # None,
             r.answer = "ok" => close[p].answer = "ok" \/ close[p].handle \in remembered
      PROVE  SessionInv'
  <2>1. CloseFrame(p) /\ close'[p] = r
    BY <1>1, <1>4, CloseUpdate
  <2>2. Busy(p)' <=> Busy(p)
    BY <1>4, <2>1 DEF Busy
  <2> QED BY <1>2, <1>3, <1>4, <2>1, <2>2, CloseMoves
<1>5. CASE CloseRemembered(p)
  <2> DEFINE r == [close[p] EXCEPT !.at = "returned", !.answer = "ok"]
  <2>1. /\ r \in SessionCloses /\ r.handle = close[p].handle /\ r.at = "returned"
    BY <1>1 DEF SessionCloses
  <2>2. SetClose(p, r) /\ close[p].handle \in remembered /\ ~Busy(p)
    BY <1>5 DEF CloseRemembered, Busy
  <2> HIDE DEF r
  <2> QED BY <1>4, <2>1, <2>2
<1>6. CASE CloseJoins(p)
  <2> DEFINE o == closeCalls[close[p].handle]
             r == [close[p] EXCEPT !.at = "join", !.awaited = o]
  <2>1. o \in Owners /\ o # None
    BY <1>1, <1>3, <1>6 DEF CloseJoins, SessionTypes
  <2>2. SetClose(p, r) /\ ~Busy(p)
    BY <1>6 DEF CloseJoins, Busy
  <2> HIDE DEF o
  <2>3. /\ r \in SessionCloses /\ r.handle = close[p].handle /\ r.at = "join" /\ r.awaited = o
        /\ r.answer = close[p].answer
    BY <1>1, <2>1 DEF SessionCloses
  <2> HIDE DEF r
  <2> QED BY <1>4, <2>1, <2>2, <2>3 DEF o
<1>7. CASE CloseStopsRunner(p)
  <2> DEFINE o == heartbeats[close[p].handle]
             r == [close[p] EXCEPT !.at = "halt", !.awaited = o]
  <2>1. o \in Runners \cup {None}
    BY <1>3 DEF RunnerTypes
  <2>2. SetClose(p, r) /\ Busy(p)
    BY <1>7 DEF CloseStopsRunner, Busy
  <2> HIDE DEF o
  <2>3. /\ r \in SessionCloses /\ r.handle = close[p].handle /\ r.at = "halt"
        /\ r.answer = close[p].answer
    BY <1>1, <2>1 DEF SessionCloses
  <2> HIDE DEF r
  <2> QED BY <1>4, <2>2, <2>3
<1>8. CASE CloseHalted(p)
  <2> DEFINE r == [close[p] EXCEPT !.at = "delete", !.awaited = None]
  <2>1. /\ r \in SessionCloses /\ r.handle = close[p].handle /\ r.at = "delete"
        /\ r.answer = close[p].answer
    BY <1>1 DEF SessionCloses
  <2>2. SetClose(p, r) /\ Busy(p)
    BY <1>8 DEF CloseHalted, Busy
  <2> HIDE DEF r
  <2> QED BY <1>4, <2>1, <2>2
<1>9. CASE JoinReturns(p)
  <2>1. PICK answer \in {"err"} \cup ({close[p].answer} \ {"none"}) :
          SetClose(p, [close[p] EXCEPT !.at = "returned", !.awaited = None, !.answer = answer])
    BY <1>9 DEF JoinReturns
  <2> DEFINE r == [close[p] EXCEPT !.at = "returned", !.awaited = None, !.answer = answer]
  <2>2. /\ r \in SessionCloses /\ r.handle = close[p].handle /\ r.at = "returned"
        /\ r.answer = answer
    BY <1>1 DEF SessionCloses
  <2>3. SetClose(p, r) /\ ~Busy(p)
    BY <1>9, <2>1 DEF JoinReturns, Busy
  <2> HIDE DEF r
  <2> QED BY <1>4, <2>1, <2>2, <2>3
<1> QED BY <1>5, <1>6, <1>7, <1>8, <1>9

LEMMA DirectKeeps ==
  ASSUME SessionInv, NEW d \in Directs, NEW h \in Handles, DirectClose(d, h)
  PROVE  SessionInv'
<1>1. SessionTypes /\ d \in Owners /\ d \notin Flows /\ close[d] = NoClose
  BY Distinct DEF SessionInv, Owners, DirectClose
<1> DEFINE r == [NoClose EXCEPT !.at = "enter", !.handle = h]
<1>2. r \in SessionCloses /\ r.at = "enter" /\ r.handle = h
  BY DEF NoClose, SessionCloses
<1>3. SetClose(d, r) /\ UNCHANGED << server, issuedTo, overtaken, shared, registryVars, flowVars >>
  BY DEF DirectClose, ClosingOnly
<1> HIDE DEF r
<1>4. CloseFrame(d) /\ close'[d] = r
  BY <1>1, <1>2, <1>3, CloseUpdate
<1>5. close[d].at = "idle"
  BY <1>1 DEF NoClose
<1>6. MemoryInv'
  BY <1>3, MemoryStutter DEF SessionInv, registryVars
<1>7. SessionTypes'
  BY <1>1, <1>2, <1>3, <1>4 DEF SessionTypes, CloseFrame, registryVars, memory, flowVars
<1>8. CallsInv'
  BY <1>1, <1>2, <1>3, <1>4, <1>5 DEF SessionInv, SessionTypes, CallsInv, Busy, CloseFrame, registryVars
<1>9. ClosedInv'
  BY <1>2, <1>3, <1>4 DEF SessionInv, ClosedInv, Closed, Recording, CloseFrame, registryVars, memory,
                          flowVars
<1>10. ASSUME NEW g \in Flows PROVE RecipeOf(g)'
  <2>1. RecipeOf(g) /\ close'[g] = close[g]
    BY <1>1, <1>4 DEF SessionInv, RecipeInv, CloseFrame, Owners
  <2> QED BY <1>3, <2>1 DEF RecipeOf, flowVars
<1> QED BY <1>6, <1>7, <1>8, <1>9, <1>10 DEF SessionInv, RecipeInv

\* A call that finds nobody closing the session owns its close
\* (session.go:227-236).
LEMMA OwnsKeeps ==
  ASSUME SessionInv, NEW p \in Owners, CloseOwns(p)
  PROVE  SessionInv'
<1>. DEFINE h == close[p].handle
<1>1. /\ SessionTypes /\ CallsInv /\ close[p] \in SessionCloses
      /\ close[p].at = "enter" /\ h \in Handles /\ closeCalls[h] = None /\ ~Busy(p)
  BY DEF SessionInv, SessionTypes, CloseOwns, OwnCloseCall, Busy
<1>2. /\ UNCHANGED << server, issuedTo, overtaken, shared, sessions, memory, flow, effects >>
      /\ closeCalls' = [closeCalls EXCEPT ![h] = p]
  BY DEF CloseOwns, OwnCloseCall, ClosingOnly, flowVars
<1>3. /\ CloseFrame(p) /\ close'[p].at = "stop" /\ close'[p].handle = h
      /\ close'[p].answer = close[p].answer
  BY <1>1 DEF SessionTypes, SessionCloses, CloseOwns, CloseTo, CloseFrame
<1> HIDE DEF h
<1>4. MemoryInv'
  BY <1>2, MemoryStutter DEF SessionInv
<1>5. SessionTypes'
  BY <1>1, <1>2, <1>3 DEF SessionTypes, CloseFrame
<1>6. CallsInv'
  <2>1. \A q \in Owners : q # p => (Busy(q)' <=> Busy(q)) /\ close'[q] = close[q]
    BY <1>3 DEF CloseFrame, Busy
  <2>2. Busy(p)' /\ closeCalls'[h] = p /\ \A k \in Handles : k # h => closeCalls'[k] = closeCalls[k]
    BY <1>1, <1>2, <1>3 DEF Busy, SessionTypes
  <2>3. ASSUME NEW q \in Owners, Busy(q)' PROVE closeCalls'[close'[q].handle] = q
    <3>1. CASE q = p
      BY <1>3, <2>2, <3>1
    <3>2. CASE q # p
      <4>1. close'[q] = close[q] /\ Busy(q) /\ close[q].at # "idle"
        BY <2>1, <2>3, <3>2 DEF Busy
      <4>2. closeCalls[close[q].handle] = q /\ close[q].handle \in Handles /\ q # None
        BY <1>1, <4>1, Distinct DEF CallsInv, SessionTypes
      <4> QED BY <1>1, <2>2, <4>1, <4>2
    <3> QED BY <3>1, <3>2
  <2>4. ASSUME NEW k \in Handles, closeCalls'[k] # None
        PROVE  Busy(closeCalls[k])' /\ close'[closeCalls'[k]].handle = k
    BY <1>1, <1>3, <2>1, <2>2, <2>4 DEF CallsInv, SessionTypes
  <2> QED BY <1>1, <1>3, <2>1, <2>2, <2>3, <2>4 DEF CallsInv
<1>7. ClosedInv'
  BY <1>2, <1>3 DEF SessionInv, ClosedInv, Closed, Recording, CloseFrame, memory
<1>8. ASSUME NEW g \in Flows PROVE RecipeOf(g)'
  <2>1. RecipeOf(g)
    BY DEF SessionInv, RecipeInv
  <2> QED BY <1>1, <1>2, <1>3, <2>1 DEF RecipeOf, CloseFrame, Owners, h
<1> QED BY <1>4, <1>5, <1>6, <1>7, <1>8 DEF SessionInv, RecipeInv

\* The answer to the DELETE (session.go:239-247).
LEMMA DeleteKeeps ==
  ASSUME SessionInv, NEW p \in Owners, DeleteAnswered(p)
  PROVE  SessionInv'
<1>. DEFINE h == close[p].handle
<1>1. /\ SessionTypes /\ CallsInv /\ close[p] \in SessionCloses
      /\ close[p].at = "delete" /\ h \in Handles /\ Busy(p)
  BY DEF SessionInv, SessionTypes, DeleteAnswered, Busy
<1>2. UNCHANGED << issuedTo, overtaken, shared, registryVars, flow, effects >>
  BY DEF DeleteAnswered, flowVars
<1>3. /\ server' \in [Handles -> {"none", "open", "closed"}]
      /\ \A k \in Handles : server'[k] = "open" => server[k] = "open"
  BY <1>1 DEF DeleteAnswered, SessionTypes
<1>4. PICK answer \in {"ok", "err"} :
        /\ SetClose(p, [close[p] EXCEPT !.at = "settle", !.answer = answer])
        /\ answer = "ok" => server'[h] = "closed"
  BY <1>1 DEF DeleteAnswered, SessionTypes
<1> DEFINE r == [close[p] EXCEPT !.at = "settle", !.answer = answer]
<1>5. r \in SessionCloses /\ r.at = "settle" /\ r.answer = answer /\ r.handle = h
  BY <1>1 DEF SessionCloses
<1>6. SetClose(p, r)
  BY <1>4
<1> HIDE DEF r
<1>7. CloseFrame(p) /\ close'[p] = r
  BY <1>1, <1>5, <1>6, CloseUpdate
<1> HIDE DEF h
<1>8. MemoryInv'
  BY <1>2, MemoryStutter DEF SessionInv, registryVars
<1>9. SessionTypes'
  BY <1>1, <1>2, <1>3, <1>5, <1>7 DEF SessionTypes, CloseFrame, registryVars
<1>10. CallsInv'
  <2>1. \A q \in Owners : (Busy(q)' <=> Busy(q)) /\ close'[q].handle = close[q].handle
    BY <1>1, <1>5, <1>7 DEF CloseFrame, Busy, h
  <2>2. \A q \in Owners : close'[q].at = "join" => close'[q] = close[q]
    BY <1>5, <1>7 DEF CloseFrame
  <2>3. closeCalls' = closeCalls /\ \A k \in Handles : closeCalls[k] \in Owners \cup {None}
    BY <1>1, <1>2 DEF SessionTypes, registryVars
  <2> QED BY <1>1, <2>1, <2>2, <2>3 DEF CallsInv
<1>11. \A k \in Handles : Closed(k) => Closed(k)'
  BY <1>2, <1>3 DEF Closed, Recording
<1>12. ClosedInv'
  <2>1. ASSUME NEW k \in remembered' \ overtaken' PROVE Closed(k)' /\ k \notin sessions'
    BY <1>2, <1>11, <2>1 DEF SessionInv, ClosedInv, MemoryInv, registryVars, memory
  <2>2. ASSUME NEW q \in Owners, close'[q].at = "settle", close'[q].answer = "ok",
               close'[q].handle \notin overtaken'
        PROVE  Closed(close[q].handle)'
    <3>1. CASE q = p
      BY <1>1, <1>4, <1>5, <1>7, <2>2, <3>1 DEF Closed, h
    <3>2. CASE q # p
      <4>1. PICK k \in Handles : k = close[q].handle /\ close'[q] = close[q]
        BY <1>1, <1>7, <2>2, <3>2 DEF SessionTypes, CloseFrame
      <4>2. Closed(k)'
        BY <1>2, <1>11, <2>2, <4>1 DEF SessionInv, ClosedInv
      <4> QED BY <4>1, <4>2 DEF Closed, Recording
    <3> QED BY <3>1, <3>2
  <2> QED BY <2>1, <2>2 DEF ClosedInv
<1>13. ASSUME NEW g \in Flows PROVE RecipeOf(g)'
  <2>1. RecipeOf(g) /\ g \in Owners /\ (flow[g].at # "idle" => flow[g].handle \in Handles)
    BY <1>1 DEF SessionInv, RecipeInv, Owners, SessionTypes
  <2>2. CASE g = p
    BY <1>1, <1>2, <1>3, <1>4, <1>5, <1>7, <2>1, <2>2 DEF RecipeOf, h
  <2>3. CASE g # p
    BY <1>2, <1>3, <1>7, <2>1, <2>3 DEF RecipeOf, CloseFrame
  <2> QED BY <2>2, <2>3
<1> QED BY <1>8, <1>9, <1>10, <1>12, <1>13 DEF SessionInv, RecipeInv

\* The owner remembers a session it has closed, and everybody who has joined
\* finds its result (session.go:248-262).
LEMMA SettleKeeps ==
  ASSUME SessionInv, NEW p \in Owners, SettleClose(p)
  PROVE  SessionInv'
<1>. DEFINE h == close[p].handle
           result == close[p].answer
<1>1. /\ SessionTypes /\ CallsInv /\ close[p] \in SessionCloses
      /\ close[p].at = "settle" /\ h \in Handles /\ Busy(p) /\ result \in {"ok", "err"}
  BY DEF SessionInv, SessionTypes, SessionCloses, SettleClose, Busy
<1>2. UNCHANGED << server, issuedTo, overtaken, shared, flow, effects >>
  BY DEF SettleClose, ClosingOnly, flowVars
<1>3. /\ closeCalls' = [closeCalls EXCEPT ![h] = None]
      /\ IF result = "ok" THEN Remember(h) ELSE UNCHANGED memory
      /\ sessions' = IF result = "ok" THEN sessions \ {h} ELSE sessions
  BY DEF SettleClose, SettleCloseCall
<1> DEFINE Joined(q) == close[q].at = "join" /\ close[q].awaited = p /\ close[q].answer = "none"
<1>4. /\ close' \in [Owners -> SessionCloses]
      /\ close'[p].at = "returned" /\ close'[p].handle = h /\ close'[p].answer = result
      /\ \A q \in Owners : q # p /\ ~Joined(q) => close'[q] = close[q]
      /\ \A q \in Owners : q # p /\ Joined(q) =>
           /\ close'[q].at = "join" /\ close'[q].handle = close[q].handle
           /\ close'[q].answer = result
  <2>1. close' = [q \in Owners |->
           IF q = p THEN [close[q] EXCEPT !.at = "returned"]
           ELSE IF close[q].at = "join" /\ close[q].awaited = p /\ close[q].answer = "none"
             THEN [close[q] EXCEPT !.answer = result]
           ELSE close[q]]
    BY DEF SettleClose
  <2>2. \A q \in Owners : close[q] \in SessionCloses
    BY <1>1 DEF SessionTypes
  <2> HIDE DEF h, result
  <2>3. \A q \in Owners : /\ [close[q] EXCEPT !.at = "returned"] \in SessionCloses
                          /\ [close[q] EXCEPT !.answer = result] \in SessionCloses
    BY <1>1, <2>2 DEF SessionCloses
  <2>4. close' \in [Owners -> SessionCloses]
    BY <2>1, <2>2, <2>3
  <2>5. close'[p] = [close[p] EXCEPT !.at = "returned"]
    BY <2>1
  <2>6. ASSUME NEW q \in Owners, q # p, ~Joined(q) PROVE close'[q] = close[q]
    BY <2>1, <2>6
  <2>7. ASSUME NEW q \in Owners, q # p, Joined(q) PROVE close'[q] = [close[q] EXCEPT !.answer = result]
    BY <2>1, <2>7
  <2> HIDE DEF Joined
  <2>8. close'[p].at = "returned" /\ close'[p].handle = close[p].handle /\ close'[p].answer = close[p].answer
    BY <2>2, <2>5 DEF SessionCloses
  <2>9. ASSUME NEW q \in Owners, q # p, Joined(q)
        PROVE  /\ close'[q].at = close[q].at /\ close'[q].handle = close[q].handle
               /\ close'[q].answer = result
    BY <2>2, <2>7, <2>9 DEF SessionCloses
  <2> QED BY <2>4, <2>6, <2>8, <2>9 DEF h, result, Joined
<1>5. MemoryInv' /\ (result = "ok" => remembered' \subseteq remembered \cup {h})
      /\ (result # "ok" => remembered' = remembered)
  <2>1. CASE result = "ok"
    BY <1>1, <1>3, <2>1, RememberKeeps DEF SessionInv
  <2>2. CASE result # "ok"
    BY <1>3, <2>2, MemoryStutter DEF SessionInv, memory
  <2> QED BY <2>1, <2>2
<1> HIDE DEF h, result
<1>6. SessionTypes'
  <2>1. \A q \in Owners : /\ close'[q].at # "idle" => close'[q].handle \in Handles
                          /\ close'[q].at = "settle" => close'[q].answer # "none"
    BY <1>1, <1>4 DEF SessionTypes
  <2>2. sessions' \subseteq Handles /\ closeCalls' \in [Handles -> Owners \cup {None}]
    BY <1>1, <1>3 DEF SessionTypes
  <2> QED BY <1>1, <1>2, <1>4, <2>1, <2>2 DEF SessionTypes
<1>7. CallsInv'
  <2>1. \A q \in Owners : /\ Busy(q)' <=> Busy(q) /\ q # p
                          /\ close'[q].handle = close[q].handle
    BY <1>4 DEF Busy, h
  <2>2. closeCalls'[h] = None /\ \A k \in Handles : k # h => closeCalls'[k] = closeCalls[k]
    BY <1>1, <1>3 DEF SessionTypes
  <2>3. ASSUME NEW q \in Owners, Busy(q)' PROVE closeCalls'[close'[q].handle] = q
    <3>1. closeCalls[close[q].handle] = q /\ close[q].handle \in Handles /\ q # p
      BY <1>1, <2>1, <2>3 DEF CallsInv, SessionTypes, Busy
    <3>2. closeCalls[h] = p
      BY <1>1 DEF CallsInv, h
    <3> QED BY <2>1, <2>2, <3>1, <3>2
  <2>4. ASSUME NEW k \in Handles, closeCalls'[k] # None
        PROVE  Busy(closeCalls[k])' /\ close'[closeCalls'[k]].handle = k
    <3>1. PICK o \in Owners : o = closeCalls[k] /\ o = closeCalls'[k] /\ k # h
      BY <1>1, <2>2, <2>4 DEF SessionTypes
    <3>2. Busy(o) /\ close[o].handle = k /\ o # p
      BY <1>1, <2>2, <2>4, <3>1 DEF CallsInv, h
    <3>3. Busy(o)' /\ close'[o].handle = k
      BY <2>1, <3>2
    <3> QED BY <3>1, <3>3 DEF Busy
  <2>5. ASSUME NEW q \in Owners, close'[q].at = "join", close'[q].answer = "none"
        PROVE  /\ close'[q].awaited \in Owners
               /\ Busy(close[q].awaited)' /\ close'[close'[q].awaited].handle = close'[q].handle
    <3>1. close'[q] = close[q] /\ ~Joined(q)
      BY <1>1, <1>4, <2>5 DEF h
    <3>2. PICK o \in Owners : o = close[q].awaited /\ o = close'[q].awaited /\ o # p
                             /\ Busy(o) /\ close[o].handle = close[q].handle
      BY <1>1, <2>5, <3>1 DEF CallsInv
    <3>3. Busy(o)' /\ close'[o].handle = close[o].handle
      BY <2>1, <3>2
    <3> QED BY <3>1, <3>2, <3>3 DEF Busy
  <2> QED BY <2>3, <2>4, <2>5 DEF CallsInv
<1>8. result = "ok" /\ h \notin overtaken => Closed(h)
  BY <1>1 DEF SessionInv, ClosedInv, h, result
<1>9. \A k : Closed(k)' <=> Closed(k)
  BY <1>2 DEF Closed, Recording
<1>10. ClosedInv'
  <2>1. ASSUME NEW k \in remembered' \ overtaken' PROVE Closed(k)' /\ k \notin sessions'
    BY <1>2, <1>3, <1>5, <1>8, <1>9, <2>1 DEF SessionInv, ClosedInv
  <2>2. ASSUME NEW q \in Owners, close'[q].at = "settle", close'[q].answer = "ok",
               close'[q].handle \notin overtaken'
        PROVE  Closed(close[q].handle)'
    <3>1. close'[q] = close[q]
      BY <1>4, <2>2
    <3>2. PICK k : k = close[q].handle
      OBVIOUS
    <3>3. Closed(k)
      BY <1>2, <2>2, <3>1, <3>2 DEF SessionInv, ClosedInv
    <3> QED BY <1>9, <3>1, <3>2, <3>3 DEF Closed, Recording
  <2> QED BY <2>1, <2>2 DEF ClosedInv
<1>11. ASSUME NEW g \in Flows PROVE RecipeOf(g)'
  <2>1. RecipeOf(g) /\ g \in Owners
    BY DEF SessionInv, RecipeInv, Owners
  <2>2. CASE g = p
    BY <1>1, <1>2, <1>4, <2>1, <2>2 DEF RecipeOf, h, result
  <2>3. CASE g # p /\ ~Joined(g)
    BY <1>2, <1>4, <2>1, <2>3 DEF RecipeOf
  <2>4. CASE g # p /\ Joined(g)
    <3>1. close[g].handle = h /\ close'[g].handle = h /\ close'[g].at = "join" /\ close'[g].answer = result
          /\ close[g].at = "join"
      BY <1>1, <1>4, <2>1, <2>4 DEF CallsInv, h
    <3>2. flow[g].at = "closing" /\ flow[g].handle = h
      BY <2>1, <3>1 DEF RecipeOf
    <3>3. result = "ok" /\ h \notin overtaken => ~(server[h] = "open" /\ issuedTo[h] = g)
      BY <1>8, <3>2 DEF Closed, Recording
    <3> QED BY <1>2, <2>1, <3>1, <3>2, <3>3 DEF RecipeOf
  <2> QED BY <2>2, <2>3, <2>4
<1> QED BY <1>5, <1>6, <1>7, <1>10, <1>11 DEF SessionInv, RecipeInv

LEMMA SessionStutter ==
  ASSUME SessionInv, UNCHANGED << sessionVars, flowVars, close >>
  PROVE  SessionInv'
<1>1. UNCHANGED << server, issuedTo, overtaken, shared, sessions, memory, closeCalls, flow, effects,
                   close >>
  BY DEF sessionVars, registryVars, flowVars
<1>2. MemoryInv'
  BY <1>1, MemoryStutter DEF SessionInv
<1>3. SessionTypes' /\ CallsInv'
  BY <1>1 DEF SessionInv, SessionTypes, CallsInv, Busy
<1>4. ClosedInv'
  BY <1>1 DEF SessionInv, ClosedInv, Closed, Recording, memory
<1>5. RecipeInv'
  BY <1>1 DEF SessionInv, RecipeInv, RecipeOf
<1> QED BY <1>2, <1>3, <1>4, <1>5 DEF SessionInv

LEMMA SessionInit == LifecycleInit => SessionInv /\ BeatInv
<1> SUFFICES ASSUME LifecycleInit PROVE SessionInv /\ BeatInv
  OBVIOUS
<1>1. cast.open \subseteq Handles
  BY CastsAreSets DEF LifecycleInit
<1>2. NoClose \in SessionCloses /\ NoClose.at = "idle" /\ NoRecipe \in Recipes
      /\ NoRecipe.at = "idle" /\ NoRecipe.applied = 0
  BY DEF NoClose, SessionCloses, NoRecipe, Recipes
<1>3. /\ flow = [f \in Flows |-> NoRecipe] /\ effects = [f \in Flows |-> {}]
      /\ close = [p \in Owners |-> NoClose] /\ closeCalls = [h \in Handles |-> None]
      /\ remembered = {} /\ closedOrder = << >>
      /\ overtaken = {} /\ shared = cast.open /\ sessions = cast.open
      /\ server = [h \in Handles |-> IF h \in cast.open THEN "open" ELSE "none"]
      /\ issuedTo = [h \in Handles |-> None]
  BY DEF LifecycleInit, RegistryInit
<1>4. MemoryInv
  <2>1. closedOrder \in Seq(Handles) /\ Len(closedOrder) = 0
    BY <1>3, EmptySeq
  <2>2. IsFiniteSet({}) /\ Cardinality({}) = 0
    BY FS_EmptySet
  <2>3. Range(closedOrder) = {}
    BY <1>3 DEF Range
  <2> QED BY <1>3, <2>1, <2>2, <2>3, SomethingIsRemembered DEF MemoryInv, Lists
<1>5. SessionTypes
  BY <1>1, <1>2, <1>3 DEF SessionTypes
<1>6. CallsInv
  BY <1>2, <1>3 DEF CallsInv, Busy
<1>7. ClosedInv
  BY <1>2, <1>3 DEF ClosedInv
<1>8. RecipeInv
  BY <1>2, <1>3 DEF RecipeInv, RecipeOf, Owners
<1>9. BeatInv
  BY DEF LifecycleInit, HeartbeatInit, BeatInv
<1> QED BY <1>4, <1>5, <1>6, <1>7, <1>8, <1>9 DEF SessionInv

LEMMA FlowStepKeeps ==
  ASSUME SessionInv, NEW f \in Flows, FlowStep(f)
  PROVE  SessionInv'
BY RecordKeeps, RecipeStepKeeps, ReportKeeps DEF FlowStep

LEMMA OwnerStepKeeps ==
  ASSUME SessionInv, RunnerTypes, NEW p \in Owners, CloseStep(p)
  PROVE  SessionInv'
BY CloseStepKeeps, OwnsKeeps, DeleteKeeps, SettleKeeps DEF CloseStep

LEMMA SessionInductive ==
  SessionInv /\ RunnerTypes /\ [LifecycleNext]_lifecycleVars => SessionInv'
<1> SUFFICES ASSUME SessionInv, RunnerTypes, [LifecycleNext]_lifecycleVars PROVE SessionInv'
  OBVIOUS
<1>1. ASSUME \/ \E r \in Runners : Registered(r) \/ AlreadyBeating(r) \/ RunnerEnds(r)
             \/ BodyStep
             \/ \E u \in Users : CloseReturned(u)
      PROVE  SessionInv'
  <2>1. UNCHANGED << sessionVars, flowVars, close >>
    BY <1>1 DEF Registered, AlreadyBeating, RunnerEnds, RunnersOnly, BodyStep, BodyStarts,
                BodyObserves, BodyGoesOn, BodyStopsRunner, RunnerStopped, BodyWaits, BodyEnds,
                CloseReturned, OthersThanBody
  <2> QED BY <2>1, SessionStutter
<1>2. CASE Library
  BY <1>1, <1>2, FlowStepKeeps, OwnerStepKeeps DEF Library
<1>3. ASSUME \/ \E r \in Runners, h \in Handles : StartHeartbeat(r, h)
             \/ \E r \in Runners : RunnerFindsNoSession(r)
             \/ \E u \in Users : CallClose(u)
             \/ \E s \in Slots : CallbackCloses(s) \/ CallbackReturns(s)
      PROVE  SessionInv'
  <2>1. UNCHANGED << sessionVars, flowVars, close >>
    BY <1>3 DEF StartHeartbeat, RunnerFindsNoSession, RunnersOnly, CallClose, CallbackCloses,
                CallbackReturns, OthersThanBody
  <2> QED BY <2>1, SessionStutter
<1>4. CASE Environment
  BY <1>3, <1>4, OpenKeeps, DirectKeeps DEF Environment
<1>5. CASE UNCHANGED lifecycleVars
  BY <1>5, SessionStutter DEF lifecycleVars
<1> QED BY <1>2, <1>4, <1>5 DEF LifecycleNext

\* A runner is made, found or given up under stateMu (heartbeat.go:51-87,
\* 101-118).
LEMMA BeatStepKeeps ==
  ASSUME BeatInv, RunnerTypes, NEW r \in Runners,
         \/ Registered(r) \/ AlreadyBeating(r) \/ RunnerEnds(r) \/ RunnerFindsNoSession(r)
         \/ \E h \in Handles : StartHeartbeat(r, h)
  PROVE  BeatInv'
<1> USE DEF RunnerTypes, BeatInv
<1>1. CASE Registered(r)
  BY <1>1, NoneIsNoRunner DEF Registered, RegisterRunner, BeatTo, RunnersOnly
<1>2. CASE AlreadyBeating(r) \/ \E h \in Handles : StartHeartbeat(r, h)
  <2>1. PICK h \in Handles \cup {None} : target' = [target EXCEPT ![r] = h]
    BY <1>2 DEF AlreadyBeating, StartHeartbeat
  <2>2. /\ UNCHANGED << heartbeats, beat >>
        /\ target[r] = None \/ beat[r] = "none"
    BY <1>2 DEF AlreadyBeating, StartHeartbeat, beatVars
  <2> QED BY <2>1, <2>2
<1>3. CASE RunnerEnds(r) \/ RunnerFindsNoSession(r)
  <2>1. CASE Leave(target[r], r)
    <3>1. /\ heartbeats' = [heartbeats EXCEPT ![target[r]] = IF @ = r THEN None ELSE @]
          /\ beat' = [beat EXCEPT ![r] = "done"] /\ target' = target
      BY <1>3, <2>1 DEF Leave, BeatTo, RunnerEnds, RunnerFindsNoSession
    <3> QED BY <3>1
  <2>2. CASE ~Leave(target[r], r)
    BY <1>3, <2>2 DEF RunnerEnds, RunnerFindsNoSession, BeatCancelled, BeatFindsNoSession, BeatTo
  <2> QED BY <2>1, <2>2
<1> QED BY <1>1, <1>2, <1>3

LEMMA BeatInductive ==
  BeatInv /\ RunnerTypes /\ [LifecycleNext]_lifecycleVars => BeatInv'
<1> SUFFICES ASSUME BeatInv, RunnerTypes, [LifecycleNext]_lifecycleVars PROVE BeatInv'
  OBVIOUS
<1>1. ASSUME UNCHANGED << heartbeats, beat, target >>
      PROVE  BeatInv'
  BY <1>1 DEF BeatInv
<1>2. ASSUME NEW f \in Flows, FlowStep(f)
      PROVE  BeatInv'
  BY <1>1, <1>2 DEF FlowStep, RecordHandle, BeginStatement, RefuseStatement, StatementAnswered,
     Observe, EndStatement, Report, runnerVars, beatVars
<1>3. ASSUME NEW p \in Owners, CloseStep(p)
      PROVE  BeatInv'
  BY <1>1, <1>3 DEF CloseStep, CloseRemembered, CloseJoins, CloseOwns, CloseStopsRunner,
     CancelRunner, CloseHalted, DeleteAnswered, SettleClose, JoinReturns, ClosingOnly, runnerVars,
     beatVars
<1>4. CASE BodyStep
  BY <1>1, <1>4 DEF BodyStep, BodyStarts, BodyObserves, BodyGoesOn, BodyStopsRunner, CancelRunner,
     RunnerStopped, BodyWaits, BodyEnds, runnerVars, beatVars
<1>5. ASSUME \/ \E f \in Flows, h \in Handles : OpenAnswered(f, h)
             \/ \E d \in Directs, h \in Handles : DirectClose(d, h)
             \/ \E u \in Users : CallClose(u) \/ CloseReturned(u)
             \/ \E s \in Slots : CallbackCloses(s) \/ CallbackReturns(s)
      PROVE  BeatInv'
  BY <1>1, <1>5 DEF OpenAnswered, DirectClose, CallClose, CloseReturned, CallbackCloses,
     CallbackReturns, ClosingOnly, runnerVars, beatVars
<1>6. CASE Library
  BY <1>2, <1>3, <1>4, <1>5, <1>6, BeatStepKeeps DEF Library
<1>7. CASE Environment
  BY <1>5, <1>7, BeatStepKeeps DEF Environment
<1>8. CASE UNCHANGED lifecycleVars
  BY <1>1, <1>8 DEF lifecycleVars, runnerVars, beatVars
<1> QED BY <1>6, <1>7, <1>8 DEF LifecycleNext

LEMMA SessionsInvariant == LifecycleSpec => [](SessionInv /\ BeatInv)
<1>1. SessionInv /\ RunnerInv /\ BeatInv /\ [LifecycleNext]_lifecycleVars
        => (SessionInv /\ RunnerInv /\ BeatInv)'
  BY SessionInductive, RunnerInductive, BeatInductive DEF RunnerInv
<1> QED BY <1>1, SessionInit, RunnerInit, PTL DEF LifecycleSpec

\* What the client remembers agrees with the server and with itself,
\* whatever the order of openings, closes and heartbeats (session.go:96-103,
\* 218-290, heartbeat.go:51-118).
THEOREM RegistryIsSound == LifecycleSpec => []RegistrySound
<1>1. SessionInv /\ BeatInv => RegistrySound
  <2> SUFFICES ASSUME SessionInv, BeatInv PROVE RegistrySound
    OBVIOUS
  <2>1. ASSUME NEW h \in Handles \ overtaken, h \in remembered
        PROVE  /\ server[h] = "open" => \E f \in Flows :
                    flow[f].at = "record" /\ flow[f].handle = h
               /\ h \notin sessions
    BY <2>1 DEF SessionInv, ClosedInv, Closed, Recording
  <2>2. /\ Len(closedOrder) <= MaxRemembered
        /\ remembered = Range(closedOrder) /\ Cardinality(remembered) = Len(closedOrder)
    BY DEF SessionInv, MemoryInv, Lists
  <2> QED BY <2>1, <2>2 DEF RegistrySound, BeatInv
<1> QED BY <1>1, SessionsInvariant, PTL

\* A recipe reports the statements that were processed, and a cleanup that
\* reports no error has closed the session of the recipe
\* (session_recipe.go:95-141).
THEOREM RecipesAreHonest == LifecycleSpec => []RecipeHonest
<1>1. SessionInv => RecipeHonest
  BY DEF SessionInv, RecipeInv, RecipeOf, RecipeHonest
<1> QED BY <1>1, SessionsInvariant, PTL
=============================================================================
