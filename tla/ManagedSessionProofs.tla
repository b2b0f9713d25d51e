------------------------ MODULE ManagedSessionProofs ------------------------
(***************************************************************************)
(* ManagedSession for every number of users and callers.                   *)
(*                                                                         *)
(* Three stacked single-flights have to be told apart by what a goroutine  *)
(* knows at each of its steps: past the wait of the session nothing runs   *)
(* and nothing can begin (ManagerInv); between entering and settling       *)
(* CloseSession a goroutine owns the entry in c.closeCalls (CallInv) and   *)
(* past stopHeartbeat it leaves no runner alive (BeatInv); a success is    *)
(* only ever passed on after the session has gone (TrueInv); a failed      *)
(* opener hands the session over to GatewayClient.Close or has seen it go  *)
(* (LeakInv); and an event that is not read yet says as much of its runner *)
(* as those it has replaced (HealthInv).                                   *)
(***************************************************************************)
EXTENDS ManagedSession, FiniteSetTheorems, TLAPS

Types ==
  /\ pc \in [Closers -> PCs]
  /\ xpc \in [Callers -> {"idle", "begin", "running", "open"}]
  /\ seen \in [Managers -> Nat]
  /\ awaited \in [Closers -> Closers \cup {None}]
  /\ outcome \in [Closers -> {"none", "ok", "err"}]
  /\ closeCalls \in [Handles -> Closers \cup {None}]
  /\ heartbeats \in [Handles -> Runners \cup {None}]
  /\ beat \in [Runners -> {"none", "waiting", "leaving", "done"}]
  /\ mOwner \in Managers \cup {None}
  /\ managed \in BOOLEAN /\ mComplete \in BOOLEAN
  /\ clientClosed \in BOOLEAN /\ lifecycleDone \in BOOLEAN
  /\ \A p \in Closers : pc[p] \in {"joinM", "joinC"} => awaited[p] \in Closers

\* The calls the group counts.
Counted == {x \in Callers : xpc[x] \in {"running", "open"}}

GroupInv ==
  /\ closed \in BOOLEAN /\ idle \in Nat
  /\ active = Cardinality(Counted)
  /\ (idle \in shut) <=> (active = 0)
  /\ \A ch \in shut : ch \in Nat /\ ch <= idle

\* What a goroutine in closeWithContext knows.
Stopping == {"streams", "heartbeat", "health", "capture", "wait"}
Drained == {"closeMu", "joinM", "enterC", "joinC", "stopC", "haltC", "deleteC", "settleC",
            "settleM"}

ManagerInv ==
  /\ once # "new" => closed
  /\ \A p \in Managers :
       /\ pc[p] \in Stopping \cup Drained => closed
       /\ pc[p] = "wait" => seen[p] = idle
       /\ pc[p] \in Drained => active = 0

\* Who is in CloseSession owns its call.
Closing == {"stopC", "haltC", "deleteC", "settleC"}

CallInv ==
  \A p \in Closers : pc[p] \in Closing => closeCalls[Handle] = p

\* The runner is registered while it lives, and is started once, before the
\* session is given to anybody.
Visitors == Users \cup Directs

BeatInv ==
  /\ pc[Opener] \in {"assign", "ready"} <=> beat[Opener] # "none"
  /\ beat[Opener] \in {"waiting", "leaving"} => heartbeats[Handle] = Opener
  /\ pc[Opener] = "open" => ~managed /\ pc[Client] \in {"idle", "runners", "drain", "returned"}
  /\ clientClosed => lifecycleDone
  /\ pc[Client] # "idle" => clientClosed
  /\ \A p \in Visitors : pc[p] # "idle" => pc[Opener] = "ready"
  /\ \A p \in Visitors : pc[p] = "haltC" => awaited[p] = Opener \/ beat[Opener] = "done"
  /\ \A p \in Visitors : pc[p] = "deleteC" => beat[Opener] = "done"

\* Whoever has heard of a success, or may still hear of it.
TrueInv ==
  /\ pc[Opener] = "open" => session = "none"
  /\ \A p \in Closers : outcome[p] = "ok" => session = "closed"
  /\ Handle \in remembered \/ mComplete => session = "closed"
  /\ pc[Opener] \in {"ensure", "beat", "assign", "ready"} /\ ~managed => session = "closed"

\* Until the close calls of the client are empty, the owner of the session's
\* is in CloseSession.  A failed opener leaves the session to the only other
\* goroutine that can know it, GatewayClient.Close, or has seen it go.
LeakInv ==
  /\ faulty \in BOOLEAN
  /\ closeCalls[Handle] # None => pc[closeCalls[Handle]] \in Closing
  /\ ~faulty =>
       /\ \A p \in {Client, Opener} : pc[p] = "settleC" => session = "closed"
       /\ pc[Opener] = "joinC" =>
            awaited[Opener] = Client /\ (closeCalls[Handle] = Client \/ session = "closed")
       /\ pc[Opener] = "failed" => closeCalls[Handle] = Client \/ session # "open"

\* What an event that waits for the monitor says of its runner, and what is
\* true when none waits.
HealthTypes ==
  /\ failures \in 0..FailureThreshold
  /\ health \in {"healthy", "degraded", "expired", "closed"}
  /\ event \in Events

LiveInv ==
  /\ event # Gone
  /\ event = Success => failures = 0
  /\ event.kind = "failed" => event.count = failures
  /\ event = NoEvent /\ health = "healthy" => failures < FailureThreshold
  /\ event = NoEvent /\ health = "degraded" => failures > 0

HealthInv ==
  /\ HealthTypes
  /\ once = "done" => health = "closed"
  /\ event = Gone \/ health = "expired" => session = "closed"
  /\ beat[Opener] = "none" => failures = 0 /\ event = NoEvent /\ health \in {"healthy", "closed"}
  /\ Alive(Opener) => LiveInv
  /\ beat[Opener] \in {"leaving", "done"} /\ ~ContextEnded =>
       event = Gone \/ (event = NoEvent /\ health \in {"expired", "closed"})

-----------------------------------------------------------------------------
\* Who is who.
LEMMA Names ==
  /\ Closers = Managers \cup Directs \cup {Opener}
  /\ Managers = Users \cup {Client}
  /\ Visitors = Users \cup Directs
  /\ Client \notin Visitors /\ Opener \notin Visitors /\ Client # Opener
  /\ Users \cap Directs = {}
  /\ None \notin Closers
  /\ Handle \in Handles /\ Runners = {Opener}
BY Actors, OneSession, OneRunner DEF Closers, Managers, Visitors, Client, Opener

\* The calls the group counts are finitely many.
LEMMA CountedSize ==
  /\ IsFiniteSet(Counted) /\ Cardinality(Counted) \in Nat
  /\ \A x \in Callers \ Counted : Cardinality(Counted \cup {x}) = Cardinality(Counted) + 1
  /\ \A x \in Counted : Cardinality(Counted \ {x}) = Cardinality(Counted) - 1
  /\ Cardinality(Counted) = 0 <=> Counted = {}
<1>1. IsFiniteSet(Counted)
  BY Actors, FS_Subset DEF Counted
<1> QED BY <1>1, FS_CardinalityType, FS_AddElement, FS_RemoveElement, FS_EmptySet

\* The counter is zero when, and only when, no call runs.
LEMMA Quiet ==
  ASSUME GroupInv
  PROVE  /\ active \in Nat
         /\ active = 0 <=> \A x \in Callers : xpc[x] \notin {"running", "open"}
BY CountedSize DEF GroupInv, Counted

\* A call that begins and one that ends.
LEMMA GroupBegins ==
  ASSUME Types, GroupInv, NEW x \in Callers, xpc[x] = "begin", Begin, XGoTo(x, "running")
  PROVE  GroupInv'
<1>1. Counted' = Counted \cup {x} /\ x \notin Counted
  BY DEF Types, Counted, XGoTo
<1>2. active' = Cardinality(Counted')
  BY <1>1, CountedSize DEF GroupInv, Begin
<1> QED BY <1>2, CountedSize DEF GroupInv, Begin

LEMMA GroupEnds ==
  ASSUME Types, GroupInv, NEW x \in Callers, xpc[x] \in {"running", "open"},
         active' = active - 1,
         shut' = IF active = 1 THEN shut \cup {idle} ELSE shut,
         XGoTo(x, "idle"), UNCHANGED << closed, idle >>
  PROVE  GroupInv'
<1>1. Counted' = Counted \ {x} /\ x \in Counted
  BY DEF Types, Counted, XGoTo
<1>2. active' = Cardinality(Counted')
  BY <1>1, CountedSize DEF GroupInv
<1>3. active \in Nat \ {0}
  BY <1>1, CountedSize DEF GroupInv
<1> QED BY <1>2, <1>3 DEF GroupInv

\* The group counts the calls that run; only their steps and begin() change it.
LEMMA GroupStep ==
  ASSUME Types, GroupInv, [Next]_vars
  PROVE  GroupInv'
<1>1. ASSUME NEW x \in Callers, BeginCall(x) PROVE GroupInv'
  <2>1. CASE Refuse /\ XGoTo(x, "idle")
    <3>1. Counted' = Counted
      BY <1>1, <2>1 DEF BeginCall, Types, Counted, XGoTo
    <3> QED BY <2>1, <3>1 DEF GroupInv, Refuse, groupVars
  <2> QED BY <1>1, <2>1, GroupBegins DEF BeginCall
<1>2. ASSUME NEW x \in Callers, CallReturns(x) PROVE GroupInv'
  <2>1. active' = active - 1
    BY <1>2, Quiet DEF CallReturns, End
  <2> QED BY <1>2, <2>1, GroupEnds DEF CallReturns, End
<1>3. ASSUME NEW x \in Callers, FinishStream(x) PROVE GroupInv'
  BY <1>3, GroupEnds DEF FinishStream, EndStream
<1>4. ASSUME NEW p \in Managers, NEW x \in Callers, CloseStream(p, x) PROVE GroupInv'
  <2>1. CASE xpc[x] = "open"
    BY <1>4, <2>1, GroupEnds DEF CloseStream, EndStream
  <2>2. CASE xpc[x] # "open"
    BY <1>4, <2>2 DEF CloseStream, groupVars, GroupInv, Counted
  <2> QED BY <2>1, <2>2
<1>5. ASSUME NEW x \in Callers, Call(x) \/ RegisterCall(x) PROVE GroupInv'
  <2>1. Counted' = Counted /\ UNCHANGED << active, idle, shut, closed >>
    BY <1>5 DEF Call, RegisterCall, RegisterStream, XGoTo, Types, Counted, groupVars
  <2> QED BY <2>1 DEF GroupInv
<1>6. ASSUME NEW p \in Managers, EnterOnce(p) PROVE GroupInv'
  <2>1. Counted' = Counted
    BY <1>6 DEF EnterOnce, callVars, Counted
  <2> QED BY <1>6, <2>1 DEF EnterOnce, Stop, GroupInv
<1>7. ASSUME UNCHANGED << groupVars, xpc >> PROVE GroupInv'
  BY <1>7 DEF groupVars, GroupInv, Counted
<1> USE DEF callVars, others
<1>8. ASSUME \/ OpenSession
       \/ Register
       \/ EnsureOpen
       \/ StartRunner
       \/ AssignRunner
       \/ Beats
       \/ MonitorStep
      PROVE  UNCHANGED << groupVars, xpc >>
  BY <1>8 DEF OpenSession, Register, EnsureOpen, StartRunner, AssignRunner, Beats,
     MonitorStep, MonitorReads, MonitorEnds
<1>9. ASSUME NEW d \in Directs, StopHeartbeat(d) \/ StopReturns(d) \/ DirectClose(d)
      PROVE  UNCHANGED << groupVars, xpc >>
  BY <1>9 DEF StopHeartbeat, StopReturns, DirectClose
<1>10. ASSUME NEW u \in Users, UserClose(u) PROVE UNCHANGED << groupVars, xpc >>
  BY <1>10 DEF UserClose
<1>11. ASSUME ClientClose \/ ClientStopsRunner \/ ClientDrained \/ ServerExpires
      PROVE  UNCHANGED << groupVars, xpc >>
  BY <1>11 DEF ClientClose, ClientStopsRunner, ClientDrained, ServerExpires
<1>12. ASSUME NEW p \in Managers,
             \/ PassOnce(p) \/ StreamsClosed(p) \/ LeaveOnce(p) \/ CaptureIdle(p)
             \/ WaitReturns(p) \/ WaitExpires(p) \/ AlreadyClosed(p) \/ JoinManaged(p)
             \/ OwnManaged(p) \/ JoinManagedReturns(p) \/ JoinManagedExpires(p) \/ SettleManaged(p)
      PROVE  UNCHANGED << groupVars, xpc >>
  BY <1>12 DEF PassOnce, StreamsClosed, LeaveOnce, CaptureIdle, WaitReturns, WaitExpires,
     Fails, AlreadyClosed, JoinManaged, OwnManaged, JoinManagedReturns,
     JoinManagedExpires, SettleManaged
<1>13. ASSUME NEW p \in Closers,
             \/ Remembered(p) \/ JoinClose(p) \/ OwnClose(p) \/ JoinCloseReturns(p)
             \/ JoinCloseExpires(p) \/ StopSessionHeartbeat(p) \/ HeartbeatStopped(p) \/ Delete(p)
             \/ SettleClose(p)
      PROVE  UNCHANGED << groupVars, xpc >>
  BY <1>13 DEF Remembered, JoinClose, OwnClose, JoinCloseReturns, JoinCloseExpires,
     StopSessionHeartbeat, HeartbeatStopped, Delete, SettleClose
<1>14. ASSUME UNCHANGED vars
      PROVE  UNCHANGED << groupVars, xpc >>
  BY <1>14 DEF vars, closeVars
<1> QED BY <1>1, <1>2, <1>3, <1>4, <1>5, <1>6, <1>7, <1>8, <1>9, <1>10, <1>11, <1>12,
           <1>13, <1>14, Names
  DEF Next, Running, Goroutine, ManagerStep, OnceStep, ClientStep, OpenerStep, CloseSessionStep,
      CallerStep, Environment

\* Every step keeps the types.
LEMMA TypeStep ==
  ASSUME Types, GroupInv, [Next]_vars
  PROVE  Types'
<1> USE DEF Types, PCs, GoTo, groupVars, serverVars, clientVars, beatVars, channelVars,
        monitorVars, aliveVars, onceVars, mCall, memory, registryVars, closeVars,
        callVars, others
<1>1. CASE OpenSession
  BY <1>1, Names DEF OpenSession, RecordSession, Forget
<1>2. CASE Register \/ EnsureOpen
  <2>1. managed' \in BOOLEAN /\ lifecycleDone' \in BOOLEAN
    BY <1>2, Zenon DEF Register, EnsureOpen
  <2>2. \E step \in {"enterC", "ensure", "beat"} : GoTo(Opener, step)
    BY <1>2 DEF Register, EnsureOpen
  <2>3. UNCHANGED << xpc, seen, awaited, outcome, closeCalls, heartbeats, beat, mOwner, mComplete,
                     clientClosed >>
    BY <1>2 DEF Register, EnsureOpen
  <2> QED BY <2>1, <2>2, <2>3, Names
<1>3. CASE StartRunner \/ AssignRunner
  BY <1>3, Names DEF StartRunner, RegisterRunner, BeatTo, AssignRunner
<1>4. CASE Beats
  BY <1>4, Names DEF Beats, HeartbeatSucceeds, HeartbeatFails, HeartbeatFindsNoSession,
     HeartbeatEnds, BeatGoesOn, BeatFindsNoSession, BeatCancelled, Leave, BeatTo,
     Publish
<1>5. CASE MonitorStep
  BY <1>5, Names DEF MonitorStep, MonitorReads, MonitorEnds
<1>6. ASSUME NEW d \in Directs, StopHeartbeat(d) \/ StopReturns(d) \/ DirectClose(d)
      PROVE  Types'
  BY <1>6, Names DEF StopHeartbeat, CancelRunner, StopReturns, DirectClose
<1>7. ASSUME NEW u \in Users, UserClose(u) PROVE Types'
  <2>1. u \in Closers /\ GoTo(u, "once") /\ UNCHANGED << others, closeVars >>
    BY <1>7, Names DEF UserClose
  <2> QED BY <2>1
<1>8. CASE ClientClose
  <2>1. Client \in Closers /\ \E step \in {"once", "runners"} : GoTo(Client, step)
    BY <1>8, Names DEF ClientClose
  <2>2. clientClosed' = TRUE /\ lifecycleDone' = TRUE
    BY <1>8 DEF ClientClose
  <2>3. UNCHANGED << managed, aliveVars, closeVars, callVars >>
    BY <1>8 DEF ClientClose
  <2> QED BY <2>1, <2>2, <2>3
<1>23. CASE ClientStopsRunner \/ ClientDrained
  <2>1. Client \in Closers /\ \E step \in {"drain", "returned"} : GoTo(Client, step)
    BY <1>23, Names DEF ClientStopsRunner, ClientDrained
  <2>2. UNCHANGED << managed, clientClosed, lifecycleDone, heartbeats, beat, closeVars, callVars >>
    BY <1>23 DEF ClientStopsRunner, CancelRunner, ClientDrained
  <2> QED BY <2>1, <2>2
<1>24. CASE ServerExpires
  BY <1>24 DEF ServerExpires
<1>9. ASSUME NEW p \in Managers, EnterOnce(p) PROVE Types'
  BY <1>9, Names DEF EnterOnce, Stop
<1>25. ASSUME NEW p \in Managers, PassOnce(p) PROVE Types'
  BY <1>25, Names DEF PassOnce
<1>10. ASSUME NEW p \in Managers, NEW x \in Callers, CloseStream(p, x) PROVE Types'
  BY <1>10, Names DEF CloseStream, EndStream, XGoTo
<1>11. ASSUME NEW p \in Managers, StreamsClosed(p) \/ LeaveOnce(p) PROVE Types'
  BY <1>11, Names DEF StreamsClosed, CancelRunner, LeaveOnce
<1>12. ASSUME NEW p \in Managers, CaptureIdle(p) \/ WaitReturns(p) \/ WaitExpires(p)
      PROVE  Types'
  BY <1>12, Names DEF CaptureIdle, WaitReturns, Released, WaitExpires, Fails, Answer,
     Finished, GroupInv
<1>13. ASSUME NEW p \in Managers, AlreadyClosed(p) \/ JoinManaged(p) \/ OwnManaged(p)
      PROVE  Types'
  BY <1>13, Names DEF AlreadyClosed, Answer, Finished, JoinManaged, OwnManaged
<1>14. ASSUME NEW p \in Managers,
             \/ JoinManagedReturns(p) \/ JoinManagedExpires(p) \/ SettleManaged(p)
      PROVE  Types'
  <2>1. CASE SettleManaged(p)
    <3>1. managed' \in BOOLEAN /\ mComplete' \in BOOLEAN
      BY <2>1, Zenon DEF SettleManaged
    <3> QED BY <2>1, <3>1, Names DEF SettleManaged, Finished
  <2>2. CASE JoinManagedReturns(p) \/ JoinManagedExpires(p)
    BY <2>2, Names DEF JoinManagedReturns, Answer, Finished, JoinManagedExpires, Fails
  <2> QED BY <1>14, <2>1, <2>2
<1>15. ASSUME NEW p \in Closers, Remembered(p) \/ JoinClose(p) \/ OwnClose(p) PROVE Types'
  BY <1>15, Names DEF Remembered, Answer, Returned, JoinClose, OwnClose, OwnCloseCall
<1>16. ASSUME NEW p \in Closers, JoinCloseReturns(p) \/ JoinCloseExpires(p) PROVE Types'
  BY <1>16, Names DEF JoinCloseReturns, Answer, Returned, JoinCloseExpires
<1>17. ASSUME NEW p \in Closers, StopSessionHeartbeat(p) \/ HeartbeatStopped(p) PROVE Types'
  BY <1>17, Names DEF StopSessionHeartbeat, CancelRunner, HeartbeatStopped, Ended
<1>18. ASSUME NEW p \in Closers, Delete(p) PROVE Types'
  BY <1>18, Names DEF Delete, Answer
<1>19. ASSUME NEW p \in Closers, SettleClose(p) PROVE Types'
  BY <1>19, Names DEF SettleClose, SettleCloseCall, Remember, Returned
<1>20. ASSUME NEW x \in Callers, Call(x) \/ BeginCall(x) \/ RegisterCall(x) PROVE Types'
  BY <1>20, Names DEF Call, XGoTo, BeginCall, Begin, Refuse, RegisterCall,
     RegisterStream
<1>21. ASSUME NEW x \in Callers, CallReturns(x) \/ FinishStream(x) PROVE Types'
  BY <1>21, Names DEF CallReturns, End, XGoTo, FinishStream, EndStream
<1>22. CASE UNCHANGED vars
  BY <1>22 DEF vars
<1> QED BY <1>1, <1>2, <1>3, <1>4, <1>5, <1>6, <1>7, <1>8, <1>9, <1>10, <1>11, <1>12,
           <1>13, <1>14, <1>15, <1>16, <1>17, <1>18, <1>19, <1>20, <1>21, <1>22, <1>23, <1>24,
           <1>25, Names, ZenonT(60)
  DEF Next, Running, Goroutine, ManagerStep, OnceStep, ClientStep, OpenerStep, CloseSessionStep,
      CallerStep, Environment

\* From the end of its wait to its return a manager finds the session quiet:
\* no begin can come after the stop.
LEMMA ManagerStepInv ==
  ASSUME Types, GroupInv, ManagerInv, [Next]_vars
  PROVE  ManagerInv'
<1> USE DEF ManagerInv, Stopping, Drained, Types, GoTo, groupVars, serverVars,
        clientVars, beatVars, channelVars, monitorVars, aliveVars, onceVars, mCall,
        memory, registryVars, closeVars, callVars, others
<1>1. CASE OpenSession
  BY <1>1, Names DEF OpenSession, RecordSession, Forget
<1>2. CASE Register \/ EnsureOpen
  BY <1>2, Names DEF Register, EnsureOpen
<1>3. CASE StartRunner \/ AssignRunner
  BY <1>3, Names DEF StartRunner, RegisterRunner, BeatTo, AssignRunner
<1>4. CASE Beats
  BY <1>4, Names DEF Beats, HeartbeatSucceeds, HeartbeatFails, HeartbeatFindsNoSession,
     HeartbeatEnds, BeatGoesOn, BeatFindsNoSession, BeatCancelled, Leave, BeatTo,
     Publish
<1>5. CASE MonitorStep
  BY <1>5, Names DEF MonitorStep, MonitorReads, MonitorEnds
<1>6. ASSUME NEW d \in Directs, StopHeartbeat(d) \/ StopReturns(d) \/ DirectClose(d)
      PROVE  ManagerInv'
  BY <1>6, Names DEF StopHeartbeat, CancelRunner, StopReturns, DirectClose
<1>7. ASSUME NEW u \in Users, UserClose(u) PROVE ManagerInv'
  BY <1>7, Names DEF UserClose
<1>8. CASE ClientClose \/ ClientStopsRunner \/ ClientDrained \/ ServerExpires
  BY <1>8, Names DEF ClientClose, ClientStopsRunner, CancelRunner, ClientDrained,
     ServerExpires
<1>9. ASSUME NEW p \in Managers, EnterOnce(p) \/ PassOnce(p) PROVE ManagerInv'
  BY <1>9, Names DEF EnterOnce, Stop, PassOnce
<1>10. ASSUME NEW p \in Managers, NEW x \in Callers, CloseStream(p, x) PROVE ManagerInv'
  BY <1>10, Names, Quiet DEF CloseStream, EndStream, XGoTo
<1>11. ASSUME NEW p \in Managers, StreamsClosed(p) \/ LeaveOnce(p) PROVE ManagerInv'
  BY <1>11, Names DEF StreamsClosed, CancelRunner, LeaveOnce
<1>12. ASSUME NEW p \in Managers, CaptureIdle(p) \/ WaitReturns(p) \/ WaitExpires(p)
      PROVE  ManagerInv'
  BY <1>12, Names DEF CaptureIdle, WaitReturns, Released, WaitExpires, Fails, Answer,
     Finished, GroupInv
<1>13. ASSUME NEW p \in Managers, AlreadyClosed(p) \/ JoinManaged(p) \/ OwnManaged(p)
      PROVE  ManagerInv'
  BY <1>13, Names DEF AlreadyClosed, Answer, Finished, JoinManaged, OwnManaged
<1>14. ASSUME NEW p \in Managers,
             \/ JoinManagedReturns(p) \/ JoinManagedExpires(p) \/ SettleManaged(p)
      PROVE  ManagerInv'
  BY <1>14, Names DEF JoinManagedReturns, Answer, Finished, JoinManagedExpires, Fails,
     SettleManaged
<1>15. ASSUME NEW p \in Closers, Remembered(p) \/ JoinClose(p) \/ OwnClose(p)
      PROVE  ManagerInv'
  BY <1>15, Names DEF Remembered, Answer, Returned, JoinClose, OwnClose, OwnCloseCall
<1>16. ASSUME NEW p \in Closers, JoinCloseReturns(p) \/ JoinCloseExpires(p)
      PROVE  ManagerInv'
  BY <1>16, Names DEF JoinCloseReturns, Answer, Returned, JoinCloseExpires
<1>17. ASSUME NEW p \in Closers, StopSessionHeartbeat(p) \/ HeartbeatStopped(p)
      PROVE  ManagerInv'
  BY <1>17, Names DEF StopSessionHeartbeat, CancelRunner, HeartbeatStopped, Ended
<1>18. ASSUME NEW p \in Closers, Delete(p) PROVE ManagerInv'
  BY <1>18, Names DEF Delete, Answer
<1>19. ASSUME NEW p \in Closers, SettleClose(p) PROVE ManagerInv'
  BY <1>19, Names DEF SettleClose, SettleCloseCall, Remember, Returned
<1>20. ASSUME NEW x \in Callers, Call(x) \/ BeginCall(x) \/ RegisterCall(x)
      PROVE  ManagerInv'
  BY <1>20, Names DEF Call, XGoTo, BeginCall, Begin, Refuse, RegisterCall,
     RegisterStream
<1>21. ASSUME NEW x \in Callers, CallReturns(x) \/ FinishStream(x) PROVE ManagerInv'
  BY <1>21, Names, Quiet DEF CallReturns, End, XGoTo, FinishStream, EndStream
<1>22. CASE UNCHANGED vars
  BY <1>22 DEF vars
<1> QED BY <1>1, <1>2, <1>3, <1>4, <1>5, <1>6, <1>7, <1>8, <1>9, <1>10, <1>11, <1>12,
           <1>13, <1>14, <1>15, <1>16, <1>17, <1>18, <1>19, <1>20, <1>21, <1>22, Names
  DEF Next, Running, Goroutine, ManagerStep, OnceStep, ClientStep, OpenerStep, CloseSessionStep,
      CallerStep, Environment

\* Only one goroutine at a time is between the two critical sections of
\* CloseSession: it is the one registered in c.closeCalls.
LEMMA CallStep ==
  ASSUME Types, CallInv, [Next]_vars
  PROVE  CallInv'
<1> USE DEF CallInv, Closing, Types, GoTo, groupVars, serverVars, clientVars, beatVars,
        channelVars, monitorVars, aliveVars, onceVars, mCall, memory, registryVars,
        closeVars, callVars, others
<1>1. CASE OpenSession
  BY <1>1, Names DEF OpenSession, RecordSession, Forget
<1>2. CASE Register \/ EnsureOpen
  BY <1>2, Names DEF Register, EnsureOpen
<1>3. CASE StartRunner \/ AssignRunner
  BY <1>3, Names DEF StartRunner, RegisterRunner, BeatTo, AssignRunner
<1>4. CASE Beats
  BY <1>4, Names DEF Beats, HeartbeatSucceeds, HeartbeatFails, HeartbeatFindsNoSession,
     HeartbeatEnds, BeatGoesOn, BeatFindsNoSession, BeatCancelled, Leave, BeatTo,
     Publish
<1>5. CASE MonitorStep
  BY <1>5, Names DEF MonitorStep, MonitorReads, MonitorEnds
<1>6. ASSUME NEW d \in Directs, StopHeartbeat(d) \/ StopReturns(d) \/ DirectClose(d)
      PROVE  CallInv'
  BY <1>6, Names DEF StopHeartbeat, CancelRunner, StopReturns, DirectClose
<1>7. ASSUME NEW u \in Users, UserClose(u) PROVE CallInv'
  BY <1>7, Names DEF UserClose
<1>8. CASE ClientClose \/ ClientStopsRunner \/ ClientDrained \/ ServerExpires
  BY <1>8, Names DEF ClientClose, ClientStopsRunner, CancelRunner, ClientDrained,
     ServerExpires
<1>9. ASSUME NEW p \in Managers, EnterOnce(p) \/ PassOnce(p) PROVE CallInv'
  BY <1>9, Names DEF EnterOnce, Stop, PassOnce
<1>10. ASSUME NEW p \in Managers, NEW x \in Callers, CloseStream(p, x) PROVE CallInv'
  BY <1>10, Names DEF CloseStream, EndStream, XGoTo
<1>11. ASSUME NEW p \in Managers, StreamsClosed(p) \/ LeaveOnce(p) PROVE CallInv'
  BY <1>11, Names DEF StreamsClosed, CancelRunner, LeaveOnce
<1>12. ASSUME NEW p \in Managers, CaptureIdle(p) \/ WaitReturns(p) \/ WaitExpires(p)
      PROVE  CallInv'
  BY <1>12, Names DEF CaptureIdle, WaitReturns, Released, WaitExpires, Fails, Answer,
     Finished
<1>13. ASSUME NEW p \in Managers, AlreadyClosed(p) \/ JoinManaged(p) \/ OwnManaged(p)
      PROVE  CallInv'
  BY <1>13, Names DEF AlreadyClosed, Answer, Finished, JoinManaged, OwnManaged
<1>14. ASSUME NEW p \in Managers,
             \/ JoinManagedReturns(p) \/ JoinManagedExpires(p) \/ SettleManaged(p)
      PROVE  CallInv'
  BY <1>14, Names DEF JoinManagedReturns, Answer, Finished, JoinManagedExpires, Fails,
     SettleManaged
<1>15. ASSUME NEW p \in Closers, Remembered(p) \/ JoinClose(p) \/ OwnClose(p) PROVE CallInv'
  BY <1>15, Names DEF Remembered, Answer, Returned, JoinClose, OwnClose, OwnCloseCall
<1>16. ASSUME NEW p \in Closers, JoinCloseReturns(p) \/ JoinCloseExpires(p) PROVE CallInv'
  BY <1>16, Names DEF JoinCloseReturns, Answer, Returned, JoinCloseExpires
<1>17. ASSUME NEW p \in Closers, StopSessionHeartbeat(p) \/ HeartbeatStopped(p)
      PROVE  CallInv'
  BY <1>17, Names DEF StopSessionHeartbeat, CancelRunner, HeartbeatStopped, Ended
<1>18. ASSUME NEW p \in Closers, Delete(p) PROVE CallInv'
  BY <1>18, Names DEF Delete, Answer
<1>19. ASSUME NEW p \in Closers, SettleClose(p) PROVE CallInv'
  BY <1>19, Names DEF SettleClose, SettleCloseCall, Remember, Returned
<1>20. ASSUME NEW x \in Callers, Call(x) \/ BeginCall(x) \/ RegisterCall(x) PROVE CallInv'
  BY <1>20, Names DEF Call, XGoTo, BeginCall, Begin, Refuse, RegisterCall,
     RegisterStream
<1>21. ASSUME NEW x \in Callers, CallReturns(x) \/ FinishStream(x) PROVE CallInv'
  BY <1>21, Names DEF CallReturns, End, XGoTo, FinishStream, EndStream
<1>22. CASE UNCHANGED vars
  BY <1>22 DEF vars
<1> QED BY <1>1, <1>2, <1>3, <1>4, <1>5, <1>6, <1>7, <1>8, <1>9, <1>10, <1>11, <1>12,
           <1>13, <1>14, <1>15, <1>16, <1>17, <1>18, <1>19, <1>20, <1>21, <1>22, Names
  DEF Next, Running, Goroutine, ManagerStep, OnceStep, ClientStep, OpenerStep, CloseSessionStep,
      CallerStep, Environment

\* The heartbeat of a session that others may close has been started, and
\* whoever deletes the session has seen it end.
LEMMA BeatStep ==
  ASSUME Types, BeatInv, [Next]_vars
  PROVE  BeatInv'
<1> USE DEF BeatInv, Types, GoTo, groupVars, serverVars, clientVars, beatVars,
        channelVars, monitorVars, aliveVars, onceVars, mCall, memory, registryVars,
        closeVars, callVars, others
<1>1. CASE OpenSession
  <2>1. pc[Opener] = "open" /\ \E step \in {"register", "failed"} : GoTo(Opener, step)
    BY <1>1 DEF OpenSession
  <2>2. UNCHANGED << beat, heartbeats, clientClosed, lifecycleDone, managed, awaited >>
    BY <1>1 DEF OpenSession
  <2> QED BY <2>1, <2>2, Names
<1>2. CASE Register \/ EnsureOpen
  BY <1>2, Names DEF Register, EnsureOpen
<1>3. CASE StartRunner \/ AssignRunner
  BY <1>3, Names DEF StartRunner, RegisterRunner, BeatTo, AssignRunner
<1>4. CASE Beats
  BY <1>4, Names DEF Beats, HeartbeatSucceeds, HeartbeatFails, HeartbeatFindsNoSession,
     HeartbeatEnds, BeatGoesOn, BeatFindsNoSession, BeatCancelled, Leave, BeatTo,
     Publish
<1>5. CASE MonitorStep
  BY <1>5, Names DEF MonitorStep, MonitorReads, MonitorEnds
<1>6. ASSUME NEW d \in Directs, StopHeartbeat(d) \/ StopReturns(d) \/ DirectClose(d)
      PROVE  BeatInv'
  BY <1>6, Names DEF StopHeartbeat, CancelRunner, StopReturns, DirectClose
<1>7. ASSUME NEW u \in Users, UserClose(u) PROVE BeatInv'
  BY <1>7, Names DEF UserClose
<1>8. CASE ClientClose \/ ClientStopsRunner \/ ClientDrained \/ ServerExpires
  BY <1>8, Names DEF ClientClose, ClientStopsRunner, CancelRunner, ClientDrained,
     ServerExpires
<1>9. ASSUME NEW p \in Managers, EnterOnce(p) \/ PassOnce(p) PROVE BeatInv'
  BY <1>9, Names DEF EnterOnce, Stop, PassOnce
<1>10. ASSUME NEW p \in Managers, NEW x \in Callers, CloseStream(p, x) PROVE BeatInv'
  BY <1>10, Names DEF CloseStream, EndStream, XGoTo
<1>11. ASSUME NEW p \in Managers, StreamsClosed(p) \/ LeaveOnce(p) PROVE BeatInv'
  BY <1>11, Names DEF StreamsClosed, CancelRunner, LeaveOnce
<1>12. ASSUME NEW p \in Managers, CaptureIdle(p) \/ WaitReturns(p) \/ WaitExpires(p)
      PROVE  BeatInv'
  BY <1>12, Names DEF CaptureIdle, WaitReturns, Released, WaitExpires, Fails, Answer,
     Finished
<1>13. ASSUME NEW p \in Managers, AlreadyClosed(p) \/ JoinManaged(p) \/ OwnManaged(p)
      PROVE  BeatInv'
  BY <1>13, Names DEF AlreadyClosed, Answer, Finished, JoinManaged, OwnManaged
<1>14. ASSUME NEW p \in Managers,
             \/ JoinManagedReturns(p) \/ JoinManagedExpires(p) \/ SettleManaged(p)
      PROVE  BeatInv'
  BY <1>14, Names DEF JoinManagedReturns, Answer, Finished, JoinManagedExpires, Fails,
     SettleManaged
<1>15. ASSUME NEW p \in Closers, Remembered(p) \/ JoinClose(p) \/ OwnClose(p) PROVE BeatInv'
  BY <1>15, Names DEF Remembered, Answer, Returned, JoinClose, OwnClose, OwnCloseCall
<1>16. ASSUME NEW p \in Closers, JoinCloseReturns(p) \/ JoinCloseExpires(p) PROVE BeatInv'
  BY <1>16, Names DEF JoinCloseReturns, Answer, Returned, JoinCloseExpires
<1>17. ASSUME NEW p \in Closers, StopSessionHeartbeat(p) \/ HeartbeatStopped(p)
      PROVE  BeatInv'
  BY <1>17, Names DEF StopSessionHeartbeat, CancelRunner, HeartbeatStopped, Ended, Ended
<1>18. ASSUME NEW p \in Closers, Delete(p) PROVE BeatInv'
  BY <1>18, Names DEF Delete, Answer
<1>19. ASSUME NEW p \in Closers, SettleClose(p) PROVE BeatInv'
  BY <1>19, Names DEF SettleClose, SettleCloseCall, Remember, Returned
<1>20. ASSUME NEW x \in Callers, Call(x) \/ BeginCall(x) \/ RegisterCall(x) PROVE BeatInv'
  BY <1>20, Names DEF Call, XGoTo, BeginCall, Begin, Refuse, RegisterCall,
     RegisterStream
<1>21. ASSUME NEW x \in Callers, CallReturns(x) \/ FinishStream(x) PROVE BeatInv'
  BY <1>21, Names DEF CallReturns, End, XGoTo, FinishStream, EndStream
<1>22. CASE UNCHANGED vars
  BY <1>22 DEF vars
<1> QED BY <1>1, <1>2, <1>3, <1>4, <1>5, <1>6, <1>7, <1>8, <1>9, <1>10, <1>11, <1>12,
           <1>13, <1>14, <1>15, <1>16, <1>17, <1>18, <1>19, <1>20, <1>21, <1>22, Names
  DEF Next, Running, Goroutine, ManagerStep, OnceStep, ClientStep, OpenerStep, CloseSessionStep,
      CallerStep, Environment

\* A success is reported, remembered or joined only when the session has gone,
\* and a session that has gone does not come back.
LEMMA TrueStep ==
  ASSUME Types, BeatInv, TrueInv, [Next]_vars
  PROVE  TrueInv'
<1> USE DEF TrueInv, Types, GoTo, groupVars, serverVars, clientVars, beatVars,
        channelVars, monitorVars, aliveVars, onceVars, mCall, memory, registryVars,
        closeVars, callVars, others
<1>1. CASE OpenSession
  <2>1. pc[Opener] = "open" /\ \E step \in {"register", "failed"} : GoTo(Opener, step)
    BY <1>1 DEF OpenSession
  <2>2. remembered' \subseteq remembered /\ UNCHANGED << outcome, mComplete >>
    BY <1>1 DEF OpenSession, RecordSession, Forget
  <2> QED BY <2>1, <2>2, Names
<1>2. CASE Register \/ EnsureOpen
  <2>1. pc[Opener] # "open" /\ UNCHANGED << session, remembered, outcome, mComplete >>
    BY <1>2 DEF Register, EnsureOpen
  <2>2. CASE clientClosed
    <3>1. GoTo(Opener, "enterC")
      BY <1>2, <2>2 DEF Register, EnsureOpen
    <3> QED BY <2>1, <3>1, Names
  <2>3. CASE Register /\ ~clientClosed
    <3>1. managed' = TRUE /\ GoTo(Opener, "ensure")
      BY <2>3 DEF Register
    <3> QED BY <2>1, <3>1, Names
  <2>4. CASE EnsureOpen /\ ~clientClosed
    <3>1. (managed' <=> managed) /\ pc[Opener] = "ensure" /\ GoTo(Opener, "beat")
      BY <2>4 DEF EnsureOpen
    <3> QED BY <2>1, <3>1, Names
  <2> QED BY <1>2, <2>2, <2>3, <2>4
<1>3. CASE StartRunner \/ AssignRunner
  BY <1>3, Names DEF StartRunner, RegisterRunner, BeatTo, AssignRunner
<1>4. CASE Beats
  BY <1>4, Names DEF Beats, HeartbeatSucceeds, HeartbeatFails, HeartbeatFindsNoSession,
     HeartbeatEnds, BeatGoesOn, BeatFindsNoSession, BeatCancelled, Leave, BeatTo,
     Publish
<1>5. CASE MonitorStep
  BY <1>5, Names DEF MonitorStep, MonitorReads, MonitorEnds
<1>6. ASSUME NEW d \in Directs, StopHeartbeat(d) \/ StopReturns(d) \/ DirectClose(d)
      PROVE  TrueInv'
  BY <1>6, Names DEF StopHeartbeat, CancelRunner, StopReturns, DirectClose
<1>7. ASSUME NEW u \in Users, UserClose(u) PROVE TrueInv'
  BY <1>7, Names DEF UserClose
<1>8. CASE ClientClose \/ ClientStopsRunner \/ ClientDrained \/ ServerExpires
  BY <1>8, Names DEF ClientClose, ClientStopsRunner, CancelRunner, ClientDrained,
     ServerExpires
<1>9. ASSUME NEW p \in Managers, EnterOnce(p) \/ PassOnce(p) PROVE TrueInv'
  BY <1>9, Names DEF EnterOnce, Stop, PassOnce
<1>10. ASSUME NEW p \in Managers, NEW x \in Callers, CloseStream(p, x) PROVE TrueInv'
  BY <1>10, Names DEF CloseStream, EndStream, XGoTo
<1>11. ASSUME NEW p \in Managers, StreamsClosed(p) \/ LeaveOnce(p) PROVE TrueInv'
  BY <1>11, Names DEF StreamsClosed, CancelRunner, LeaveOnce
<1>12. ASSUME NEW p \in Managers, CaptureIdle(p) \/ WaitReturns(p) \/ WaitExpires(p)
      PROVE  TrueInv'
  BY <1>12, Names DEF CaptureIdle, WaitReturns, Released, WaitExpires, Fails, Answer,
     Finished
<1>13. ASSUME NEW p \in Managers, AlreadyClosed(p) \/ JoinManaged(p) \/ OwnManaged(p)
      PROVE  TrueInv'
  BY <1>13, Names DEF AlreadyClosed, Answer, Finished, JoinManaged, OwnManaged
<1>14. ASSUME NEW p \in Managers,
             \/ JoinManagedReturns(p) \/ JoinManagedExpires(p) \/ SettleManaged(p)
      PROVE  TrueInv'
  BY <1>14, Names DEF JoinManagedReturns, Answer, Finished, JoinManagedExpires, Fails,
     SettleManaged
<1>15. ASSUME NEW p \in Closers, Remembered(p) \/ JoinClose(p) \/ OwnClose(p) PROVE TrueInv'
  BY <1>15, Names DEF Remembered, Answer, Returned, JoinClose, OwnClose, OwnCloseCall
<1>16. ASSUME NEW p \in Closers, JoinCloseReturns(p) \/ JoinCloseExpires(p) PROVE TrueInv'
  BY <1>16, Names DEF JoinCloseReturns, Answer, Returned, JoinCloseExpires
<1>17. ASSUME NEW p \in Closers, StopSessionHeartbeat(p) \/ HeartbeatStopped(p)
      PROVE  TrueInv'
  BY <1>17, Names DEF StopSessionHeartbeat, CancelRunner, HeartbeatStopped, Ended
<1>18. ASSUME NEW p \in Closers, Delete(p) PROVE TrueInv'
  BY <1>18, Names DEF Delete, Answer, BeatInv
<1>19. ASSUME NEW p \in Closers, SettleClose(p) PROVE TrueInv'
  BY <1>19, Names DEF SettleClose, SettleCloseCall, Remember, Returned
<1>20. ASSUME NEW x \in Callers, Call(x) \/ BeginCall(x) \/ RegisterCall(x) PROVE TrueInv'
  BY <1>20, Names DEF Call, XGoTo, BeginCall, Begin, Refuse, RegisterCall,
     RegisterStream
<1>21. ASSUME NEW x \in Callers, CallReturns(x) \/ FinishStream(x) PROVE TrueInv'
  BY <1>21, Names DEF CallReturns, End, XGoTo, FinishStream, EndStream
<1>22. CASE UNCHANGED vars
  BY <1>22 DEF vars
<1> QED BY <1>1, <1>2, <1>3, <1>4, <1>5, <1>6, <1>7, <1>8, <1>9, <1>10, <1>11, <1>12,
           <1>13, <1>14, <1>15, <1>16, <1>17, <1>18, <1>19, <1>20, <1>21, <1>22, Names
  DEF Next, Running, Goroutine, ManagerStep, OnceStep, ClientStep, OpenerStep, CloseSessionStep,
      CallerStep, Environment

\* What a step leaves alone that neither opens the session nor takes the opener
\* or the client through CloseSession.
LeakFrame ==
  /\ closeCalls' = closeCalls
  /\ faulty' \in BOOLEAN /\ (faulty => faulty')
  /\ session' = session \/ session' = "closed"
  /\ pc[Opener] = "joinC" => awaited'[Opener] = awaited[Opener]
  /\ \A p \in Closers : pc[p] \in Closing => pc'[p] \in Closing
  /\ ~faulty' => \A p \in {Client, Opener} : pc'[p] = "settleC" => pc[p] = "settleC"
  /\ ~faulty' => \A step \in {"joinC", "failed"} : pc'[Opener] = step => pc[Opener] = step

LEMMA LeakKept ==
  ASSUME Types, LeakInv, LeakFrame
  PROVE  LeakInv'
<1>1. closeCalls[Handle] # None => closeCalls[Handle] \in Closers
  BY Names DEF Types
<1>2. closeCalls'[Handle] # None => pc'[closeCalls'[Handle]] \in Closing
  BY <1>1 DEF LeakInv, LeakFrame
<1>3. faulty' \in BOOLEAN /\ closeCalls' = closeCalls
  BY DEF LeakFrame
<1>4. ASSUME ~faulty'
      PROVE  /\ \A p \in {Client, Opener} : pc'[p] = "settleC" => session' = "closed"
             /\ pc'[Opener] = "joinC" =>
                  /\ awaited'[Opener] = Client
                  /\ closeCalls'[Handle] = Client \/ session' = "closed"
             /\ pc'[Opener] = "failed" => closeCalls'[Handle] = Client \/ session' # "open"
  <2>1. ~faulty /\ (session' = session \/ session' = "closed")
    BY <1>4 DEF LeakFrame
  <2>2. \A p \in {Client, Opener} : pc'[p] = "settleC" => session' = "closed"
    BY <1>4, <2>1 DEF LeakInv, LeakFrame
  <2>3. pc'[Opener] = "joinC" =>
          /\ awaited'[Opener] = Client
          /\ closeCalls'[Handle] = Client \/ session' = "closed"
    BY <1>3, <1>4, <2>1 DEF LeakInv, LeakFrame
  <2>4. pc'[Opener] = "failed" => closeCalls'[Handle] = Client \/ session' # "open"
    BY <1>3, <1>4, <2>1 DEF LeakInv, LeakFrame
  <2> QED BY <2>2, <2>3, <2>4
<1> QED BY <1>2, <1>3, <1>4 DEF LeakInv

\* A goroutine that goes to a step which is not one of CloseSession.
LEMMA LeakMoves ==
  ASSUME Types, LeakInv, NEW p \in Closers, pc[p] \notin Closing, NEW step, GoTo(p, step),
         step \notin {"joinC", "failed", "settleC"},
         pc[Opener] = "joinC" => awaited'[Opener] = awaited[Opener],
         faulty' \in BOOLEAN, faulty => faulty', closeCalls' = closeCalls,
         session' = session \/ session' = "closed"
  PROVE  LeakInv'
<1>1. \A q \in Closers : pc'[q] = IF q = p THEN step ELSE pc[q]
  BY DEF GoTo, Types
<1>2. Client \in Closers /\ Opener \in Closers
  BY Names
<1>3. \A q \in Closers : pc[q] \in Closing => pc'[q] \in Closing
  BY <1>1
<1>4. \A q \in {Client, Opener} : pc'[q] = "settleC" => pc[q] = "settleC"
  BY <1>1, <1>2
<1>5. \A s \in {"joinC", "failed"} : pc'[Opener] = s => pc[Opener] = s
  BY <1>1, <1>2
<1>6. LeakFrame
  BY <1>3, <1>4, <1>5 DEF LeakFrame
<1> QED BY <1>6, LeakKept

\* Going through CloseSession.
LEMMA LeakCloses ==
  ASSUME Types, CallInv, BeatInv, TrueInv, LeakInv, NEW p \in Closers,
         CloseSessionStep(p) \/ JoinCloseExpires(p)
  PROVE  LeakInv'
<1>0. /\ pc \in [Closers -> PCs] /\ awaited \in [Closers -> Closers \cup {None}]
      /\ outcome \in [Closers -> {"none", "ok", "err"}]
      /\ closeCalls \in [Handles -> Closers \cup {None}]
      /\ Client \in Closers /\ Opener \in Closers /\ Client # Opener /\ Handle \in Handles
      /\ None \notin Closers /\ faulty \in BOOLEAN
  BY Names DEF Types, LeakInv
<1> DEFINE after == CASE p \in Managers -> "settleM" [] p = Opener -> "failed"
                      [] OTHER -> "returned"
<1>1. /\ after \in {"settleM", "failed", "returned"}
      /\ after = "failed" <=> p = Opener
  BY Names
<1>2. Returned(p) <=> GoTo(p, after)
  BY DEF Returned
<1> HIDE DEF after
<1>3. \A step : GoTo(p, step) => \A q \in Closers : pc'[q] = IF q = p THEN step ELSE pc[q]
  BY <1>0 DEF GoTo
<1>4. \A q \in {Client, Opener} : q \in Closers
  BY <1>0
<1>5. ASSUME NEW step, GoTo(p, step), step \notin {"joinC", "failed", "settleC"},
             pc[p] \in Closing => step \in Closing, UNCHANGED << closeCalls, session >>,
             faulty' \in BOOLEAN, faulty => faulty',
             pc[Opener] = "joinC" => awaited'[Opener] = awaited[Opener]
      PROVE  LeakInv'
  <2>1. \A q \in Closers : pc[q] \in Closing => pc'[q] \in Closing
    BY <1>3, <1>5
  <2>2. \A q \in {Client, Opener} : pc'[q] = "settleC" => pc[q] = "settleC"
    BY <1>3, <1>4, <1>5
  <2>3. \A s \in {"joinC", "failed"} : pc'[Opener] = s => pc[Opener] = s
    BY <1>0, <1>3, <1>5
  <2>4. LeakFrame
    BY <1>5, <2>1, <2>2, <2>3 DEF LeakFrame
  <2> QED BY <2>4, LeakKept
\* The return of a goroutine that owns no close call.
<1>6. ASSUME GoTo(p, after), pc[p] \notin Closing, UNCHANGED << closeCalls, session >>,
             faulty' \in BOOLEAN, faulty => faulty',
             \A q \in Closers \ {p} : awaited'[q] = awaited[q],
             p = Opener /\ ~faulty' => closeCalls[Handle] = Client \/ session # "open"
      PROVE  LeakInv'
  <2>1. CASE p = Opener
    <3>1. pc'[Opener] = "failed" /\ \A q \in Closers \ {Opener} : pc'[q] = pc[q]
      BY <1>0, <1>1, <1>3, <1>6, <2>1
    <3>2. closeCalls'[Handle] # None => pc'[closeCalls'[Handle]] \in Closing
      BY <1>0, <1>6, <2>1, <3>1 DEF LeakInv
    <3>3. ~faulty' => \A q \in {Client, Opener} : pc'[q] = "settleC" => session' = "closed"
      BY <1>0, <1>6, <3>1 DEF LeakInv
    <3>4. ~faulty' => closeCalls'[Handle] = Client \/ session' # "open"
      BY <1>6, <2>1
    <3> QED BY <1>6, <3>1, <3>2, <3>3, <3>4 DEF LeakInv
  <2>2. CASE p # Opener
    <3>1. after \notin {"joinC", "failed", "settleC"}
      BY <1>1, <2>2
    <3> QED BY <1>0, <1>5, <1>6, <2>2, <3>1
  <2> QED BY <2>1, <2>2
<1>7. CASE Remembered(p)
  <2>1. pc[p] = "enterC" /\ GoTo(p, after) /\ session = "closed"
    BY <1>2, <1>7 DEF Remembered, TrueInv
  <2>2. UNCHANGED << closeCalls, session, faulty, awaited >>
    BY <1>7 DEF Remembered, others, serverVars, registryVars
  <2>3. pc[p] \notin Closing
    BY <2>1 DEF Closing
  <2> QED BY <1>0, <1>6, <2>1, <2>2, <2>3
<1>8. CASE JoinClose(p)
  <2>1. /\ pc[p] = "enterC" /\ closeCalls[Handle] # None /\ GoTo(p, "joinC")
        /\ awaited' = [awaited EXCEPT ![p] = closeCalls[Handle]]
        /\ UNCHANGED << closeCalls, session, faulty >>
    BY <1>8 DEF JoinClose, others, serverVars, registryVars
  <2>2. closeCalls[Handle] \in Closers /\ pc[closeCalls[Handle]] \in Closing
    BY <1>0, <2>1 DEF LeakInv
  <2>3. \A q \in Closers : pc'[q] = IF q = p THEN "joinC" ELSE pc[q]
    BY <1>3, <2>1
  <2>4. pc[p] \notin Closing
    BY <2>1 DEF Closing
  <2>5. pc'[closeCalls'[Handle]] \in Closing
    BY <2>1, <2>2, <2>3, <2>4
  <2>6. ~faulty' => \A q \in {Client, Opener} : pc'[q] = "settleC" => session' = "closed"
    BY <1>4, <2>1, <2>3 DEF LeakInv
  <2>7. ASSUME ~faulty', pc'[Opener] = "joinC"
        PROVE  awaited'[Opener] = Client /\ (closeCalls'[Handle] = Client \/ session' = "closed")
    <3>1. CASE p = Opener
      <4>1. closeCalls[Handle] \notin Visitors
        BY <2>1, <2>2, <3>1 DEF BeatInv, Closing
      <4>2. closeCalls[Handle] # Opener
        BY <2>1, <2>2, <2>4, <3>1
      <4>3. closeCalls[Handle] = Client
        BY <2>2, <4>1, <4>2, Names
      <4> QED BY <1>0, <2>1, <3>1, <4>3
    <3>2. CASE p # Opener
      <4>1. pc[Opener] = "joinC" /\ awaited'[Opener] = awaited[Opener]
        BY <1>0, <2>1, <2>3, <2>7, <3>2
      <4> QED BY <2>1, <2>7, <4>1 DEF LeakInv
    <3> QED BY <3>1, <3>2
  <2>8. ~faulty' /\ pc'[Opener] = "failed" => closeCalls'[Handle] = Client \/ session' # "open"
    BY <1>0, <2>1, <2>3 DEF LeakInv
  <2> QED BY <1>0, <2>1, <2>5, <2>6, <2>7, <2>8 DEF LeakInv
<1>9. CASE OwnClose(p)
  <2>1. /\ pc[p] = "enterC" /\ closeCalls[Handle] = None /\ GoTo(p, "stopC")
        /\ closeCalls' = [closeCalls EXCEPT ![Handle] = p]
        /\ UNCHANGED << session, faulty, awaited >>
    BY <1>9 DEF OwnClose, OwnCloseCall, others, serverVars
  <2>2. \A q \in Closers : pc'[q] = IF q = p THEN "stopC" ELSE pc[q]
    BY <1>3, <2>1
  <2>3. closeCalls'[Handle] = p /\ pc'[p] \in Closing
    BY <1>0, <2>1, <2>2 DEF Closing
  <2>4. ~faulty' => \A q \in {Client, Opener} : pc'[q] = "settleC" => session' = "closed"
    BY <1>4, <2>1, <2>2 DEF LeakInv
  <2>5. ~faulty' /\ pc'[Opener] = "joinC" => awaited'[Opener] = Client /\ session' = "closed"
    BY <1>0, <2>1, <2>2 DEF LeakInv
  <2>6. ~faulty' /\ pc'[Opener] = "failed" => session' # "open"
    BY <1>0, <2>1, <2>2 DEF LeakInv
  <2> QED BY <1>0, <2>1, <2>3, <2>4, <2>5, <2>6 DEF LeakInv
<1>10. CASE JoinCloseReturns(p)
  <2>1. /\ pc[p] = "joinC" /\ closeCalls[Handle] # awaited[p] /\ GoTo(p, after)
        /\ awaited' = [awaited EXCEPT ![p] = None]
        /\ UNCHANGED << closeCalls, session, faulty >>
    BY <1>2, <1>10 DEF JoinCloseReturns, others, serverVars, registryVars
  <2>2. p = Opener /\ ~faulty' => closeCalls[Handle] = Client \/ session # "open"
    BY <2>1 DEF LeakInv
  <2>3. pc[p] \notin Closing
    BY <2>1 DEF Closing
  <2>4. \A q \in Closers \ {p} : awaited'[q] = awaited[q]
    BY <1>0, <2>1
  <2> QED BY <1>0, <1>6, <2>1, <2>2, <2>3, <2>4
<1>11. CASE JoinCloseExpires(p)
  <2>1. /\ pc[p] = "joinC" /\ GoTo(p, after) /\ awaited' = [awaited EXCEPT ![p] = None]
        /\ faulty' = (faulty \/ p # Opener)
        /\ UNCHANGED << closeCalls, session >>
    BY <1>2, <1>11 DEF JoinCloseExpires, registryVars
  <2>2. faulty' \in BOOLEAN /\ (faulty => faulty')
    BY <1>0, <2>1, Zenon
  <2>3. p = Opener /\ ~faulty' => closeCalls[Handle] = Client \/ session # "open"
    BY <2>1, <2>2 DEF LeakInv
  <2>4. pc[p] \notin Closing
    BY <2>1 DEF Closing
  <2>5. \A q \in Closers \ {p} : awaited'[q] = awaited[q]
    BY <1>0, <2>1
  <2> QED BY <1>6, <2>1, <2>2, <2>3, <2>4, <2>5
<1>12. CASE StopSessionHeartbeat(p)
  <2>1. /\ pc[p] = "stopC" /\ GoTo(p, "haltC")
        /\ awaited' = [awaited EXCEPT ![p] = heartbeats[Handle]]
        /\ UNCHANGED << closeCalls, session, faulty >>
    BY <1>12 DEF StopSessionHeartbeat, serverVars, registryVars
  <2>2. pc[Opener] = "joinC" => awaited'[Opener] = awaited[Opener]
    BY <1>0, <2>1
  <2> QED BY <1>0, <1>5, <2>1, <2>2 DEF Closing
<1>13. CASE HeartbeatStopped(p)
  <2>1. /\ pc[p] = "haltC" /\ GoTo(p, "deleteC") /\ awaited' = [awaited EXCEPT ![p] = None]
        /\ UNCHANGED << closeCalls, session, faulty >>
    BY <1>13 DEF HeartbeatStopped, serverVars, registryVars
  <2>2. pc[Opener] = "joinC" => awaited'[Opener] = awaited[Opener]
    BY <1>0, <2>1
  <2> QED BY <1>0, <1>5, <2>1, <2>2 DEF Closing
<1>14. CASE Delete(p)
  <2>1. /\ pc[p] = "deleteC" /\ GoTo(p, "settleC") /\ UNCHANGED << closeCalls, awaited >>
    BY <1>14 DEF Delete, registryVars
  <2>2. session' \in {session, "closed"}
    BY <1>14 DEF Delete, serverVars
  <2>3. ~faulty' /\ p \in {Client, Opener} => session' = "closed"
    <3>1. p \in {Client, Opener} => faulty' = TRUE \/ session' = "closed"
      BY <1>14 DEF Delete, MayRequest, Internal
    <3> QED BY <3>1, Zenon
  <2>9. faulty' \in BOOLEAN /\ (~faulty' => ~faulty)
    <3>1. faulty' = faulty \/ faulty' = TRUE
      BY <1>14 DEF Delete, serverVars
    <3> QED BY <1>0, <3>1, Zenon
  <2>4. \A q \in Closers : pc'[q] = IF q = p THEN "settleC" ELSE pc[q]
    BY <1>3, <2>1
  <2>5. closeCalls'[Handle] # None => pc'[closeCalls'[Handle]] \in Closing
    BY <1>0, <2>1, <2>4 DEF LeakInv, Closing
  <2>6. ~faulty' => \A q \in {Client, Opener} : pc'[q] = "settleC" => session' = "closed"
    BY <1>4, <2>2, <2>3, <2>4, <2>9 DEF LeakInv
  <2>7. ~faulty' /\ pc'[Opener] = "joinC" =>
          awaited'[Opener] = Client /\ (closeCalls'[Handle] = Client \/ session' = "closed")
    BY <1>0, <2>1, <2>2, <2>4, <2>9 DEF LeakInv
  <2>8. ~faulty' /\ pc'[Opener] = "failed" => closeCalls'[Handle] = Client \/ session' # "open"
    BY <1>0, <2>1, <2>2, <2>4, <2>9 DEF LeakInv
  <2> QED BY <2>5, <2>6, <2>7, <2>8, <2>9 DEF LeakInv
<1>15. CASE SettleClose(p)
  <2>1. /\ pc[p] = "settleC" /\ GoTo(p, after)
        /\ closeCalls' = [closeCalls EXCEPT ![Handle] = None]
        /\ UNCHANGED << session, faulty, awaited >>
    BY <1>2, <1>15 DEF SettleClose, SettleCloseCall, others, serverVars
  <2>2. closeCalls'[Handle] = None /\ closeCalls[Handle] = p
    BY <1>0, <2>1 DEF CallInv, Closing
  <2>3. \A q \in Closers : pc'[q] = IF q = p THEN after ELSE pc[q]
    BY <1>3, <2>1
  <2>4. p \in {Client, Opener} /\ ~faulty => session = "closed"
    BY <2>1 DEF LeakInv
  <2>5. ~faulty' => \A q \in {Client, Opener} : pc'[q] = "settleC" => session' = "closed"
    BY <1>1, <1>4, <2>1, <2>3 DEF LeakInv
  <2>6. ~faulty' /\ pc'[Opener] = "joinC" => awaited'[Opener] = Client /\ session' = "closed"
    BY <1>0, <1>1, <2>1, <2>2, <2>3, <2>4 DEF LeakInv
  <2>7. ~faulty' /\ pc'[Opener] = "failed" => session' # "open"
    BY <1>0, <1>1, <2>1, <2>2, <2>3, <2>4 DEF LeakInv
  <2> QED BY <1>0, <2>1, <2>2, <2>5, <2>6, <2>7 DEF LeakInv
<1> QED BY <1>7, <1>8, <1>9, <1>10, <1>11, <1>12, <1>13, <1>14, <1>15 DEF CloseSessionStep

\* A failed opening left nothing, or a request of it was lost.
LEMMA LeakOpens ==
  ASSUME Types, CallInv, BeatInv, TrueInv, LeakInv, OpenerStep
  PROVE  LeakInv'
<1>0. Opener \in Closers /\ Client # Opener /\ faulty \in BOOLEAN /\ Client \in Closers
      /\ pc \in [Closers -> PCs]
  BY Names DEF LeakInv, Types
<1>1. pc[Opener] \in {"open", "register", "ensure", "beat", "assign"} /\ UNCHANGED awaited
      /\ closeCalls' = closeCalls
  BY DEF OpenerStep, OpenSession, Register, EnsureOpen, StartRunner, AssignRunner, closeVars,
     registryVars, RecordSession
<1>2. pc[Opener] \notin Closing
  BY <1>1 DEF Closing
<1>3. CASE OpenSession /\ GoTo(Opener, "failed")
  <2>1. session = "none" /\ (UNCHANGED serverVars \/ faulty' = TRUE)
    <3>1. pc[Opener] = "open" /\ session = "none"
      BY <1>3 DEF OpenSession, TrueInv
    <3>2. pc'[Opener] = "failed"
      BY <1>0, <1>3 DEF GoTo
    <3>3. ~GoTo(Opener, "register")
      BY <1>0, <3>2 DEF GoTo
    <3>4. UNCHANGED serverVars \/ faulty' = TRUE
      BY <1>3, <3>3, Zenon DEF OpenSession
    <3> QED BY <3>1, <3>4
  <2>2. \A q \in Closers : pc'[q] = IF q = Opener THEN "failed" ELSE pc[q]
    BY <1>0, <1>3 DEF GoTo
  <2>3. closeCalls'[Handle] # None => pc'[closeCalls'[Handle]] \in Closing
    BY <1>0, <1>1, <1>2, <2>2, Names DEF LeakInv, Types
  <2>4. ~faulty' => session' = "none" /\ ~faulty
    BY <1>0, <2>1 DEF serverVars
  <2>5. ~faulty' => \A q \in {Client, Opener} : pc'[q] = "settleC" => session' = "closed"
    BY <1>0, <2>1, <2>2, <2>4 DEF LeakInv
  <2>6. faulty' \in BOOLEAN
    BY <1>0, <2>1, Zenon DEF serverVars
  <2> QED BY <1>0, <2>2, <2>3, <2>4, <2>5, <2>6 DEF LeakInv
<1>4. CASE OpenSession /\ ~GoTo(Opener, "failed")
  <2>1. GoTo(Opener, "register") /\ UNCHANGED faulty /\ session = "none" /\ pc[Opener] = "open"
    BY <1>4 DEF OpenSession, TrueInv
  <2>2. \A q \in Closers : pc'[q] = IF q = Opener THEN "register" ELSE pc[q]
    BY <1>0, <2>1 DEF GoTo
  <2>3. closeCalls'[Handle] # None => pc'[closeCalls'[Handle]] \in Closing
    BY <1>0, <1>1, <1>2, <2>2, Names DEF LeakInv, Types
  <2>4. ~faulty' => \A q \in {Client, Opener} : pc'[q] # "settleC"
    BY <1>0, <2>1, <2>2 DEF LeakInv
  <2> QED BY <1>0, <2>1, <2>2, <2>3, <2>4 DEF LeakInv
<1>5. CASE ~OpenSession
  <2>1. \E step \in {"ensure", "enterC", "beat", "assign", "ready"} : GoTo(Opener, step)
    BY <1>5 DEF OpenerStep, Register, EnsureOpen, StartRunner, AssignRunner
  <2>2. UNCHANGED << session, faulty >>
    BY <1>5 DEF OpenerStep, Register, EnsureOpen, StartRunner, AssignRunner, serverVars
  <2> QED BY <1>0, <1>1, <1>2, <2>1, <2>2, LeakMoves
<1> QED BY <1>3, <1>4, <1>5

LEMMA LeakStep ==
  ASSUME Types, CallInv, BeatInv, TrueInv, LeakInv, [Next]_vars
  PROVE  LeakInv'
<1>0. faulty \in BOOLEAN /\ Client # Opener /\ Client \in Closers
  BY Names DEF LeakInv
<1>1. ASSUME UNCHANGED << closeCalls, faulty, session, awaited, pc >> PROVE LeakInv'
  <2>1. LeakFrame
    BY <1>0, <1>1 DEF LeakFrame
  <2> QED BY <2>1, LeakKept
<1> USE DEF serverVars, onceVars, mCall, registryVars, closeVars, others
<1>2. CASE Beats \/ MonitorStep \/ UNCHANGED vars
  BY <1>1, <1>2 DEF Beats, MonitorStep, MonitorReads, MonitorEnds, vars
<1>3. ASSUME NEW x \in Callers,
             \/ Call(x) \/ BeginCall(x) \/ RegisterCall(x) \/ CallReturns(x) \/ FinishStream(x)
             \/ \E p \in Managers : CloseStream(p, x)
      PROVE  LeakInv'
  <2>1. UNCHANGED << closeCalls, faulty, session, awaited, pc >>
    BY <1>3 DEF Call, BeginCall, RegisterCall, CallReturns, FinishStream, CloseStream
  <2> QED BY <1>1, <2>1
<1>4. CASE ServerExpires
  <2>1. UNCHANGED << closeCalls, faulty, awaited, pc >> /\ session' = "closed"
    BY <1>4 DEF ServerExpires
  <2>2. LeakFrame
    BY <1>0, <2>1 DEF LeakFrame
  <2> QED BY <2>2, LeakKept
<1>5. ASSUME NEW d \in Directs, StopHeartbeat(d) \/ StopReturns(d) \/ DirectClose(d)
      PROVE  LeakInv'
  <2>1. pc[d] \in {"idle", "stopH"} /\ \E step \in {"stopH", "returned", "enterC"} : GoTo(d, step)
    BY <1>5 DEF StopHeartbeat, StopReturns, DirectClose
  <2>2. UNCHANGED << closeCalls, faulty, session >> /\ d \in Closers /\ d # Opener
    BY <1>5, Names DEF StopHeartbeat, StopReturns, DirectClose
  <2>3. awaited'[Opener] = awaited[Opener]
    BY <1>5, <2>2, Names DEF StopHeartbeat, StopReturns, DirectClose, Types
  <2> QED BY <1>0, <2>1, <2>2, <2>3, LeakMoves DEF Closing
<1>6. ASSUME NEW u \in Users, UserClose(u) PROVE LeakInv'
  <2>1. pc[u] = "idle" /\ GoTo(u, "once") /\ u \in Closers
        /\ UNCHANGED << closeCalls, faulty, session, awaited >>
    BY <1>6, Names DEF UserClose
  <2> QED BY <1>0, <2>1, LeakMoves DEF Closing
<1>7. CASE ClientClose \/ ClientStep
  <2>1. /\ pc[Client] \in {"idle", "runners", "drain"}
        /\ \E step \in {"once", "runners", "drain", "returned"} : GoTo(Client, step)
    BY <1>7 DEF ClientClose, ClientStep, ClientStopsRunner, ClientDrained
  <2>2. UNCHANGED << closeCalls, faulty, session, awaited >>
    BY <1>7 DEF ClientClose, ClientStep, ClientStopsRunner, ClientDrained
  <2> QED BY <1>0, <2>1, <2>2, LeakMoves DEF Closing
<1>8. ASSUME NEW p \in Managers,
             \/ EnterOnce(p) \/ PassOnce(p) \/ StreamsClosed(p) \/ LeaveOnce(p)
             \/ CaptureIdle(p) \/ WaitReturns(p) \/ OwnManaged(p)
      PROVE  LeakInv'
  <2>1. /\ pc[p] \in {"once", "streams", "heartbeat", "health", "capture", "wait", "closeMu"}
        /\ \E step \in {"streams", "capture", "heartbeat", "health", "wait", "closeMu", "enterC"} :
             GoTo(p, step)
    BY <1>8 DEF EnterOnce, PassOnce, StreamsClosed, LeaveOnce, CaptureIdle, WaitReturns, OwnManaged
  <2>2. UNCHANGED << closeCalls, faulty, session, awaited >> /\ p \in Closers
    BY <1>8, Names DEF EnterOnce, PassOnce, StreamsClosed, LeaveOnce, CaptureIdle, WaitReturns,
       OwnManaged
  <2> QED BY <1>0, <2>1, <2>2, LeakMoves DEF Closing
<1>9. ASSUME NEW p \in Managers,
             \/ WaitExpires(p) \/ AlreadyClosed(p) \/ JoinManaged(p) \/ JoinManagedReturns(p)
             \/ JoinManagedExpires(p) \/ SettleManaged(p)
      PROVE  LeakInv'
  <2>1. /\ pc[p] \in {"wait", "closeMu", "joinM", "settleM"}
        /\ \E step \in {"runners", "returned", "joinM"} : GoTo(p, step)
    BY <1>9 DEF WaitExpires, Fails, AlreadyClosed, JoinManaged, JoinManagedReturns,
       JoinManagedExpires, SettleManaged, Finished
  <2>2. UNCHANGED << closeCalls, session >> /\ p \in Closers /\ p # Opener
    BY <1>9, Names DEF WaitExpires, Fails, AlreadyClosed, JoinManaged, JoinManagedReturns,
       JoinManagedExpires, SettleManaged
  <2>3. faulty' = faulty \/ faulty' = TRUE
    BY <1>9 DEF WaitExpires, Fails, AlreadyClosed, JoinManaged, JoinManagedReturns,
       JoinManagedExpires, SettleManaged
  <2>4. awaited'[Opener] = awaited[Opener]
    BY <1>9, <2>2, Names DEF WaitExpires, Fails, AlreadyClosed, JoinManaged, JoinManagedReturns,
       JoinManagedExpires, SettleManaged, Types
  <2>5. faulty' \in BOOLEAN /\ (faulty => faulty')
    BY <1>0, <2>3, Zenon
  <2> QED BY <2>1, <2>2, <2>4, <2>5, LeakMoves DEF Closing
<1>10. CASE OpenerStep
  BY <1>10, LeakOpens
<1>11. ASSUME NEW p \in Closers, CloseSessionStep(p) \/ JoinCloseExpires(p) PROVE LeakInv'
  BY <1>11, LeakCloses
<1> QED BY <1>2, <1>3, <1>4, <1>5, <1>6, <1>7, <1>8, <1>9, <1>10, <1>11, Names, ZenonT(60)
  DEF Next, Running, Goroutine, ManagerStep, OnceStep, CallerStep, Environment

\* The events differ.
LEMMA EventKinds ==
  /\ Success \in Events /\ Gone \in Events /\ NoEvent \in Events
  /\ Success.kind = "ok" /\ Gone.kind = "gone" /\ NoEvent.kind = "none"
  /\ \A n \in 1..FailureThreshold : Event("failed", n) \in Events
  /\ \A n : Event("failed", n).kind = "failed" /\ Event("failed", n).count = n
  /\ \A e \in Events : \/ e \in {NoEvent, Success, Gone}
                       \/ e.kind = "failed" /\ e.count \in 1..FailureThreshold
<1>1. Success \in Events /\ Gone \in Events /\ NoEvent \in Events
  BY DEF Events
<1>2. Success.kind = "ok" /\ Gone.kind = "gone" /\ NoEvent.kind = "none"
  BY DEF Event, NoEvent, Success, Gone
<1>3. \A n \in 1..FailureThreshold : Event("failed", n) \in Events
  BY DEF Events
<1>4. \A n : Event("failed", n).kind = "failed" /\ Event("failed", n).count = n
  BY DEF Event
<1>5. \A e \in Events : e \in {NoEvent, Success, Gone}
                       \/ \E n \in 1..FailureThreshold : e = Event("failed", n)
  BY DEF Events
<1>6. \A e \in Events : \/ e \in {NoEvent, Success, Gone}
                        \/ e.kind = "failed" /\ e.count \in 1..FailureThreshold
  BY <1>4, <1>5
<1> QED BY <1>1, <1>2, <1>3, <1>4, <1>6

\* What a step leaves alone that neither beats, reads an event nor closes.
HealthFrame ==
  /\ UNCHANGED << failures, event, health, beat >>
  /\ once' = once \/ once' # "done"
  /\ session = "closed" => session' = "closed"
  /\ Opener \in cancelled => Opener \in cancelled'
  /\ lifecycleDone => lifecycleDone' \/ beat[Opener] = "none"

LEMMA HealthKept ==
  ASSUME HealthInv, HealthFrame
  PROVE  HealthInv'
<1>1. failures' = failures /\ event' = event /\ health' = health /\ beat' = beat
  BY DEF HealthFrame
<1>2. HealthTypes'
  BY <1>1 DEF HealthInv, HealthTypes
<1>3. Alive(Opener)' => LiveInv'
  BY <1>1 DEF HealthInv, Alive, LiveInv
<1>4. beat[Opener] # "none" /\ ContextEnded => ContextEnded'
  BY DEF HealthFrame, ContextEnded
<1>5. /\ once' = "done" => health' = "closed"
      /\ event' = Gone \/ health' = "expired" => session' = "closed"
      /\ beat'[Opener] = "none" =>
           failures' = 0 /\ event' = NoEvent /\ health' \in {"healthy", "closed"}
  BY <1>1 DEF HealthInv, HealthFrame
<1>6. beat'[Opener] \in {"leaving", "done"} /\ ~ContextEnded' =>
        event' = Gone \/ (event' = NoEvent /\ health' \in {"expired", "closed"})
  BY <1>1, <1>4 DEF HealthInv
<1> QED BY <1>2, <1>3, <1>5, <1>6 DEF HealthInv

\* The runner begins with nothing said.
LEMMA HealthStarts ==
  ASSUME Types, BeatInv, HealthInv, StartRunner
  PROVE  HealthInv'
<1>1. beat[Opener] = "none" /\ beat'[Opener] = "waiting"
  BY Names DEF StartRunner, RegisterRunner, BeatTo, BeatInv, Types
<1>2. UNCHANGED << failures, event, health, session, once >>
  BY DEF StartRunner, channelVars, monitorVars, serverVars, closeVars, onceVars
<1>3. failures = 0 /\ event = NoEvent /\ health \in {"healthy", "closed"}
  BY <1>1 DEF HealthInv
<1>4. HealthTypes'
  BY <1>2 DEF HealthInv, HealthTypes
<1>5. LiveInv'
  BY <1>2, <1>3, ThresholdIsPositive, EventKinds DEF LiveInv
<1>6. /\ once' = "done" => health' = "closed"
      /\ event' = Gone \/ health' = "expired" => session' = "closed"
  BY <1>2 DEF HealthInv
<1> QED BY <1>1, <1>4, <1>5, <1>6 DEF HealthInv

\* Each heartbeat says what has become of it; the event it replaces said less.
LEMMA HealthBeats ==
  ASSUME Types, HealthInv, Beats
  PROVE  HealthInv'
<1>1. UNCHANGED << health, once, session, lifecycleDone >>
  BY DEF Beats, serverVars, clientVars, monitorVars, closeVars, onceVars
<1>2. failures \in 0..FailureThreshold /\ event \in Events
      /\ health \in {"healthy", "degraded", "expired", "closed"}
  BY DEF HealthInv, HealthTypes
<1>3. once' = "done" => health' = "closed"
  BY <1>1 DEF HealthInv
<1>4. ASSUME Alive(Opener)', LiveInv', failures' \in 0..FailureThreshold, event' \in Events,
             health' = "expired" => session' = "closed"
      PROVE  HealthInv'
  BY <1>1, <1>2, <1>3, <1>4 DEF HealthInv, HealthTypes, Alive, LiveInv
<1>5. health' = "expired" => session' = "closed"
  BY <1>1 DEF HealthInv
<1>6. CASE HeartbeatSucceeds
  <2>1. failures' = 0 /\ event' = Success /\ Alive(Opener)'
    BY <1>6 DEF HeartbeatSucceeds, BeatGoesOn, Publish, Alive, beatVars
  <2>2. LiveInv'
    BY <2>1, EventKinds DEF LiveInv
  <2> QED BY <1>4, <1>5, <2>1, <2>2, EventKinds, ThresholdIsPositive
<1>7. CASE HeartbeatFails
  <2>1. failures' = (IF failures < FailureThreshold THEN failures + 1 ELSE failures)
        /\ event' = Event("failed", failures') /\ Alive(Opener)'
    BY <1>7 DEF HeartbeatFails, BeatGoesOn, Publish, Alive, beatVars
  <2>2. failures' \in 1..FailureThreshold
    BY <1>2, <2>1, ThresholdIsPositive
  <2>3. event' \in Events /\ event'.kind = "failed" /\ event'.count = failures'
    BY <2>1, <2>2, EventKinds
  <2>4. event' # Gone /\ event' # Success /\ event' # NoEvent
    BY <2>3, EventKinds
  <2>5. LiveInv'
    BY <2>3, <2>4 DEF LiveInv
  <2>6. failures' \in 0..FailureThreshold
    BY <2>2, ThresholdIsPositive
  <2> QED BY <1>4, <1>5, <2>1, <2>3, <2>5, <2>6
<1>8. CASE HeartbeatFindsNoSession
  <2>1. session = "closed" /\ event' = Gone /\ failures' = failures /\ beat'[Opener] = "leaving"
    BY <1>8, Names DEF HeartbeatFindsNoSession, BeatFindsNoSession, Publish, BeatTo, Types
  <2>2. HealthTypes'
    BY <1>1, <1>2, <2>1, EventKinds DEF HealthTypes
  <2>3. event' = Gone \/ health' = "expired" => session' = "closed"
    BY <1>1, <2>1
  <2> QED BY <1>3, <2>1, <2>2, <2>3 DEF HealthInv, Alive
<1>9. CASE HeartbeatEnds
  <2>1. event' = event /\ failures' \in 0..FailureThreshold
    BY <1>2, <1>9, ThresholdIsPositive DEF HeartbeatEnds
  <2>2. HealthTypes'
    BY <1>1, <1>2, <2>1 DEF HealthTypes
  <2>3. event' = Gone \/ health' = "expired" => session' = "closed"
    BY <1>1, <2>1 DEF HealthInv
  <2>4. /\ \/ beat[Opener] = "waiting" /\ ContextEnded /\ beat'[Opener] = "leaving"
           \/ beat[Opener] = "leaving" /\ beat'[Opener] = "done"
        /\ UNCHANGED cancelled
    BY <1>9, Names DEF HeartbeatEnds, BeatCancelled, Leave, BeatTo, Types
  <2>5. ContextEnded' <=> ContextEnded
    BY <1>1, <2>4 DEF ContextEnded
  <2>6. ~ContextEnded' => event' = Gone \/ (event' = NoEvent /\ health' \in {"expired", "closed"})
    BY <1>1, <2>1, <2>4, <2>5 DEF HealthInv
  <2> QED BY <1>3, <2>2, <2>3, <2>4, <2>6 DEF HealthInv, Alive
<1> QED BY <1>6, <1>7, <1>8, <1>9 DEF Beats

\* The monitor takes over what the event it reads says.
LEMMA HealthReads ==
  ASSUME Types, HealthInv, MonitorReads
  PROVE  HealthInv'
<1>1. /\ health' = HealthAfter(event) /\ event' = NoEvent /\ event # NoEvent
      /\ UNCHANGED << failures, once, session, lifecycleDone, beat, cancelled >>
  BY DEF MonitorReads, serverVars, clientVars, beatVars, closeVars, onceVars
<1>2. /\ failures \in 0..FailureThreshold /\ event \in Events
      /\ health \in {"healthy", "degraded", "expired", "closed"}
  BY DEF HealthInv, HealthTypes
<1>3. CASE health = "closed"
  <2>1. health' = "closed"
    BY <1>1, <1>3 DEF HealthAfter
  <2>2. HealthTypes'
    BY <1>1, <1>2, <2>1, EventKinds DEF HealthTypes
  <2>3. Alive(Opener)' => LiveInv'
    BY <1>1, <2>1, EventKinds DEF LiveInv
  <2> QED BY <1>1, <2>1, <2>2, <2>3, EventKinds DEF HealthInv
<1>4. CASE health # "closed" /\ event = Gone
  <2>1. health' = "expired"
    BY <1>1, <1>4, EventKinds DEF HealthAfter
  <2>2. HealthTypes'
    BY <1>1, <1>2, <2>1, EventKinds DEF HealthTypes
  <2>3. ~Alive(Opener) /\ beat[Opener] # "none" /\ session = "closed" /\ once # "done"
    BY <1>1, <1>4 DEF HealthInv, LiveInv
  <2> QED BY <1>1, <2>1, <2>2, <2>3 DEF HealthInv, Alive
<1>5. CASE health # "closed" /\ event # Gone
  <2>1. event = Success \/ (event.kind = "failed" /\ event.count \in 1..FailureThreshold)
    BY <1>1, <1>2, <1>5, EventKinds
  <2>2. /\ event = Success => health' = IF health = "degraded" THEN "healthy" ELSE health
        /\ event.kind = "failed" => health' = IF event.count >= FailureThreshold THEN "degraded"
                                              ELSE health
    BY <1>1, <1>5, EventKinds DEF HealthAfter
  <2>3. HealthTypes'
    BY <1>1, <1>2, <2>1, <2>2, EventKinds DEF HealthTypes
  <2>4. once # "done" /\ beat[Opener] # "none"
    BY <1>1, <1>5 DEF HealthInv
  <2>5. health' = "expired" => session' = "closed"
    BY <1>1, <2>1, <2>2 DEF HealthInv
  <2>6. ASSUME Alive(Opener) PROVE LiveInv'
    <3>1. LiveInv
      BY <2>6 DEF HealthInv
    <3>2. CASE event = Success
      <4>1. failures' = 0 /\ health' # "degraded"
        BY <1>1, <2>2, <3>1, <3>2 DEF LiveInv
      <4> QED BY <1>1, <4>1, ThresholdIsPositive, EventKinds DEF LiveInv
    <3>3. CASE event.kind = "failed" /\ event.count \in 1..FailureThreshold
      <4>1. failures' = event.count
        BY <1>1, <3>1, <3>3 DEF LiveInv
      <4>2. failures' > 0 /\ (health' = "healthy" => failures' < FailureThreshold)
        BY <2>2, <3>3, <4>1, ThresholdIsPositive
      <4> QED BY <1>1, <4>2, EventKinds DEF LiveInv
    <3> QED BY <2>1, <3>2, <3>3
  <2>7. beat[Opener] \in {"leaving", "done"} => ContextEnded
    BY <1>1, <1>5 DEF HealthInv
  <2>8. ContextEnded' <=> ContextEnded
    BY <1>1 DEF ContextEnded
  <2>9. event' # Gone
    BY <1>1, EventKinds
  <2>10. Alive(Opener)' <=> Alive(Opener)
    BY <1>1 DEF Alive
  <2> QED BY <1>1, <2>3, <2>4, <2>5, <2>6, <2>7, <2>8, <2>9, <2>10 DEF HealthInv
<1> QED BY <1>3, <1>4, <1>5

\* Past the once the session is closed, and stays so.
LEMMA HealthCloses ==
  ASSUME HealthInv, NEW p, LeaveOnce(p)
  PROVE  HealthInv'
<1>1. health' = "closed"
      /\ UNCHANGED << failures, event, session, lifecycleDone, beat, cancelled >>
  BY DEF LeaveOnce, serverVars, clientVars, beatVars, channelVars
<1>2. HealthTypes'
  BY <1>1 DEF HealthInv, HealthTypes
<1>3. Alive(Opener)' => LiveInv'
  BY <1>1 DEF HealthInv, Alive, LiveInv
<1>4. ContextEnded' <=> ContextEnded
  BY <1>1 DEF ContextEnded
<1> QED BY <1>1, <1>2, <1>3, <1>4 DEF HealthInv

LEMMA HealthStep ==
  ASSUME Types, BeatInv, TrueInv, HealthInv, [Next]_vars
  PROVE  HealthInv'
<1>0. ASSUME UNCHANGED << failures, event, health, beat >>,
             once' = once \/ once' # "done", session = "closed" => session' = "closed",
             Opener \in cancelled => Opener \in cancelled',
             lifecycleDone => lifecycleDone' \/ beat[Opener] = "none"
      PROVE  HealthInv'
  BY <1>0, HealthKept DEF HealthFrame
<1> USE DEF serverVars, clientVars, beatVars, channelVars, monitorVars, aliveVars, onceVars,
        closeVars, others
<1>1. CASE OpenSession
  <2>1. session # "closed"
    BY <1>1 DEF OpenSession, TrueInv
  <2>2. UNCHANGED << failures, event, health, beat, once, cancelled, lifecycleDone >>
    BY <1>1 DEF OpenSession
  <2> QED BY <1>0, <2>1, <2>2
<1>2. CASE Register \/ EnsureOpen
  <2>1. beat[Opener] = "none"
    BY <1>2 DEF Register, EnsureOpen, BeatInv
  <2>2. UNCHANGED << failures, event, health, beat, once, cancelled, session >>
    BY <1>2 DEF Register, EnsureOpen
  <2> QED BY <1>0, <2>1, <2>2
<1>3. CASE AssignRunner
  BY <1>0, <1>3 DEF AssignRunner
<1>4. CASE MonitorEnds
  BY <1>0, <1>4 DEF MonitorEnds
<1>5. ASSUME NEW d \in Directs, StopHeartbeat(d) \/ StopReturns(d) \/ DirectClose(d)
      PROVE  HealthInv'
  <2>1. UNCHANGED << failures, event, health, beat, once, session, lifecycleDone >>
        /\ (Opener \in cancelled => Opener \in cancelled')
    BY <1>5 DEF StopHeartbeat, CancelRunner, StopReturns, DirectClose
  <2> QED BY <1>0, <2>1
<1>6. ASSUME NEW u \in Users, UserClose(u) PROVE HealthInv'
  BY <1>0, <1>6 DEF UserClose
<1>7. CASE ClientClose \/ ClientStopsRunner \/ ClientDrained \/ ServerExpires
  <2>1. /\ UNCHANGED << failures, event, health, beat, once >>
        /\ session = "closed" => session' = "closed"
        /\ Opener \in cancelled => Opener \in cancelled'
        /\ lifecycleDone => lifecycleDone'
    BY <1>7 DEF ClientClose, ClientStopsRunner, CancelRunner, ClientDrained, ServerExpires
  <2> QED BY <1>0, <2>1
<1>8. ASSUME NEW p \in Managers, EnterOnce(p) \/ PassOnce(p) PROVE HealthInv'
  <2>1. /\ UNCHANGED << failures, event, health, beat, session, cancelled >>
        /\ once' = once \/ once' # "done"
        /\ lifecycleDone => lifecycleDone'
    BY <1>8 DEF EnterOnce, PassOnce
  <2> QED BY <1>0, <2>1
<1>9. ASSUME NEW p \in Managers, NEW x \in Callers, CloseStream(p, x) PROVE HealthInv'
  BY <1>0, <1>9 DEF CloseStream
<1>10. ASSUME NEW p \in Managers, StreamsClosed(p) PROVE HealthInv'
  <2>1. UNCHANGED << failures, event, health, beat, once, session, lifecycleDone >>
        /\ (Opener \in cancelled => Opener \in cancelled')
    BY <1>10 DEF StreamsClosed, CancelRunner
  <2> QED BY <1>0, <2>1
<1>11. ASSUME NEW p \in Managers, CaptureIdle(p) \/ WaitReturns(p) \/ WaitExpires(p)
       PROVE  HealthInv'
  <2>1. UNCHANGED << failures, event, health, beat, once, session, lifecycleDone, cancelled >>
    BY <1>11 DEF CaptureIdle, WaitReturns, WaitExpires, Fails
  <2> QED BY <1>0, <2>1
<1>12. ASSUME NEW p \in Managers,
              \/ AlreadyClosed(p) \/ JoinManaged(p) \/ OwnManaged(p)
              \/ JoinManagedReturns(p) \/ JoinManagedExpires(p) \/ SettleManaged(p)
       PROVE  HealthInv'
  <2>1. UNCHANGED << failures, event, health, beat, once, session, lifecycleDone, cancelled >>
    BY <1>12 DEF AlreadyClosed, JoinManaged, OwnManaged, JoinManagedReturns, JoinManagedExpires,
       Fails, SettleManaged
  <2> QED BY <1>0, <2>1
<1>13. ASSUME NEW p \in Closers,
              \/ Remembered(p) \/ JoinClose(p) \/ OwnClose(p) \/ JoinCloseReturns(p)
              \/ JoinCloseExpires(p) \/ HeartbeatStopped(p) \/ SettleClose(p)
       PROVE  HealthInv'
  <2>1. UNCHANGED << failures, event, health, beat, once, session, lifecycleDone, cancelled >>
    BY <1>13 DEF Remembered, JoinClose, OwnClose, JoinCloseReturns, JoinCloseExpires,
       HeartbeatStopped, SettleClose
  <2> QED BY <1>0, <2>1
<1>14. ASSUME NEW p \in Closers, StopSessionHeartbeat(p) PROVE HealthInv'
  <2>1. UNCHANGED << failures, event, health, beat, once, session, lifecycleDone >>
        /\ (Opener \in cancelled => Opener \in cancelled')
    BY <1>14 DEF StopSessionHeartbeat, CancelRunner
  <2> QED BY <1>0, <2>1
<1>15. ASSUME NEW p \in Closers, Delete(p) PROVE HealthInv'
  <2>1. /\ UNCHANGED << failures, event, health, beat, once, lifecycleDone, cancelled >>
        /\ session = "closed" => session' = "closed"
    BY <1>15 DEF Delete
  <2> QED BY <1>0, <2>1
<1>16. ASSUME NEW x \in Callers,
              \/ Call(x) \/ BeginCall(x) \/ RegisterCall(x) \/ CallReturns(x) \/ FinishStream(x)
       PROVE  HealthInv'
  <2>1. UNCHANGED << failures, event, health, beat, once, session, lifecycleDone, cancelled >>
    BY <1>16 DEF Call, BeginCall, RegisterCall, CallReturns, FinishStream
  <2> QED BY <1>0, <2>1
<1>17. CASE UNCHANGED vars
  BY <1>0, <1>17 DEF vars
<1>18. CASE StartRunner
  BY <1>18, HealthStarts
<1>19. CASE Beats
  BY <1>19, HealthBeats
<1>20. CASE MonitorReads
  BY <1>20, HealthReads
<1>21. ASSUME NEW p \in Managers, LeaveOnce(p) PROVE HealthInv'
  BY <1>21, HealthCloses
<1> QED BY <1>1, <1>2, <1>3, <1>4, <1>5, <1>6, <1>7, <1>8, <1>9, <1>10, <1>11, <1>12,
           <1>13, <1>14, <1>15, <1>16, <1>17, <1>18, <1>19, <1>20, <1>21, Names, ZenonT(60)
  DEF Next, Running, Goroutine, ManagerStep, OnceStep, ClientStep, OpenerStep, CloseSessionStep,
      CallerStep, Environment, MonitorStep

-----------------------------------------------------------------------------
IInv ==
  Types /\ GroupInv /\ ManagerInv /\ CallInv /\ BeatInv /\ TrueInv /\ LeakInv /\ HealthInv

LEMMA InitInv == Init => IInv
<1> SUFFICES ASSUME Init PROVE IInv
  OBVIOUS
<1> USE Names DEF Init
<1>1. Types
  BY DEF Types, PCs, RegistryInit, HeartbeatInit
<1>2. GroupInv
  <2>1. Counted = {}
    BY DEF Counted
  <2>2. Cardinality(Counted) = 0
    BY <2>1, CountedSize
  <2>3. closed = FALSE /\ active = 0 /\ idle = 0 /\ shut = {0}
    BY DEF GroupInit
  <2>4. (idle \in shut <=> active = 0) /\ \A ch \in shut : ch \in Nat /\ ch <= idle
    BY <2>3
  <2>5. closed \in BOOLEAN /\ idle \in Nat
    BY <2>3
  <2> QED BY ONLY <2>2, <2>3, <2>4, <2>5 DEF GroupInv
<1>3. ManagerInv
  BY DEF ManagerInv, Stopping, Drained
<1>4. CallInv
  BY DEF CallInv, Closing
<1>5. BeatInv
  BY DEF BeatInv, HeartbeatInit
<1>6. TrueInv
  BY DEF TrueInv, RegistryInit
<1>7. LeakInv
  BY DEF LeakInv, RegistryInit
<1>8. HealthInv
  <2>1. /\ failures = 0 /\ event = NoEvent /\ health = "healthy" /\ once = "new"
        /\ beat[Opener] = "none"
    BY DEF HeartbeatInit
  <2>2. HealthTypes
    BY <2>1, ThresholdIsPositive, EventKinds DEF HealthTypes
  <2>3. ~Alive(Opener) /\ event # Gone
    BY <2>1, EventKinds DEF Alive
  <2> QED BY <2>1, <2>2, <2>3 DEF HealthInv
<1> QED BY <1>1, <1>2, <1>3, <1>4, <1>5, <1>6, <1>7, <1>8 DEF IInv

LEMMA Invariance == Spec => []IInv
<1>1. IInv /\ [Next]_vars => IInv'
  BY TypeStep, GroupStep, ManagerStepInv, CallStep, BeatStep, TrueStep, LeakStep, HealthStep
  DEF IInv
<1> QED BY <1>1, InitInv, PTL DEF Spec

\* No statement and no stream of the session is in progress while one of its
\* Close calls, or GatewayClient.Close, deletes it on the server.
THEOREM DeleteIsQuiet == Spec => []QuietDelete
<1>1. IInv => QuietDelete
  BY Quiet DEF IInv, ManagerInv, Drained, QuietDelete
<1> QED BY <1>1, Invariance, PTL

\* However many goroutines close the session, one request at a time deletes it,
\* and its heartbeat, or the context of its heartbeat, has ended before.
THEOREM DeleteIsSingle == Spec => []SingleDelete
<1>1. ASSUME IInv, NEW p \in Closers, NEW q \in Closers,
             pc[p] = "deleteC", pc[q] \in {"stopC", "deleteC", "settleC"}
      PROVE  p = q
  BY <1>1 DEF IInv, CallInv, Closing
<1>2. ASSUME IInv, NEW p \in Closers, pc[p] = "deleteC", Alive(Opener)
      PROVE  lifecycleDone
  <2>1. CASE p \in Visitors
    BY <1>2, <2>1 DEF IInv, BeatInv, Alive
  <2>2. CASE p = Client
    BY <1>2, <2>2 DEF IInv, BeatInv
  <2>3. CASE p = Opener
    BY <1>2, <2>3 DEF IInv, BeatInv, Alive
  <2> QED BY <1>2, <2>1, <2>2, <2>3, Names
<1>3. IInv => SingleDelete
  BY <1>1, <1>2 DEF SingleDelete
<1> QED BY <1>3, Invariance, PTL

\* Success always means that the session has gone: in the answer of every Close
\* and CloseSession, of those that only waited too, in the memory of the client,
\* and in the list of the sessions it manages.
THEOREM CloseTellsTheTruth == Spec => []CloseIsHonest
<1>1. IInv => CloseIsHonest
  BY DEF IInv, TrueInv, CloseIsHonest
<1> QED BY <1>1, Invariance, PTL

\* An OpenManagedSession that fails leaves no session on the server, also when
\* GatewayClient.Close runs into it, unless a request was lost: when nobody is
\* closing it any more, it has gone (managed_session.go OpenManagedSession).
THEOREM FailedOpenLeavesNothing == Spec => []NoLeakAfterFailedOpen
<1>1. IInv => NoLeakAfterFailedOpen
  <2>1. LeakInv => NoLeakAfterFailedOpen
    BY Names DEF LeakInv, NoLeakAfterFailedOpen
  <2> QED BY <2>1 DEF IInv
<1> QED BY <1>1, Invariance, PTL

\* The health of the session says what the heartbeats have found, although an
\* event nobody has read is replaced by the next (heartbeat.go
\* publishHeartbeatEvent, managed_session.go monitorHeartbeat).
THEOREM HealthIsHonest == Spec => []HealthHonest
<1>1. IInv => HealthHonest
  <2>1. HealthInv => HealthHonest
    BY EventKinds DEF HealthInv, LiveInv, CaughtUp, HealthHonest
  <2> QED BY <2>1 DEF IInv
<1> QED BY <1>1, Invariance, PTL
=============================================================================
