--------------------------- MODULE DrainProtocol ---------------------------
(***************************************************************************)
(* The protocol every Close of the library follows on an activityGroup:    *)
(* stop() first, then wait() for the activities that are already running.  *)
(* It is the one of GatewayClient.Close on c.executions, of                *)
(* managedSession.closeWithContext on m.activity and of                    *)
(* SerializedSession.Close on the serializer's group.                      *)
(*                                                                         *)
(* Workers are goroutines of ExecuteAndWait, StreamResults and Execute: a  *)
(* begin, some work, one end.  A worker may call again after it returned,  *)
(* up to MaxRuns times, so the group goes idle and leaves it again, which  *)
(* is what replaces the idle channel.                                      *)
(***************************************************************************)
EXTENDS ActivityGroup

CONSTANTS
  Workers,   \* goroutines that run activities
  Closers,   \* goroutines that call Close
  MaxRuns    \* bound: activities one worker runs

ASSUME WorkersFinite == IsFiniteSet(Workers)
ASSUME MaxRunsIsNat == MaxRuns \in Nat

VARIABLES
  wpc,    \* "idle" | "running" | "refused"
  runs,   \* activities a worker has started
  cpc,    \* "idle" | "stopped" | "waiting" | "drained" | "expired"
  seen    \* the channel a closer captured in wait()

vars == << groupVars, wpc, runs, cpc, seen >>

Init ==
  /\ GroupInit
  /\ wpc = [w \in Workers |-> "idle"]
  /\ runs = [w \in Workers |-> 0]
  /\ cpc = [k \in Closers |-> "idle"]
  /\ seen = [k \in Closers |-> 0]

TypeOK ==
  /\ GroupTypeOK({})
  /\ wpc \in [Workers -> {"idle", "running", "refused"}]
  /\ runs \in [Workers -> Nat]
  /\ cpc \in [Closers -> {"idle", "stopped", "waiting", "drained", "expired"}]
  /\ seen \in [Closers -> Nat]

(***************************************************************************)
(* Workers                                                                 *)
(***************************************************************************)
BeginRun(w) ==
  /\ wpc[w] = "idle"
  /\ runs[w] < MaxRuns
  /\ Begin
  /\ wpc' = [wpc EXCEPT ![w] = "running"]
  /\ runs' = [runs EXCEPT ![w] = @ + 1]
  /\ UNCHANGED << cpc, seen >>

RefusedRun(w) ==
  /\ wpc[w] = "idle"
  /\ Refuse
  /\ wpc' = [wpc EXCEPT ![w] = "refused"]
  /\ UNCHANGED << runs, cpc, seen >>

EndRun(w) ==
  /\ wpc[w] = "running"
  /\ End
  /\ wpc' = [wpc EXCEPT ![w] = "idle"]
  /\ UNCHANGED << runs, cpc, seen >>

(***************************************************************************)
(* Closers. wait() reads the channel under the mutex and blocks without    *)
(* it, so capturing the channel and waking up are two steps.               *)
(***************************************************************************)
StopGroup(k) ==
  /\ cpc[k] = "idle"
  /\ Stop
  /\ cpc' = [cpc EXCEPT ![k] = "stopped"]
  /\ UNCHANGED << wpc, runs, seen >>

CaptureIdle(k) ==
  /\ cpc[k] = "stopped"
  /\ seen' = [seen EXCEPT ![k] = idle]
  /\ cpc' = [cpc EXCEPT ![k] = "waiting"]
  /\ UNCHANGED << groupVars, wpc, runs >>

WaitReturns(k) ==
  /\ cpc[k] = "waiting"
  /\ Released(seen[k])
  /\ cpc' = [cpc EXCEPT ![k] = "drained"]
  /\ UNCHANGED << groupVars, wpc, runs, seen >>

(* The closer's context ends first: wait returns ctx.Err() and Close fails; *)
(* the caller may call Close again.                                         *)
WaitExpires(k) ==
  /\ cpc[k] = "waiting"
  /\ cpc' = [cpc EXCEPT ![k] = "expired"]
  /\ UNCHANGED << groupVars, wpc, runs, seen >>

RetryClose(k) ==
  /\ cpc[k] = "expired"
  /\ cpc' = [cpc EXCEPT ![k] = "idle"]
  /\ UNCHANGED << groupVars, wpc, runs, seen >>

WorkerStep(w) == BeginRun(w) \/ RefusedRun(w) \/ EndRun(w)
CloserStep(k) ==
  StopGroup(k) \/ CaptureIdle(k) \/ WaitReturns(k) \/ WaitExpires(k) \/ RetryClose(k)

Next ==
  \/ \E w \in Workers : WorkerStep(w)
  \/ \E k \in Closers : CloserStep(k)

Spec == Init /\ [][Next]_vars

(***************************************************************************)
(* Properties                                                              *)
(***************************************************************************)
Running == {w \in Workers : wpc[w] = "running"}

\* A Close that was told the group is drained can rely on it: no activity
\* is running, whatever channel it captured and whoever began or ended in
\* between (activity.go wait: the channel is awaited without the mutex).
DrainSound ==
  \A k \in Closers : cpc[k] = "drained" => closed /\ Running = {}

\* The current channel is closed exactly while nothing runs: a waiter is
\* never released early, an idle group never blocks one, and end() never
\* closes a channel twice, which would panic.
IdleMeansClosedChannel ==
  /\ active = Cardinality(Running)
  /\ (idle \in shut) <=> (active = 0)
=============================================================================
