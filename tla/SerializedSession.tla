------------------------- MODULE SerializedSession -------------------------
(***************************************************************************)
(* SerializedSession and its sessionSerializer (serialized_session.go).    *)
(*                                                                         *)
(* Callers run one Execute or one Stream each. The serializer hands out a  *)
(* single token (`gate', a channel of capacity 1), counts executions in    *)
(* its activityGroup, and keeps the streams it gave away so that Close can *)
(* finish them.  Closers run Close concurrently.  A stream is finished by  *)
(* whoever comes first, its user or a closer, through the once of its      *)
(* callbackResultStream: `fin' is the progress of that once.               *)
(*                                                                         *)
(* Each step is one critical section, channel operation or call into the   *)
(* client.  ExecuteAndWait, ExecuteStream and CloseSession of the client   *)
(* are single calls here: they may succeed or fail at any time.            *)
(***************************************************************************)
EXTENDS ActivityGroup

(* Names that start with Bug are faulty variants of a definition that       *)
(* follows them; no specification uses them.                               *)

CONSTANTS
  Callers,   \* goroutines calling Execute or Stream
  Closers,   \* goroutines calling Close
  None

ASSUME CallersFinite == IsFiniteSet(Callers)
ASSUME NoneIsNoCaller == None \notin Callers /\ None \notin Closers

VARIABLES
  gate,           \* tokens in s.gate
  pc,             \* where each caller is
  under,          \* the underlying resultStream: "none" | "live" | "closed"
  fin,            \* callbackResultStream.once: "no" -> ... -> "yes"
  cancelled,      \* callers whose own context has ended
  lifecycleDone,  \* s.lifecycleCtx has ended
  parentDone      \* GatewayClient.Close has cancelled the parent context

callerVars == << gate, pc, under, fin, cancelled >>
contextVars == << lifecycleDone, parentDone >>

VARIABLES
  kpc,            \* where each closer is
  once,           \* s.closeOnce: "new" | "running" | "done"
  todo,           \* streams the owner of closeOnce still has to close
  target,         \* the one it is closing, or None
  seen,           \* the idle channel a closer captured in waitIdle
  closeOwner,     \* owner of s.closeCall, or None
  closeComplete,  \* s.closeComplete
  result,         \* result of the closeCall a closer owned
  joined,         \* the closeCall a closer waits for
  session         \* the server session

onceVars == << once, todo, target >>
sharedCloseVars == << closeOwner, closeComplete, result, joined, session >>
closerVars == << kpc, onceVars, seen, sharedCloseVars >>
vars == << groupVars, callerVars, contextVars, closerVars >>

CallerPC == {"idle", "acquiring", "holding", "beginning", "executing", "opening", "created",
             "rejecting", "open", "finishing", "ending", "releasing", "done"}
CloserPC == {"idle", "entering", "stop", "cancel", "streams", "finish", "capture", "waiting",
             "join", "joined", "deleting", "settleOk", "settleErr", "ok", "failed"}

Init ==
  /\ GroupInit
  /\ gate = 1
  /\ pc = [c \in Callers |-> "idle"]
  /\ under = [c \in Callers |-> "none"]
  /\ fin = [c \in Callers |-> "no"]
  /\ cancelled = {}
  /\ lifecycleDone = FALSE
  /\ parentDone = FALSE
  /\ kpc = [k \in Closers |-> "idle"]
  /\ once = "new"
  /\ todo = {}
  /\ target = None
  /\ seen = [k \in Closers |-> 0]
  /\ closeOwner = None
  /\ closeComplete = FALSE
  /\ result = [k \in Closers |-> "none"]
  /\ joined = [k \in Closers |-> None]
  /\ session = "open"

TypeOK ==
  /\ GroupTypeOK(Callers)
  /\ gate \in Nat
  /\ pc \in [Callers -> CallerPC]
  /\ under \in [Callers -> {"none", "live", "closed"}]
  /\ fin \in [Callers -> {"no", "unregister", "end", "release", "yes"}]
  /\ cancelled \subseteq Callers
  /\ lifecycleDone \in BOOLEAN
  /\ parentDone \in BOOLEAN
  /\ kpc \in [Closers -> CloserPC]
  /\ once \in {"new", "running", "done"}
  /\ todo \subseteq Callers
  /\ target \in Callers \cup {None}
  /\ seen \in [Closers -> Nat]
  /\ closeOwner \in Closers \cup {None}
  /\ closeComplete \in BOOLEAN
  /\ result \in [Closers -> {"none", "ok", "err"}]
  /\ joined \in [Closers -> Closers \cup {None}]
  /\ session \in {"open", "closed"}

GoTo(c, step) == pc' = [pc EXCEPT ![c] = step]
KGoTo(k, step) == kpc' = [kpc EXCEPT ![k] = step]

(* mergeContext: the execution context ends with the caller's or with the session's. *)
ExecutionDone(c) == c \in cancelled \/ lifecycleDone \/ parentDone

(***************************************************************************)
(* Execute and Stream, up to the token                                     *)
(***************************************************************************)

(* validate(): a wrapper already closed refuses at once. *)
Call(c) ==
  /\ pc[c] = "idle"
  /\ GoTo(c, IF closed THEN "done" ELSE "acquiring")
  /\ UNCHANGED << groupVars, gate, under, fin, cancelled, contextVars, closerVars >>

(* acquire(): the select takes either ready branch. *)
AcquireCancelled(c) ==
  /\ pc[c] = "acquiring"
  /\ ExecutionDone(c)
  /\ GoTo(c, "done")
  /\ UNCHANGED << groupVars, gate, under, fin, cancelled, contextVars, closerVars >>

AcquireToken(c) ==
  /\ pc[c] = "acquiring"
  /\ gate > 0
  /\ gate' = gate - 1
  /\ GoTo(c, "holding")
  /\ UNCHANGED << groupVars, under, fin, cancelled, contextVars, closerVars >>

BugCheckClosedKeepsToken(c) ==
  /\ pc[c] = "holding"
  /\ GoTo(c, IF closed THEN "done" ELSE "beginning")
  /\ UNCHANGED << groupVars, gate, under, fin, cancelled, contextVars, closerVars >>

CheckClosed(c) ==
  /\ pc[c] = "holding"
  /\ GoTo(c, IF closed THEN "releasing" ELSE "beginning")
  /\ UNCHANGED << groupVars, gate, under, fin, cancelled, contextVars, closerVars >>

BeginExecution(c) ==
  /\ pc[c] = "beginning"
  /\ Begin
  /\ \E step \in {"executing", "opening"} : GoTo(c, step)
  /\ UNCHANGED << gate, under, fin, cancelled, contextVars, closerVars >>

BeginRefused(c) ==
  /\ pc[c] = "beginning"
  /\ Refuse
  /\ GoTo(c, "releasing")
  /\ UNCHANGED << gate, under, fin, cancelled, contextVars, closerVars >>

(***************************************************************************)
(* Running the statement                                                   *)
(***************************************************************************)

(* ExecuteAndWait returned, or ExecuteStream failed. *)
ExecutionReturns(c) ==
  /\ pc[c] \in {"executing", "opening"}
  /\ GoTo(c, "ending")
  /\ UNCHANGED << groupVars, gate, under, fin, cancelled, contextVars, closerVars >>

StreamOpens(c) ==
  /\ pc[c] = "opening"
  /\ GoTo(c, "created")
  /\ under' = [under EXCEPT ![c] = "live"]
  /\ UNCHANGED << groupVars, gate, fin, cancelled, contextVars, closerVars >>

RegisterWrapped(c) ==
  /\ pc[c] = "created"
  /\ RegisterStream(c)
  /\ GoTo(c, "open")
  /\ UNCHANGED << gate, under, fin, cancelled, contextVars, closerVars >>

(* The group was stopped after begin: stream() closes what it just opened. *)
RegisterRefused(c) ==
  /\ pc[c] = "created"
  /\ Refuse
  /\ GoTo(c, "rejecting")
  /\ UNCHANGED << gate, under, fin, cancelled, contextVars, closerVars >>

(* The underlying stream is over: the user saw Next return false or called *)
(* Close, or stream() rejects it.                                          *)
EndUnderlying(c) ==
  /\ pc[c] \in {"open", "rejecting"}
  /\ under' = [under EXCEPT ![c] = "closed"]
  /\ GoTo(c, "finishing")
  /\ UNCHANGED << groupVars, gate, fin, cancelled, contextVars, closerVars >>

EndExecution(c) ==
  /\ pc[c] = "ending"
  /\ End
  /\ GoTo(c, "releasing")
  /\ UNCHANGED << gate, under, fin, cancelled, contextVars, closerVars >>

(* release() sends on a channel of capacity 1: it would block on a full one. *)
ReleaseToken(c) ==
  /\ pc[c] = "releasing"
  /\ gate < 1
  /\ gate' = gate + 1
  /\ GoTo(c, "done")
  /\ UNCHANGED << groupVars, under, fin, cancelled, contextVars, closerVars >>

(***************************************************************************)
(* callbackResultStream.finish, run by the user or by a closer             *)
(***************************************************************************)
Finishing(c) ==
  \/ pc[c] = "finishing"
  \/ \E k \in Closers : kpc[k] = "finish" /\ target = c

FinGoTo(c, step) == fin' = [fin EXCEPT ![c] = step]

BugFinishTwice(c) ==
  /\ fin[c] \in {"no", "yes"}
  /\ Finishing(c)
  /\ FinGoTo(c, "unregister")
  /\ UNCHANGED << groupVars, gate, pc, under, cancelled, contextVars, closerVars >>

FinishOnce(c) ==
  /\ fin[c] = "no"
  /\ Finishing(c)
  /\ FinGoTo(c, "unregister")
  /\ UNCHANGED << groupVars, gate, pc, under, cancelled, contextVars, closerVars >>

FinishUnregister(c) ==
  /\ fin[c] = "unregister"
  /\ UnregisterStream(c)
  /\ FinGoTo(c, "end")
  /\ UNCHANGED << gate, pc, under, cancelled, contextVars, closerVars >>

FinishEnd(c) ==
  /\ fin[c] = "end"
  /\ End
  /\ FinGoTo(c, "release")
  /\ UNCHANGED << gate, pc, under, cancelled, contextVars, closerVars >>

FinishRelease(c) ==
  /\ fin[c] = "release"
  /\ gate < 1
  /\ gate' = gate + 1
  /\ FinGoTo(c, "yes")
  /\ UNCHANGED << groupVars, pc, under, cancelled, contextVars, closerVars >>

FinishReturns(c) ==
  /\ pc[c] = "finishing"
  /\ fin[c] = "yes"
  /\ GoTo(c, "done")
  /\ UNCHANGED << groupVars, gate, under, fin, cancelled, contextVars, closerVars >>

(***************************************************************************)
(* The environment: callers give up, and GatewayClient.Close ends          *)
(* c.lifecycleCtx and closes the underlying streams, not their wrappers    *)
(***************************************************************************)
UserCancel(c) ==
  /\ pc[c] = "acquiring"
  /\ cancelled' = cancelled \cup {c}
  /\ UNCHANGED << groupVars, gate, pc, under, fin, contextVars, closerVars >>

ClientClose ==
  /\ parentDone' = TRUE
  /\ UNCHANGED << groupVars, callerVars, lifecycleDone, closerVars >>

ClientClosesStream(c) ==
  /\ parentDone
  /\ under[c] = "live"
  /\ under' = [under EXCEPT ![c] = "closed"]
  /\ UNCHANGED << groupVars, gate, pc, fin, cancelled, contextVars, closerVars >>

(***************************************************************************)
(* Close: closeLocal once, waitIdle, then one shared CloseSession          *)
(***************************************************************************)
CloseCall(k) ==
  /\ kpc[k] = "idle"
  /\ KGoTo(k, "entering")
  /\ UNCHANGED << groupVars, callerVars, contextVars, onceVars, seen, sharedCloseVars >>

EnterOnce(k) ==
  /\ kpc[k] = "entering"
  /\ once = "new"
  /\ once' = "running"
  /\ KGoTo(k, "stop")
  /\ UNCHANGED << groupVars, callerVars, contextVars, todo, target, seen, sharedCloseVars >>

(* The others block in the once until its owner is through. *)
PassOnce(k) ==
  /\ kpc[k] = "entering"
  /\ once = "done"
  /\ KGoTo(k, "capture")
  /\ UNCHANGED << groupVars, callerVars, contextVars, onceVars, seen, sharedCloseVars >>

CloserStop(k) ==
  /\ kpc[k] = "stop"
  /\ Stop
  /\ todo' = streams
  /\ KGoTo(k, "cancel")
  /\ UNCHANGED << callerVars, contextVars, once, target, seen, sharedCloseVars >>

CloserCancel(k) ==
  /\ kpc[k] = "cancel"
  /\ lifecycleDone' = TRUE
  /\ KGoTo(k, "streams")
  /\ UNCHANGED << groupVars, callerVars, parentDone, onceVars, seen, sharedCloseVars >>

(* closeTrackedResultStream: the underlying stream first, then the wrapper. *)
CloserClosesStream(k) ==
  /\ kpc[k] = "streams"
  /\ \E c \in todo :
       /\ target' = c
       /\ under' = [under EXCEPT ![c] = "closed"]
       /\ todo' = todo \ {c}
  /\ KGoTo(k, "finish")
  /\ UNCHANGED << groupVars, gate, pc, fin, cancelled, contextVars, once, seen, sharedCloseVars >>

CloserFinishesStream(k) ==
  /\ kpc[k] = "finish"
  /\ fin[target] = "yes"
  /\ target' = None
  /\ KGoTo(k, "streams")
  /\ UNCHANGED << groupVars, callerVars, contextVars, once, todo, seen, sharedCloseVars >>

LeaveOnce(k) ==
  /\ kpc[k] = "streams"
  /\ todo = {}
  /\ once' = "done"
  /\ KGoTo(k, "capture")
  /\ UNCHANGED << groupVars, callerVars, contextVars, todo, target, seen, sharedCloseVars >>

(* waitIdle *)
CaptureIdle(k) ==
  /\ kpc[k] = "capture"
  /\ seen' = [seen EXCEPT ![k] = idle]
  /\ KGoTo(k, "waiting")
  /\ UNCHANGED << groupVars, callerVars, contextVars, onceVars, sharedCloseVars >>

BugWaitReturnsEarly(k) ==
  /\ kpc[k] = "waiting"
  /\ KGoTo(k, "join")
  /\ UNCHANGED << groupVars, callerVars, contextVars, onceVars, seen, sharedCloseVars >>

WaitReturns(k) ==
  /\ kpc[k] = "waiting"
  /\ Released(seen[k])
  /\ KGoTo(k, "join")
  /\ UNCHANGED << groupVars, callerVars, contextVars, onceVars, seen, sharedCloseVars >>

WaitExpires(k) ==
  /\ kpc[k] = "waiting"
  /\ KGoTo(k, "failed")
  /\ UNCHANGED << groupVars, callerVars, contextVars, onceVars, seen, sharedCloseVars >>

(* closeMu: done already, join the call in flight, or make the call. *)
AlreadyClosed(k) ==
  /\ kpc[k] = "join"
  /\ closeComplete
  /\ KGoTo(k, "ok")
  /\ UNCHANGED << groupVars, callerVars, contextVars, onceVars, seen, sharedCloseVars >>

JoinCall(k) ==
  /\ kpc[k] = "join"
  /\ ~closeComplete
  /\ closeOwner # None
  /\ joined' = [joined EXCEPT ![k] = closeOwner]
  /\ KGoTo(k, "joined")
  /\ UNCHANGED << groupVars, callerVars, contextVars, onceVars, seen, closeOwner,
                  closeComplete, result, session >>

OwnCall(k) ==
  /\ kpc[k] = "join"
  /\ ~closeComplete
  /\ closeOwner = None
  /\ closeOwner' = k
  /\ KGoTo(k, "deleting")
  /\ UNCHANGED << groupVars, callerVars, contextVars, onceVars, seen,
                  closeComplete, result, joined, session >>

BugJoinIgnoresError(k) ==
  /\ kpc[k] = "joined"
  /\ result[joined[k]] # "none"
  /\ KGoTo(k, "ok")
  /\ UNCHANGED << groupVars, callerVars, contextVars, onceVars, seen, sharedCloseVars >>

JoinReturns(k) ==
  /\ kpc[k] = "joined"
  /\ result[joined[k]] # "none"
  /\ KGoTo(k, IF result[joined[k]] = "ok" THEN "ok" ELSE "failed")
  /\ UNCHANGED << groupVars, callerVars, contextVars, onceVars, seen, sharedCloseVars >>

JoinExpires(k) ==
  /\ kpc[k] = "joined"
  /\ KGoTo(k, "failed")
  /\ UNCHANGED << groupVars, callerVars, contextVars, onceVars, seen, sharedCloseVars >>

(* client.CloseSession: success, or an error that leaves it unknown whether *)
(* the server processed the DELETE.                                         *)
DeleteReturns(k) ==
  /\ kpc[k] = "deleting"
  /\ \/ KGoTo(k, "settleOk") /\ session' = "closed"
     \/ KGoTo(k, "settleErr") /\ session' \in {session, "closed"}
  /\ UNCHANGED << groupVars, callerVars, contextVars, onceVars, seen, closeOwner,
                  closeComplete, result, joined >>

Settle(k) ==
  /\ kpc[k] \in {"settleOk", "settleErr"}
  /\ closeOwner' = None
  /\ closeComplete' = (closeComplete \/ kpc[k] = "settleOk")
  /\ result' = [result EXCEPT ![k] = IF kpc[k] = "settleOk" THEN "ok" ELSE "err"]
  /\ KGoTo(k, IF kpc[k] = "settleOk" THEN "ok" ELSE "failed")
  /\ UNCHANGED << groupVars, callerVars, contextVars, onceVars, seen, joined, session >>

-----------------------------------------------------------------------------
(* Steps the library takes on its own once a caller has called. *)
CallerStep(c) ==
  \/ AcquireCancelled(c) \/ AcquireToken(c) \/ CheckClosed(c)
  \/ BeginExecution(c) \/ BeginRefused(c) \/ ExecutionReturns(c) \/ StreamOpens(c)
  \/ RegisterWrapped(c) \/ RegisterRefused(c) \/ FinishReturns(c)
  \/ EndExecution(c) \/ ReleaseToken(c)
  \/ (pc[c] = "rejecting" /\ EndUnderlying(c))

FinishStep(c) ==
  FinishOnce(c) \/ FinishUnregister(c) \/ FinishEnd(c) \/ FinishRelease(c)

CloserStep(k) ==
  \/ EnterOnce(k) \/ PassOnce(k) \/ CloserStop(k) \/ CloserCancel(k)
  \/ CloserClosesStream(k) \/ CloserFinishesStream(k) \/ LeaveOnce(k)
  \/ CaptureIdle(k) \/ WaitReturns(k) \/ AlreadyClosed(k) \/ JoinCall(k) \/ OwnCall(k)
  \/ JoinReturns(k) \/ DeleteReturns(k) \/ Settle(k)

(* Steps its users and its environment may take, or never take. *)
Environment ==
  \/ \E c \in Callers : Call(c) \/ UserCancel(c) \/ EndUnderlying(c) \/ ClientClosesStream(c)
  \/ \E k \in Closers : CloseCall(k) \/ WaitExpires(k) \/ JoinExpires(k)
  \/ ClientClose

Next ==
  \/ \E c \in Callers : CallerStep(c) \/ FinishStep(c)
  \/ \E k \in Closers : CloserStep(k)
  \/ Environment

(* The goroutines of the library run on; ExecuteAndWait is bounded by      *)
(* MaxPolls and RequestTimeout, so it returns. Users are not obliged to    *)
(* consume or close a stream, to cancel, or to call Close.                 *)
Fairness ==
  /\ \A c \in Callers : WF_vars(CallerStep(c)) /\ WF_vars(FinishStep(c))
  /\ \A k \in Closers : WF_vars(CloserStep(k))

Spec == Init /\ [][Next]_vars
FairSpec == Spec /\ Fairness

(***************************************************************************)
(* Properties                                                              *)
(***************************************************************************)

\* A caller has the token from acquire to release, or to the end of the
\* once of its stream, whoever runs that.
HoldsToken(c) ==
  /\ fin[c] # "yes"
  /\ pc[c] \in {"holding", "beginning", "executing", "opening", "created", "rejecting",
                "open", "finishing", "ending", "releasing"}

\* A statement of this caller is in progress on the server session.
InUse(c) ==
  \/ pc[c] \in {"executing", "opening"}
  \/ under[c] = "live"

\* The token is never lost and never duplicated, however the user, closers
\* and the client race to finish a stream (serialized_session.go release
\* and callbackResultStream.finish): a lost one would block every later
\* caller, a second one would let two statements run at once and the send
\* of a third block for ever.
TokenConserved ==
  gate + Cardinality({c \in Callers : HoldsToken(c)}) = 1

\* Once closeLocal is over no stream escaped it: one that was being created
\* while the group was stopped is rejected, all others have been finished.
NoOrphanStream ==
  once = "done" =>
    /\ streams = {}
    /\ \A c \in Callers : pc[c] = "open" => fin[c] = "yes"

\* A Close that reports success really closed the server session, also when
\* it only shared the result of another Close.
CloseOkMeansClosed ==
  \A k \in Closers : kpc[k] = "ok" => session = "closed"

\* SerializedSession implements ExclusiveSession: one statement at a time,
\* none after Close has begun, and the session is deleted after the last.
Owner == IF \E c \in Callers : InUse(c) THEN CHOOSE c \in Callers : InUse(c) ELSE None

Exclusive == INSTANCE ExclusiveSession WITH accepting <- ~closed, owner <- Owner
ImplementsExclusive == Exclusive!Spec

\* After Close has stopped the wrapper every call returns: waiters are
\* woken, executions are ended, streams are finished and the token is back.
\* Every Close returns too, with or without success.
EverybodyLeaves ==
  /\ closed ~> (gate = 1 /\ \A c \in Callers : pc[c] \in {"idle", "open", "done"})
  /\ \A k \in Closers : kpc[k] = "entering" ~> kpc[k] \in {"ok", "failed"}
=============================================================================
