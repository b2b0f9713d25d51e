----------------------------- MODULE Execution -----------------------------
(***************************************************************************)
(* ExecuteAndWait and StreamResults (flinksqlgateway/poller.go, result.go):*)
(* one statement submitted, read to its end and released by runExecution,  *)
(* either collected for the caller or sent as events to a consumer through *)
(* a bounded channel, while GatewayClient.Close may close the client.      *)
(*                                                                         *)
(* The activity group is c.executions.  Close sets c.clientClosed and      *)
(* stops the group in one critical section of stateMu, so `closed' stands  *)
(* for both.  The options of the call are valid ones.                      *)
(***************************************************************************)
EXTENDS ActivityGroup, ServerOperation, ResultPages

(* Names that start with Bug are faulty variants of a definition that       *)
(* follows them; no specification uses them.                               *)

CONSTANT Buffer  \* capacity of the channel of events

ASSUME BufferIsPositive == Buffer \in Nat \ {0}

Calls == [mode : {"collect", "stream"}, maxRows : RowLimits, maxPolls : PollLimits,
          cancelOnContextDone : BOOLEAN]

VARIABLES
  call,      \* the call: its mode, its limits, and cfg.CancelOnContextDone
  ppc,       \* where runExecution is
  next,      \* the page `next' points to (nil is page 0)
  polls,     \* result.Polls
  pending,   \* what the current page still has to deliver
  lastPage,  \* the current page is the EOS page
  received,  \* the rows counted in result.RowsReceived
  reason,    \* why the execution fails: "none" while it does not
  cleanupErr \* CancelError or CloseError of the ExecutionError is set

runVars == << call, next, polls, pending, lastPage, received, reason, cleanupErr >>

VARIABLES
  ctxDone,    \* streamCtx has ended: the caller's context or c.lifecycleCtx
  timedOut,   \* ExecutionTimeout has passed, which ends executionCtx only
  events,     \* content of the channel of events
  eventsShut, \* close(events)
  err,        \* content of the channel of errors, or what ExecuteAndWait returns
  errsShut,   \* close(errorsChannel)
  taken,      \* events the consumer has received
  consumer,   \* "reading", "stopped" (without ending its context) or "finished"
  kpc         \* GatewayClient.Close: "idle", "waiting", "ok" or "error"

ctxVars == << ctxDone, timedOut >>
chanVars == << events, eventsShut, err, errsShut >>
consumerVars == << taken, consumer >>
vars == << groupVars, serverVars, runVars, ppc, ctxVars, chanVars, consumerVars, kpc >>

Streaming == call.mode = "stream"
executionDone == ctxDone \/ timedOut

Event(type, row) == [type |-> type, row |-> row]

(* What page i makes the execution deliver: events, or just the rows. *)
Items(i) ==
  LET rows == [j \in DOMAIN Page(i) |-> Event("row", Page(i)[j])]
      eos  == IF i = LastPage THEN << Event("eos", 0) >> ELSE << >>
  IN  IF Streaming THEN << Event("page", 0) >> \o rows \o eos ELSE rows

Transcript ==
  << Event("operation", 0) >> \o FlattenSeq([i \in 1..LastPage |-> Items(i)])

Init ==
  /\ GroupInit
  /\ ServerInit
  /\ call \in Calls
  /\ ppc = "start"
  /\ next = 0 /\ polls = 0 /\ pending = << >> /\ lastPage = FALSE /\ received = << >>
  /\ reason = "none" /\ cleanupErr = FALSE
  /\ ctxDone = FALSE /\ timedOut = FALSE
  /\ events = << >> /\ eventsShut = FALSE /\ err = "none" /\ errsShut = FALSE
  /\ taken = << >> /\ consumer = "reading"
  /\ kpc = "idle"

TypeOK ==
  /\ GroupTypeOK({})
  /\ ServerTypeOK
  /\ call \in Calls
  /\ ppc \in {"start", "submit", "deliver", "check", "fetch", "classify", "sleep", "cancel",
              "cleanup", "close", "report", "shut", "end", "done"}
  /\ next \in 0..LastPage /\ polls \in 0..call.maxPolls
  /\ Len(received) <= call.maxRows
  /\ reason \in {"none", "closedClient", "submit", "context", "rowLimit", "pollLimit",
                 "protocol", "fetch", "failed"}
  /\ {cleanupErr, ctxDone, timedOut, eventsShut, errsShut, lastPage} \subseteq BOOLEAN
  /\ Len(events) <= Buffer
  /\ consumer \in {"reading", "stopped", "finished"}
  /\ kpc \in {"idle", "waiting", "ok", "error"}

GoTo(step) == ppc' = step

(***************************************************************************)
(* Submission                                                              *)
(***************************************************************************)
BeginExecution ==
  /\ ppc = "start"
  /\ Begin
  /\ GoTo("submit")
  /\ UNCHANGED << serverVars, runVars, ctxVars, chanVars, consumerVars, kpc >>

(* StreamResults hands out channels that hold the error and are closed. *)
RefuseExecution ==
  /\ ppc = "start"
  /\ Refuse
  /\ GoTo("done")
  /\ reason' = "closedClient" /\ err' = "closedClient"
  /\ eventsShut' = TRUE /\ errsShut' = TRUE
  /\ UNCHANGED << serverVars, call, next, polls, pending, lastPage, received, cleanupErr,
                  ctxVars, events, consumerVars, kpc >>

(* Without a handle there is nothing to clean up: runExecution returns. *)
Submit ==
  /\ ppc = "submit"
  /\ \/ /\ ~closed /\ Submitted
        /\ IF Streaming
             THEN pending' = << Event("operation", 0) >> /\ GoTo("deliver")
             ELSE GoTo("check") /\ UNCHANGED pending
        /\ UNCHANGED reason
     \/ /\ SubmitLost \/ UNCHANGED serverVars
        /\ reason' = "submit" /\ GoTo("report")
        /\ UNCHANGED pending
  /\ UNCHANGED << groupVars, call, next, polls, lastPage, received, cleanupErr, ctxVars,
                  chanVars, consumerVars, kpc >>

(***************************************************************************)
(* consumeResults                                                          *)
(***************************************************************************)
(* A running operation that fails goes through cleanupOperation. *)
Fails(why) == reason' = why /\ GoTo("cancel")

CheckLimits ==
  /\ ppc = "check"
  /\ \/ executionDone /\ Fails("context")
     \/ ~executionDone /\ polls >= call.maxPolls /\ Fails("pollLimit")
     \/ ~executionDone /\ polls < call.maxPolls /\ GoTo("fetch") /\ UNCHANGED reason
  /\ UNCHANGED << groupVars, serverVars, call, next, polls, pending, lastPage, received,
                  cleanupErr, ctxVars, chanVars, consumerVars, kpc >>

FetchNotReady ==
  /\ ppc = "fetch"
  /\ ~closed
  /\ op = "running"
  /\ polls' = polls + 1
  /\ GoTo("sleep")
  /\ UNCHANGED << groupVars, serverVars, call, next, pending, lastPage, received, reason,
                  cleanupErr, ctxVars, chanVars, consumerVars, kpc >>

FetchPage ==
  /\ ppc = "fetch"
  /\ ~closed
  /\ op = "running"
  /\ polls' = polls + 1
  /\ pending' = Items(next + 1)
  /\ lastPage' = (next + 1 = LastPage)
  /\ GoTo("deliver")
  /\ UNCHANGED << groupVars, serverVars, call, next, received, reason, cleanupErr, ctxVars,
                  chanVars, consumerVars, kpc >>

(* A page the library finds invalid. *)
FetchInvalid ==
  /\ ppc = "fetch"
  /\ ~closed
  /\ op = "running"
  /\ polls' = polls + 1
  /\ Fails("protocol")
  /\ UNCHANGED << groupVars, serverVars, call, next, pending, lastPage, received, cleanupErr,
                  ctxVars, chanVars, consumerVars, kpc >>

(* An error, a timeout, or a client that was closed. *)
FetchFails ==
  /\ ppc = "fetch"
  /\ polls' = polls + 1
  /\ \/ Fails("context")
     \/ closed /\ Fails("closedClient")
     \/ ~executionDone /\ GoTo("classify") /\ UNCHANGED reason
  /\ UNCHANGED << groupVars, serverVars, call, next, pending, lastPage, received, cleanupErr,
                  ctxVars, chanVars, consumerVars, kpc >>

(* operationFailure *)
Classify ==
  /\ ppc = "classify"
  /\ \/ op \in {"failed", "canceled", "closed"} /\ ~closed /\ Fails("failed")
     \/ Fails("fetch")
  /\ UNCHANGED << groupVars, serverVars, call, next, polls, pending, lastPage, received,
                  cleanupErr, ctxVars, chanVars, consumerVars, kpc >>

(* waitContext between two polls *)
Sleep ==
  /\ ppc = "sleep"
  /\ \/ executionDone /\ Fails("context")
     \/ GoTo("check") /\ UNCHANGED reason
  /\ UNCHANGED << groupVars, serverVars, call, next, polls, pending, lastPage, received,
                  cleanupErr, ctxVars, chanVars, consumerVars, kpc >>

OverLimit == Head(pending).type = "row" /\ Len(received) >= call.maxRows

(* A row is counted, and kept if it is collected, before it is emitted. *)
Count ==
  received' = IF Head(pending).type = "row" THEN Append(received, Head(pending).row)
                                            ELSE received

DeliverOverLimit ==
  /\ ppc = "deliver"
  /\ pending # << >>
  /\ OverLimit
  /\ Fails("rowLimit")
  /\ UNCHANGED << groupVars, serverVars, call, next, polls, pending, lastPage, received,
                  cleanupErr, ctxVars, chanVars, consumerVars, kpc >>

BugDeliverCancelled ==
  /\ ppc = "deliver"
  /\ pending # << >>
  /\ ~OverLimit
  /\ Streaming /\ timedOut
  /\ Count
  /\ Fails("context")
  /\ UNCHANGED << groupVars, serverVars, call, next, polls, pending, lastPage, cleanupErr,
                  ctxVars, chanVars, consumerVars, kpc >>

(* emit gives up when streamCtx ends; ExecutionTimeout does not wake it. *)
DeliverCancelled ==
  /\ ppc = "deliver"
  /\ pending # << >>
  /\ ~OverLimit
  /\ Streaming /\ ctxDone
  /\ Count
  /\ Fails("context")
  /\ UNCHANGED << groupVars, serverVars, call, next, polls, pending, lastPage, cleanupErr,
                  ctxVars, chanVars, consumerVars, kpc >>

Deliver ==
  /\ ppc = "deliver"
  /\ pending # << >>
  /\ ~OverLimit
  /\ Streaming => Len(events) < Buffer
  /\ events' = IF Streaming THEN Append(events, Head(pending)) ELSE events
  /\ Count
  /\ pending' = Tail(pending)
  /\ UNCHANGED << groupVars, serverVars, call, ppc, next, polls, lastPage, reason, cleanupErr,
                  ctxVars, eventsShut, err, errsShut, consumerVars, kpc >>

BugPageDelivered ==
  /\ ppc = "deliver"
  /\ pending = << >>
  /\ \/ lastPage /\ GoTo("close") /\ UNCHANGED << next, reason >>
     \/ ~lastPage /\ polls > 0 /\ next' = next /\ GoTo("check") /\ UNCHANGED reason
     \/ ~lastPage /\ polls > 0 /\ Fails("protocol") /\ UNCHANGED next
     \/ ~lastPage /\ polls = 0 /\ GoTo("check") /\ UNCHANGED << next, reason >>
  /\ UNCHANGED << groupVars, serverVars, call, polls, pending, lastPage, received, cleanupErr,
                  ctxVars, chanVars, consumerVars, kpc >>

(* The page is delivered: the end, or the page that nextResultUri names.   *)
(* `next' is nil after the operation event, whose delivery precedes page 1. *)
PageDelivered ==
  /\ ppc = "deliver"
  /\ pending = << >>
  /\ \/ lastPage /\ GoTo("close") /\ UNCHANGED << next, reason >>
     \/ ~lastPage /\ polls > 0 /\ next' = next + 1 /\ GoTo("check") /\ UNCHANGED reason
     \/ ~lastPage /\ polls > 0 /\ Fails("protocol") /\ UNCHANGED next
     \/ ~lastPage /\ polls = 0 /\ GoTo("check") /\ UNCHANGED << next, reason >>
  /\ UNCHANGED << groupVars, serverVars, call, polls, pending, lastPage, received, cleanupErr,
                  ctxVars, chanVars, consumerVars, kpc >>

(***************************************************************************)
(* Cleanup                                                                 *)
(***************************************************************************)
Cancels ==
  \/ reason \in {"rowLimit", "pollLimit"}
  \/ reason = "context" /\ call.cancelOnContextDone

(* cleanupOperation marks its context: the closed client lets it pass. *)
CleanupCancel ==
  /\ ppc = "cancel"
  /\ \/ ~Cancels /\ UNCHANGED << serverVars, cleanupErr >>
     \/ Cancels /\ CancelAnswered /\ UNCHANGED cleanupErr
     \/ Cancels /\ CancelLost /\ cleanupErr' = TRUE
  /\ GoTo("cleanup")
  /\ UNCHANGED << groupVars, call, next, polls, pending, lastPage, received, reason, ctxVars,
                  chanVars, consumerVars, kpc >>

BugCleanupClose ==
  /\ ppc = "cleanup"
  /\ \/ ~closed /\ CloseAnswered /\ UNCHANGED cleanupErr
     \/ closed /\ CloseAborted /\ cleanupErr' = TRUE
     \/ CloseLost /\ cleanupErr' = TRUE
  /\ GoTo("report")
  /\ UNCHANGED << groupVars, call, next, polls, pending, lastPage, received, reason, ctxVars,
                  chanVars, consumerVars, kpc >>

CleanupClose ==
  /\ ppc = "cleanup"
  /\ \/ CloseAnswered /\ UNCHANGED cleanupErr
     \/ CloseLost /\ cleanupErr' = TRUE
  /\ GoTo("report")
  /\ UNCHANGED << groupVars, call, next, polls, pending, lastPage, received, reason, ctxVars,
                  chanVars, consumerVars, kpc >>

(* The close of an execution that succeeded does not mark its context. *)
CloseAfterSuccess ==
  /\ ppc = "close"
  /\ \/ ~closed /\ CloseAnswered /\ UNCHANGED cleanupErr
     \/ closed /\ CloseAborted /\ cleanupErr' = TRUE
     \/ CloseLost /\ cleanupErr' = TRUE
  /\ GoTo("report")
  /\ UNCHANGED << groupVars, call, next, polls, pending, lastPage, received, reason, ctxVars,
                  chanVars, consumerVars, kpc >>

BugVerdict == reason

(***************************************************************************)
(* The end: the error, and the deferred calls in reverse order             *)
(***************************************************************************)
Verdict == IF reason = "none" /\ cleanupErr THEN "close" ELSE reason

Report ==
  /\ ppc = "report"
  /\ err' = Verdict
  /\ errsShut' = Streaming
  /\ GoTo("shut")
  /\ UNCHANGED << groupVars, serverVars, runVars, ctxVars, events, eventsShut, consumerVars, kpc >>

ShutEvents ==
  /\ ppc = "shut"
  /\ eventsShut' = Streaming
  /\ GoTo("end")
  /\ UNCHANGED << groupVars, serverVars, runVars, ctxVars, events, err, errsShut, consumerVars, kpc >>

EndExecution ==
  /\ ppc = "end"
  /\ End
  /\ GoTo("done")
  /\ UNCHANGED << serverVars, runVars, ctxVars, chanVars, consumerVars, kpc >>

(***************************************************************************)
(* The consumer, the contexts, the server and GatewayClient.Close          *)
(***************************************************************************)
ReadEvent ==
  /\ consumer = "reading"
  /\ events # << >>
  /\ taken' = Append(taken, Head(events))
  /\ events' = Tail(events)
  /\ UNCHANGED << groupVars, serverVars, runVars, ppc, ctxVars, eventsShut, err, errsShut, consumer, kpc >>

SeeEnd ==
  /\ consumer = "reading"
  /\ events = << >>
  /\ eventsShut
  /\ consumer' = "finished"
  /\ UNCHANGED << groupVars, serverVars, runVars, ppc, ctxVars, chanVars, taken, kpc >>

StopReading ==
  /\ Streaming
  /\ consumer = "reading"
  /\ consumer' = "stopped"
  /\ UNCHANGED << groupVars, serverVars, runVars, ppc, ctxVars, chanVars, taken, kpc >>

ContextEnds ==
  /\ ppc \notin {"start", "done"}
  /\ ctxDone' = TRUE
  /\ UNCHANGED << groupVars, serverVars, runVars, ppc, timedOut, chanVars, consumerVars, kpc >>

LifecycleEnds ==
  /\ closed
  /\ ctxDone' = TRUE
  /\ UNCHANGED << groupVars, serverVars, runVars, ppc, timedOut, chanVars, consumerVars, kpc >>

TimesOut ==
  /\ ppc \notin {"start", "done"}
  /\ timedOut' = TRUE
  /\ UNCHANGED << groupVars, serverVars, runVars, ppc, ctxDone, chanVars, consumerVars, kpc >>

ServerFails ==
  /\ OperationFails
  /\ UNCHANGED << groupVars, runVars, ppc, ctxVars, chanVars, consumerVars, kpc >>

CloseClient ==
  /\ kpc = "idle"
  /\ Stop
  /\ kpc' = "waiting"
  /\ UNCHANGED << serverVars, runVars, ppc, ctxVars, chanVars, consumerVars >>

CloseReturns ==
  /\ kpc = "waiting"
  /\ Released(idle)
  /\ kpc' = "ok"
  /\ UNCHANGED << groupVars, serverVars, runVars, ppc, ctxVars, chanVars, consumerVars >>

CloseTimesOut ==
  /\ kpc = "waiting"
  /\ kpc' = "error"
  /\ UNCHANGED << groupVars, serverVars, runVars, ppc, ctxVars, chanVars, consumerVars >>

-----------------------------------------------------------------------------
ProducerStep ==
  \/ BeginExecution \/ RefuseExecution \/ Submit
  \/ CheckLimits \/ FetchNotReady \/ FetchPage \/ FetchInvalid \/ FetchFails \/ Classify \/ Sleep
  \/ DeliverOverLimit \/ DeliverCancelled \/ Deliver \/ PageDelivered
  \/ CleanupCancel \/ CleanupClose \/ CloseAfterSuccess
  \/ Report \/ ShutEvents \/ EndExecution

Next ==
  \/ ProducerStep
  \/ ReadEvent \/ SeeEnd \/ StopReading
  \/ ContextEnds \/ LifecycleEnds \/ TimesOut \/ ServerFails
  \/ CloseClient \/ CloseReturns \/ CloseTimesOut

(* Requests and sleeps are bounded, the runtime runs its goroutines, and a *)
(* consumer that has not stopped reads on.                                 *)
Fairness ==
  /\ WF_vars(ProducerStep)
  /\ WF_vars(ReadEvent)
  /\ WF_vars(SeeEnd)
  /\ WF_vars(LifecycleEnds)

Spec == Init /\ [][Next]_vars
FairSpec == Spec /\ Fairness

(***************************************************************************)
(* Properties                                                              *)
(***************************************************************************)

\* A consumer sees a prefix of the one right sequence of events, and a
\* collected result is a prefix of the rows: retries, NOT_READY answers and a
\* full channel neither lose nor repeat anything.
EventsInOrder ==
  /\ IsPrefix(received, Rows)
  /\ Streaming => IsPrefix(taken \o events, Transcript)

(* The caller knows the outcome. *)
Over == consumer = "finished" \/ (ppc = "done" /\ ~Streaming)

\* When the channel of events is closed the error is there to be read; without
\* an error the result is complete and the operation released, the error of
\* MaxRows is given only if the result has more rows than that, and the error of
\* MaxPolls after exactly that many fetches.
VerdictHonest ==
  Over =>
    /\ Streaming => errsShut
    /\ err = "none" => received = Rows /\ op = "closed" /\ (Streaming => taken = Transcript)
    /\ err = "rowLimit" => Len(received) = call.maxRows /\ received # Rows
    /\ err = "pollLimit" => polls = call.maxPolls

\* An execution leaves no operation on the server unless the network lost a
\* request, or it had succeeded when the client was closed.
FailureReleases ==
  ppc = "done" /\ ~faulty /\ (reason # "none" \/ ~closed) => op \in {"none", "closed"}

\* The same without the exception: a close of the client leaves no operation.
ExecutionReleases ==
  ppc = "done" /\ ~faulty => op \in {"none", "closed"}

\* A GatewayClient.Close without error returns when no execution runs, which
\* includes the goroutines of StreamResults; none begins afterwards.
ClientCloseWaits ==
  kpc = "ok" => ppc \in {"start", "done"}

\* Every execution ends, whatever the server and the client do, unless its
\* consumer stops reading and does not end its context.
ExecutionEnds ==
  \/ <>[](consumer = "stopped" /\ ~ctxDone)
  \/ ppc = "submit" ~> ppc = "done"
=============================================================================
