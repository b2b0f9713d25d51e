---------------------------- MODULE ResultStream ----------------------------
(***************************************************************************)
(* ExecuteStream and resultStream (flinksqlgateway/result_stream.go): one  *)
(* statement read page by page by Next, and ended by whoever comes first,  *)
(* Next itself, a user's Close or GatewayClient.Close, through the         *)
(* cleanupOnce of the stream.                                              *)
(*                                                                         *)
(* Next is serialised by nextMu, so one reader stands for all goroutines   *)
(* that call it.  Each step is one critical section, one request or one    *)
(* look at a context.  Every request is a GET that doJSON may have sent    *)
(* twice, or a cleanup request that it sends once.                         *)
(***************************************************************************)
EXTENDS ServerOperation, ResultPages

(* Names that start with Bug are faulty variants of a definition that       *)
(* follows them; no specification uses them.                               *)

CONSTANT Users  \* goroutines that call Close on the stream

Reader == "next"
Client == "client"
Closers == Users \cup {Client}

VARIABLES
  limits,       \* s.limits and cfg.CancelOnContextDone
  clientClosed, \* c.clientClosed
  endedBy,      \* who ended s.ctx: "nobody", a closer, or "other"
  registered    \* the stream is in c.streams

envVars == << limits, clientClosed, endedBy, registered >>

VARIABLES
  npc,          \* where the reader is
  token,        \* s.nextURL: the page it points to (nil is page 0)
  polls,        \* s.polls
  pendingRows,  \* rows of the current page that Next has not returned
  pendingEOS,   \* s.pendingEOS
  delivered     \* rows Next has returned; s.rowsYielded is its length

readVars == << token, polls, pendingRows, pendingEOS, delivered >>
readerVars == << npc, readVars >>

VARIABLES
  kpc,          \* where each closer is
  once,         \* s.cleanupOnce: "new" -> "cancel" -> "close" -> "settle" -> "leave" -> "done"
  finish,       \* what the winner of the once was called with
  proposal,     \* what Next passes to finishFromNext
  cancelErr, closeErr,
  closed,       \* s.closed
  streamErr,    \* the primary part of s.streamErr, "none" while it is unset
  cleanupErr,   \* s.cleanupErr # nil
  cancelSent    \* history: a cancel request was made

cleanupVars == << once, finish, cancelErr, closeErr, closed, streamErr, cleanupErr, cancelSent >>
vars == << serverVars, envVars, readerVars, kpc, proposal, cleanupVars >>

Causes == {"eos", "context", "rowLimit", "pollLimit", "protocol", "fetch", "failed",
           "clientClosed", "userClose"}
NoFinish == [by |-> "nobody", primary |-> "none", force |-> FALSE]

Init ==
  /\ ServerInit
  /\ limits \in [maxRows : RowLimits, maxPolls : PollLimits, cancelOnContextDone : BOOLEAN]
  /\ clientClosed = FALSE
  /\ endedBy = "nobody"
  /\ registered = FALSE
  /\ npc = "new"
  /\ token = 0
  /\ polls = 0
  /\ pendingRows = << >>
  /\ pendingEOS = FALSE
  /\ delivered = << >>
  /\ kpc = [k \in Closers |-> "idle"]
  /\ once = "new"
  /\ finish = NoFinish
  /\ proposal = NoFinish
  /\ cancelErr = FALSE
  /\ closeErr = FALSE
  /\ closed = FALSE
  /\ streamErr = "none"
  /\ cleanupErr = FALSE
  /\ cancelSent = FALSE

TypeOK ==
  /\ ServerTypeOK
  /\ limits \in [maxRows : RowLimits, maxPolls : PollLimits, cancelOnContextDone : BOOLEAN]
  /\ clientClosed \in BOOLEAN /\ registered \in BOOLEAN
  /\ endedBy \in Closers \cup {"nobody", "other"}
  /\ npc \in {"new", "registering", "rejecting", "refused", "idle", "loop", "checkCtx",
              "dispatch", "fetching", "classify", "sleeping", "finishing", "ended"}
  /\ token \in 0..LastPage
  /\ polls \in 0..limits.maxPolls
  /\ IsSuffix(pendingRows, Rows) \/ \E i \in 1..LastPage : IsSuffix(pendingRows, Page(i))
  /\ pendingEOS \in BOOLEAN
  /\ delivered \in Seq(ToSet(Rows)) /\ Len(delivered) <= limits.maxRows
  /\ kpc \in [Closers -> {"idle", "called", "cancelled", "returned"}]
  /\ once \in {"new", "cancel", "close", "settle", "leave", "done"}
  /\ {finish.by, proposal.by} \subseteq Closers \cup {Reader, "nobody"}
  /\ {finish.primary, proposal.primary, streamErr} \subseteq Causes \cup {"none"}
  /\ {cancelErr, closeErr, closed, cleanupErr, cancelSent} \subseteq BOOLEAN

(* ExecuteStream has returned the stream, which is in c.streams or was. *)
Opened == npc \notin {"new", "registering", "rejecting", "refused"}

ctxDone == endedBy # "nobody"
EndContext(who) == endedBy' = IF ctxDone THEN endedBy ELSE who

GoTo(step) == npc' = step
KGoTo(k, step) == kpc' = [kpc EXCEPT ![k] = step]

(***************************************************************************)
(* ExecuteStream                                                           *)
(***************************************************************************)
Submit ==
  /\ npc = "new"
  /\ \/ ~clientClosed /\ Submitted /\ GoTo("registering")
     \/ ~clientClosed /\ SubmitLost /\ GoTo("refused")
     \/ GoTo("refused") /\ UNCHANGED serverVars
  /\ UNCHANGED << envVars, readVars, kpc, proposal, cleanupVars >>

BugRegister ==
  /\ npc = "registering"
  /\ GoTo("idle")
  /\ registered' = TRUE
  /\ UNCHANGED << serverVars, limits, clientClosed, endedBy, readVars, kpc, proposal, cleanupVars >>

Register ==
  /\ npc = "registering"
  /\ IF clientClosed
       THEN GoTo("rejecting") /\ UNCHANGED registered
       ELSE GoTo("idle") /\ registered' = TRUE
  /\ UNCHANGED << serverVars, limits, clientClosed, endedBy, readVars, kpc, proposal, cleanupVars >>

(* cleanupOperationContext: ErrClientClosed does not call for a cancel. *)
Reject ==
  /\ npc = "rejecting"
  /\ CloseAnswered \/ CloseLost
  /\ GoTo("refused")
  /\ UNCHANGED << envVars, readVars, kpc, proposal, cleanupVars >>

(***************************************************************************)
(* Next                                                                    *)
(***************************************************************************)
NextCall ==
  /\ npc = "idle"
  /\ GoTo("loop")
  /\ UNCHANGED << serverVars, envVars, readVars, kpc, proposal, cleanupVars >>

Finish(primary, force) ==
  /\ proposal' = [by |-> Reader, primary |-> primary, force |-> force]
  /\ GoTo("finishing")

CheckClosed ==
  /\ npc = "loop"
  /\ GoTo(IF closed THEN "ended" ELSE "checkCtx")
  /\ UNCHANGED << serverVars, envVars, readVars, kpc, proposal, cleanupVars >>

CheckContext ==
  /\ npc = "checkCtx"
  /\ IF ctxDone
       THEN Finish("context", limits.cancelOnContextDone)
       ELSE GoTo("dispatch") /\ UNCHANGED proposal
  /\ UNCHANGED << serverVars, envVars, readVars, kpc, cleanupVars >>

YieldRow ==
  /\ npc = "dispatch"
  /\ pendingRows # << >>
  /\ Len(delivered) < limits.maxRows
  /\ delivered' = Append(delivered, Head(pendingRows))
  /\ pendingRows' = Tail(pendingRows)
  /\ GoTo("idle")
  /\ UNCHANGED << serverVars, envVars, token, polls, pendingEOS, kpc, proposal, cleanupVars >>

(* No row can be returned: a limit, the end, or another page. *)
BugStopAtLimit ==
  /\ npc = "dispatch"
  /\ \/ /\ Len(delivered) >= limits.maxRows
        /\ Finish("rowLimit", TRUE)
     \/ /\ pendingRows = << >> /\ Len(delivered) < limits.maxRows /\ pendingEOS
        /\ Finish("eos", FALSE)
     \/ /\ pendingRows = << >> /\ Len(delivered) < limits.maxRows /\ ~pendingEOS /\ polls >= limits.maxPolls
        /\ Finish("pollLimit", TRUE)
     \/ /\ pendingRows = << >> /\ Len(delivered) < limits.maxRows /\ ~pendingEOS /\ polls < limits.maxPolls
        /\ GoTo("fetching") /\ UNCHANGED proposal
  /\ UNCHANGED << serverVars, envVars, readVars, kpc, cleanupVars >>

Dispatch ==
  /\ npc = "dispatch"
  /\ \/ /\ pendingRows # << >> /\ Len(delivered) >= limits.maxRows
        /\ Finish("rowLimit", TRUE)
     \/ /\ pendingRows = << >> /\ pendingEOS
        /\ Finish("eos", FALSE)
     \/ /\ pendingRows = << >> /\ ~pendingEOS /\ polls >= limits.maxPolls
        /\ Finish("pollLimit", TRUE)
     \/ /\ pendingRows = << >> /\ ~pendingEOS /\ polls < limits.maxPolls
        /\ GoTo("fetching") /\ UNCHANGED proposal
  /\ UNCHANGED << serverVars, envVars, readVars, kpc, cleanupVars >>

(* nextResultUri names the same token again. The gateway leaves it out of  *)
(* a NOT_READY answer at most for the first page, where the token is 0.    *)
BugFetchNotReadyUncounted ==
  /\ npc = "fetching"
  /\ ~clientClosed
  /\ op = "running"
  /\ GoTo("sleeping")
  /\ UNCHANGED << serverVars, envVars, readVars, kpc, proposal, cleanupVars >>

FetchNotReady ==
  /\ npc = "fetching"
  /\ ~clientClosed
  /\ op = "running"
  /\ polls' = polls + 1
  /\ GoTo("sleeping")
  /\ UNCHANGED << serverVars, envVars, token, pendingRows, pendingEOS, delivered, kpc, proposal, cleanupVars >>

BugFetchPageKeepsToken ==
  /\ npc = "fetching"
  /\ ~clientClosed
  /\ op = "running"
  /\ polls' = polls + 1
  /\ pendingRows' = Page(token + 1)
  /\ pendingEOS' = (token + 1 = LastPage)
  /\ UNCHANGED token
  /\ GoTo("loop")
  /\ UNCHANGED << serverVars, envVars, delivered, kpc, proposal, cleanupVars >>

FetchPage ==
  /\ npc = "fetching"
  /\ ~clientClosed
  /\ op = "running"
  /\ polls' = polls + 1
  /\ pendingRows' = Page(token + 1)
  /\ pendingEOS' = (token + 1 = LastPage)
  /\ token' = IF pendingEOS' THEN token ELSE token + 1
  /\ GoTo("loop")
  /\ UNCHANGED << serverVars, envVars, delivered, kpc, proposal, cleanupVars >>

(* A page that breaks the protocol: columns, nextResultUri or resultType. *)
FetchMalformed ==
  /\ npc = "fetching"
  /\ ~clientClosed
  /\ op = "running"
  /\ polls' = polls + 1
  /\ Finish("protocol", FALSE)
  /\ UNCHANGED << serverVars, envVars, token, pendingRows, pendingEOS, delivered, kpc, cleanupVars >>

(* The request failed: its own timeout and the context of the stream give  *)
(* a context error, anything else is looked into by operationFailure.      *)
FetchFails ==
  /\ npc = "fetching"
  /\ polls' = polls + 1
  /\ \/ Finish("context", limits.cancelOnContextDone)
     \/ ~ctxDone /\ GoTo("classify") /\ UNCHANGED proposal
     \/ clientClosed /\ Finish("clientClosed", FALSE)
  /\ UNCHANGED << serverVars, envVars, token, pendingRows, pendingEOS, delivered, kpc, cleanupVars >>

Classify ==
  /\ npc = "classify"
  /\ \/ op \in {"failed", "canceled", "closed"} /\ ~clientClosed /\ Finish("failed", FALSE)
     \/ Finish("fetch", FALSE)
  /\ UNCHANGED << serverVars, envVars, readVars, kpc, cleanupVars >>

(* waitContext between two polls *)
Sleep ==
  /\ npc = "sleeping"
  /\ \/ ctxDone /\ Finish("context", limits.cancelOnContextDone)
     \/ GoTo("loop") /\ UNCHANGED proposal
  /\ UNCHANGED << serverVars, envVars, readVars, kpc, cleanupVars >>

NextReturns ==
  /\ npc = "finishing"
  /\ once = "done"
  /\ GoTo("ended")
  /\ UNCHANGED << serverVars, envVars, readVars, kpc, proposal, cleanupVars >>

(***************************************************************************)
(* Close by a user, and by GatewayClient.Close on its snapshot of streams  *)
(***************************************************************************)
UserClose(k) ==
  /\ Opened
  /\ kpc[k] = "idle"
  /\ KGoTo(k, "called")
  /\ UNCHANGED << serverVars, envVars, readerVars, proposal, cleanupVars >>

ClientClose ==
  /\ kpc[Client] = "idle"
  /\ clientClosed' = TRUE
  /\ KGoTo(Client, IF registered THEN "called" ELSE "returned")
  /\ UNCHANGED << serverVars, limits, endedBy, registered, readerVars, proposal, cleanupVars >>

(* context.AfterFunc hands the end of c.lifecycleCtx on in its own goroutine. *)
LifecycleEnds ==
  /\ clientClosed
  /\ EndContext("other")
  /\ UNCHANGED << serverVars, limits, clientClosed, registered, readerVars, kpc, proposal, cleanupVars >>

(* The user's context is cancelled, or ExecutionTimeout has passed. *)
ContextEnds ==
  /\ EndContext("other")
  /\ UNCHANGED << serverVars, limits, clientClosed, registered, readerVars, kpc, proposal, cleanupVars >>

CloserCancels(k) ==
  /\ kpc[k] = "called"
  /\ EndContext(k)
  /\ KGoTo(k, "cancelled")
  /\ UNCHANGED << serverVars, limits, clientClosed, registered, readerVars, proposal, cleanupVars >>

CloserReturns(k) ==
  /\ kpc[k] = "cancelled"
  /\ once = "done"
  /\ KGoTo(k, "returned")
  /\ UNCHANGED << serverVars, envVars, readerVars, proposal, cleanupVars >>

(***************************************************************************)
(* finish: the body of cleanupOnce, run by its winner                      *)
(***************************************************************************)
EnterOnce(f) ==
  /\ once = "new"
  /\ once' = "cancel"
  /\ finish' = f
  /\ EndContext("other")
  /\ UNCHANGED << serverVars, limits, clientClosed, registered, readerVars, kpc, proposal,
                  cancelErr, closeErr, closed, streamErr, cleanupErr, cancelSent >>

ReaderEnters == npc = "finishing" /\ EnterOnce(proposal)

CloserEnters(k) ==
  /\ kpc[k] = "cancelled"
  /\ EnterOnce([by |-> k, primary |-> IF k = Client THEN "clientClosed" ELSE "userClose",
                force |-> TRUE])

(* Only a user's Close sends requests that the closing client refuses. *)
Refusable == finish.by \in Users /\ clientClosed

Cancels == finish.force \/ finish.primary \in {"rowLimit", "pollLimit"}

CleanupCancel ==
  /\ once = "cancel"
  /\ once' = "close"
  /\ cancelSent' = (cancelSent \/ Cancels)
  /\ \/ ~Cancels /\ UNCHANGED << serverVars, cancelErr >>
     \/ Cancels /\ ~Refusable /\ CancelAnswered /\ UNCHANGED cancelErr
     \/ Cancels /\ CancelLost /\ cancelErr' = TRUE
     \/ Cancels /\ Refusable /\ CancelAborted /\ cancelErr' = TRUE
  /\ UNCHANGED << envVars, readerVars, kpc, proposal, finish, closeErr, closed, streamErr, cleanupErr >>

BugCleanupCloseIgnoresError ==
  /\ once = "close"
  /\ once' = "settle"
  /\ (~Refusable /\ CloseAnswered) \/ CloseLost \/ (Refusable /\ CloseAborted)
  /\ UNCHANGED << envVars, readerVars, kpc, proposal, finish, cancelErr, closeErr, closed,
                  streamErr, cleanupErr, cancelSent >>

CleanupClose ==
  /\ once = "close"
  /\ once' = "settle"
  /\ \/ ~Refusable /\ CloseAnswered /\ UNCHANGED closeErr
     \/ CloseLost /\ closeErr' = TRUE
     \/ Refusable /\ CloseAborted /\ closeErr' = TRUE
  /\ UNCHANGED << envVars, readerVars, kpc, proposal, finish, cancelErr, closed, streamErr,
                  cleanupErr, cancelSent >>

CleanupSettle ==
  /\ once = "settle"
  /\ once' = "leave"
  /\ closed' = TRUE
  /\ streamErr' = finish.primary
  /\ cleanupErr' = (cancelErr \/ closeErr)
  /\ UNCHANGED << serverVars, envVars, readerVars, kpc, proposal, finish, cancelErr, closeErr, cancelSent >>

CleanupLeave ==
  /\ once = "leave"
  /\ registered' = FALSE
  /\ once' = "done"
  /\ UNCHANGED << serverVars, limits, clientClosed, endedBy, readerVars, kpc, proposal, finish,
                  cancelErr, closeErr, closed, streamErr, cleanupErr, cancelSent >>

ServerFails ==
  /\ OperationFails
  /\ UNCHANGED << envVars, readerVars, kpc, proposal, cleanupVars >>

-----------------------------------------------------------------------------
ReaderStep ==
  \/ Submit \/ Register \/ Reject
  \/ CheckClosed \/ CheckContext \/ YieldRow \/ Dispatch
  \/ FetchNotReady \/ FetchPage \/ FetchMalformed \/ FetchFails \/ Classify
  \/ Sleep \/ NextReturns \/ ReaderEnters

CloserStep(k) == CloserCancels(k) \/ CloserEnters(k) \/ CloserReturns(k)

CleanupStep == CleanupCancel \/ CleanupClose \/ CleanupSettle \/ CleanupLeave

Next ==
  \/ ReaderStep
  \/ CleanupStep
  \/ \E k \in Closers : CloserStep(k)
  \/ NextCall
  \/ \E k \in Users : UserClose(k)
  \/ ClientClose \/ LifecycleEnds \/ ContextEnds \/ ServerFails

(* Requests are bounded by RequestTimeout and polls by MaxPolls, so the    *)
(* library's own steps are taken. Users need not call Next or Close.       *)
Fairness ==
  /\ WF_vars(ReaderStep)
  /\ WF_vars(CleanupStep)
  /\ \A k \in Closers : WF_vars(CloserStep(k))

Spec == Init /\ [][Next]_vars
FairSpec == Spec /\ Fairness

(***************************************************************************)
(* Properties                                                              *)
(***************************************************************************)

\* Next returns the rows of the server in order, none twice and none left
\* out, whatever NOT_READY answers, retries and closers come in between.
RowsInOrder == IsPrefix(delivered, Rows)

\* The error of a stream tells the truth about its rows: a stream that ended
\* without error gave every row, one that hit MaxRows really has more, and one
\* that hit MaxPolls made that many fetches, never more.
OutcomeHonest ==
  /\ streamErr = "eos" => delivered = Rows
  /\ streamErr = "rowLimit" => Len(delivered) = limits.maxRows /\ delivered # Rows
  /\ streamErr = "pollLimit" => polls = limits.maxPolls
  /\ polls <= limits.maxPolls

\* Once any Close has returned, a user's, a second one or GatewayClient.Close,
\* the stream is out of c.streams for good, and nobody has a stream that is not
\* closed: neither one that the snapshot of the client missed because its
\* cleanup was under way, nor one whose ExecuteStream was under way (registerStream,
\* closeWithContext).  And when Close returns nil, or Next returned false with
\* nothing to report, the server has released the operation.
CloseHonest ==
  /\ \A k \in Closers : kpc[k] = "returned" => ~registered /\ (Opened => closed)
  /\ closed /\ ~cleanupErr => op = "closed"

\* Closing a client releases the streams it owns: an operation is left on the
\* server only if the network lost the request that ends it.
ClientCloseReleases ==
  kpc[Client] = "returned" /\ npc \notin {"registering", "rejecting"} /\ ~faulty =>
    op \in {"none", "closed"}

\* A user's Close that stops a statement before its end cancels the
\* operation, and does not only close it, whoever wins the cleanup.
EarlyCloseCancels ==
  streamErr = "context" /\ endedBy \in Users => cancelSent

\* Every Close and every Next returns.
CallsReturn ==
  /\ \A k \in Closers : kpc[k] = "called" ~> kpc[k] = "returned"
  /\ npc = "loop" ~> npc \in {"idle", "ended"}
=============================================================================
