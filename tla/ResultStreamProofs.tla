-------------------------- MODULE ResultStreamProofs --------------------------
(***************************************************************************)
(* Proofs about ResultStream, for every result, every limit and any number *)
(* of goroutines that close the stream.                                    *)
(***************************************************************************)
EXTENDS ResultStream, SequenceTheorems, TLAPS

(***************************************************************************)
(* The invariant                                                           *)
(***************************************************************************)
Early == {"new", "registering", "rejecting", "refused"}
Reading == {"idle", "loop", "checkCtx", "dispatch", "fetching", "classify", "sleeping"}

Types ==
  /\ ServerTypeOK
  /\ limits \in [maxRows : RowLimits, maxPolls : PollLimits, cancelOnContextDone : BOOLEAN]
  /\ clientClosed \in BOOLEAN /\ registered \in BOOLEAN
  /\ npc \in Early \cup Reading \cup {"finishing", "ended"}
  /\ token \in Nat /\ token < LastPage /\ polls \in Nat
  /\ pendingRows \in Seq(Nat) /\ pendingEOS \in BOOLEAN /\ delivered \in Seq(Nat)
  /\ kpc \in [Closers -> {"idle", "called", "cancelled", "returned"}]
  /\ once \in {"new", "cancel", "close", "settle", "leave", "done"}
  /\ cancelErr \in BOOLEAN /\ closeErr \in BOOLEAN /\ closed \in BOOLEAN /\ cleanupErr \in BOOLEAN

\* Nobody can end a stream that its caller or the client do not have yet.  A
\* stream is in c.streams from the moment its caller has it to the end of its
\* cleanup, so that a Close of the client that finds none has come after that
\* end or will make registerStream refuse it.
OnceInv ==
  /\ npc \in Early => once = "new" /\ \A k \in Closers : kpc[k] \notin {"called", "cancelled"}
  /\ registered <=> npc \notin Early /\ once # "done"
  /\ \A k \in Closers : kpc[k] = "returned" => once = "done" \/ (npc \in Early /\ clientClosed)

\* The cleanup reports a close that did not reach the server.
CleanupInv ==
  /\ closed <=> once \in {"leave", "done"}
  /\ once \in {"settle", "leave", "done"} /\ ~closeErr => op = "closed"
  /\ closed /\ ~cleanupErr => ~closeErr
  /\ streamErr # "none" => closed

\* The rows of the result that have reached the stream: first those that Next
\* has returned, then those it has pending.
Arrived == IF pendingEOS THEN Ends[LastPage] ELSE Before(token + 1)

RowInv ==
  /\ Len(delivered) + Len(pendingRows) = Arrived
  /\ \A i \in 1..Len(delivered) : delivered[i] = i
  /\ \A i \in 1..Len(pendingRows) : pendingRows[i] = Len(delivered) + i
  /\ npc \in {"fetching", "classify", "sleeping"} => pendingRows = << >> /\ ~pendingEOS

\* What the stream may report about its rows.  The reader that has made a
\* proposal does not read on, nor does one whose proposal was accepted.
Promise(cause) ==
  /\ cause = "eos" => pendingRows = << >> /\ pendingEOS
  /\ cause = "rowLimit" => pendingRows # << >> /\ Len(delivered) = limits.maxRows
  /\ cause = "pollLimit" => polls = limits.maxPolls

Promises == {"eos", "rowLimit", "pollLimit"}

OutcomeInv ==
  /\ Len(delivered) <= limits.maxRows
  /\ polls <= limits.maxPolls /\ (npc = "fetching" => polls < limits.maxPolls)
  /\ npc = "finishing" => Promise(proposal.primary)
  /\ finish.primary \in Promises => npc \in {"finishing", "ended"} /\ Promise(finish.primary)
  /\ streamErr \in Promises => streamErr = finish.primary

IInv == Types /\ OnceInv /\ CleanupInv /\ RowInv /\ OutcomeInv

(***************************************************************************)
(* Pages and prefixes                                                      *)
(***************************************************************************)
LEMMA PageFacts ==
  /\ LastPage \in Nat \ {0} /\ Before(1) = 0
  /\ \A k \in 1..LastPage :
       /\ Before(k) \in Nat /\ Ends[k] \in Nat /\ Before(k) <= Ends[k] /\ Ends[k] <= Ends[LastPage]
       /\ k # LastPage => Before(k + 1) = Ends[k]
       /\ Page(k) \in Seq(Nat) /\ Len(Page(k)) = Ends[k] - Before(k)
       /\ DOMAIN Page(k) = 1..Len(Page(k))
       /\ \A j \in 1..Len(Page(k)) : Page(k)[j] = Before(k) + j
<1>1. LastPage \in Nat \ {0} /\ DOMAIN Ends = 1..LastPage /\ \A k \in 1..LastPage : Ends[k] \in Nat
  BY PagesAreOrdered, EmptySeq, LenProperties, ElementOfSeq DEF LastPage
<1>2. \A i, j \in 1..LastPage : i <= j => Ends[i] <= Ends[j]
  BY <1>1, PagesAreOrdered
<1>3. Before(1) = 0
  BY DEF Before
<1>4. ASSUME NEW k \in 1..LastPage
      PROVE  /\ Before(k) \in Nat /\ Before(k) <= Ends[k] /\ Ends[k] <= Ends[LastPage]
             /\ k # LastPage => Before(k + 1) = Ends[k]
  <2>1. Before(k) \in Nat /\ Before(k) <= Ends[k]
    <3>1. CASE k = 1
      BY <1>1, <1>3, <3>1
    <3>2. CASE k # 1
      <4>1. k - 1 \in 1..LastPage /\ k - 1 <= k
        BY <1>1, <3>2
      <4> QED BY <1>1, <1>2, <3>2, <4>1 DEF Before
    <3> QED BY <3>1, <3>2
  <2>2. Ends[k] <= Ends[LastPage]
    BY <1>1, <1>2
  <2>3. Before(k + 1) = Ends[k]
    <3>1. k + 1 # 1 /\ (k + 1) - 1 = k
      BY <1>1
    <3> QED BY <3>1 DEF Before
  <2> QED BY <2>1, <2>2, <2>3
<1>5. ASSUME NEW k \in 1..LastPage
      PROVE  /\ Page(k) \in Seq(Nat) /\ Len(Page(k)) = Ends[k] - Before(k)
             /\ DOMAIN Page(k) = 1..Len(Page(k))
             /\ \A j \in 1..Len(Page(k)) : Page(k)[j] = Before(k) + j
  <2>1. PICK n, b : n = Ends[k] - Before(k) /\ b = Before(k)
    OBVIOUS
  <2>2. n \in Nat /\ b \in Nat
    BY <1>1, <1>4, <2>1
  <2>3. Page(k) = [j \in 1..n |-> b + j]
    BY <2>1 DEF Page
  <2> QED BY <2>1, <2>2, <2>3
<1> QED BY <1>1, <1>3, <1>4, <1>5

LEMMA Prefix ==
  ASSUME NEW S, NEW s \in Seq(S), NEW t \in Seq(S),
         Len(s) <= Len(t), \A i \in 1..Len(s) : s[i] = t[i]
  PROVE  IsPrefix(s, t)
<1>1. Len(s) \in Nat /\ Len(t) \in Nat
  BY LenProperties
<1>2. PICK n \in Nat : n = Len(s)
  BY <1>1
<1>3. \A i \in 1..n : t[i] \in S
  BY <1>1, <1>2, ElementOfSeq
<1>4. /\ SubSeq(t, 1, n) \in Seq(S) /\ Len(SubSeq(t, 1, n)) = (IF 1 <= n THEN n - 1 + 1 ELSE 0)
      /\ \A i \in 1..(n - 1 + 1) : SubSeq(t, 1, n)[i] = t[1 + i - 1]
  <2>1. 1 \in Int /\ n \in Int
    BY <1>2
  <2> QED BY <1>3, <2>1, SubSeqProperties
<1>5. PICK u \in Seq(S) : u = SubSeq(t, 1, n)
  BY <1>4
<1>6. Len(u) = n /\ \A i \in 1..n : u[i] = t[i]
  <2>1. (IF 1 <= n THEN n - 1 + 1 ELSE 0) = n /\ n - 1 + 1 = n
    BY <1>2
  <2>2. \A i \in 1..n : 1 + i - 1 = i
    BY <1>2
  <2> QED BY <1>4, <1>5, <2>1, <2>2
<1>7. u = s
  BY <1>2, <1>6, SeqEqual
<1>8. SubSeq(s, 1, Len(s)) = s
  BY SubSeqFull
<1> QED BY <1>2, <1>5, <1>7, <1>8 DEF IsPrefix

(***************************************************************************)
(* One step, conjunct by conjunct                                          *)
(***************************************************************************)
LEMMA TypesKeep ==
  ASSUME Types, OutcomeInv, [Next]_vars
  PROVE  Types'
<1>1. CASE Submit
  <2>1. ServerTypeOK'
    BY <1>1 DEF Types, ServerTypeOK, Submit, Submitted, SubmitLost, GoTo, serverVars, envVars,
           cleanupVars, readVars
  <2>2. npc' \in Early \cup Reading \cup {"finishing", "ended"}
    BY <1>1 DEF Types, Early, Reading, Submit, Submitted, SubmitLost, GoTo, serverVars, envVars,
           cleanupVars, readVars
  <2>3. UNCHANGED << envVars, readVars, kpc, closed, cleanupErr >>
    BY <1>1 DEF Submit, GoTo, serverVars, envVars, cleanupVars, readVars
  <2>4. once' \in {"new", "cancel", "close", "settle", "leave", "done"}
        /\ cancelErr' \in BOOLEAN /\ closeErr' \in BOOLEAN
    BY <1>1 DEF Types, Submit, GoTo, serverVars, envVars, cleanupVars, readVars
  <2> QED BY <2>1, <2>2, <2>3, <2>4 DEF Types, envVars, readVars
<1>2. CASE Register
  <2>1. npc' \in Early \cup Reading \cup {"finishing", "ended"}
    BY <1>2 DEF Types, Early, Reading, Register, GoTo, serverVars, cleanupVars, readVars
  <2>2. UNCHANGED << serverVars, limits, clientClosed, readVars, kpc, closed, cleanupErr, cancelErr, closeErr >>
    BY <1>2 DEF Register, GoTo, serverVars, cleanupVars, readVars
  <2>3. registered' \in BOOLEAN /\ once' \in {"new", "cancel", "close", "settle", "leave", "done"}
    BY <1>2 DEF Types, Register, GoTo, serverVars, cleanupVars, readVars
  <2> QED BY <2>1, <2>2, <2>3 DEF Types, ServerTypeOK, serverVars, readVars
<1>3. CASE Reject
  <2>1. ServerTypeOK'
    BY <1>3 DEF Types, ServerTypeOK, Reject, CloseAnswered, CloseLost, GoTo, envVars, cleanupVars,
           readVars
  <2>2. npc' \in Early \cup Reading \cup {"finishing", "ended"}
    BY <1>3 DEF Types, Early, Reading, Reject, CloseAnswered, CloseLost, GoTo, envVars,
           cleanupVars, readVars
  <2>3. UNCHANGED << envVars, readVars, kpc, closed, cleanupErr >>
    BY <1>3 DEF Reject, GoTo, envVars, cleanupVars, readVars
  <2>4. once' \in {"new", "cancel", "close", "settle", "leave", "done"}
        /\ cancelErr' \in BOOLEAN /\ closeErr' \in BOOLEAN
    BY <1>3 DEF Types, Reject, GoTo, envVars, cleanupVars, readVars
  <2> QED BY <2>1, <2>2, <2>3, <2>4 DEF Types, envVars, readVars
<1>4. CASE CheckClosed
  BY <1>4 DEF Types, ServerTypeOK, Early, Reading, CheckClosed, GoTo, serverVars, envVars,
         cleanupVars, readVars
<1>5. CASE CheckContext
  BY <1>5 DEF Types, ServerTypeOK, Early, Reading, CheckContext, GoTo, Finish, serverVars,
         envVars, cleanupVars, readVars
<1>6. CASE YieldRow
  BY <1>6 DEF Types, ServerTypeOK, Early, Reading, YieldRow, GoTo, serverVars, envVars, cleanupVars
<1>7. CASE Dispatch
  BY <1>7 DEF Types, ServerTypeOK, Early, Reading, Dispatch, GoTo, Finish, serverVars, envVars,
         cleanupVars, readVars
<1>8. CASE FetchNotReady
  BY <1>8 DEF Types, ServerTypeOK, Early, Reading, FetchNotReady, GoTo, serverVars, envVars,
         cleanupVars
<1>9. CASE FetchPage
  <2>1. token + 1 \in 1..LastPage
    BY PageFacts DEF Types
  <2>2. Page(token + 1) \in Seq(Nat) /\ (token + 1 = LastPage) \in BOOLEAN
    BY <2>1, PageFacts
  <2>3. pendingRows' \in Seq(Nat) /\ pendingEOS' \in BOOLEAN /\ (pendingEOS' <=> token + 1 = LastPage)
    BY <1>9, <2>2, Zenon DEF FetchPage
  <2>4. token' \in Nat /\ token' < LastPage
    <3>1. token' = IF pendingEOS' THEN token ELSE token + 1
      BY <1>9 DEF FetchPage
    <3>2. LastPage \in Nat /\ token \in Nat /\ token < LastPage
      BY PageFacts DEF Types
    <3> QED BY <2>1, <2>3, <3>1, <3>2
  <2>5. UNCHANGED << serverVars, envVars, delivered, kpc, cleanupVars >> /\ polls' \in Nat /\ npc' = "loop"
    BY <1>9 DEF FetchPage, GoTo, Types
  <2> QED BY <2>3, <2>4, <2>5 DEF Types, ServerTypeOK, Reading, serverVars, envVars, cleanupVars
<1>10. CASE FetchMalformed
  BY <1>10 DEF Types, ServerTypeOK, Early, Reading, FetchMalformed, GoTo, Finish, serverVars,
         envVars, cleanupVars
<1>11. CASE FetchFails
  BY <1>11 DEF Types, ServerTypeOK, Early, Reading, FetchFails, GoTo, Finish, serverVars, envVars,
         cleanupVars
<1>12. CASE Classify
  BY <1>12 DEF Types, ServerTypeOK, Early, Reading, Classify, GoTo, Finish, serverVars, envVars,
         cleanupVars, readVars
<1>13. CASE Sleep
  BY <1>13 DEF Types, ServerTypeOK, Early, Reading, Sleep, GoTo, Finish, serverVars, envVars,
         cleanupVars, readVars
<1>14. CASE NextReturns
  BY <1>14 DEF Types, ServerTypeOK, Early, Reading, NextReturns, GoTo, serverVars, envVars,
         cleanupVars, readVars
<1>15. CASE ReaderEnters
  BY <1>15 DEF Types, ServerTypeOK, Early, Reading, ReaderEnters, EndContext, EnterOnce,
         serverVars, readerVars, readVars
<1>16. CASE CleanupCancel
  <2>1. ServerTypeOK'
    BY <1>16 DEF Types, ServerTypeOK, CleanupCancel, AfterCancel, CancelAnswered, CancelAborted,
           CancelLost, serverVars, envVars, readerVars, readVars
  <2>2. npc' \in Early \cup Reading \cup {"finishing", "ended"}
    BY <1>16 DEF Types, Early, Reading, CleanupCancel, AfterCancel, CancelAnswered, CancelAborted,
           CancelLost, serverVars, envVars, readerVars, readVars
  <2>3. UNCHANGED << envVars, readVars, kpc, closed, cleanupErr >>
    BY <1>16 DEF CleanupCancel, serverVars, envVars, readerVars, readVars
  <2>4. once' \in {"new", "cancel", "close", "settle", "leave", "done"}
        /\ cancelErr' \in BOOLEAN /\ closeErr' \in BOOLEAN
    BY <1>16 DEF Types, CleanupCancel, serverVars, envVars, readerVars, readVars
  <2> QED BY <2>1, <2>2, <2>3, <2>4 DEF Types, envVars, readVars
<1>17. CASE CleanupClose
  <2>1. ServerTypeOK'
    BY <1>17 DEF Types, ServerTypeOK, CleanupClose, CloseAnswered, CloseAborted, CloseLost,
           envVars, readerVars, readVars
  <2>2. npc' \in Early \cup Reading \cup {"finishing", "ended"}
    BY <1>17 DEF Types, Early, Reading, CleanupClose, CloseAnswered, CloseAborted, CloseLost,
           envVars, readerVars, readVars
  <2>3. UNCHANGED << envVars, readVars, kpc, closed, cleanupErr >>
    BY <1>17 DEF CleanupClose, envVars, readerVars, readVars
  <2>4. once' \in {"new", "cancel", "close", "settle", "leave", "done"}
        /\ cancelErr' \in BOOLEAN /\ closeErr' \in BOOLEAN
    BY <1>17 DEF Types, CleanupClose, envVars, readerVars, readVars
  <2> QED BY <2>1, <2>2, <2>3, <2>4 DEF Types, envVars, readVars
<1>18. CASE CleanupSettle
  BY <1>18 DEF Types, ServerTypeOK, Early, Reading, CleanupSettle, serverVars, envVars,
         readerVars, readVars
<1>19. CASE CleanupLeave
  <2>1. npc' \in Early \cup Reading \cup {"finishing", "ended"}
    BY <1>19 DEF Types, Early, Reading, CleanupLeave, serverVars, readerVars, readVars
  <2>2. UNCHANGED << serverVars, limits, clientClosed, readVars, kpc, closed, cleanupErr, cancelErr, closeErr >>
    BY <1>19 DEF CleanupLeave, serverVars, readerVars, readVars
  <2>3. registered' \in BOOLEAN /\ once' \in {"new", "cancel", "close", "settle", "leave", "done"}
    BY <1>19 DEF Types, CleanupLeave, serverVars, readerVars, readVars
  <2> QED BY <2>1, <2>2, <2>3 DEF Types, ServerTypeOK, serverVars, readVars
<1>20. ASSUME NEW k \in Closers, CloserCancels(k) PROVE Types'
  BY <1>20 DEF Types, ServerTypeOK, Early, Reading, CloserCancels, KGoTo, EndContext, serverVars,
         readerVars, cleanupVars, readVars
<1>21. ASSUME NEW k \in Closers, CloserEnters(k) PROVE Types'
  BY <1>21 DEF Types, ServerTypeOK, Early, Reading, CloserEnters, EndContext, EnterOnce,
         serverVars, readerVars, readVars
<1>22. ASSUME NEW k \in Closers, CloserReturns(k) PROVE Types'
  BY <1>22 DEF Types, ServerTypeOK, Early, Reading, CloserReturns, KGoTo, serverVars, envVars,
         readerVars, cleanupVars, readVars
<1>23. CASE NextCall
  BY <1>23 DEF Types, ServerTypeOK, Early, Reading, NextCall, GoTo, serverVars, envVars,
         cleanupVars, readVars
<1>24. ASSUME NEW k \in Users, UserClose(k) PROVE Types'
  <2>1. kpc' \in [Closers -> {"idle", "called", "cancelled", "returned"}]
    BY <1>24 DEF Types, UserClose, Opened, KGoTo, Closers, Client
  <2>2. UNCHANGED << serverVars, limits, registered, readerVars, cleanupVars >> /\ clientClosed' \in BOOLEAN
    BY <1>24 DEF Types, UserClose, Opened, KGoTo, serverVars, envVars, readerVars, cleanupVars, readVars
  <2> QED BY <2>1, <2>2 DEF Types, ServerTypeOK, serverVars, readerVars, readVars, cleanupVars
<1>25. CASE ClientClose
  <2>1. kpc' \in [Closers -> {"idle", "called", "cancelled", "returned"}]
    BY <1>25 DEF Types, ClientClose, KGoTo, Closers, Client
  <2>2. UNCHANGED << serverVars, limits, registered, readerVars, cleanupVars >> /\ clientClosed' \in BOOLEAN
    BY <1>25 DEF Types, ClientClose, KGoTo, serverVars, readerVars, cleanupVars, readVars
  <2> QED BY <2>1, <2>2 DEF Types, ServerTypeOK, serverVars, readerVars, readVars, cleanupVars
<1>26. CASE LifecycleEnds
  BY <1>26 DEF Types, ServerTypeOK, Early, Reading, LifecycleEnds, EndContext, serverVars,
         readerVars, cleanupVars, readVars
<1>27. CASE ContextEnds
  BY <1>27 DEF Types, ServerTypeOK, Early, Reading, ContextEnds, EndContext, serverVars,
         readerVars, cleanupVars, readVars
<1>28. CASE ServerFails
  BY <1>28 DEF Types, ServerTypeOK, Early, Reading, ServerFails, OperationFails, envVars,
         readerVars, cleanupVars, readVars
<1>29. CASE UNCHANGED vars
  BY <1>29 DEF Types, ServerTypeOK, Early, Reading, vars, serverVars, envVars, readerVars,
         readVars, cleanupVars
<1> QED BY <1>1, <1>2, <1>3, <1>4, <1>5, <1>6, <1>7, <1>8, <1>9, <1>10, <1>11, <1>12, <1>13,
            <1>14, <1>15, <1>16, <1>17, <1>18, <1>19, <1>20, <1>21, <1>22, <1>23, <1>24, <1>25,
            <1>26, <1>27, <1>28, <1>29 DEF Next, ReaderStep, CleanupStep, CloserStep

LEMMA OnceKeeps ==
  ASSUME Types, OnceInv, CleanupInv, [Next]_vars
  PROVE  OnceInv'
<1>1. CASE Submit
  BY <1>1 DEF Types, Early, Reading, OnceInv, CleanupInv, Submit, Submitted, SubmitLost, GoTo,
         serverVars, envVars, cleanupVars, readVars
<1>2. CASE Register
  BY <1>2 DEF Types, Early, Reading, OnceInv, CleanupInv, Register, GoTo, serverVars, cleanupVars,
         readVars
<1>3. CASE Reject
  BY <1>3 DEF Types, Early, Reading, OnceInv, CleanupInv, Reject, CloseAnswered, CloseLost, GoTo,
         envVars, cleanupVars, readVars
<1>4. CASE CheckClosed
  BY <1>4 DEF Types, Early, Reading, OnceInv, CleanupInv, CheckClosed, GoTo, serverVars, envVars,
         cleanupVars, readVars
<1>5. CASE CheckContext
  BY <1>5 DEF Types, Early, Reading, OnceInv, CleanupInv, CheckContext, GoTo, Finish, serverVars,
         envVars, cleanupVars, readVars
<1>6. CASE YieldRow
  BY <1>6 DEF Types, Early, Reading, OnceInv, CleanupInv, YieldRow, GoTo, serverVars, envVars,
         cleanupVars
<1>7. CASE Dispatch
  BY <1>7 DEF Types, Early, Reading, OnceInv, CleanupInv, Dispatch, GoTo, Finish, serverVars,
         envVars, cleanupVars, readVars
<1>8. CASE FetchNotReady
  BY <1>8 DEF Types, Early, Reading, OnceInv, CleanupInv, FetchNotReady, GoTo, serverVars,
         envVars, cleanupVars
<1>9. CASE FetchPage
  BY <1>9 DEF Types, Early, Reading, OnceInv, CleanupInv, FetchPage, GoTo, serverVars, envVars,
         cleanupVars
<1>10. CASE FetchMalformed
  BY <1>10 DEF Types, Early, Reading, OnceInv, CleanupInv, FetchMalformed, GoTo, Finish,
         serverVars, envVars, cleanupVars
<1>11. CASE FetchFails
  BY <1>11 DEF Types, Early, Reading, OnceInv, CleanupInv, FetchFails, GoTo, Finish, serverVars,
         envVars, cleanupVars
<1>12. CASE Classify
  BY <1>12 DEF Types, Early, Reading, OnceInv, CleanupInv, Classify, GoTo, Finish, serverVars,
         envVars, cleanupVars, readVars
<1>13. CASE Sleep
  BY <1>13 DEF Types, Early, Reading, OnceInv, CleanupInv, Sleep, GoTo, Finish, serverVars,
         envVars, cleanupVars, readVars
<1>14. CASE NextReturns
  BY <1>14 DEF Types, Early, Reading, OnceInv, CleanupInv, NextReturns, GoTo, serverVars, envVars,
         cleanupVars, readVars
<1>15. CASE ReaderEnters
  BY <1>15 DEF Types, Early, Reading, OnceInv, CleanupInv, ReaderEnters, EndContext, EnterOnce,
         serverVars, readerVars, readVars
<1>16. CASE CleanupCancel
  BY <1>16 DEF Types, Early, Reading, OnceInv, CleanupInv, CleanupCancel, AfterCancel,
         CancelAnswered, CancelAborted, CancelLost, serverVars, envVars, readerVars, readVars
<1>17. CASE CleanupClose
  BY <1>17 DEF Types, Early, Reading, OnceInv, CleanupInv, CleanupClose, CloseAnswered,
         CloseAborted, CloseLost, envVars, readerVars, readVars
<1>18. CASE CleanupSettle
  BY <1>18 DEF Types, Early, Reading, OnceInv, CleanupInv, CleanupSettle, serverVars, envVars,
         readerVars, readVars
<1>19. CASE CleanupLeave
  BY <1>19 DEF Types, Early, Reading, OnceInv, CleanupInv, CleanupLeave, serverVars, readerVars,
         readVars
<1>20. ASSUME NEW k \in Closers, CloserCancels(k) PROVE OnceInv'
  BY <1>20 DEF Types, Early, Reading, OnceInv, CleanupInv, CloserCancels, KGoTo, EndContext,
         serverVars, readerVars, cleanupVars, readVars
<1>21. ASSUME NEW k \in Closers, CloserEnters(k) PROVE OnceInv'
  BY <1>21 DEF Types, Early, Reading, OnceInv, CleanupInv, CloserEnters, EndContext, EnterOnce,
         serverVars, readerVars, readVars
<1>22. ASSUME NEW k \in Closers, CloserReturns(k) PROVE OnceInv'
  BY <1>22 DEF Types, Early, Reading, OnceInv, CleanupInv, CloserReturns, KGoTo, serverVars,
         envVars, readerVars, cleanupVars, readVars
<1>23. CASE NextCall
  BY <1>23 DEF Types, Early, Reading, OnceInv, CleanupInv, NextCall, GoTo, serverVars, envVars,
         cleanupVars, readVars
<1>24. ASSUME NEW k \in Users, UserClose(k) PROVE OnceInv'
  BY <1>24 DEF Types, Early, Reading, OnceInv, CleanupInv, UserClose, Opened, KGoTo, serverVars, envVars,
         readerVars, cleanupVars, readVars
<1>25. CASE ClientClose
  BY <1>25 DEF Types, Early, Reading, OnceInv, CleanupInv, ClientClose, KGoTo, serverVars,
         readerVars, cleanupVars, readVars
<1>26. CASE LifecycleEnds
  BY <1>26 DEF Types, Early, Reading, OnceInv, CleanupInv, LifecycleEnds, EndContext, serverVars,
         readerVars, cleanupVars, readVars
<1>27. CASE ContextEnds
  BY <1>27 DEF Types, Early, Reading, OnceInv, CleanupInv, ContextEnds, EndContext, serverVars,
         readerVars, cleanupVars, readVars
<1>28. CASE ServerFails
  BY <1>28 DEF Types, Early, Reading, OnceInv, CleanupInv, ServerFails, OperationFails, envVars,
         readerVars, cleanupVars, readVars
<1>29. CASE UNCHANGED vars
  BY <1>29 DEF Types, Early, Reading, OnceInv, CleanupInv, vars, serverVars, envVars, readerVars,
         readVars, cleanupVars
<1> QED BY <1>1, <1>2, <1>3, <1>4, <1>5, <1>6, <1>7, <1>8, <1>9, <1>10, <1>11, <1>12, <1>13,
            <1>14, <1>15, <1>16, <1>17, <1>18, <1>19, <1>20, <1>21, <1>22, <1>23, <1>24, <1>25,
            <1>26, <1>27, <1>28, <1>29 DEF Next, ReaderStep, CleanupStep, CloserStep

LEMMA CleanupKeeps ==
  ASSUME Types, OnceInv, CleanupInv, [Next]_vars
  PROVE  CleanupInv'
<1>1. CASE Submit
  BY <1>1 DEF Types, ServerTypeOK, Early, OnceInv, CleanupInv, Submit, Submitted, SubmitLost,
         GoTo, serverVars, envVars, cleanupVars, readVars
<1>2. CASE Register
  BY <1>2 DEF Types, ServerTypeOK, Early, OnceInv, CleanupInv, Register, GoTo, serverVars,
         cleanupVars, readVars
<1>3. CASE Reject
  BY <1>3 DEF Types, ServerTypeOK, Early, OnceInv, CleanupInv, Reject, CloseAnswered, CloseLost,
         GoTo, envVars, cleanupVars, readVars
<1>4. CASE CheckClosed
  BY <1>4 DEF Types, ServerTypeOK, Early, OnceInv, CleanupInv, CheckClosed, GoTo, serverVars,
         envVars, cleanupVars, readVars
<1>5. CASE CheckContext
  BY <1>5 DEF Types, ServerTypeOK, Early, OnceInv, CleanupInv, CheckContext, GoTo, Finish,
         serverVars, envVars, cleanupVars, readVars
<1>6. CASE YieldRow
  BY <1>6 DEF Types, ServerTypeOK, Early, OnceInv, CleanupInv, YieldRow, GoTo, serverVars,
         envVars, cleanupVars
<1>7. CASE Dispatch
  BY <1>7 DEF Types, ServerTypeOK, Early, OnceInv, CleanupInv, Dispatch, GoTo, Finish, serverVars,
         envVars, cleanupVars, readVars
<1>8. CASE FetchNotReady
  BY <1>8 DEF Types, ServerTypeOK, Early, OnceInv, CleanupInv, FetchNotReady, GoTo, serverVars,
         envVars, cleanupVars
<1>9. CASE FetchPage
  BY <1>9 DEF Types, ServerTypeOK, Early, OnceInv, CleanupInv, FetchPage, GoTo, serverVars,
         envVars, cleanupVars
<1>10. CASE FetchMalformed
  BY <1>10 DEF Types, ServerTypeOK, Early, OnceInv, CleanupInv, FetchMalformed, GoTo, Finish,
         serverVars, envVars, cleanupVars
<1>11. CASE FetchFails
  BY <1>11 DEF Types, ServerTypeOK, Early, OnceInv, CleanupInv, FetchFails, GoTo, Finish,
         serverVars, envVars, cleanupVars
<1>12. CASE Classify
  BY <1>12 DEF Types, ServerTypeOK, Early, OnceInv, CleanupInv, Classify, GoTo, Finish,
         serverVars, envVars, cleanupVars, readVars
<1>13. CASE Sleep
  BY <1>13 DEF Types, ServerTypeOK, Early, OnceInv, CleanupInv, Sleep, GoTo, Finish, serverVars,
         envVars, cleanupVars, readVars
<1>14. CASE NextReturns
  BY <1>14 DEF Types, ServerTypeOK, Early, OnceInv, CleanupInv, NextReturns, GoTo, serverVars,
         envVars, cleanupVars, readVars
<1>15. CASE ReaderEnters
  BY <1>15 DEF Types, ServerTypeOK, Early, OnceInv, CleanupInv, ReaderEnters, EndContext,
         EnterOnce, serverVars, readerVars, readVars
<1>16. CASE CleanupCancel
  BY <1>16 DEF Types, ServerTypeOK, Early, OnceInv, CleanupInv, CleanupCancel, AfterCancel,
         CancelAnswered, CancelAborted, CancelLost, serverVars, envVars, readerVars, readVars
<1>17. CASE CleanupClose
  BY <1>17 DEF Types, ServerTypeOK, Early, OnceInv, CleanupInv, CleanupClose, CloseAnswered,
         CloseAborted, CloseLost, envVars, readerVars, readVars
<1>18. CASE CleanupSettle
  BY <1>18 DEF Types, ServerTypeOK, Early, OnceInv, CleanupInv, CleanupSettle, serverVars,
         envVars, readerVars, readVars
<1>19. CASE CleanupLeave
  BY <1>19 DEF Types, ServerTypeOK, Early, OnceInv, CleanupInv, CleanupLeave, serverVars,
         readerVars, readVars
<1>20. ASSUME NEW k \in Closers, CloserCancels(k) PROVE CleanupInv'
  BY <1>20 DEF Types, ServerTypeOK, Early, OnceInv, CleanupInv, CloserCancels, KGoTo, EndContext,
         serverVars, readerVars, cleanupVars, readVars
<1>21. ASSUME NEW k \in Closers, CloserEnters(k) PROVE CleanupInv'
  BY <1>21 DEF Types, ServerTypeOK, Early, OnceInv, CleanupInv, CloserEnters, EndContext,
         EnterOnce, serverVars, readerVars, readVars
<1>22. ASSUME NEW k \in Closers, CloserReturns(k) PROVE CleanupInv'
  BY <1>22 DEF Types, ServerTypeOK, Early, OnceInv, CleanupInv, CloserReturns, KGoTo, serverVars,
         envVars, readerVars, cleanupVars, readVars
<1>23. CASE NextCall
  BY <1>23 DEF Types, ServerTypeOK, Early, OnceInv, CleanupInv, NextCall, GoTo, serverVars,
         envVars, cleanupVars, readVars
<1>24. ASSUME NEW k \in Users, UserClose(k) PROVE CleanupInv'
  BY <1>24 DEF Types, ServerTypeOK, Early, OnceInv, CleanupInv, UserClose, Opened, KGoTo, serverVars,
         envVars, readerVars, cleanupVars, readVars
<1>25. CASE ClientClose
  BY <1>25 DEF Types, ServerTypeOK, Early, OnceInv, CleanupInv, ClientClose, KGoTo, serverVars,
         readerVars, cleanupVars, readVars
<1>26. CASE LifecycleEnds
  BY <1>26 DEF Types, ServerTypeOK, Early, OnceInv, CleanupInv, LifecycleEnds, EndContext,
         serverVars, readerVars, cleanupVars, readVars
<1>27. CASE ContextEnds
  BY <1>27 DEF Types, ServerTypeOK, Early, OnceInv, CleanupInv, ContextEnds, EndContext,
         serverVars, readerVars, cleanupVars, readVars
<1>28. CASE ServerFails
  BY <1>28 DEF Types, ServerTypeOK, Early, OnceInv, CleanupInv, ServerFails, OperationFails,
         envVars, readerVars, cleanupVars, readVars
<1>29. CASE UNCHANGED vars
  BY <1>29 DEF Types, ServerTypeOK, Early, OnceInv, CleanupInv, vars, serverVars, envVars,
         readerVars, readVars, cleanupVars
<1> QED BY <1>1, <1>2, <1>3, <1>4, <1>5, <1>6, <1>7, <1>8, <1>9, <1>10, <1>11, <1>12, <1>13,
            <1>14, <1>15, <1>16, <1>17, <1>18, <1>19, <1>20, <1>21, <1>22, <1>23, <1>24, <1>25,
            <1>26, <1>27, <1>28, <1>29 DEF Next, ReaderStep, CleanupStep, CloserStep

LEMMA RowsKeep ==
  ASSUME Types, RowInv, [Next]_vars
  PROVE  RowInv'
<1>1. CASE Submit
  BY <1>1 DEF Types, Reading, RowInv, Arrived, Submit, Submitted, SubmitLost, GoTo, serverVars,
         envVars, cleanupVars, readVars
<1>2. CASE Register
  BY <1>2 DEF Types, Reading, RowInv, Arrived, Register, GoTo, serverVars, cleanupVars, readVars
<1>3. CASE Reject
  BY <1>3 DEF Types, Reading, RowInv, Arrived, Reject, CloseAnswered, CloseLost, GoTo, envVars,
         cleanupVars, readVars
<1>4. CASE CheckClosed
  BY <1>4 DEF Types, Reading, RowInv, Arrived, CheckClosed, GoTo, serverVars, envVars,
         cleanupVars, readVars
<1>5. CASE CheckContext
  BY <1>5 DEF Types, Reading, RowInv, Arrived, CheckContext, GoTo, Finish, serverVars, envVars,
         cleanupVars, readVars
<1>6. CASE YieldRow
  BY <1>6 DEF Types, Reading, RowInv, Arrived, YieldRow, GoTo, serverVars, envVars, cleanupVars
<1>7. CASE Dispatch
  BY <1>7 DEF Types, Reading, RowInv, Arrived, Dispatch, GoTo, Finish, serverVars, envVars,
         cleanupVars, readVars
<1>8. CASE FetchNotReady
  BY <1>8 DEF Types, Reading, RowInv, Arrived, FetchNotReady, GoTo, serverVars, envVars, cleanupVars
<1>9. CASE FetchPage
  <2>1. PICK i \in 1..LastPage : i = token + 1
    <3>1. token + 1 \in 1..LastPage
      BY PageFacts DEF Types
    <3> QED BY <3>1
  <2>2. pendingRows = << >> /\ ~pendingEOS /\ Len(delivered) = Before(i) /\ Len(delivered) \in Nat
    <3>1. pendingRows = << >> /\ ~pendingEOS
      BY <1>9 DEF RowInv, FetchPage
    <3>2. Len(delivered) \in Nat /\ Len(pendingRows) = 0
      BY <3>1, EmptySeq, LenProperties DEF Types
    <3> QED BY <2>1, <3>1, <3>2 DEF RowInv, Arrived
  <2>3. /\ pendingRows' = Page(i) /\ (pendingEOS' <=> i = LastPage) /\ delivered' = delivered
        /\ npc' = "loop" /\ token' = IF i = LastPage THEN token ELSE i
    BY <1>9, <2>1 DEF FetchPage, GoTo
  <2>4. /\ Len(Page(i)) = Ends[i] - Before(i) /\ Before(i) \in Nat /\ Ends[i] \in Nat
        /\ \A j \in 1..Len(Page(i)) : Page(i)[j] = Before(i) + j
        /\ i # LastPage => Before(i + 1) = Ends[i]
    BY PageFacts
  <2>5. Arrived' = Ends[i]
    BY <2>3, <2>4 DEF Arrived
  <2>6. Len(delivered') + Len(pendingRows') = Arrived'
    BY <2>2, <2>3, <2>4, <2>5
  <2>7. \A j \in 1..Len(pendingRows') : pendingRows'[j] = Len(delivered') + j
    BY <2>2, <2>3, <2>4
  <2>8. \A j \in 1..Len(delivered') : delivered'[j] = j
    BY <2>3 DEF RowInv
  <2> QED BY <2>3, <2>6, <2>7, <2>8 DEF RowInv
<1>10. CASE FetchMalformed
  BY <1>10 DEF Types, Reading, RowInv, Arrived, FetchMalformed, GoTo, Finish, serverVars, envVars,
         cleanupVars
<1>11. CASE FetchFails
  BY <1>11 DEF Types, Reading, RowInv, Arrived, FetchFails, GoTo, Finish, serverVars, envVars,
         cleanupVars
<1>12. CASE Classify
  BY <1>12 DEF Types, Reading, RowInv, Arrived, Classify, GoTo, Finish, serverVars, envVars,
         cleanupVars, readVars
<1>13. CASE Sleep
  BY <1>13 DEF Types, Reading, RowInv, Arrived, Sleep, GoTo, Finish, serverVars, envVars,
         cleanupVars, readVars
<1>14. CASE NextReturns
  BY <1>14 DEF Types, Reading, RowInv, Arrived, NextReturns, GoTo, serverVars, envVars,
         cleanupVars, readVars
<1>15. CASE ReaderEnters
  BY <1>15 DEF Types, Reading, RowInv, Arrived, ReaderEnters, EndContext, EnterOnce, serverVars,
         readerVars, readVars
<1>16. CASE CleanupCancel
  BY <1>16 DEF Types, Reading, RowInv, Arrived, CleanupCancel, AfterCancel, CancelAnswered,
         CancelAborted, CancelLost, serverVars, envVars, readerVars, readVars
<1>17. CASE CleanupClose
  BY <1>17 DEF Types, Reading, RowInv, Arrived, CleanupClose, CloseAnswered, CloseAborted,
         CloseLost, envVars, readerVars, readVars
<1>18. CASE CleanupSettle
  BY <1>18 DEF Types, Reading, RowInv, Arrived, CleanupSettle, serverVars, envVars, readerVars,
         readVars
<1>19. CASE CleanupLeave
  BY <1>19 DEF Types, Reading, RowInv, Arrived, CleanupLeave, serverVars, readerVars, readVars
<1>20. ASSUME NEW k \in Closers, CloserCancels(k) PROVE RowInv'
  BY <1>20 DEF Types, Reading, RowInv, Arrived, CloserCancels, KGoTo, EndContext, serverVars,
         readerVars, cleanupVars, readVars
<1>21. ASSUME NEW k \in Closers, CloserEnters(k) PROVE RowInv'
  BY <1>21 DEF Types, Reading, RowInv, Arrived, CloserEnters, EndContext, EnterOnce, serverVars,
         readerVars, readVars
<1>22. ASSUME NEW k \in Closers, CloserReturns(k) PROVE RowInv'
  BY <1>22 DEF Types, Reading, RowInv, Arrived, CloserReturns, KGoTo, serverVars, envVars,
         readerVars, cleanupVars, readVars
<1>23. CASE NextCall
  BY <1>23 DEF Types, Reading, RowInv, Arrived, NextCall, GoTo, serverVars, envVars, cleanupVars,
         readVars
<1>24. ASSUME NEW k \in Users, UserClose(k) PROVE RowInv'
  BY <1>24 DEF Types, Reading, RowInv, Arrived, UserClose, Opened, KGoTo, serverVars, envVars, readerVars,
         cleanupVars, readVars
<1>25. CASE ClientClose
  BY <1>25 DEF Types, Reading, RowInv, Arrived, ClientClose, KGoTo, serverVars, readerVars,
         cleanupVars, readVars
<1>26. CASE LifecycleEnds
  BY <1>26 DEF Types, Reading, RowInv, Arrived, LifecycleEnds, EndContext, serverVars, readerVars,
         cleanupVars, readVars
<1>27. CASE ContextEnds
  BY <1>27 DEF Types, Reading, RowInv, Arrived, ContextEnds, EndContext, serverVars, readerVars,
         cleanupVars, readVars
<1>28. CASE ServerFails
  BY <1>28 DEF Types, Reading, RowInv, Arrived, ServerFails, OperationFails, envVars, readerVars,
         cleanupVars, readVars
<1>29. CASE UNCHANGED vars
  BY <1>29 DEF Types, Reading, RowInv, Arrived, vars, serverVars, envVars, readerVars, readVars,
         cleanupVars
<1> QED BY <1>1, <1>2, <1>3, <1>4, <1>5, <1>6, <1>7, <1>8, <1>9, <1>10, <1>11, <1>12, <1>13,
            <1>14, <1>15, <1>16, <1>17, <1>18, <1>19, <1>20, <1>21, <1>22, <1>23, <1>24, <1>25,
            <1>26, <1>27, <1>28, <1>29 DEF Next, ReaderStep, CleanupStep, CloserStep

LEMMA OutcomeKeeps ==
  ASSUME Types, OnceInv, CleanupInv, RowInv, OutcomeInv, [Next]_vars
  PROVE  OutcomeInv'
<1>0. limits.maxRows \in Nat /\ limits.maxPolls \in Nat /\ Len(delivered) \in Nat
  <2>1. limits.maxRows \in Nat /\ limits.maxPolls \in Nat
    BY LimitsAreNumbers DEF Types
  <2> QED BY <2>1, LenProperties DEF Types
<1>1. CASE Submit
  BY <1>1, <1>0 DEF Types, Reading, OutcomeInv, Promise, Promises, Submit, Submitted, SubmitLost,
         GoTo, serverVars, envVars, cleanupVars, readVars
<1>2. CASE Register
  BY <1>2, <1>0 DEF Types, Reading, OutcomeInv, Promise, Promises, Register, GoTo, serverVars,
         cleanupVars, readVars
<1>3. CASE Reject
  BY <1>3, <1>0 DEF Types, Reading, OutcomeInv, Promise, Promises, Reject, CloseAnswered,
         CloseLost, GoTo, envVars, cleanupVars, readVars
<1>4. CASE CheckClosed
  BY <1>4, <1>0 DEF Types, Reading, OutcomeInv, Promise, Promises, CheckClosed, GoTo, serverVars,
         envVars, cleanupVars, readVars
<1>5. CASE CheckContext
  BY <1>5, <1>0 DEF Types, Reading, OutcomeInv, Promise, Promises, CheckContext, GoTo, Finish,
         serverVars, envVars, cleanupVars, readVars
<1>6. CASE YieldRow
  BY <1>6, <1>0 DEF Types, Reading, OutcomeInv, Promise, Promises, YieldRow, GoTo, serverVars,
         envVars, cleanupVars
<1>7. CASE Dispatch
  BY <1>7, <1>0 DEF Types, Reading, OutcomeInv, Promise, Promises, Dispatch, GoTo, Finish,
         serverVars, envVars, cleanupVars, readVars
<1>8. CASE FetchNotReady
  BY <1>8, <1>0 DEF Types, Reading, OutcomeInv, Promise, Promises, FetchNotReady, GoTo,
         serverVars, envVars, cleanupVars
<1>9. CASE FetchPage
  BY <1>9, <1>0 DEF Types, Reading, OutcomeInv, Promise, Promises, FetchPage, GoTo, serverVars,
         envVars, cleanupVars
<1>10. CASE FetchMalformed
  BY <1>10, <1>0 DEF Types, Reading, OutcomeInv, Promise, Promises, FetchMalformed, GoTo, Finish,
         serverVars, envVars, cleanupVars
<1>11. CASE FetchFails
  BY <1>11, <1>0 DEF Types, Reading, OutcomeInv, Promise, Promises, FetchFails, GoTo, Finish,
         serverVars, envVars, cleanupVars
<1>12. CASE Classify
  BY <1>12, <1>0 DEF Types, Reading, OutcomeInv, Promise, Promises, Classify, GoTo, Finish,
         serverVars, envVars, cleanupVars, readVars
<1>13. CASE Sleep
  BY <1>13, <1>0 DEF Types, Reading, OutcomeInv, Promise, Promises, Sleep, GoTo, Finish,
         serverVars, envVars, cleanupVars, readVars
<1>14. CASE NextReturns
  BY <1>14, <1>0 DEF Types, Reading, OutcomeInv, Promise, Promises, NextReturns, GoTo, serverVars,
         envVars, cleanupVars, readVars
<1>15. CASE ReaderEnters
  <2>1. npc = "finishing" /\ finish' = proposal /\ UNCHANGED << readVars, npc, proposal, limits, streamErr >>
    BY <1>15 DEF ReaderEnters, EnterOnce, readerVars
  <2>2. streamErr \notin Promises
    BY <1>15 DEF ReaderEnters, EnterOnce, CleanupInv, Promises
  <2> QED BY <2>1, <2>2 DEF OutcomeInv, Promise, readVars
<1>16. CASE CleanupCancel
  BY <1>16, <1>0 DEF Types, Reading, OutcomeInv, Promise, Promises, CleanupCancel, AfterCancel,
         CancelAnswered, CancelAborted, CancelLost, serverVars, envVars, readerVars, readVars
<1>17. CASE CleanupClose
  BY <1>17, <1>0 DEF Types, Reading, OutcomeInv, Promise, Promises, CleanupClose, CloseAnswered,
         CloseAborted, CloseLost, envVars, readerVars, readVars
<1>18. CASE CleanupSettle
  BY <1>18, <1>0 DEF Types, Reading, OutcomeInv, Promise, Promises, CleanupSettle, serverVars,
         envVars, readerVars, readVars
<1>19. CASE CleanupLeave
  BY <1>19, <1>0 DEF Types, Reading, OutcomeInv, Promise, Promises, CleanupLeave, serverVars,
         readerVars, readVars
<1>20. ASSUME NEW k \in Closers, CloserCancels(k) PROVE OutcomeInv'
  BY <1>20, <1>0 DEF Types, Reading, OutcomeInv, Promise, Promises, CloserCancels, KGoTo,
         EndContext, serverVars, readerVars, cleanupVars, readVars
<1>21. ASSUME NEW k \in Closers, CloserEnters(k) PROVE OutcomeInv'
  <2>1. finish'.primary \notin Promises /\ UNCHANGED << readVars, npc, proposal, limits, streamErr >>
    BY <1>21 DEF CloserEnters, EnterOnce, readerVars, Promises
  <2>2. streamErr \notin Promises
    BY <1>21 DEF CloserEnters, EnterOnce, CleanupInv, Promises
  <2> QED BY <2>1, <2>2 DEF OutcomeInv, Promise, readVars
<1>22. ASSUME NEW k \in Closers, CloserReturns(k) PROVE OutcomeInv'
  BY <1>22, <1>0 DEF Types, Reading, OutcomeInv, Promise, Promises, CloserReturns, KGoTo,
         serverVars, envVars, readerVars, cleanupVars, readVars
<1>23. CASE NextCall
  BY <1>23, <1>0 DEF Types, Reading, OutcomeInv, Promise, Promises, NextCall, GoTo, serverVars,
         envVars, cleanupVars, readVars
<1>24. ASSUME NEW k \in Users, UserClose(k) PROVE OutcomeInv'
  BY <1>24, <1>0 DEF Types, Reading, OutcomeInv, Promise, Promises, UserClose, Opened, KGoTo, serverVars,
         envVars, readerVars, cleanupVars, readVars
<1>25. CASE ClientClose
  BY <1>25, <1>0 DEF Types, Reading, OutcomeInv, Promise, Promises, ClientClose, KGoTo,
         serverVars, readerVars, cleanupVars, readVars
<1>26. CASE LifecycleEnds
  BY <1>26, <1>0 DEF Types, Reading, OutcomeInv, Promise, Promises, LifecycleEnds, EndContext,
         serverVars, readerVars, cleanupVars, readVars
<1>27. CASE ContextEnds
  BY <1>27, <1>0 DEF Types, Reading, OutcomeInv, Promise, Promises, ContextEnds, EndContext,
         serverVars, readerVars, cleanupVars, readVars
<1>28. CASE ServerFails
  BY <1>28, <1>0 DEF Types, Reading, OutcomeInv, Promise, Promises, ServerFails, OperationFails,
         envVars, readerVars, cleanupVars, readVars
<1>29. CASE UNCHANGED vars
  BY <1>29, <1>0 DEF Types, Reading, OutcomeInv, Promise, Promises, vars, serverVars, envVars,
         readerVars, readVars, cleanupVars
<1> QED BY <1>1, <1>2, <1>3, <1>4, <1>5, <1>6, <1>7, <1>8, <1>9, <1>10, <1>11, <1>12, <1>13,
            <1>14, <1>15, <1>16, <1>17, <1>18, <1>19, <1>20, <1>21, <1>22, <1>23, <1>24, <1>25,
            <1>26, <1>27, <1>28, <1>29 DEF Next, ReaderStep, CleanupStep, CloserStep

LEMMA InitInv ==
  ASSUME Init
  PROVE  IInv
<1>1. /\ LastPage \in Nat \ {0} /\ Before(1) = 0 /\ \A S : << >> \in Seq(S)
      /\ Len(delivered) = 0 /\ Len(pendingRows) = 0
  BY PageFacts, EmptySeq DEF Init
<1>2. limits.maxRows \in Nat /\ limits.maxPolls \in Nat
  BY LimitsAreNumbers DEF Init
<1>3. Types
  <2>0. ServerTypeOK
    BY DEF Init, ServerInit, ServerTypeOK
  <2>1. npc \in Early /\ token \in Nat /\ token < LastPage /\ polls \in Nat
    BY <1>1 DEF Init, Early
  <2>2. pendingRows \in Seq(Nat) /\ delivered \in Seq(Nat)
    BY <1>1 DEF Init
  <2>3. kpc \in [Closers -> {"idle", "called", "cancelled", "returned"}]
    BY DEF Init
  <2> QED BY <2>0, <2>1, <2>2, <2>3 DEF Init, Types
<1>4. OnceInv /\ CleanupInv
  BY DEF Init, OnceInv, CleanupInv, Early
<1>5. RowInv
  <2>1. token + 1 = 1 /\ ~pendingEOS
    BY DEF Init
  <2>2. Arrived = 0
    BY <1>1, <2>1, Zenon DEF Arrived
  <2> QED BY <1>1, <2>2 DEF Init, RowInv
<1>6. OutcomeInv
  BY <1>1, <1>2 DEF Init, OutcomeInv, Promises, NoFinish
<1> QED BY <1>3, <1>4, <1>5, <1>6 DEF IInv

THEOREM Invariance == Spec => []IInv
<1>1. Init => IInv
  BY InitInv
<1>2. IInv /\ [Next]_vars => IInv'
  <2> SUFFICES ASSUME IInv, [Next]_vars PROVE IInv'
    OBVIOUS
  <2> QED BY TypesKeep, OnceKeeps, CleanupKeeps, RowsKeep, OutcomeKeeps DEF IInv
<1> QED BY <1>1, <1>2, PTL DEF Spec

\* What has arrived is a beginning of the result.
LEMMA ArrivedFacts ==
  ASSUME IInv
  PROVE  /\ Ends[LastPage] \in Nat /\ Arrived \in Nat /\ Arrived <= Ends[LastPage]
         /\ Len(delivered) \in Nat /\ Len(pendingRows) \in Nat
         /\ Rows \in Seq(Nat) /\ Len(Rows) = Ends[LastPage]
         /\ \A i \in 1..Len(Rows) : Rows[i] = i
<1>1. Ends[LastPage] \in Nat
  BY PageFacts
<1>2. Arrived \in Nat /\ Arrived <= Ends[LastPage]
  <2>1. token + 1 \in 1..LastPage
    BY PageFacts DEF IInv, Types
  <2>2. /\ Before(token + 1) \in Nat /\ Before(token + 1) <= Ends[token + 1]
        /\ Ends[token + 1] \in Nat /\ Ends[token + 1] <= Ends[LastPage]
    BY <2>1, PageFacts
  <2> QED BY <1>1, <2>2 DEF Arrived
<1>3. PICK n \in Nat : n = Ends[LastPage]
  BY <1>1
<1>4. Rows \in Seq(Nat) /\ Len(Rows) = n /\ \A i \in 1..n : Rows[i] = i
  BY <1>3 DEF Rows
<1>5. Len(delivered) \in Nat /\ Len(pendingRows) \in Nat
  BY LenProperties DEF IInv, Types
<1> QED BY <1>1, <1>2, <1>3, <1>4, <1>5

(***************************************************************************)
(* The theorems                                                            *)
(***************************************************************************)
\* Next returns the rows of the result in order, none left out and none twice,
\* whatever NOT_READY answers, limits and closers come in between.
THEOREM RowsAreInOrder == Spec => []RowsInOrder
<1>1. IInv => RowsInOrder
  <2> SUFFICES ASSUME IInv PROVE RowsInOrder
    OBVIOUS
  <2>1. /\ delivered \in Seq(Nat) /\ Len(delivered) + Len(pendingRows) = Arrived
        /\ \A i \in 1..Len(delivered) : delivered[i] = i
    BY DEF IInv, Types, RowInv
  <2>2. Len(delivered) <= Len(Rows)
    BY <2>1, ArrivedFacts
  <2>3. \A i \in 1..Len(delivered) : delivered[i] = Rows[i]
    <3>1. \A i \in 1..Len(delivered) : i \in 1..Len(Rows)
      BY <2>2, ArrivedFacts
    <3> QED BY <2>1, <3>1, ArrivedFacts
  <2>4. Rows \in Seq(Nat)
    BY ArrivedFacts
  <2>5. IsPrefix(delivered, Rows)
    BY <2>1, <2>2, <2>3, <2>4, Prefix
  <2> QED BY <2>5 DEF RowsInOrder
<1> QED BY <1>1, Invariance, PTL

\* The error of the stream tells the truth about its rows and its fetches.
THEOREM OutcomeIsHonest == Spec => []OutcomeHonest
<1>1. IInv => OutcomeHonest
  <2> SUFFICES ASSUME IInv PROVE OutcomeHonest
    OBVIOUS
  <2>1. /\ streamErr \in Promises => Promise(streamErr)
        /\ polls <= limits.maxPolls
    BY DEF IInv, OutcomeInv
  <2>2. /\ delivered \in Seq(Nat) /\ Len(delivered) + Len(pendingRows) = Arrived
        /\ \A i \in 1..Len(delivered) : delivered[i] = i
    BY DEF IInv, Types, RowInv
  <2>3. ASSUME streamErr = "eos" PROVE delivered = Rows
    <3>1. pendingRows = << >> /\ pendingEOS
      BY <2>1, <2>3 DEF Promise, Promises
    <3>2. Len(pendingRows) = 0
      BY <3>1, EmptySeq
    <3>3. Len(delivered) = Len(Rows)
      BY <2>2, <3>1, <3>2, ArrivedFacts DEF Arrived
    <3>4. Rows \in Seq(Nat) /\ \A i \in 1..Len(delivered) : delivered[i] = Rows[i]
      BY <2>2, <3>3, ArrivedFacts
    <3> QED BY <2>2, <3>3, <3>4, SeqEqual
  <2>4. ASSUME streamErr = "rowLimit" PROVE Len(delivered) = limits.maxRows /\ delivered # Rows
    <3>1. pendingRows # << >> /\ Len(delivered) = limits.maxRows
      BY <2>1, <2>4 DEF Promise, Promises
    <3>2. Len(pendingRows) \in Nat \ {0}
      BY <3>1, EmptySeq DEF IInv, Types
    <3>3. Len(delivered) # Len(Rows)
      BY <2>2, <3>2, ArrivedFacts
    <3> QED BY <3>1, <3>3
  <2>5. streamErr = "pollLimit" => polls = limits.maxPolls
    BY <2>1 DEF Promise, Promises
  <2> QED BY <2>1, <2>3, <2>4, <2>5 DEF OutcomeHonest
<1> QED BY <1>1, Invariance, PTL

\* Whoever has closed a stream, GatewayClient.Close included, leaves none that
\* is open or in c.streams, and an end without a cleanup error means that the
\* server has released the operation.
THEOREM CloseIsHonest == Spec => []CloseHonest
<1>1. IInv => CloseHonest
  BY DEF IInv, OnceInv, CleanupInv, CloseHonest, Opened, Early
<1> QED BY <1>1, Invariance, PTL
=============================================================================
