---------------------- MODULE SerializedSessionProofs ----------------------
(***************************************************************************)
(* SerializedSession for every number of callers and closers.              *)
(*                                                                         *)
(* TokenConserved is not inductive: a closer that finishes a stream gives  *)
(* back the token of another goroutine, so one has to know that a stream   *)
(* whose once is in progress still belongs to a caller that holds the      *)
(* token (StreamInv).  That the session is deleted only when nothing runs  *)
(* rests on the group counting exactly the holders past begin              *)
(* (ActivityInv), and on a waiter having captured the current channel,     *)
(* which no begin can replace once the group is stopped (CloserInv).       *)
(***************************************************************************)
EXTENDS SerializedSession, FiniteSetTheorems, TLAPS

TokenInv ==
  /\ gate \in {0, 1}
  /\ (gate = 1) <=> (\A c \in Callers : ~HoldsToken(c))
  /\ \A c, d \in Callers : HoldsToken(c) /\ HoldsToken(d) => c = d

\* Where the stream of a caller can be, given the progress of its once.
StreamInv(c) ==
  /\ fin[c] # "no" => pc[c] \in {"open", "finishing", "done"}
  /\ pc[c] = "done" => fin[c] \in {"no", "yes"}
  /\ under[c] = "live" => fin[c] = "no" /\ pc[c] \in {"created", "rejecting", "open"}
  /\ c \in streams => fin[c] \in {"no", "unregister"} /\ pc[c] \in {"open", "finishing"}
  /\ c \in todo \cup {target} =>
       pc[c] \in {"open", "finishing"} \/ (pc[c] = "done" /\ fin[c] = "yes")
  /\ c = target => under[c] # "live"

\* The activities the group counts.
Counted(c) ==
  \/ pc[c] \in {"executing", "opening", "created", "rejecting", "ending"}
  \/ pc[c] \in {"open", "finishing"} /\ fin[c] \in {"no", "unregister", "end"}

ActivityInv ==
  /\ active \in {0, 1}
  /\ (active = 0) <=> (\A c \in Callers : ~Counted(c))
  /\ (idle \in shut) <=> (active = 0)
  /\ \A ch \in shut : ch <= idle

CloserInv(k) ==
  /\ kpc[k] \notin {"idle", "entering", "stop"} => closed
  /\ kpc[k] = "waiting" => seen[k] = idle
  /\ kpc[k] \in {"join", "joined", "deleting", "settleOk", "settleErr", "ok"} => active = 0

Base == TypeOK /\ (\A c \in Callers : StreamInv(c))
IInv ==
  /\ Base
  /\ TokenInv
  /\ ActivityInv
  /\ once = "done" => closed
  /\ \A k \in Closers : CloserInv(k)

-----------------------------------------------------------------------------
LEMMA InitInv == Init => IInv
<1> SUFFICES ASSUME Init PROVE IInv
  OBVIOUS
<1>1. TypeOK
  <2>1. closed \in BOOLEAN
    BY DEF Init, GroupInit
  <2>10. active \in Nat /\ idle \in Nat /\ shut \subseteq Nat /\ streams \subseteq Callers
    BY DEF Init, GroupInit
  <2>2. gate \in Nat /\ cancelled \subseteq Callers
    BY DEF Init
  <2>3. /\ pc \in [Callers -> CallerPC]
        /\ under \in [Callers -> {"none", "live", "closed"}]
        /\ fin \in [Callers -> {"no", "unregister", "end", "release", "yes"}]
    BY DEF Init, CallerPC
  <2>4. lifecycleDone \in BOOLEAN
    BY DEF Init
  <2>8. parentDone \in BOOLEAN
    BY DEF Init
  <2>9. closeComplete \in BOOLEAN
    BY DEF Init
  <2>5. kpc \in [Closers -> CloserPC]
    BY DEF Init, CloserPC
  <2>6. /\ once \in {"new", "running", "done"}
        /\ todo \subseteq Callers
        /\ target \in Callers \cup {None}
        /\ closeOwner \in Closers \cup {None}
        /\ session \in {"open", "closed"}
    BY DEF Init
  <2>7. /\ seen \in [Closers -> Nat]
        /\ result \in [Closers -> {"none", "ok", "err"}]
        /\ joined \in [Closers -> Closers \cup {None}]
    BY DEF Init
  <2> QED BY <2>1, <2>2, <2>3, <2>4, <2>5, <2>6, <2>7, <2>8, <2>9, <2>10 DEF TypeOK, GroupTypeOK
<1>2. \A c \in Callers : StreamInv(c)
  BY NoneIsNoCaller DEF Init, GroupInit, StreamInv
<1>3. TokenInv
  BY DEF Init, TokenInv, HoldsToken
<1>4. ActivityInv
  BY DEF Init, GroupInit, ActivityInv, Counted
<1>5. \A k \in Closers : CloserInv(k)
  BY DEF Init, CloserInv
<1>6. once # "done"
  BY DEF Init
<1> QED BY <1>1, <1>2, <1>3, <1>4, <1>5, <1>6 DEF IInv, Base
\* Every step keeps the types.
LEMMA TypeStep ==
  ASSUME TypeOK, [Next]_vars
  PROVE  TypeOK'
<1> USE DEF TypeOK, GroupTypeOK, CallerPC, CloserPC, GoTo, KGoTo, FinGoTo,
        groupVars, callerVars, contextVars, closerVars, onceVars,
        sharedCloseVars
<1>1. ASSUME NEW c \in Callers,
            \/ Call(c) \/ AcquireCancelled(c) \/ AcquireToken(c)
            \/ CheckClosed(c) \/ UserCancel(c)
     PROVE  TypeOK'
  <2>1. CASE Call(c)  BY <2>1 DEF Call
  <2>2. CASE AcquireCancelled(c)  BY <2>2 DEF AcquireCancelled
  <2>3. CASE AcquireToken(c)  BY <2>3 DEF AcquireToken
  <2>4. CASE CheckClosed(c)  BY <2>4 DEF CheckClosed
  <2>5. CASE UserCancel(c)  BY <2>5 DEF UserCancel
  <2> QED BY <1>1, <2>1, <2>2, <2>3, <2>4, <2>5
<1>2. ASSUME NEW c \in Callers,
            \/ BeginExecution(c) \/ BeginRefused(c) \/ ExecutionReturns(c)
            \/ StreamOpens(c)
     PROVE  TypeOK'
  <2>1. CASE BeginExecution(c)  BY <2>1 DEF BeginExecution, Begin
  <2>2. CASE BeginRefused(c)  BY <2>2 DEF BeginRefused, Refuse
  <2>3. CASE ExecutionReturns(c)  BY <2>3 DEF ExecutionReturns
  <2>4. CASE StreamOpens(c)  BY <2>4 DEF StreamOpens
  <2> QED BY <1>2, <2>1, <2>2, <2>3, <2>4
<1>3. ASSUME NEW c \in Callers,
            \/ RegisterWrapped(c) \/ RegisterRefused(c) \/ EndUnderlying(c)
            \/ ClientClosesStream(c)
     PROVE  TypeOK'
  <2>1. CASE RegisterWrapped(c)  BY <2>1 DEF RegisterWrapped, RegisterStream
  <2>2. CASE RegisterRefused(c)  BY <2>2 DEF RegisterRefused, Refuse
  <2>3. CASE EndUnderlying(c)  BY <2>3 DEF EndUnderlying
  <2>4. CASE ClientClosesStream(c)  BY <2>4 DEF ClientClosesStream
  <2> QED BY <1>3, <2>1, <2>2, <2>3, <2>4
<1>4. ASSUME NEW c \in Callers, EndExecution(c) \/ ReleaseToken(c) PROVE TypeOK'
  <2>1. CASE EndExecution(c)  BY <2>1 DEF EndExecution, End
  <2>2. CASE ReleaseToken(c)  BY <2>2 DEF ReleaseToken
  <2> QED BY <1>4, <2>1, <2>2
<1>5. ASSUME NEW c \in Callers,
            \/ FinishOnce(c) \/ FinishUnregister(c) \/ FinishEnd(c)
            \/ FinishRelease(c) \/ FinishReturns(c)
     PROVE  TypeOK'
  <2>1. CASE FinishOnce(c)  BY <2>1 DEF FinishOnce, Finishing
  <2>2. CASE FinishUnregister(c)  BY <2>2 DEF FinishUnregister, UnregisterStream
  <2>3. CASE FinishEnd(c)  BY <2>3 DEF FinishEnd, End
  <2>4. CASE FinishRelease(c)  BY <2>4 DEF FinishRelease
  <2>5. CASE FinishReturns(c)  BY <2>5 DEF FinishReturns
  <2> QED BY <1>5, <2>1, <2>2, <2>3, <2>4, <2>5
<1>6. ASSUME NEW k \in Closers,
            \/ CloseCall(k) \/ EnterOnce(k) \/ PassOnce(k) \/ CloserStop(k)
            \/ CloserCancel(k) \/ CloserClosesStream(k)
            \/ CloserFinishesStream(k) \/ LeaveOnce(k)
     PROVE  TypeOK'
  <2>1. CASE CloseCall(k)  BY <2>1 DEF CloseCall
  <2>2. CASE EnterOnce(k)  BY <2>2 DEF EnterOnce
  <2>3. CASE PassOnce(k)  BY <2>3 DEF PassOnce
  <2>4. CASE CloserStop(k)  BY <2>4 DEF CloserStop, Stop
  <2>5. CASE CloserCancel(k)  BY <2>5 DEF CloserCancel
  <2>6. CASE CloserClosesStream(k)  BY <2>6 DEF CloserClosesStream
  <2>7. CASE CloserFinishesStream(k)  BY <2>7 DEF CloserFinishesStream
  <2>8. CASE LeaveOnce(k)  BY <2>8 DEF LeaveOnce
  <2> QED BY <1>6, <2>1, <2>2, <2>3, <2>4, <2>5, <2>6, <2>7, <2>8
<1>7. ASSUME NEW k \in Closers,
            \/ CaptureIdle(k) \/ WaitReturns(k) \/ WaitExpires(k)
            \/ AlreadyClosed(k) \/ JoinCall(k) \/ OwnCall(k)
            \/ JoinReturns(k) \/ JoinExpires(k) \/ DeleteReturns(k)
            \/ Settle(k)
     PROVE  TypeOK'
  <2>1. CASE CaptureIdle(k)  BY <2>1 DEF CaptureIdle
  <2>2. CASE WaitReturns(k)  BY <2>2 DEF WaitReturns, Released
  <2>3. CASE WaitExpires(k)  BY <2>3 DEF WaitExpires
  <2>4. CASE AlreadyClosed(k)  BY <2>4 DEF AlreadyClosed
  <2>5. CASE JoinCall(k)  BY <2>5 DEF JoinCall
  <2>6. CASE OwnCall(k)  BY <2>6 DEF OwnCall
  <2>7. CASE JoinReturns(k)  BY <2>7 DEF JoinReturns
  <2>8. CASE JoinExpires(k)  BY <2>8 DEF JoinExpires
  <2>9. CASE DeleteReturns(k)  BY <2>9 DEF DeleteReturns
  <2>10. CASE Settle(k)  BY <2>10 DEF Settle
  <2> QED BY <1>7, <2>1, <2>2, <2>3, <2>4, <2>5, <2>6, <2>7, <2>8, <2>9, <2>10
<1>8. CASE ClientClose \/ UNCHANGED vars
  BY <1>8 DEF ClientClose, vars
<1> QED BY <1>1, <1>2, <1>3, <1>4, <1>5, <1>6, <1>7, <1>8, ZenonT(60) DEF Next, CallerStep, FinishStep, CloserStep, Environment

\* A stream whose once is in progress belongs to a caller that is still in it:
\* neither the user nor a closer can finish one that was never handed out.
LEMMA StreamStep ==
  ASSUME Base, NEW d \in Callers, [Next]_vars
  PROVE  StreamInv(d)'
<1> USE DEF Base, StreamInv, TypeOK, GroupTypeOK, GoTo, KGoTo, FinGoTo,
        groupVars, callerVars, contextVars, closerVars, onceVars,
        sharedCloseVars
<1>1. ASSUME NEW c \in Callers,
            \/ Call(c) \/ AcquireCancelled(c) \/ AcquireToken(c)
            \/ CheckClosed(c) \/ UserCancel(c) \/ BeginExecution(c)
            \/ BeginRefused(c) \/ ExecutionReturns(c)
     PROVE  StreamInv(d)'
  BY <1>1 DEF Call, AcquireCancelled, AcquireToken, CheckClosed, UserCancel,
         BeginExecution, Begin, BeginRefused, Refuse, ExecutionReturns
<1>2. ASSUME NEW c \in Callers, StreamOpens(c) PROVE StreamInv(d)'
  BY <1>2 DEF StreamOpens
<1>3. ASSUME NEW c \in Callers, RegisterWrapped(c) PROVE StreamInv(d)'
  BY <1>3 DEF RegisterWrapped, RegisterStream
<1>4. ASSUME NEW c \in Callers, RegisterRefused(c) PROVE StreamInv(d)'
  BY <1>4 DEF RegisterRefused, Refuse
<1>5. ASSUME NEW c \in Callers, EndUnderlying(c) PROVE StreamInv(d)'
  BY <1>5 DEF EndUnderlying
<1>6. ASSUME NEW c \in Callers, ClientClosesStream(c) PROVE StreamInv(d)'
  BY <1>6 DEF ClientClosesStream
<1>7. ASSUME NEW c \in Callers, EndExecution(c) \/ ReleaseToken(c) PROVE StreamInv(d)'
  BY <1>7 DEF EndExecution, End, ReleaseToken
<1>8. ASSUME NEW c \in Callers, FinishOnce(c) PROVE StreamInv(d)'
  BY <1>8 DEF FinishOnce, Finishing
<1>9. ASSUME NEW c \in Callers, FinishUnregister(c) PROVE StreamInv(d)'
  BY <1>9 DEF FinishUnregister, UnregisterStream
<1>10. ASSUME NEW c \in Callers, FinishEnd(c) PROVE StreamInv(d)'
  BY <1>10 DEF FinishEnd, End
<1>11. ASSUME NEW c \in Callers, FinishRelease(c) PROVE StreamInv(d)'
  BY <1>11 DEF FinishRelease
<1>12. ASSUME NEW c \in Callers, FinishReturns(c) PROVE StreamInv(d)'
  BY <1>12 DEF FinishReturns
<1>13. ASSUME NEW k \in Closers,
            \/ CloseCall(k) \/ EnterOnce(k) \/ PassOnce(k)
            \/ CloserCancel(k) \/ LeaveOnce(k)
     PROVE  StreamInv(d)'
  BY <1>13 DEF CloseCall, EnterOnce, PassOnce, CloserCancel, LeaveOnce
<1>14. ASSUME NEW k \in Closers, CloserStop(k) PROVE StreamInv(d)'
  BY <1>14 DEF CloserStop, Stop
<1>15. ASSUME NEW k \in Closers, CloserClosesStream(k) PROVE StreamInv(d)'
  BY <1>15 DEF CloserClosesStream
<1>16. ASSUME NEW k \in Closers, CloserFinishesStream(k) PROVE StreamInv(d)'
  BY <1>16, NoneIsNoCaller DEF CloserFinishesStream
<1>17. ASSUME NEW k \in Closers,
            \/ CaptureIdle(k) \/ WaitReturns(k) \/ WaitExpires(k)
            \/ AlreadyClosed(k) \/ JoinCall(k) \/ OwnCall(k)
            \/ JoinReturns(k) \/ JoinExpires(k) \/ DeleteReturns(k)
            \/ Settle(k)
     PROVE  StreamInv(d)'
  BY <1>17 DEF CaptureIdle, WaitReturns, Released, WaitExpires, AlreadyClosed,
         JoinCall, OwnCall, JoinReturns, JoinExpires, DeleteReturns, Settle
<1>18. CASE ClientClose \/ UNCHANGED vars
  BY <1>18 DEF ClientClose, vars
<1> QED BY <1>1, <1>2, <1>3, <1>4, <1>5, <1>6, <1>7, <1>8, <1>9, <1>10, <1>11, <1>12, <1>13, <1>14, <1>15, <1>16, <1>17, <1>18
  DEF Next, CallerStep, FinishStep, CloserStep, Environment

\* The token: acquire takes it from the gate, and only release by its holder
\* or the once of the holder's stream puts it back.
LEMMA TokenStep ==
  ASSUME Base, TokenInv, [Next]_vars
  PROVE  TokenInv'
<1> USE DEF Base, StreamInv, TokenInv, HoldsToken, TypeOK, GoTo, KGoTo,
        FinGoTo, groupVars, callerVars, contextVars, closerVars, onceVars,
        sharedCloseVars
<1>1. ASSUME NEW c \in Callers,
            \/ Call(c) \/ AcquireCancelled(c) \/ UserCancel(c)
            \/ ClientClosesStream(c)
     PROVE  TokenInv'
  BY <1>1 DEF Call, AcquireCancelled, UserCancel, ClientClosesStream
<1>2. ASSUME NEW c \in Callers, AcquireToken(c) PROVE TokenInv'
  BY <1>2 DEF AcquireToken
<1>3. ASSUME NEW c \in Callers, CheckClosed(c) PROVE TokenInv'
  BY <1>3 DEF CheckClosed
<1>4. ASSUME NEW c \in Callers,
            \/ BeginExecution(c) \/ BeginRefused(c) \/ ExecutionReturns(c)
            \/ StreamOpens(c)
     PROVE  TokenInv'
  BY <1>4 DEF BeginExecution, Begin, BeginRefused, Refuse, ExecutionReturns,
         StreamOpens
<1>5. ASSUME NEW c \in Callers,
            \/ RegisterWrapped(c) \/ RegisterRefused(c) \/ EndUnderlying(c)
     PROVE  TokenInv'
  BY <1>5 DEF RegisterWrapped, RegisterStream, RegisterRefused, Refuse,
         EndUnderlying
<1>6. ASSUME NEW c \in Callers, EndExecution(c) PROVE TokenInv'
  BY <1>6 DEF EndExecution, End
<1>7. ASSUME NEW c \in Callers, ReleaseToken(c) PROVE TokenInv'
  BY <1>7 DEF ReleaseToken
<1>8. ASSUME NEW c \in Callers, FinishOnce(c) PROVE TokenInv'
  BY <1>8 DEF FinishOnce, Finishing
<1>9. ASSUME NEW c \in Callers, FinishUnregister(c) PROVE TokenInv'
  BY <1>9 DEF FinishUnregister, UnregisterStream
<1>10. ASSUME NEW c \in Callers, FinishEnd(c) PROVE TokenInv'
  BY <1>10 DEF FinishEnd, End
<1>11. ASSUME NEW c \in Callers, FinishRelease(c) PROVE TokenInv'
  BY <1>11 DEF FinishRelease
<1>12. ASSUME NEW c \in Callers, FinishReturns(c) PROVE TokenInv'
  BY <1>12 DEF FinishReturns
<1>13. ASSUME NEW k \in Closers,
            \/ CloseCall(k) \/ EnterOnce(k) \/ PassOnce(k) \/ CloserStop(k)
            \/ CloserCancel(k) \/ CloserClosesStream(k)
            \/ CloserFinishesStream(k) \/ LeaveOnce(k)
     PROVE  TokenInv'
  BY <1>13 DEF CloseCall, EnterOnce, PassOnce, CloserStop, Stop, CloserCancel,
         CloserClosesStream, CloserFinishesStream, LeaveOnce
<1>14. ASSUME NEW k \in Closers,
            \/ CaptureIdle(k) \/ WaitReturns(k) \/ WaitExpires(k)
            \/ AlreadyClosed(k) \/ JoinCall(k) \/ OwnCall(k)
            \/ JoinReturns(k) \/ JoinExpires(k) \/ DeleteReturns(k)
            \/ Settle(k)
     PROVE  TokenInv'
  BY <1>14 DEF CaptureIdle, WaitReturns, Released, WaitExpires, AlreadyClosed,
         JoinCall, OwnCall, JoinReturns, JoinExpires, DeleteReturns, Settle
<1>15. CASE ClientClose \/ UNCHANGED vars
  BY <1>15 DEF ClientClose, vars
<1> QED BY <1>1, <1>2, <1>3, <1>4, <1>5, <1>6, <1>7, <1>8, <1>9, <1>10, <1>11, <1>12, <1>13, <1>14, <1>15
  DEF Next, CallerStep, FinishStep, CloserStep, Environment

\* The group counts the holder of the token from begin to end, so at most one
\* activity runs and its end always closes the current idle channel.
LEMMA ActivityStep ==
  ASSUME Base, TokenInv, ActivityInv, [Next]_vars
  PROVE  ActivityInv'
<1> USE DEF Base, StreamInv, TokenInv, HoldsToken, ActivityInv, Counted,
        TypeOK, GroupTypeOK, GoTo, KGoTo, FinGoTo, groupVars, callerVars,
        contextVars, closerVars, onceVars, sharedCloseVars
<1>1. ASSUME NEW c \in Callers,
            \/ Call(c) \/ AcquireCancelled(c) \/ AcquireToken(c)
            \/ CheckClosed(c) \/ UserCancel(c)
     PROVE  ActivityInv'
  <2>1. CASE Call(c)  BY <2>1 DEF Call
  <2>2. CASE AcquireCancelled(c)  BY <2>2 DEF AcquireCancelled
  <2>3. CASE AcquireToken(c)  BY <2>3 DEF AcquireToken
  <2>4. CASE CheckClosed(c)  BY <2>4 DEF CheckClosed
  <2>5. CASE UserCancel(c)  BY <2>5 DEF UserCancel
  <2> QED BY <1>1, <2>1, <2>2, <2>3, <2>4, <2>5
<1>2. ASSUME NEW c \in Callers, BeginExecution(c) PROVE ActivityInv'
  BY <1>2 DEF BeginExecution, Begin
<1>3. ASSUME NEW c \in Callers,
            \/ BeginRefused(c) \/ ExecutionReturns(c) \/ StreamOpens(c)
     PROVE  ActivityInv'
  <2>1. CASE BeginRefused(c)  BY <2>1 DEF BeginRefused, Refuse
  <2>2. CASE ExecutionReturns(c)  BY <2>2 DEF ExecutionReturns
  <2>3. CASE StreamOpens(c)  BY <2>3 DEF StreamOpens
  <2> QED BY <1>3, <2>1, <2>2, <2>3
<1>4. ASSUME NEW c \in Callers,
            \/ RegisterWrapped(c) \/ RegisterRefused(c) \/ EndUnderlying(c)
            \/ ClientClosesStream(c)
     PROVE  ActivityInv'
  <2>1. CASE RegisterWrapped(c)  BY <2>1 DEF RegisterWrapped, RegisterStream
  <2>2. CASE RegisterRefused(c)  BY <2>2 DEF RegisterRefused, Refuse
  <2>3. CASE EndUnderlying(c)  BY <2>3 DEF EndUnderlying
  <2>4. CASE ClientClosesStream(c)  BY <2>4 DEF ClientClosesStream
  <2> QED BY <1>4, <2>1, <2>2, <2>3, <2>4
<1>5. ASSUME NEW c \in Callers, EndExecution(c) PROVE ActivityInv'
  BY <1>5 DEF EndExecution, End
<1>6. ASSUME NEW c \in Callers, ReleaseToken(c) PROVE ActivityInv'
  BY <1>6 DEF ReleaseToken
<1>7. ASSUME NEW c \in Callers, FinishOnce(c) PROVE ActivityInv'
  BY <1>7 DEF FinishOnce, Finishing
<1>8. ASSUME NEW c \in Callers, FinishUnregister(c) PROVE ActivityInv'
  BY <1>8 DEF FinishUnregister, UnregisterStream
<1>9. ASSUME NEW c \in Callers, FinishEnd(c) PROVE ActivityInv'
  BY <1>9 DEF FinishEnd, End
<1>10. ASSUME NEW c \in Callers, FinishRelease(c) PROVE ActivityInv'
  BY <1>10 DEF FinishRelease
<1>11. ASSUME NEW c \in Callers, FinishReturns(c) PROVE ActivityInv'
  BY <1>11 DEF FinishReturns
<1>12. ASSUME NEW k \in Closers,
            \/ CloseCall(k) \/ EnterOnce(k) \/ PassOnce(k) \/ CloserStop(k)
            \/ CloserCancel(k) \/ CloserClosesStream(k)
            \/ CloserFinishesStream(k) \/ LeaveOnce(k)
     PROVE  ActivityInv'
  BY <1>12 DEF CloseCall, EnterOnce, PassOnce, CloserStop, Stop, CloserCancel,
         CloserClosesStream, CloserFinishesStream, LeaveOnce
<1>13. ASSUME NEW k \in Closers,
            \/ CaptureIdle(k) \/ WaitReturns(k) \/ WaitExpires(k)
            \/ AlreadyClosed(k) \/ JoinCall(k) \/ OwnCall(k)
            \/ JoinReturns(k) \/ JoinExpires(k) \/ DeleteReturns(k)
            \/ Settle(k)
     PROVE  ActivityInv'
  <2>1. UNCHANGED << active, idle, shut, pc, fin >>
    BY <1>13 DEF CaptureIdle, WaitReturns, WaitExpires, AlreadyClosed,
         JoinCall, OwnCall, JoinReturns, JoinExpires, DeleteReturns, Settle
  <2> QED BY <2>1
<1>14. CASE ClientClose \/ UNCHANGED vars
  BY <1>14 DEF ClientClose, vars
<1> QED BY <1>1, <1>2, <1>3, <1>4, <1>5, <1>6, <1>7, <1>8, <1>9, <1>10, <1>11, <1>12, <1>13, <1>14
  DEF Next, CallerStep, FinishStep, CloserStep, Environment

\* A closer past its wait-point knows that nothing runs: the group is closed,
\* so the channel it captured is still the current one and no begin can follow.
LEMMA CloserInvStep ==
  ASSUME IInv, NEW j \in Closers, [Next]_vars
  PROVE  CloserInv(j)'
<1> USE DEF IInv, ActivityInv, CloserInv, Base, TypeOK, GroupTypeOK, GoTo,
        KGoTo, FinGoTo, groupVars, callerVars, contextVars, closerVars,
        onceVars, sharedCloseVars
<1>1. ASSUME NEW c \in Callers,
            \/ Call(c) \/ AcquireCancelled(c) \/ AcquireToken(c)
            \/ CheckClosed(c) \/ UserCancel(c) \/ BeginRefused(c)
            \/ ExecutionReturns(c) \/ StreamOpens(c)
     PROVE  CloserInv(j)'
  <2>1. CASE Call(c)  BY <2>1 DEF Call
  <2>2. CASE AcquireCancelled(c)  BY <2>2 DEF AcquireCancelled
  <2>3. CASE AcquireToken(c)  BY <2>3 DEF AcquireToken
  <2>4. CASE CheckClosed(c)  BY <2>4 DEF CheckClosed
  <2>5. CASE UserCancel(c)  BY <2>5 DEF UserCancel
  <2>6. CASE BeginRefused(c)  BY <2>6 DEF BeginRefused, Refuse
  <2>7. CASE ExecutionReturns(c)  BY <2>7 DEF ExecutionReturns
  <2>8. CASE StreamOpens(c)  BY <2>8 DEF StreamOpens
  <2> QED BY <1>1, <2>1, <2>2, <2>3, <2>4, <2>5, <2>6, <2>7, <2>8
<1>2. ASSUME NEW c \in Callers, BeginExecution(c) PROVE CloserInv(j)'
  BY <1>2 DEF BeginExecution, Begin
<1>3. ASSUME NEW c \in Callers,
            \/ RegisterWrapped(c) \/ RegisterRefused(c) \/ EndUnderlying(c)
            \/ ClientClosesStream(c)
     PROVE  CloserInv(j)'
  <2>1. CASE RegisterWrapped(c)  BY <2>1 DEF RegisterWrapped, RegisterStream
  <2>2. CASE RegisterRefused(c)  BY <2>2 DEF RegisterRefused, Refuse
  <2>3. CASE EndUnderlying(c)  BY <2>3 DEF EndUnderlying
  <2>4. CASE ClientClosesStream(c)  BY <2>4 DEF ClientClosesStream
  <2> QED BY <1>3, <2>1, <2>2, <2>3, <2>4
<1>4. ASSUME NEW c \in Callers, EndExecution(c) PROVE CloserInv(j)'
  BY <1>4 DEF EndExecution, End
<1>5. ASSUME NEW c \in Callers, ReleaseToken(c) PROVE CloserInv(j)'
  BY <1>5 DEF ReleaseToken
<1>6. ASSUME NEW c \in Callers, FinishEnd(c) PROVE CloserInv(j)'
  BY <1>6 DEF FinishEnd, End
<1>7. ASSUME NEW c \in Callers,
            \/ FinishOnce(c) \/ FinishUnregister(c) \/ FinishRelease(c)
            \/ FinishReturns(c)
     PROVE  CloserInv(j)'
  <2>1. CASE FinishOnce(c)  BY <2>1 DEF FinishOnce, Finishing
  <2>2. CASE FinishUnregister(c)  BY <2>2 DEF FinishUnregister, UnregisterStream
  <2>3. CASE FinishRelease(c)  BY <2>3 DEF FinishRelease
  <2>4. CASE FinishReturns(c)  BY <2>4 DEF FinishReturns
  <2> QED BY <1>7, <2>1, <2>2, <2>3, <2>4
<1>8. ASSUME NEW k \in Closers,
            \/ CloseCall(k) \/ EnterOnce(k) \/ CloserCancel(k)
            \/ CloserClosesStream(k) \/ CloserFinishesStream(k)
            \/ LeaveOnce(k)
     PROVE  CloserInv(j)'
  <2>1. CASE CloseCall(k)  BY <2>1 DEF CloseCall
  <2>2. CASE EnterOnce(k)  BY <2>2 DEF EnterOnce
  <2>3. CASE CloserCancel(k)  BY <2>3 DEF CloserCancel
  <2>4. CASE CloserClosesStream(k)  BY <2>4 DEF CloserClosesStream
  <2>5. CASE CloserFinishesStream(k)  BY <2>5 DEF CloserFinishesStream
  <2>6. CASE LeaveOnce(k)  BY <2>6 DEF LeaveOnce
  <2> QED BY <1>8, <2>1, <2>2, <2>3, <2>4, <2>5, <2>6
<1>9. ASSUME NEW k \in Closers, PassOnce(k) PROVE CloserInv(j)'
  BY <1>9 DEF PassOnce
<1>10. ASSUME NEW k \in Closers, CloserStop(k) PROVE CloserInv(j)'
  BY <1>10 DEF CloserStop, Stop
<1>11. ASSUME NEW k \in Closers, CaptureIdle(k) PROVE CloserInv(j)'
  BY <1>11 DEF CaptureIdle
<1>12. ASSUME NEW k \in Closers, WaitReturns(k) PROVE CloserInv(j)'
  BY <1>12 DEF WaitReturns, Released
<1>13. ASSUME NEW k \in Closers,
            \/ WaitExpires(k) \/ AlreadyClosed(k) \/ JoinCall(k)
            \/ OwnCall(k) \/ JoinReturns(k) \/ JoinExpires(k)
            \/ DeleteReturns(k) \/ Settle(k)
     PROVE  CloserInv(j)'
  <2>1. CASE WaitExpires(k)  BY <2>1 DEF WaitExpires
  <2>2. CASE AlreadyClosed(k)  BY <2>2 DEF AlreadyClosed
  <2>3. CASE JoinCall(k)  BY <2>3 DEF JoinCall
  <2>4. CASE OwnCall(k)  BY <2>4 DEF OwnCall
  <2>5. CASE JoinReturns(k)  BY <2>5 DEF JoinReturns
  <2>6. CASE JoinExpires(k)  BY <2>6 DEF JoinExpires
  <2>7. CASE DeleteReturns(k)  BY <2>7 DEF DeleteReturns
  <2>8. CASE Settle(k)  BY <2>8 DEF Settle
  <2> QED BY <1>13, <2>1, <2>2, <2>3, <2>4, <2>5, <2>6, <2>7, <2>8
<1>14. CASE ClientClose \/ UNCHANGED vars
  BY <1>14 DEF ClientClose, vars
<1> QED BY <1>1, <1>2, <1>3, <1>4, <1>5, <1>6, <1>7, <1>8, <1>9, <1>10, <1>11, <1>12, <1>13, <1>14
  DEF Next, CallerStep, FinishStep, CloserStep, Environment

\* closeLocal stops the group before its once is over.
LEMMA OnceStep ==
  ASSUME IInv, [Next]_vars
  PROVE  (once = "done" => closed)'
<1> USE DEF IInv, CloserInv, Base, TypeOK, GroupTypeOK, GoTo, KGoTo, FinGoTo,
        groupVars, callerVars, contextVars, closerVars, onceVars,
        sharedCloseVars
<1>1. ASSUME NEW c \in Callers,
            \/ Call(c) \/ AcquireCancelled(c) \/ AcquireToken(c)
            \/ CheckClosed(c) \/ UserCancel(c)
     PROVE  (once = "done" => closed)'
  BY <1>1 DEF Call, AcquireCancelled, AcquireToken, CheckClosed, UserCancel
<1>2. ASSUME NEW c \in Callers,
            \/ BeginExecution(c) \/ BeginRefused(c) \/ ExecutionReturns(c)
            \/ StreamOpens(c)
     PROVE  (once = "done" => closed)'
  BY <1>2 DEF BeginExecution, Begin, BeginRefused, Refuse, ExecutionReturns,
         StreamOpens
<1>3. ASSUME NEW c \in Callers,
            \/ RegisterWrapped(c) \/ RegisterRefused(c) \/ EndUnderlying(c)
            \/ ClientClosesStream(c)
     PROVE  (once = "done" => closed)'
  BY <1>3 DEF RegisterWrapped, RegisterStream, RegisterRefused, Refuse,
         EndUnderlying, ClientClosesStream
<1>4. ASSUME NEW c \in Callers, EndExecution(c) \/ ReleaseToken(c) PROVE (once = "done" => closed)'
  BY <1>4 DEF EndExecution, End, ReleaseToken
<1>5. ASSUME NEW c \in Callers,
            \/ FinishOnce(c) \/ FinishUnregister(c) \/ FinishEnd(c)
            \/ FinishRelease(c) \/ FinishReturns(c)
     PROVE  (once = "done" => closed)'
  BY <1>5 DEF FinishOnce, Finishing, FinishUnregister, UnregisterStream,
         FinishEnd, End, FinishRelease, FinishReturns
<1>6. ASSUME NEW k \in Closers, CloserStop(k) PROVE (once = "done" => closed)'
  BY <1>6 DEF CloserStop, Stop
<1>7. ASSUME NEW k \in Closers, LeaveOnce(k) PROVE (once = "done" => closed)'
  BY <1>7 DEF LeaveOnce
<1>8. ASSUME NEW k \in Closers,
            \/ CloseCall(k) \/ EnterOnce(k) \/ PassOnce(k)
            \/ CloserCancel(k) \/ CloserClosesStream(k)
            \/ CloserFinishesStream(k)
     PROVE  (once = "done" => closed)'
  BY <1>8 DEF CloseCall, EnterOnce, PassOnce, CloserCancel, CloserClosesStream,
         CloserFinishesStream
<1>9. ASSUME NEW k \in Closers,
            \/ CaptureIdle(k) \/ WaitReturns(k) \/ WaitExpires(k)
            \/ AlreadyClosed(k) \/ JoinCall(k) \/ OwnCall(k)
            \/ JoinReturns(k) \/ JoinExpires(k) \/ DeleteReturns(k)
            \/ Settle(k)
     PROVE  (once = "done" => closed)'
  BY <1>9 DEF CaptureIdle, WaitReturns, Released, WaitExpires, AlreadyClosed,
         JoinCall, OwnCall, JoinReturns, JoinExpires, DeleteReturns, Settle
<1>10. CASE ClientClose \/ UNCHANGED vars
  BY <1>10 DEF ClientClose, vars
<1> QED BY <1>1, <1>2, <1>3, <1>4, <1>5, <1>6, <1>7, <1>8, <1>9, <1>10
  DEF Next, CallerStep, FinishStep, CloserStep, Environment

-----------------------------------------------------------------------------
\* The inductive invariant of SerializedSession.
LEMMA Inductive == IInv /\ [Next]_vars => IInv'
<1> SUFFICES ASSUME IInv, [Next]_vars PROVE IInv'
  OBVIOUS
<1>1. TypeOK'
  BY TypeStep DEF IInv, Base
<1>2. \A d \in Callers : StreamInv(d)'
  BY StreamStep DEF IInv
<1>3. TokenInv'
  BY TokenStep DEF IInv
<1>4. ActivityInv'
  BY ActivityStep DEF IInv
<1>5. \A j \in Closers : CloserInv(j)'
  BY CloserInvStep
<1>6. (once = "done" => closed)'
  BY OnceStep
<1> QED BY <1>1, <1>2, <1>3, <1>4, <1>5, <1>6 DEF IInv, Base

LEMMA Invariance == Spec => []IInv
BY InitInv, Inductive, PTL DEF Spec

\* The types of the model hold in every run.
THEOREM TypeCorrect == Spec => []TypeOK
<1>1. IInv => TypeOK
  BY DEF IInv, Base
<1> QED BY <1>1, Invariance, PTL

\* There is exactly one token, in the gate or with one caller, however many
\* callers and closers race to finish the same stream.
THEOREM TokenSafe == Spec => []TokenConserved
<1>1. ASSUME TokenInv PROVE TokenConserved
  <2> DEFINE H == {c \in Callers : HoldsToken(c)}
  <2>1. CASE gate = 1
    <3>1. H = {}
      BY <1>1, <2>1 DEF TokenInv
    <3> QED BY <2>1, <3>1, FS_EmptySet DEF TokenConserved
  <2>2. CASE gate = 0
    <3>1. PICK c \in Callers : HoldsToken(c)
      BY <1>1, <2>2 DEF TokenInv
    <3>2. H = {c}
      BY <1>1, <3>1 DEF TokenInv
    <3>3. Cardinality(H) = 1
      BY <3>2, FS_Singleton
    <3> QED BY <2>2, <3>3 DEF TokenConserved
  <2> QED BY <1>1, <2>1, <2>2 DEF TokenInv
<1>2. IInv => TokenConserved
  BY <1>1 DEF IInv
<1> QED BY <1>2, Invariance, PTL

-----------------------------------------------------------------------------
\* At most one caller has a statement in progress, and it is the Owner.
OwnerFacts ==
  /\ \A c \in Callers : InUse(c) => HoldsToken(c) /\ Counted(c) /\ Owner = c
  /\ (\A c \in Callers : ~InUse(c)) => Owner = None

LEMMA OwnerIs == IInv => OwnerFacts
<1> SUFFICES ASSUME IInv PROVE OwnerFacts
  OBVIOUS
<1>1. \A c \in Callers : InUse(c) => HoldsToken(c) /\ Counted(c)
  BY DEF IInv, Base, StreamInv, InUse, HoldsToken, Counted, TypeOK
<1>2. \A c, d \in Callers : InUse(c) /\ InUse(d) => c = d
  BY <1>1 DEF IInv, TokenInv
<1>3. ASSUME NEW c \in Callers, InUse(c) PROVE Owner = c
  BY <1>2, <1>3 DEF Owner
<1> QED BY <1>1, <1>3 DEF Owner, OwnerFacts

LEMMA OwnerIsNext == (IInv => OwnerFacts)'
BY OwnerIs, PTL

\* A step that starts and ends no statement is invisible to ExclusiveSession.
LEMMA Invisible ==
  ASSUME OwnerFacts, OwnerFacts', UNCHANGED << closed, session >>,
         \A c \in Callers : InUse(c)' <=> InUse(c)
  PROVE  UNCHANGED Exclusive!vars
<1>1. CASE \E c \in Callers : InUse(c)
  <2>1. PICK c \in Callers : InUse(c)
    BY <1>1
  <2>2. Owner = c /\ Owner' = c
    BY <2>1 DEF OwnerFacts
  <2> QED BY <2>2 DEF Exclusive!vars
<1>2. CASE \A c \in Callers : ~InUse(c)
  <2>1. Owner = None /\ Owner' = None
    BY <1>2 DEF OwnerFacts
  <2> QED BY <2>1 DEF Exclusive!vars
<1> QED BY <1>1, <1>2

\* A step that ends at most the statement of c.
LEMMA Ends ==
  ASSUME OwnerFacts, OwnerFacts', UNCHANGED << closed, session >>,
         NEW c \in Callers, ~InUse(c)',
         \A d \in Callers \ {c} : InUse(d)' <=> InUse(d)
  PROVE  [Exclusive!Next]_Exclusive!vars
<1>1. CASE InUse(c)
  <2>1. Owner = c /\ \A d \in Callers : InUse(d) => d = c
    BY <1>1 DEF OwnerFacts
  <2>2. Owner' = None
    BY <2>1 DEF OwnerFacts
  <2> QED BY <2>1, <2>2, NoneIsNoCaller DEF Exclusive!Next, Exclusive!Finish
<1>2. CASE ~InUse(c)
  BY <1>2, Invisible
<1> QED BY <1>1, <1>2

\* The step that gives the session to c: begin() by the holder of the token.
LEMMA Starts ==
  ASSUME IInv, OwnerFacts, OwnerFacts', NEW c \in Callers, BeginExecution(c)
  PROVE  [Exclusive!Next]_Exclusive!vars
<1>1. \A d \in Callers : ~InUse(d)
  BY DEF IInv, Base, TokenInv, StreamInv, OwnerFacts, HoldsToken, InUse, TypeOK, BeginExecution
<1>2. InUse(c)'
  BY DEF IInv, Base, TypeOK, InUse, BeginExecution, GoTo
<1>3. Owner = None /\ Owner' = c
  BY <1>1, <1>2 DEF OwnerFacts
<1>4. ~closed /\ UNCHANGED << closed, session >>
  BY DEF BeginExecution, Begin, closerVars, sharedCloseVars
<1> QED BY <1>3, <1>4 DEF Exclusive!Next, Exclusive!Start

\* CloseSession is called when the group is drained, so nothing is in progress.
LEMMA Deletes ==
  ASSUME IInv, OwnerFacts, OwnerFacts', NEW k \in Closers, DeleteReturns(k)
  PROVE  [Exclusive!Next]_Exclusive!vars
<1>1. closed /\ \A d \in Callers : ~Counted(d)
  BY DEF IInv, Base, CloserInv, ActivityInv, TypeOK, DeleteReturns
<1>2. UNCHANGED << closed, pc, under >>
  BY DEF DeleteReturns, groupVars, callerVars
<1>3. \A d \in Callers : ~InUse(d) /\ ~InUse(d)'
  BY <1>1, <1>2 DEF OwnerFacts, InUse
<1>4. Owner = None /\ Owner' = None
  BY <1>3 DEF OwnerFacts
<1>5. session' \in {session, "closed"}
  BY DEF DeleteReturns
<1> QED BY <1>1, <1>2, <1>4, <1>5 DEF Exclusive!Next, Exclusive!Delete, Exclusive!vars

\* Steps of callers that ExclusiveSession does not see.
LEMMA CallerInvisible ==
  ASSUME Base, NEW c \in Callers,
            \/ Call(c) \/ AcquireCancelled(c) \/ AcquireToken(c)
            \/ CheckClosed(c) \/ UserCancel(c) \/ BeginRefused(c)
            \/ StreamOpens(c) \/ RegisterWrapped(c) \/ RegisterRefused(c)
            \/ EndExecution(c) \/ ReleaseToken(c) \/ FinishOnce(c)
            \/ FinishUnregister(c) \/ FinishEnd(c) \/ FinishRelease(c)
            \/ FinishReturns(c)
  PROVE  UNCHANGED << closed, session >> /\ \A d \in Callers : InUse(d)' <=> InUse(d)
<1> USE DEF Base, TypeOK, InUse, GoTo, FinGoTo, groupVars, contextVars, closerVars,
        sharedCloseVars
<1>1. CASE Call(c)  BY <1>1 DEF Call
<1>2. CASE AcquireCancelled(c)  BY <1>2 DEF AcquireCancelled
<1>3. CASE AcquireToken(c)  BY <1>3 DEF AcquireToken
<1>4. CASE CheckClosed(c)  BY <1>4 DEF CheckClosed
<1>5. CASE UserCancel(c)  BY <1>5 DEF UserCancel
<1>6. CASE BeginRefused(c)  BY <1>6 DEF BeginRefused, Refuse
<1>7. CASE StreamOpens(c)  BY <1>7 DEF StreamOpens
<1>8. CASE RegisterWrapped(c)  BY <1>8 DEF RegisterWrapped, RegisterStream
<1>9. CASE RegisterRefused(c)  BY <1>9 DEF RegisterRefused, Refuse
<1>10. CASE EndExecution(c)  BY <1>10 DEF EndExecution, End
<1>11. CASE ReleaseToken(c)  BY <1>11 DEF ReleaseToken
<1>12. CASE FinishOnce(c)  BY <1>12 DEF FinishOnce, Finishing
<1>13. CASE FinishUnregister(c)  BY <1>13 DEF FinishUnregister, UnregisterStream
<1>14. CASE FinishEnd(c)  BY <1>14 DEF FinishEnd, End
<1>15. CASE FinishRelease(c)  BY <1>15 DEF FinishRelease
<1>16. CASE FinishReturns(c)  BY <1>16 DEF FinishReturns
<1> QED BY <1>1, <1>2, <1>3, <1>4, <1>5, <1>6, <1>7, <1>8,
           <1>9, <1>10, <1>11, <1>12, <1>13, <1>14, <1>15, <1>16

\* Steps of closers that ExclusiveSession does not see.
LEMMA CloserInvisible ==
  ASSUME Base, NEW k \in Closers,
            \/ CloseCall(k) \/ EnterOnce(k) \/ PassOnce(k) \/ CloserCancel(k)
            \/ CloserFinishesStream(k) \/ LeaveOnce(k) \/ CaptureIdle(k)
            \/ WaitReturns(k) \/ WaitExpires(k) \/ AlreadyClosed(k)
            \/ JoinCall(k) \/ OwnCall(k) \/ JoinReturns(k) \/ JoinExpires(k)
            \/ Settle(k)
  PROVE  UNCHANGED << closed, session >> /\ \A d \in Callers : InUse(d)' <=> InUse(d)
<1> USE DEF InUse, groupVars, callerVars, sharedCloseVars
<1>1. CASE CloseCall(k)  BY <1>1 DEF CloseCall
<1>2. CASE EnterOnce(k)  BY <1>2 DEF EnterOnce
<1>3. CASE PassOnce(k)  BY <1>3 DEF PassOnce
<1>4. CASE CloserCancel(k)  BY <1>4 DEF CloserCancel
<1>5. CASE CloserFinishesStream(k)  BY <1>5 DEF CloserFinishesStream
<1>6. CASE LeaveOnce(k)  BY <1>6 DEF LeaveOnce
<1>7. CASE CaptureIdle(k)  BY <1>7 DEF CaptureIdle
<1>8. CASE WaitReturns(k)  BY <1>8 DEF WaitReturns, Released
<1>9. CASE WaitExpires(k)  BY <1>9 DEF WaitExpires
<1>10. CASE AlreadyClosed(k)  BY <1>10 DEF AlreadyClosed
<1>11. CASE JoinCall(k)  BY <1>11 DEF JoinCall
<1>12. CASE OwnCall(k)  BY <1>12 DEF OwnCall
<1>13. CASE JoinReturns(k)  BY <1>13 DEF JoinReturns
<1>14. CASE JoinExpires(k)  BY <1>14 DEF JoinExpires
<1>15. CASE Settle(k)  BY <1>15 DEF Settle
<1> QED BY <1>1, <1>2, <1>3, <1>4, <1>5, <1>6, <1>7, <1>8,
           <1>9, <1>10, <1>11, <1>12, <1>13, <1>14, <1>15

\* Every step of SerializedSession is a step of ExclusiveSession or a stutter.
LEMMA StepImplements ==
  ASSUME IInv, OwnerFacts, OwnerFacts', [Next]_vars
  PROVE  [Exclusive!Next]_Exclusive!vars
<1> USE DEF GoTo
<1>1. ASSUME NEW c \in Callers,
            \/ Call(c) \/ AcquireCancelled(c) \/ AcquireToken(c)
            \/ CheckClosed(c) \/ UserCancel(c) \/ BeginRefused(c)
            \/ StreamOpens(c) \/ RegisterWrapped(c) \/ RegisterRefused(c)
            \/ EndExecution(c) \/ ReleaseToken(c) \/ FinishOnce(c)
            \/ FinishUnregister(c) \/ FinishEnd(c) \/ FinishRelease(c)
            \/ FinishReturns(c)
     PROVE  [Exclusive!Next]_Exclusive!vars
  BY <1>1, CallerInvisible, Invisible DEF IInv
<1>2. ASSUME NEW k \in Closers,
            \/ CloseCall(k) \/ EnterOnce(k) \/ PassOnce(k) \/ CloserCancel(k)
            \/ CloserFinishesStream(k) \/ LeaveOnce(k) \/ CaptureIdle(k)
            \/ WaitReturns(k) \/ WaitExpires(k) \/ AlreadyClosed(k)
            \/ JoinCall(k) \/ OwnCall(k) \/ JoinReturns(k) \/ JoinExpires(k)
            \/ Settle(k)
     PROVE  [Exclusive!Next]_Exclusive!vars
  BY <1>2, CloserInvisible, Invisible DEF IInv
<1>3. ASSUME NEW c \in Callers, BeginExecution(c) PROVE [Exclusive!Next]_Exclusive!vars
  BY <1>3, Starts
<1>4. ASSUME NEW c \in Callers, ExecutionReturns(c) PROVE [Exclusive!Next]_Exclusive!vars
  <2>1. ~InUse(c)' /\ \A d \in Callers \ {c} : InUse(d)' <=> InUse(d)
    BY <1>4 DEF ExecutionReturns, IInv, Base, StreamInv, TypeOK, InUse
  <2> QED BY <1>4, <2>1, Ends DEF ExecutionReturns, groupVars, closerVars, sharedCloseVars
<1>5. ASSUME NEW c \in Callers, EndUnderlying(c) PROVE [Exclusive!Next]_Exclusive!vars
  <2>1. ~InUse(c)' /\ \A d \in Callers \ {c} : InUse(d)' <=> InUse(d)
    BY <1>5 DEF EndUnderlying, IInv, Base, TypeOK, InUse
  <2> QED BY <1>5, <2>1, Ends DEF EndUnderlying, groupVars, closerVars, sharedCloseVars
<1>6. ASSUME NEW c \in Callers, ClientClosesStream(c) PROVE [Exclusive!Next]_Exclusive!vars
  <2>1. ~InUse(c)' /\ \A d \in Callers \ {c} : InUse(d)' <=> InUse(d)
    BY <1>6 DEF ClientClosesStream, IInv, Base, StreamInv, TypeOK, InUse
  <2> QED BY <1>6, <2>1, Ends DEF ClientClosesStream, groupVars, closerVars, sharedCloseVars
<1>7. ASSUME NEW k \in Closers, CloserClosesStream(k) PROVE [Exclusive!Next]_Exclusive!vars
  <2>1. PICK c \in todo : under' = [under EXCEPT ![c] = "closed"] /\ target' = c
    BY <1>7 DEF CloserClosesStream
  <2>2. c \in Callers /\ UNCHANGED << closed, pc, session >>
    BY <1>7 DEF CloserClosesStream, IInv, Base, TypeOK, groupVars, sharedCloseVars
  <2>3. ~InUse(c)' /\ \A d \in Callers \ {c} : InUse(d)' <=> InUse(d)
    BY <2>1, <2>2 DEF IInv, Base, StreamInv, TypeOK, InUse
  <2> QED BY <2>2, <2>3, Ends
<1>8. ASSUME NEW k \in Closers, CloserStop(k) PROVE [Exclusive!Next]_Exclusive!vars
  <2>1. Owner' = Owner
    BY <1>8 DEF CloserStop, Owner, InUse, callerVars
  <2> QED BY <1>8, <2>1 DEF CloserStop, Stop, sharedCloseVars, Exclusive!Next, Exclusive!Shut
<1>9. ASSUME NEW k \in Closers, DeleteReturns(k) PROVE [Exclusive!Next]_Exclusive!vars
  BY <1>9, Deletes
<1>10. CASE ClientClose \/ UNCHANGED vars
  BY <1>10, Invisible DEF ClientClose, vars, groupVars, callerVars, closerVars,
     sharedCloseVars, InUse
<1> QED BY <1>1, <1>2, <1>3, <1>4, <1>5, <1>6, <1>7, <1>8, <1>9, <1>10
  DEF Next, CallerStep, FinishStep, CloserStep, Environment

\* SerializedSession implements ExclusiveSession: for every number of callers
\* and closers statements never overlap, none starts after Close has begun,
\* and the server session is deleted only after the last has ended.
THEOREM Refinement == Spec => ImplementsExclusive
<1>1. ASSUME Init, OwnerFacts PROVE Exclusive!Init
  <2>1. Owner = None
    BY <1>1 DEF Init, OwnerFacts, InUse
  <2> QED BY <1>1, <2>1 DEF Init, GroupInit, Exclusive!Init
<1>2. Init => Exclusive!Init
  BY <1>1, InitInv, OwnerIs
<1>3. IInv /\ IInv' /\ [Next]_vars => [Exclusive!Next]_Exclusive!vars
  BY OwnerIs, OwnerIsNext, StepImplements
<1> QED BY <1>2, <1>3, Invariance, PTL DEF Spec, ImplementsExclusive, Exclusive!Spec

-----------------------------------------------------------------------------
(***************************************************************************)
(* What Close reports, and the streams it leaves                           *)
(***************************************************************************)

\* Whoever has heard of a success, or may still hear of it.
SuccessInv ==
  /\ closeComplete => session = "closed"
  /\ \A k \in Closers :
       /\ kpc[k] \in {"settleOk", "ok"} \/ result[k] = "ok" => session = "closed"
       /\ kpc[k] = "joined" => joined[k] \in Closers

LEMMA SuccessStep ==
  ASSUME TypeOK, SuccessInv, [Next]_vars
  PROVE  SuccessInv'
<1> USE DEF SuccessInv, TypeOK, KGoTo, closerVars, onceVars, sharedCloseVars
<1>1. ASSUME NEW c \in Callers, CallerStep(c) \/ FinishStep(c) PROVE SuccessInv'
  <2>1. UNCHANGED closerVars
    BY <1>1 DEF CallerStep, FinishStep, AcquireCancelled, AcquireToken, CheckClosed,
       BeginExecution, BeginRefused, ExecutionReturns, StreamOpens, RegisterWrapped,
       RegisterRefused, FinishReturns, EndExecution, ReleaseToken, EndUnderlying,
       FinishOnce, FinishUnregister, FinishEnd, FinishRelease
  <2> QED BY <2>1
<1>2. CASE Environment
  BY <1>2 DEF Environment, Call, UserCancel, EndUnderlying, ClientClosesStream, CloseCall,
     WaitExpires, JoinExpires, ClientClose
<1>3. ASSUME NEW k \in Closers,
             \/ EnterOnce(k) \/ PassOnce(k) \/ CloserStop(k) \/ CloserCancel(k)
             \/ CloserClosesStream(k) \/ CloserFinishesStream(k) \/ LeaveOnce(k)
             \/ CaptureIdle(k) \/ WaitReturns(k) \/ AlreadyClosed(k)
      PROVE  SuccessInv'
  BY <1>3 DEF EnterOnce, PassOnce, CloserStop, CloserCancel, CloserClosesStream,
     CloserFinishesStream, LeaveOnce, CaptureIdle, WaitReturns, AlreadyClosed
<1>4. ASSUME NEW k \in Closers, JoinCall(k) \/ OwnCall(k) \/ JoinReturns(k) PROVE SuccessInv'
  BY <1>4 DEF JoinCall, OwnCall, JoinReturns
<1>5. ASSUME NEW k \in Closers, DeleteReturns(k) PROVE SuccessInv'
  BY <1>5 DEF DeleteReturns
<1>6. ASSUME NEW k \in Closers, Settle(k) PROVE SuccessInv'
  BY <1>6 DEF Settle
<1>7. CASE UNCHANGED vars
  BY <1>7 DEF vars
<1> QED BY <1>1, <1>2, <1>3, <1>4, <1>5, <1>6, <1>7 DEF Next, CloserStep

\* A Close that reports success has closed the session on the server, also when
\* it only shared the result of another (serialized_session.go:54-97).
THEOREM SuccessIsTrue == Spec => []CloseOkMeansClosed
<1>1. Init => SuccessInv
  BY DEF Init, SuccessInv
<1>2. TypeOK /\ SuccessInv /\ [Next]_vars => SuccessInv'
  BY SuccessStep
<1>3. SuccessInv => CloseOkMeansClosed
  BY DEF SuccessInv, CloseOkMeansClosed
<1> QED BY <1>1, <1>2, <1>3, TypeCorrect, PTL DEF Spec

\* The owner of the once: it is alone there, and works through a snapshot that
\* was taken when the group was stopped.
InOnce(k) == kpc[k] \in {"stop", "cancel", "streams", "finish"}

OwnerInv ==
  /\ \A k \in Closers :
       /\ InOnce(k) => once = "running"
       /\ kpc[k] = "stop" => ~closed
       /\ kpc[k] \in {"cancel", "streams", "finish"} => closed
       /\ kpc[k] \in {"stop", "cancel", "streams"} => target = None
       /\ kpc[k] = "finish" => target \in Callers
  /\ \A k, l \in Closers : InOnce(k) /\ InOnce(l) => k = l
  /\ once = "new" => ~closed
  /\ once # "running" => todo = {} /\ target = None

\* A stream that somebody still has to finish.
Unfinished(c) == c \in streams \/ (pc[c] = "open" /\ fin[c] # "yes")

\* Until the group is stopped every open stream is registered and nobody has
\* finished it; from then on its owner has it on the list.
CoveredInv ==
  /\ ~closed => \A c \in Callers : pc[c] = "open" => fin[c] = "no" /\ c \in streams
  /\ closed => \A c \in Callers : Unfinished(c) => c \in todo \cup {target}

\* Only the owner of the once moves in it, and it leaves with nothing to do.
LEMMA OwnerStep ==
  ASSUME TypeOK, OwnerInv, [Next]_vars
  PROVE  OwnerInv'
<1> USE NoneIsNoCaller DEF OwnerInv, InOnce, TypeOK, KGoTo
<1>1. ASSUME NEW c \in Callers, CallerStep(c) \/ FinishStep(c) PROVE OwnerInv'
  <2>1. UNCHANGED << kpc, once, todo, target, closed >>
    BY <1>1 DEF CallerStep, FinishStep, AcquireCancelled, AcquireToken, CheckClosed,
       BeginExecution, BeginRefused, ExecutionReturns, StreamOpens, RegisterWrapped,
       RegisterRefused, FinishReturns, EndExecution, ReleaseToken, EndUnderlying,
       FinishOnce, FinishUnregister, FinishEnd, FinishRelease, Begin, Refuse, End,
       RegisterStream, UnregisterStream, groupVars, closerVars, onceVars
  <2> QED BY <2>1
<1>2. CASE Environment
  BY <1>2 DEF Environment, Call, UserCancel, EndUnderlying, ClientClosesStream, CloseCall,
     WaitExpires, JoinExpires, ClientClose, groupVars, closerVars, onceVars
<1>3. ASSUME NEW k \in Closers, EnterOnce(k) PROVE OwnerInv'
  BY <1>3 DEF EnterOnce, groupVars
<1>4. ASSUME NEW k \in Closers, CloserStop(k) PROVE OwnerInv'
  BY <1>4 DEF CloserStop, Stop
<1>5. ASSUME NEW k \in Closers, CloserCancel(k) PROVE OwnerInv'
  BY <1>5 DEF CloserCancel, groupVars, onceVars
<1>6. ASSUME NEW k \in Closers, CloserClosesStream(k) PROVE OwnerInv'
  BY <1>6 DEF CloserClosesStream, groupVars
<1>7. ASSUME NEW k \in Closers, CloserFinishesStream(k) \/ LeaveOnce(k) PROVE OwnerInv'
  BY <1>7 DEF CloserFinishesStream, LeaveOnce, groupVars
<1>8. ASSUME NEW k \in Closers,
             \/ PassOnce(k) \/ CaptureIdle(k) \/ WaitReturns(k) \/ AlreadyClosed(k)
             \/ JoinCall(k) \/ OwnCall(k) \/ JoinReturns(k) \/ DeleteReturns(k) \/ Settle(k)
      PROVE  OwnerInv'
  BY <1>8 DEF PassOnce, CaptureIdle, WaitReturns, AlreadyClosed, JoinCall, OwnCall,
     JoinReturns, DeleteReturns, Settle, groupVars, onceVars
<1>9. CASE UNCHANGED vars
  BY <1>9 DEF vars, groupVars, closerVars, onceVars
<1> QED BY <1>1, <1>2, <1>3, <1>4, <1>5, <1>6, <1>7, <1>8, <1>9 DEF Next, CloserStep

\* No step takes an unfinished stream out of sight.
LEMMA CoveredStep ==
  ASSUME Base, OwnerInv, CoveredInv, [Next]_vars
  PROVE  CoveredInv'
<1> USE DEF CoveredInv, Unfinished, Base, TypeOK, GroupTypeOK, StreamInv, GoTo, FinGoTo,
        groupVars, callerVars, closerVars, onceVars
<1>1. ASSUME NEW c \in Callers,
             \/ Call(c) \/ UserCancel(c) \/ AcquireCancelled(c) \/ AcquireToken(c)
             \/ CheckClosed(c) \/ BeginExecution(c) \/ BeginRefused(c)
             \/ ExecutionReturns(c) \/ StreamOpens(c) \/ RegisterRefused(c)
      PROVE  CoveredInv'
  BY <1>1 DEF Call, UserCancel, AcquireCancelled, AcquireToken, CheckClosed, BeginExecution,
     Begin, BeginRefused, Refuse, ExecutionReturns, StreamOpens, RegisterRefused
<1>2. ASSUME NEW c \in Callers, RegisterWrapped(c) PROVE CoveredInv'
  BY <1>2 DEF RegisterWrapped, RegisterStream
<1>3. ASSUME NEW c \in Callers,
             \/ EndUnderlying(c) \/ ClientClosesStream(c) \/ FinishReturns(c)
             \/ EndExecution(c) \/ ReleaseToken(c)
      PROVE  CoveredInv'
  BY <1>3 DEF EndUnderlying, ClientClosesStream, FinishReturns, EndExecution, End, ReleaseToken
<1>4. ASSUME NEW c \in Callers, FinishOnce(c) PROVE CoveredInv'
  BY <1>4 DEF FinishOnce, Finishing, OwnerInv
<1>5. ASSUME NEW c \in Callers, FinishUnregister(c) PROVE CoveredInv'
  BY <1>5 DEF FinishUnregister, UnregisterStream
<1>6. ASSUME NEW c \in Callers, FinishEnd(c) \/ FinishRelease(c) PROVE CoveredInv'
  BY <1>6 DEF FinishEnd, End, FinishRelease
<1>7. ASSUME NEW k \in Closers, CloserStop(k) PROVE CoveredInv'
  BY <1>7 DEF CloserStop, Stop, OwnerInv
<1>8. ASSUME NEW k \in Closers, CloserClosesStream(k) PROVE CoveredInv'
  BY <1>8, NoneIsNoCaller DEF CloserClosesStream, OwnerInv
<1>9. ASSUME NEW k \in Closers, CloserFinishesStream(k) PROVE CoveredInv'
  BY <1>9 DEF CloserFinishesStream
<1>10. ASSUME NEW k \in Closers,
              \/ CloseCall(k) \/ WaitExpires(k) \/ JoinExpires(k) \/ EnterOnce(k)
              \/ PassOnce(k) \/ CloserCancel(k) \/ LeaveOnce(k) \/ CaptureIdle(k)
              \/ WaitReturns(k) \/ AlreadyClosed(k) \/ JoinCall(k) \/ OwnCall(k)
              \/ JoinReturns(k) \/ DeleteReturns(k) \/ Settle(k)
       PROVE  CoveredInv'
  BY <1>10 DEF CloseCall, WaitExpires, JoinExpires, EnterOnce, PassOnce, CloserCancel, LeaveOnce,
     CaptureIdle, WaitReturns, AlreadyClosed, JoinCall, OwnCall, JoinReturns, DeleteReturns,
     Settle
<1>11. CASE ClientClose \/ UNCHANGED vars
  BY <1>11 DEF ClientClose, vars
<1> QED BY <1>1, <1>2, <1>3, <1>4, <1>5, <1>6, <1>7, <1>8, <1>9, <1>10, <1>11
  DEF Next, CallerStep, FinishStep, CloserStep, Environment

\* When closeLocal is over no stream is left for anybody to finish: the snapshot
\* the owner took when it stopped the group held every stream that was open, and
\* none was registered after it (serialized_session.go:141-178 and 221-231).
THEOREM NoStreamEscapes == Spec => []NoOrphanStream
<1>1. Init => OwnerInv /\ CoveredInv
  BY DEF Init, GroupInit, OwnerInv, InOnce, CoveredInv
<1>2. IInv /\ OwnerInv /\ CoveredInv /\ [Next]_vars => OwnerInv' /\ CoveredInv'
  BY OwnerStep, CoveredStep DEF IInv, Base
<1>3. IInv /\ OwnerInv /\ CoveredInv => NoOrphanStream
  BY NoneIsNoCaller DEF IInv, Base, TypeOK, GroupTypeOK, OwnerInv, CoveredInv, Unfinished,
     NoOrphanStream
<1> QED BY <1>1, <1>2, <1>3, Invariance, PTL DEF Spec
=============================================================================
