-------------------------- MODULE SubmissionProofs --------------------------
(***************************************************************************)
(* The shared check of the gateway asks it by one caller at a time, gives  *)
(* nobody the cancellation of somebody else and remembers the right        *)
(* verdict; the operations that need a capability use it as it is, request *)
(* only what the gateway has, and are honest about their one request: for  *)
(* any number of callers and any environments.                             *)
(***************************************************************************)
EXTENDS Submission, FiniteSetTheorems, TLAPS

(***************************************************************************)
(* CheckAPIVersion                                                         *)
(***************************************************************************)
AtGateway == {"info", "versions", "settle"}

(* The call in flight belongs to the one caller that asks, and there is    *)
(* none once the verdict is known or the configuration decides it.         *)
OwnerInv ==
  /\ \A c \in Callers : pc[c] \in AtGateway <=> versionCall = c
  /\ versionChecked \/ ConfigRejected => versionCall = None
  /\ \A c \in Callers : pc[c] = "waiting" => joined[c] \in Callers

Excused(c) == context[c] = "canceled" \/ clientClosed

(* A cancellation is remembered nowhere, and handed to those that wait only *)
(* by a call that tells them to ask again.                                 *)
CancelInv ==
  /\ versionErr # "canceled"
  /\ \A c \in Callers :
       /\ pc[c] = "settle" /\ outcome[c].err = "canceled" => Excused(c)
       /\ callDone[c] /\ callErr[c] = "canceled" => callRetry[c] \/ clientClosed
       /\ result[c] = "canceled" => Excused(c)

(* An error that goes with what the gateway is.                             *)
Right(err) ==
  /\ err = "nil" => Compatible
  /\ err = "unsupported" => ~Compatible

IsBest(v) == v \in Usable /\ \A w \in Usable : w <= v

(* Whoever resolves the call brings a right verdict or a passing failure,   *)
(* and whoever has been told a verdict finds it remembered.                 *)
VerdictInv ==
  /\ VerdictTrue
  /\ ~versionChecked => versionErr = "nil" /\ selected = 0
  /\ \A c \in Callers :
       /\ pc[c] = "info" => config.auto
       /\ pc[c] = "versions" => (config.auto => gateway.known)
       /\ pc[c] = "settle" =>
            Right(outcome[c].err) /\ (outcome[c].err = "nil" => IsBest(outcome[c].version))
       /\ callDone[c] => Right(callErr[c]) /\ (callErr[c] = "nil" => versionChecked)
       /\ Right(result[c]) /\ (result[c] = "nil" => versionChecked)

IInv == TypeOK /\ OwnerInv /\ CancelInv /\ VerdictInv

-----------------------------------------------------------------------------
\* The selection of a version gives a version or says that there is none
\* (compatibility.go selectAPIVersion): it is never a passing failure.
LEMMA SelectionIsAVerdict == SelectAPIVersion.err \in {"nil", "unsupported"}
<1>1. \A err, version : Outcome(err, version).err = err
  BY DEF Outcome
<1> QED BY <1>1 DEF SelectAPIVersion, Highest

\* The greatest of some of the versions there are is found and is one of them.
LEMMA HighestIsFound ==
  ASSUME NEW S \in SUBSET (1..4)
  PROVE /\ Highest(S).err = IF S = {} THEN "unsupported" ELSE "nil"
        /\ S # {} => Highest(S).version \in S /\ \A w \in S : w <= Highest(S).version
<1>1. CASE S = {}
  BY <1>1 DEF Highest, Outcome
<1>2. CASE S # {}
  <2>1. \E v \in S : \A w \in S : w <= v
    <3>1. CASE 4 \in S
      BY <3>1
    <3>2. CASE 4 \notin S /\ 3 \in S
      BY <3>2
    <3>3. CASE 4 \notin S /\ 3 \notin S /\ 2 \in S
      BY <3>3
    <3>4. CASE 4 \notin S /\ 3 \notin S /\ 2 \notin S
      <4>1. \A w \in S : w = 1
        BY <3>4
      <4>2. PICK v \in S : TRUE
        BY <1>2
      <4> QED BY <4>1, <4>2
    <3> QED BY <3>1, <3>2, <3>3, <3>4
  <2> DEFINE top == CHOOSE v \in S : \A w \in S : w <= v
  <2>2. top \in S /\ \A w \in S : w <= top
    BY <2>1
  <2>3. Highest(S) = Outcome("nil", top)
    BY <1>2 DEF Highest
  <2> HIDE DEF top
  <2> QED BY <1>2, <2>2, <2>3 DEF Outcome
<1> QED BY <1>1, <1>2

LEMMA ValidEnvironment ==
  ASSUME TypeOK
  PROVE /\ profile.versions \subseteq 1..4 /\ profile.stable \in 1..4
        /\ config.policy \in {"stable", "highest", "explicit"}
        /\ config.auto \in BOOLEAN /\ gateway.known \in BOOLEAN
BY EnvironmentsAreValid DEF TypeOK

\* What selectAPIVersion returns once the release is known to have a profile:
\* the highest version the policy allows, and an error if it allows none
\* (compatibility.go:543-588).
LEMMA SelectionIsRight ==
  ASSUME TypeOK, config.auto => gateway.known
  PROVE /\ Right(SelectAPIVersion.err)
        /\ SelectAPIVersion.err = "nil" => IsBest(SelectAPIVersion.version)
<1> USE ValidEnvironment DEF Right, Compatible, IsBest, Common
<1>1. CASE config.policy = "explicit"
  <2>1. Usable = Common \cap {config.explicit}
    BY <1>1 DEF Usable
  <2> QED BY <1>1, <2>1 DEF SelectAPIVersion, Outcome
<1>2. CASE config.policy # "explicit"
  <2> DEFINE allowed == {v \in Common : config.policy = "highest" \/ v <= profile.stable}
  <2>1. Usable = allowed /\ allowed \in SUBSET (1..4)
    BY <1>2 DEF Usable
  <2>2. SelectAPIVersion = Highest(Usable)
    BY <1>2, <2>1 DEF SelectAPIVersion
  <2>3. /\ Highest(Usable).err = IF Usable = {} THEN "unsupported" ELSE "nil"
        /\ Usable # {} => IsBest(Highest(Usable).version)
    BY <2>1, HighestIsFound
  <2> HIDE DEF allowed
  <2> QED BY <2>2, <2>3
<1> QED BY <1>1, <1>2

LEMMA InitInv == Init => IInv
<1> SUFFICES ASSUME Init PROVE IInv
  OBVIOUS
<1>1. Outcome("nil", 0).err = "nil"
  BY DEF Outcome
<1>2. TypeOK
  BY <1>1 DEF Init, TypeOK, Errors
<1>3. OwnerInv
  BY NoneIsNoCaller DEF Init, OwnerInv, AtGateway
<1>4. CancelInv
  BY DEF Init, CancelInv
<1>5. VerdictInv
  BY <1>1 DEF Init, VerdictInv, VerdictTrue, Right
<1> QED BY <1>2, <1>3, <1>4, <1>5 DEF IInv

\* What a caller that resolves the call does to the types.
LEMMA ResolvedTypes ==
  ASSUME TypeOK, NEW c \in Callers, NEW o, o.err \in Errors, Resolved(c, o),
         UNCHANGED << envVars, clientClosed, cacheVars, callVars, joined, result, context >>
  PROVE TypeOK'
BY DEF TypeOK, Resolved, GoTo, envVars, cacheVars, callVars

LEMMA FailureTypes ==
  ASSUME TypeOK, NEW c \in Callers, GetFails(c),
         UNCHANGED << envVars, clientClosed, cacheVars, callVars, joined, result, context >>
  PROVE TypeOK'
<1>1. \A err, version : Outcome(err, version).err = err
  BY DEF Outcome
<1>2. {"clientClosed", "canceled", "deadline", "server", context[c]} \subseteq Errors
  BY DEF TypeOK, Errors
<1> QED BY <1>1, <1>2, ResolvedTypes DEF GetFails

LEMMA TypeStep == TypeOK /\ OwnerInv /\ [Next]_vars => TypeOK'
<1> SUFFICES ASSUME TypeOK, OwnerInv, [Next]_vars PROVE TypeOK'
  OBVIOUS
<1> USE DEF TypeOK, Errors
<1>1. ASSUME NEW c \in Callers, Reject(c) PROVE TypeOK'
  BY <1>1 DEF Reject, Returns, GoTo, envVars, callVars
<1>2. ASSUME NEW c \in Callers, Cached(c) PROVE TypeOK'
  BY <1>2 DEF Cached, Returns, GoTo, envVars, cacheVars, callVars
<1>3. ASSUME NEW c \in Callers, Join(c) PROVE TypeOK'
  BY <1>3 DEF Join, GoTo, envVars, cacheVars, callVars
<1>4. ASSUME NEW c \in Callers, Own(c) PROVE TypeOK'
  BY <1>4 DEF Own, GoTo, envVars, cacheVars
<1>5. ASSUME NEW c \in Callers, WaitCancelled(c) PROVE TypeOK'
  BY <1>5 DEF WaitCancelled, Returns, GoTo, envVars, cacheVars, callVars
<1>6. ASSUME NEW c \in Callers, WaitReturns(c) PROVE TypeOK'
  BY <1>6 DEF OwnerInv, WaitReturns, Returns, GoTo, envVars, cacheVars, callVars
<1>7. ASSUME NEW c \in Callers, GetInfo(c) PROVE TypeOK'
  <2>1. CASE Answered /\ gateway.known /\ GoTo(c, "versions") /\ UNCHANGED outcome
    BY <1>7, <2>1 DEF GetInfo, GoTo, envVars, cacheVars, callVars
  <2>2. CASE Resolved(c, Outcome("unsupported", 0))
    BY <1>7, <2>2, ResolvedTypes DEF GetInfo, Outcome
  <2>3. CASE GetFails(c)
    BY <1>7, <2>3, FailureTypes DEF GetInfo
  <2> QED BY <1>7, <2>1, <2>2, <2>3 DEF GetInfo
<1>8. ASSUME NEW c \in Callers, GetAPIVersions(c) PROVE TypeOK'
  <2>1. CASE Resolved(c, SelectAPIVersion)
    BY <1>8, <2>1, SelectionIsAVerdict, ResolvedTypes DEF GetAPIVersions
  <2>2. CASE GetFails(c)
    BY <1>8, <2>2, FailureTypes DEF GetAPIVersions
  <2> QED BY <1>8, <2>1, <2>2 DEF GetAPIVersions
<1>9. ASSUME NEW c \in Callers, Settle(c) PROVE TypeOK'
  BY <1>9 DEF Settle, Returns, GoTo, envVars
<1>10. ASSUME NEW c \in Callers, ContextEnds(c) PROVE TypeOK'
  BY <1>10 DEF ContextEnds, envVars, cacheVars, callVars, callerVars
<1>11. ASSUME ClientClose \/ UNCHANGED vars PROVE TypeOK'
  BY <1>11 DEF ClientClose, vars, envVars, cacheVars, callVars, callerVars
<1> QED
  BY <1>1, <1>2, <1>3, <1>4, <1>5, <1>6, <1>7, <1>8, <1>9, <1>10, <1>11 DEF Next, CallerStep

\* A caller owns the call from the moment it begins to ask until it settles
\* (client.go CheckAPIVersion, the two critical sections of versionMu).
LEMMA OwnerStep == TypeOK /\ OwnerInv /\ [Next]_vars => OwnerInv'
<1> SUFFICES ASSUME TypeOK, OwnerInv, [Next]_vars PROVE OwnerInv'
  OBVIOUS
<1> USE NoneIsNoCaller DEF TypeOK, OwnerInv, AtGateway, ConfigRejected
<1>1. ASSUME NEW c \in Callers, Reject(c) PROVE OwnerInv'
  BY <1>1 DEF Reject, Returns, GoTo, envVars, callVars
<1>2. ASSUME NEW c \in Callers, Cached(c) PROVE OwnerInv'
  BY <1>2 DEF Cached, Returns, GoTo, envVars, cacheVars, callVars
<1>3. ASSUME NEW c \in Callers, Join(c) PROVE OwnerInv'
  BY <1>3 DEF Join, GoTo, envVars, cacheVars, callVars
<1>4. ASSUME NEW c \in Callers, Own(c) PROVE OwnerInv'
  BY <1>4 DEF Own, GoTo, envVars, cacheVars
<1>5. ASSUME NEW c \in Callers, WaitCancelled(c) \/ WaitReturns(c) PROVE OwnerInv'
  BY <1>5 DEF WaitCancelled, WaitReturns, Returns, GoTo, envVars, cacheVars, callVars
<1>6. ASSUME NEW c \in Callers, GetInfo(c) PROVE OwnerInv'
  BY <1>6 DEF GetInfo, GetFails, Resolved, GoTo, envVars, cacheVars, callVars
<1>7. ASSUME NEW c \in Callers, GetAPIVersions(c) PROVE OwnerInv'
  BY <1>7 DEF GetAPIVersions, GetFails, Resolved, GoTo, envVars, cacheVars, callVars
<1>8. ASSUME NEW c \in Callers, Settle(c) PROVE OwnerInv'
  BY <1>8 DEF Settle, Returns, GoTo, envVars
<1>9. ASSUME NEW c \in Callers, ContextEnds(c) PROVE OwnerInv'
  BY <1>9 DEF ContextEnds, envVars, cacheVars, callVars, callerVars
<1>10. ASSUME ClientClose \/ UNCHANGED vars PROVE OwnerInv'
  BY <1>10 DEF ClientClose, vars, envVars, cacheVars, callVars, callerVars
<1> QED
  BY <1>1, <1>2, <1>3, <1>4, <1>5, <1>6, <1>7, <1>8, <1>9, <1>10 DEF Next, CallerStep

\* A request is cancelled by the context of its caller or by the closed
\* client, and a call that ended so is done again by those that waited for it.
LEMMA CancelStep == TypeOK /\ OwnerInv /\ CancelInv /\ [Next]_vars => CancelInv'
<1> SUFFICES ASSUME TypeOK, OwnerInv, CancelInv, [Next]_vars PROVE CancelInv'
  OBVIOUS
<1> USE DEF TypeOK, CancelInv, Excused
<1>1. ASSUME NEW c \in Callers, Reject(c) PROVE CancelInv'
  BY <1>1 DEF Reject, Returns, GoTo, callVars
<1>2. ASSUME NEW c \in Callers, Cached(c) PROVE CancelInv'
  BY <1>2 DEF Cached, Returns, GoTo, cacheVars, callVars
<1>3. ASSUME NEW c \in Callers, Join(c) PROVE CancelInv'
  BY <1>3 DEF Join, GoTo, cacheVars, callVars
<1>4. ASSUME NEW c \in Callers, Own(c) PROVE CancelInv'
  BY <1>4 DEF Own, GoTo, cacheVars
<1>5. ASSUME NEW c \in Callers, WaitCancelled(c) PROVE CancelInv'
  BY <1>5 DEF WaitCancelled, Returns, GoTo, cacheVars, callVars
<1>6. ASSUME NEW c \in Callers, WaitReturns(c) PROVE CancelInv'
  BY <1>6 DEF OwnerInv, WaitReturns, Returns, GoTo, cacheVars, callVars
<1>7. ASSUME NEW c \in Callers, NEW o, Resolved(c, o), o.err = "canceled" => Excused(c),
             UNCHANGED << clientClosed, cacheVars, callVars, result, context >>
      PROVE CancelInv'
  BY <1>7 DEF Resolved, GoTo, cacheVars, callVars
<1>8. ASSUME NEW c \in Callers, GetFails(c),
             UNCHANGED << clientClosed, cacheVars, callVars, result, context >>
      PROVE CancelInv'
  BY <1>7, <1>8 DEF GetFails, Outcome
<1>9. ASSUME NEW c \in Callers, GetInfo(c) PROVE CancelInv'
  <2>1. CASE Answered /\ gateway.known /\ GoTo(c, "versions") /\ UNCHANGED outcome
    BY <1>9, <2>1 DEF GetInfo, GoTo, cacheVars, callVars
  <2>2. CASE Resolved(c, Outcome("unsupported", 0))
    BY <1>7, <1>9, <2>2 DEF GetInfo, Outcome
  <2>3. CASE GetFails(c)
    BY <1>8, <1>9, <2>3 DEF GetInfo
  <2> QED BY <1>9, <2>1, <2>2, <2>3 DEF GetInfo
<1>10. ASSUME NEW c \in Callers, GetAPIVersions(c) PROVE CancelInv'
  <2>1. CASE Resolved(c, SelectAPIVersion)
    BY <1>7, <1>10, <2>1, SelectionIsAVerdict DEF GetAPIVersions
  <2>2. CASE GetFails(c)
    BY <1>8, <1>10, <2>2 DEF GetAPIVersions
  <2> QED BY <1>10, <2>1, <2>2 DEF GetAPIVersions
<1>11. ASSUME NEW c \in Callers, Settle(c) PROVE CancelInv'
  BY <1>11 DEF Settle, Returns, GoTo
<1>12. ASSUME NEW c \in Callers, ContextEnds(c) PROVE CancelInv'
  BY <1>12 DEF ContextEnds, cacheVars, callVars, callerVars
<1>13. ASSUME ClientClose \/ UNCHANGED vars PROVE CancelInv'
  BY <1>13 DEF ClientClose, vars, cacheVars, callVars, callerVars
<1> QED
  BY <1>1, <1>2, <1>3, <1>4, <1>5, <1>6, <1>9, <1>10, <1>11, <1>12, <1>13 DEF Next, CallerStep

LEMMA EnvironmentIsFixed == [Next]_vars => UNCHANGED envVars
BY DEF Next, CallerStep, Reject, Cached, Join, Own, WaitCancelled, WaitReturns, GetInfo,
       GetAPIVersions, Settle, ContextEnds, ClientClose, vars

\* A verdict is remembered by the owner of the call, who has asked, or by a
\* caller that finds the configuration contradictory; a passing failure is
\* not remembered (client.go:205-222).
LEMMA VerdictStep == TypeOK /\ OwnerInv /\ VerdictInv /\ [Next]_vars => VerdictInv'
<1> SUFFICES ASSUME TypeOK, OwnerInv, VerdictInv, [Next]_vars PROVE VerdictInv'
  OBVIOUS
<1>1. UNCHANGED << profile, config, gateway >>
  BY EnvironmentIsFixed DEF envVars
<1>2. (Compatible' <=> Compatible) /\ Usable' = Usable
  BY <1>1 DEF Compatible, Usable
<1>3. ConfigRejected => ~Compatible
  BY DEF ConfigRejected, Compatible, Usable
<1> USE <1>1, <1>2 DEF TypeOK, VerdictInv, VerdictTrue, Right, IsBest
<1>4. ASSUME NEW c \in Callers, Reject(c) PROVE VerdictInv'
  BY <1>3, <1>4 DEF Reject, Returns, GoTo, callVars
<1>5. ASSUME NEW c \in Callers, Cached(c) PROVE VerdictInv'
  BY <1>5 DEF Cached, Returns, GoTo, cacheVars, callVars
<1>6. ASSUME NEW c \in Callers, Join(c) PROVE VerdictInv'
  BY <1>6 DEF Join, GoTo, cacheVars, callVars
<1>7. ASSUME NEW c \in Callers, Own(c) PROVE VerdictInv'
  BY <1>7 DEF Own, GoTo, cacheVars
<1>8. ASSUME NEW c \in Callers, WaitCancelled(c) PROVE VerdictInv'
  BY <1>8 DEF WaitCancelled, Returns, GoTo, cacheVars, callVars
<1>9. ASSUME NEW c \in Callers, WaitReturns(c) PROVE VerdictInv'
  BY <1>9 DEF OwnerInv, WaitReturns, Returns, GoTo, cacheVars, callVars
<1>10. ASSUME NEW c \in Callers, NEW o, Resolved(c, o), Right(o.err),
              o.err = "nil" => IsBest(o.version),
              UNCHANGED << cacheVars, callVars, result >>
       PROVE VerdictInv'
  BY <1>10 DEF Resolved, GoTo, cacheVars, callVars
<1>11. ASSUME NEW c \in Callers, GetFails(c), UNCHANGED << cacheVars, callVars, result >>
       PROVE VerdictInv'
  <2>1. ASSUME NEW err \in {"clientClosed", "canceled", "deadline", "server"},
               Resolved(c, Outcome(err, 0))
        PROVE VerdictInv'
    BY <1>10, <1>11, <2>1 DEF Outcome
  <2>2. CASE context[c] # "nil" /\ Resolved(c, Outcome(context[c], 0))
    BY <2>1, <2>2
  <2> QED BY <1>11, <2>1, <2>2 DEF GetFails
<1>12. ASSUME NEW c \in Callers, GetInfo(c) PROVE VerdictInv'
  <2>1. CASE Answered /\ gateway.known /\ GoTo(c, "versions") /\ UNCHANGED outcome
    BY <1>12, <2>1 DEF GetInfo, GoTo, cacheVars, callVars
  <2>2. CASE ~gateway.known /\ Resolved(c, Outcome("unsupported", 0))
    <3>1. ~Compatible
      BY <1>12, <2>2 DEF GetInfo, Compatible
    <3> QED BY <1>10, <1>12, <2>2, <3>1 DEF GetInfo, Outcome
  <2>3. CASE GetFails(c)
    BY <1>11, <1>12, <2>3 DEF GetInfo
  <2> QED BY <1>12, <2>1, <2>2, <2>3 DEF GetInfo
<1>13. ASSUME NEW c \in Callers, GetAPIVersions(c) PROVE VerdictInv'
  <2>1. CASE Resolved(c, SelectAPIVersion)
    BY <1>10, <1>13, <2>1, SelectionIsRight DEF GetAPIVersions
  <2>2. CASE GetFails(c)
    BY <1>11, <1>13, <2>2 DEF GetAPIVersions
  <2> QED BY <1>13, <2>1, <2>2 DEF GetAPIVersions
<1>14. ASSUME NEW c \in Callers, Settle(c) PROVE VerdictInv'
  <2>1. ~versionChecked
    BY <1>14, NoneIsNoCaller DEF Settle, OwnerInv, AtGateway
  <2> DEFINE o == outcome[c]
  <2>2. /\ Right(o.err) /\ (o.err = "nil" => IsBest(o.version))
        /\ versionChecked' <=> o.err \in {"nil", "unsupported"}
        /\ versionErr' = IF o.err = "unsupported" THEN "unsupported" ELSE "nil"
        /\ selected' = IF o.err = "nil" THEN o.version ELSE 0
        /\ callErr' = [callErr EXCEPT ![c] = o.err]
        /\ callDone' = [callDone EXCEPT ![c] = TRUE]
        /\ result' = [result EXCEPT ![c] = o.err]
        /\ pc' = [pc EXCEPT ![c] = "done"] /\ outcome' = outcome
    BY <1>14, <2>1 DEF Settle, Returns, GoTo
  <2> HIDE DEF o
  <2>3. VerdictTrue' /\ (~versionChecked' => versionErr' = "nil" /\ selected' = 0)
    BY <2>2
  <2> QED BY <2>1, <2>2, <2>3
<1>15. ASSUME NEW c \in Callers, ContextEnds(c) PROVE VerdictInv'
  BY <1>15 DEF ContextEnds, cacheVars, callVars, callerVars
<1>16. ASSUME ClientClose \/ UNCHANGED vars PROVE VerdictInv'
  BY <1>16 DEF ClientClose, vars, cacheVars, callVars, callerVars
<1> QED
  BY <1>4, <1>5, <1>6, <1>7, <1>8, <1>9, <1>12, <1>13, <1>14, <1>15, <1>16 DEF Next, CallerStep

LEMMA Invariance == Spec => []IInv
<1>1. IInv /\ [Next]_vars => IInv'
  BY TypeStep, OwnerStep, CancelStep, VerdictStep DEF IInv
<1> QED BY InitInv, <1>1, PTL DEF Spec

-----------------------------------------------------------------------------
\* The verdict that is remembered is the right one for the gateway, for any
\* callers, whatever requests failed (client.go:205-222).
THEOREM VerdictIsTrue == Spec => []VerdictTrue
<1>1. IInv => VerdictTrue
  BY DEF IInv, VerdictInv
<1> QED BY <1>1, Invariance, PTL

\* The types of the shared check of the gateway.
THEOREM TypeCorrect == Spec => []TypeOK
<1>1. IInv => TypeOK
  BY DEF IInv
<1> QED BY <1>1, Invariance, PTL

\* The gateway is asked by one caller at a time, and by nobody once its
\* verdict is known (client.go CheckAPIVersion, versionCall).
THEOREM OneAsks == Spec => []SingleFlight
<1>1. ASSUME IInv PROVE SingleFlight
  <2> DEFINE askers == {c \in Callers : pc[c] \in {"info", "versions", "settle"}}
  <2>1. askers \subseteq {versionCall}
    BY <1>1 DEF IInv, OwnerInv, AtGateway
  <2>2. Cardinality(askers) <= 1
    <3>1. Cardinality({}) = 0 /\ Cardinality({versionCall}) = 1
      BY FS_EmptySet, FS_Singleton
    <3>2. askers = {} \/ askers = {versionCall}
      BY <2>1
    <3> QED BY <3>1, <3>2
  <2>3. versionChecked => \A c \in Callers : pc[c] \notin {"info", "versions", "settle"}
    BY <1>1, NoneIsNoCaller DEF IInv, OwnerInv, AtGateway
  <2> QED BY <2>2, <2>3 DEF SingleFlight
<1> QED BY <1>1, Invariance, PTL

\* Nobody is told that a context was cancelled unless it was their own or the
\* client was closed (client.go CheckAPIVersion, retryForWaiters).
THEOREM CancellationIsOwn == Spec => []NoForeignCancellation
<1>1. IInv => NoForeignCancellation
  BY DEF IInv, CancelInv, Excused, NoForeignCancellation
<1> QED BY <1>1, Invariance, PTL

(***************************************************************************)
(* The operations that need a capability                                   *)
(***************************************************************************)
(* What a call was refused and where its request went. *)
PermitInv ==
  /\ PermissionTrue
  /\ verdict \in [Callers -> {"none", "ok", "err", "unsupported", "unknown"}]
  /\ sentTo \in [Callers -> Nat]

(* What SubmissionHonest needs to be an invariant of the steps. *)
Counted ==
  /\ verdict \in [Callers -> {"none", "ok", "err", "unsupported", "unknown"}]
  /\ processed \in [Callers -> Nat]
  /\ late \subseteq Callers
  /\ task \in [Callers -> Operations]

HonestInv == Counted /\ SubmissionHonest

-----------------------------------------------------------------------------
\* A submission takes the steps of CheckAPIVersion and no others that touch
\* its state (script.go:57, materialized_table.go:45).
LEMMA SubmissionStepIsCheckStep == [SubmissionNext]_allVars => [Next]_vars
<1> SUFFICES ASSUME [SubmissionNext]_allVars PROVE [Next]_vars
  OBVIOUS
<1>1. CASE UNCHANGED allVars
  BY <1>1 DEF allVars
<1>2. ASSUME NEW c \in Callers, SubmitStep(c) PROVE [Next]_vars
  <2>1. CASE Check(c)
    BY <2>1 DEF Check, Next
  <2>2. CASE RefuseEarly(c) \/ CheckFails(c) \/ CheckSucceeds(c) \/ RefuseLate(c) \/ NotSent(c)
    BY <2>2 DEF RefuseEarly, CheckFails, CheckSucceeds, RefuseLate, NotSent, NothingSent
  <2>3. CASE Post(c) \/ Get(c)
    BY <2>3 DEF Post, Get
  <2> QED BY <1>2, <2>1, <2>2, <2>3 DEF SubmitStep
<1>3. ASSUME NEW c \in Callers, ProcessLate(c) PROVE [Next]_vars
  BY <1>3 DEF ProcessLate
<1>4. CASE Outside
  BY <1>4, ImpatientAreCallers DEF Outside, Next
<1> QED BY <1>1, <1>2, <1>3, <1>4 DEF SubmissionNext

\* A submission uses CheckAPIVersion as it is specified: whatever is proved of
\* the check holds of it next to submissions.
THEOREM SubmissionUsesCheck == SubmissionSpec => Spec
<1>1. SubmissionInit => Init
  BY DEF SubmissionInit
<1> QED BY <1>1, SubmissionStepIsCheckStep, PTL DEF SubmissionSpec, Spec

\* Submissions ask the gateway what it is one at a time, find the right verdict
\* remembered, and none is told of a cancellation that is not its own
\* (client.go CheckAPIVersion).
THEOREM SubmissionsShareTheCheck ==
  SubmissionSpec => [](SingleFlight /\ NoForeignCancellation /\ VerdictTrue)
BY SubmissionUsesCheck, OneAsks, CancellationIsOwn, VerdictIsTrue, PTL

-----------------------------------------------------------------------------
\* The version that was selected is the best one the policy promises.
LEMMA BestIsUnique ==
  ASSUME IInv
  PROVE /\ Compatible => Best \in 1..4 /\ IsBest(Best) /\ \A v : IsBest(v) => v = Best
        /\ ~Compatible => Best = 0
<1>1. Usable \in SUBSET (1..4)
  BY ValidEnvironment DEF IInv, Usable
<1>2. CASE Compatible
  <2>1. Usable # {}
    BY <1>2 DEF Compatible
  <2>2. PICK top : IsBest(top)
    BY <1>1, <2>1, HighestIsFound DEF IsBest
  <2>3. Best = CHOOSE v \in Usable : \A w \in Usable : w <= v
    BY <1>2 DEF Best
  <2>4. IsBest(Best)
    BY <2>2, <2>3 DEF IsBest
  <2>5. \A v, w : IsBest(v) /\ IsBest(w) => v = w
    BY <1>1 DEF IsBest
  <2> QED BY <1>1, <1>2, <2>4, <2>5 DEF IsBest
<1> QED BY <1>2 DEF Best

\* A successful check leaves the best version selected, and that is the one
\* in the URL of the requests (transport.go:176, client.go selectedAPIVersion).
LEMMA VersionIsBest ==
  ASSUME IInv, NEW c \in Callers, result[c] = "nil"
  PROVE Version = Best /\ Best # 0
<1>1. Compatible /\ IsBest(selected)
  BY DEF IInv, VerdictInv, VerdictTrue, Right, IsBest
<1> QED BY <1>1, BestIsUnique DEF Version

\* What is refused before the gateway is asked would be refused after it
\* (compatibility.go:369-403).
LEMMA RefusedEarlyIsRight ==
  ASSUME IInv, NEW c \in Callers, RefusedEarly(c)
  PROVE Best = 0 \/ ~Supported(c, Best)
<1>1. CASE Compatible
  <2>1. Best = config.explicit
    BY <1>1, BestIsUnique DEF RefusedEarly, Configured, IsBest, Usable
  <2> QED BY <2>1 DEF RefusedEarly
<1> QED BY <1>1, BestIsUnique

LEMMA PermitStep == IInv /\ PermitInv /\ [SubmissionNext]_allVars => PermitInv'
<1> SUFFICES ASSUME IInv, PermitInv, [SubmissionNext]_allVars PROVE PermitInv'
  OBVIOUS
<1>1. UNCHANGED << profile, config, gateway >>
  BY SubmissionStepIsCheckStep, EnvironmentIsFixed DEF envVars
<1>2. Best' = Best
  BY <1>1 DEF Best, Compatible, Usable
<1>3. ASSUME UNCHANGED task
      PROVE \A c \in Callers : Supported(c, Best)' <=> Supported(c, Best)
  BY <1>1, <1>2, <1>3 DEF Supported, Capabilities
<1> USE DEF PermitInv, PermissionTrue
<1>4. CASE UNCHANGED submissionVars
  BY <1>2, <1>3, <1>4 DEF submissionVars
<1>5. ASSUME NEW c \in Callers, NEW answer \in {"ok", "err", "unsupported"},
             Ends(c, answer), NothingSent,
             answer = "unsupported" => Best = 0 \/ ~Supported(c, Best)
      PROVE PermitInv'
  BY <1>2, <1>3, <1>5 DEF Ends, NothingSent
<1>6. ASSUME NEW c \in Callers, Sent(c), UNCHANGED task,
             NEW answer \in {"ok", "err", "unknown"}, Ends(c, answer)
      PROVE PermitInv'
  <2>1. Version = Best /\ Best \in Nat /\ Supported(c, Best)
    BY <1>6, VersionIsBest, BestIsUnique DEF Sent, MayRequest
  <2> QED BY <1>2, <1>3, <1>6, <2>1 DEF Sent, Ends
<1>7. ASSUME NEW c \in Callers, SubmitStep(c) PROVE PermitInv'
  <2>1. CASE RefuseEarly(c)
    BY <1>5, <2>1, RefusedEarlyIsRight DEF RefuseEarly
  <2>2. CASE Check(c)
    BY <1>4, <2>2 DEF Check
  <2>3. CASE CheckFails(c)
    <3>1. result[c] = "unsupported" => Best = 0
      BY BestIsUnique DEF IInv, VerdictInv, Right
    <3> QED BY <1>5, <2>3, <3>1 DEF CheckFails
  <2>4. CASE CheckSucceeds(c) \/ NotSent(c)
    BY <1>5, <2>4 DEF CheckSucceeds, NotSent
  <2>5. CASE RefuseLate(c)
    BY <1>5, <2>5, VersionIsBest DEF RefuseLate
  <2>6. CASE Post(c)
    <3>1. PICK o \in PostOutcomes : Ends(c, o.answer)
      BY <2>6 DEF Post
    <3>2. o.answer \in {"ok", "err", "unknown"}
      BY <3>1 DEF PostOutcomes, Answer
    <3> QED BY <1>6, <2>6, <3>1, <3>2 DEF Post
  <2>7. CASE Get(c)
    <3>1. PICK answer \in {"ok", "err"} : Ends(c, answer)
      BY <2>7 DEF Get
    <3> QED BY <1>6, <2>7, <3>1 DEF Get
  <2> QED BY <1>7, <2>1, <2>2, <2>3, <2>4, <2>5, <2>6, <2>7 DEF SubmitStep
<1>8. ASSUME NEW c \in Callers, ProcessLate(c) PROVE PermitInv'
  BY <1>2, <1>3, <1>8 DEF ProcessLate
<1>9. CASE Outside
  BY <1>4, <1>9 DEF Outside
<1>10. CASE UNCHANGED allVars
  BY <1>4, <1>10 DEF allVars
<1> QED BY <1>7, <1>8, <1>9, <1>10 DEF SubmissionNext

\* An operation is refused as unsupported only if the version the policy
\* promises does not have it, and requested only of that version
\* (compatibility.go:369-403, transport.go:176).
THEOREM PermissionIsTrue == SubmissionSpec => []PermissionTrue
<1>1. SubmissionInit => PermitInv
  BY DEF SubmissionInit, PermitInv, PermissionTrue
<1>2. PermitInv => PermissionTrue
  BY DEF PermitInv
<1> QED
  BY <1>1, <1>2, SubmissionUsesCheck, Invariance, PermitStep, PTL DEF SubmissionSpec

-----------------------------------------------------------------------------
\* One POST, made without repetition, tells the truth: "ok" is processed once,
\* an error never, and a doubt at most once (operation.go, transport.go).
LEMMA PostTellsTheTruth ==
  ASSUME NEW o \in PostOutcomes
  PROVE  /\ o.answer \in {"ok", "err", "unknown"}
         /\ o.now \in {0, 1}
         /\ o.answer = "ok" => o.now = 1
         /\ o.answer = "err" => o.now = 0
         /\ o.later => o.answer = "unknown" /\ o.now = 0
<1>1. PICK made \in UnsafeCalls, malformed \in BOOLEAN :
        o = [answer |-> Answer(made[Len(made)], malformed),
             now |-> ProcessedNow(made), later |-> ProcessedLater(made)]
  BY Z3 DEF PostOutcomes
<1>2. PICK x \in Exchanges : made = << x >>
  BY DEF UnsafeCalls, Calls, DoJSON
<1>3. Len(made) = 1 /\ made[1] = x /\ DOMAIN made = {1}
  BY <1>2
<1>4. o.answer = Answer(x, malformed) /\ (o.later <=> x.effect = "later")
  BY <1>1, <1>3 DEF ProcessedLater
<1>5. o.now = IF x.effect = "now" THEN 1 ELSE 0
  <2>1. CASE x.effect = "now"
    <3>1. {i \in DOMAIN made : made[i].effect = "now"} = {1}
      BY <2>1, <1>3
    <3> QED BY <1>1, <2>1, <3>1, FS_Singleton DEF ProcessedNow
  <2>2. CASE x.effect # "now"
    <3>1. {i \in DOMAIN made : made[i].effect = "now"} = {}
      BY <2>2, <1>3
    <3> QED BY <1>1, <2>2, <3>1, FS_EmptySet DEF ProcessedNow
  <2> QED BY <2>1, <2>2
<1>6. /\ x.phase \in {"RequestNotSent", "RequestPossiblySent", "ResponseHeaderMissing",
                      "ResponseBodyIncomplete", "ResponseReceived"}
      /\ x.status \in {0, 200, 400, 408, 429, 500, 503}
      /\ x.effect \in Effects
      /\ x.status = 200 => x.effect = "now"
      /\ x.status = 400 => x.effect = "none"
      /\ x.phase = "RequestNotSent" => x.effect = "none" /\ x.status = 0
  BY DEF Exchanges, Exchange, Refusals, Doubtful, Effects
<1>7. /\ Answer(x, malformed) \in {"ok", "err", "unknown"}
      /\ Answer(x, malformed) = "ok" => x.effect = "now"
      /\ Answer(x, malformed) = "err" => x.effect = "none"
  BY <1>6 DEF Answer, Succeeded, OutcomeIsUnknown, Effects
<1> QED BY <1>4, <1>5, <1>7

LEMMA HonestInit == SubmissionInit => HonestInv
<1> SUFFICES ASSUME SubmissionInit PROVE HonestInv
  OBVIOUS
<1>1. task \in [Callers -> Operations]
  BY EnvironmentsHaveTasks DEF SubmissionInit
<1> QED BY <1>1 DEF SubmissionInit, HonestInv, Counted, SubmissionHonest

LEMMA HonestStep == HonestInv /\ [SubmissionNext]_allVars => HonestInv'
<1> SUFFICES ASSUME HonestInv, [SubmissionNext]_allVars PROVE HonestInv'
  OBVIOUS
<1> USE DEF HonestInv, Counted, SubmissionHonest
<1>1. CASE UNCHANGED submissionVars
  BY <1>1 DEF submissionVars
<1>2. ASSUME NEW c \in Callers, NEW answer \in {"err", "unsupported"},
             Ends(c, answer), NothingSent
      PROVE HonestInv'
  BY <1>2 DEF Ends, NothingSent
<1>3. ASSUME NEW c \in Callers, SubmitStep(c) PROVE HonestInv'
  <2>1. CASE Check(c)
    BY <2>1, <1>1 DEF Check
  <2>2. CASE RefuseEarly(c) \/ CheckFails(c) \/ RefuseLate(c) \/ NotSent(c)
    BY <2>2, <1>2 DEF RefuseEarly, CheckFails, RefuseLate, NotSent
  <2>3. CASE CheckSucceeds(c)
    BY <2>3 DEF CheckSucceeds, Ends, NothingSent, Posts
  <2>4. CASE Get(c)
    <3>1. PICK success \in BOOLEAN : Ends(c, IF success THEN "ok" ELSE "err")
      BY <2>4 DEF Get, SafeVerdicts, Succeeded
    <3> QED BY <2>4, <3>1 DEF Get, Ends
  <2>5. CASE Post(c)
    <3>1. PICK o \in PostOutcomes :
            /\ Ends(c, o.answer)
            /\ processed' = [processed EXCEPT ![c] = o.now]
            /\ late' = late \cup {d \in {c} : o.later}
      BY <2>5 DEF Post
    <3>2. UNCHANGED task
      BY <2>5 DEF Post
    <3> QED BY <3>1, <3>2, PostTellsTheTruth DEF Ends
  <2> QED BY <1>3, <2>1, <2>2, <2>3, <2>4, <2>5 DEF SubmitStep
<1>4. ASSUME NEW c \in Callers, ProcessLate(c) PROVE HonestInv'
  BY <1>4 DEF ProcessLate
<1>5. CASE Outside
  BY <1>5, <1>1 DEF Outside
<1>6. CASE UNCHANGED allVars
  BY <1>6, <1>1 DEF allVars
<1> QED BY <1>3, <1>4, <1>5, <1>6 DEF SubmissionNext

\* What the caller of DeployScript or RefreshMaterializedTable is told of its
\* POST is true (script.go:85-106, materialized_table.go:78-99).
THEOREM SubmissionsAreHonest == SubmissionSpec => []SubmissionHonest
<1>1. HonestInv => SubmissionHonest
  BY DEF HonestInv
<1> QED BY <1>1, HonestInit, HonestStep, PTL DEF SubmissionSpec
=============================================================================
