------------------------- MODULE SessionSetupProofs -------------------------
(***************************************************************************)
(* SessionSetupGate for every number of callers, handles and gates, and    *)
(* then SessionSetup: its flows use the gate as SessionSetupGate says, so  *)
(* what is proved of the gate holds of them, for any plan and any options. *)
(*                                                                         *)
(* Exclusion is not inductive: two gates for one handle would break it.    *)
(* The strengthening says that a gate somebody refers to is THE registered *)
(* gate of the handle he wants, which in turn needs the reference counter  *)
(* to be exact, because it decides when a gate is dropped.                 *)
(***************************************************************************)
EXTENDS SessionSetup, FiniteSetTheorems, TLAPS

GateInv ==
  /\ \A c \in Callers : (gateOf[c] = None) <=> (pc[c] \in {"idle", "entering"})
  /\ \A c \in Callers : gateOf[c] # None => setupGates[want[c]] = gateOf[c]
  /\ \A g, h \in Handles : setupGates[g] = setupGates[h] /\ setupGates[g] # None => g = h
  /\ \A h \in Handles : setupGates[h] # None => setupGates[h] \in used /\ refs[setupGates[h]] > 0

TokenInv ==
  /\ \A c, d \in Callers : HasToken(c) /\ HasToken(d) /\ gateOf[c] = gateOf[d] => c = d
  /\ \A c \in Callers : HasToken(c) => token[gateOf[c]] = 0

RefInv == \A g \in Gates : refs[g] = Cardinality(Users(g))

IInv == TypeOK /\ GateInv /\ TokenInv /\ RefInv

-----------------------------------------------------------------------------
\* What a caller that takes or drops a reference does to the users of a gate.
LEMMA UsersSize ==
  ASSUME NEW g \in Gates, NEW c \in Callers
  PROVE /\ Cardinality(Users(g)) \in Nat
        /\ c \notin Users(g) => Cardinality(Users(g) \cup {c}) = Cardinality(Users(g)) + 1
        /\ c \in Users(g) => Cardinality(Users(g) \ {c}) = Cardinality(Users(g)) - 1
        /\ Cardinality(Users(g)) = 0 <=> Users(g) = {}
        /\ Cardinality(Users(g)) = 1 /\ c \in Users(g) => Users(g) = {c}
<1>1. IsFiniteSet(Users(g))
  BY CallersAreFinite, FS_Subset DEF Users
<1>2. Cardinality(Users(g)) \in Nat
  BY <1>1, FS_CardinalityType
<1>3. c \notin Users(g) => Cardinality(Users(g) \cup {c}) = Cardinality(Users(g)) + 1
  BY <1>1, FS_AddElement
<1>4. c \in Users(g) => Cardinality(Users(g) \ {c}) = Cardinality(Users(g)) - 1
  BY <1>1, FS_RemoveElement
<1>5. Cardinality(Users(g)) = 0 <=> Users(g) = {}
  BY <1>1, FS_EmptySet
<1>6. ASSUME Cardinality(Users(g)) = 1, c \in Users(g) PROVE Users(g) = {c}
  <2>1. IsFiniteSet(Users(g) \ {c}) /\ Cardinality(Users(g) \ {c}) = 0
    BY <1>1, <1>4, <1>6, FS_Subset
  <2>2. Users(g) \ {c} = {}
    BY <2>1, FS_EmptySet
  <2> QED BY <2>2, <1>6
<1> QED BY <1>2, <1>3, <1>4, <1>5, <1>6

\* A caller about to leave is counted; if it is counted alone it is alone.
LEMMA LeaverCounted ==
  ASSUME TypeOK, GateInv, RefInv, NEW c \in Callers, pc[c] = "leaving"
  PROVE  /\ gateOf[c] \in Gates
         /\ setupGates[want[c]] = gateOf[c]
         /\ refs[gateOf[c]] \in Nat \ {0}
         /\ refs[gateOf[c]] = 1 => \A d \in Callers : gateOf[d] = gateOf[c] => d = c
<1>1. gateOf[c] \in Gates /\ setupGates[want[c]] = gateOf[c]
  BY DEF TypeOK, GateInv
<1>2. c \in Users(gateOf[c])
  BY <1>1 DEF Users
<1>3. refs[gateOf[c]] = Cardinality(Users(gateOf[c]))
  BY <1>1 DEF RefInv
<1> DEFINE n == Cardinality(Users(gateOf[c]))
<1>7. /\ n \in Nat /\ (n = 0 <=> Users(gateOf[c]) = {})
      /\ n = 1 /\ c \in Users(gateOf[c]) => Users(gateOf[c]) = {c}
  BY <1>1, UsersSize, Zenon
<1> HIDE DEF n
<1>8. refs[gateOf[c]] = n
  BY <1>3 DEF n
<1>4. refs[gateOf[c]] \in Nat \ {0}
  BY <1>2, <1>7, <1>8
<1>5. refs[gateOf[c]] = 1 => Users(gateOf[c]) = {c}
  BY <1>2, <1>7, <1>8
<1>6. ASSUME NEW d \in Callers, gateOf[d] = gateOf[c], refs[gateOf[c]] = 1 PROVE d = c
  <2>1. d \in Users(gateOf[c])
    BY <1>6 DEF Users
  <2> QED BY <2>1, <1>5, <1>6
<1> QED BY <1>1, <1>4, <1>6

LEMMA InitInv == Init => IInv
<1> SUFFICES ASSUME Init PROVE IInv
  OBVIOUS
<1>1. TypeOK
  <2>1. clientClosed \in BOOLEAN
    BY DEF Init
  <2>2. /\ setupGates \in [Handles -> Gates \cup {None}]
        /\ used \subseteq Gates
        /\ token \in [Gates -> {0, 1}]
        /\ refs \in [Gates -> Nat]
    BY DEF Init
  <2>3. /\ pc \in [Callers -> {"idle", "entering", "waiting", "taken", "configuring",
                               "returning", "leaving"}]
        /\ want \in [Callers -> Handles]
        /\ gateOf \in [Callers -> Gates \cup {None}]
        /\ cancelled \subseteq Callers
    BY DEF Init
  <2> QED BY <2>1, <2>2, <2>3 DEF TypeOK
<1>2. GateInv
  BY DEF Init, GateInv
<1>3. TokenInv
  BY DEF Init, TokenInv, HasToken
<1>4. ASSUME NEW g \in Gates PROVE refs[g] = Cardinality(Users(g))
  <2>1. Users(g) = {}
    BY NoneIsNoGate DEF Init, Users
  <2> QED BY <2>1, FS_EmptySet DEF Init
<1> QED BY <1>1, <1>2, <1>3, <1>4 DEF IInv, RefInv

-----------------------------------------------------------------------------
LEMMA TypeStep ==
  ASSUME IInv, [Next]_vars
  PROVE  TypeOK'
<1> USE NoneIsNoGate DEF IInv, TypeOK, GateInv, GoTo, gateVars, callerVars
<1>1. ASSUME NEW c \in Callers, Call(c) PROVE TypeOK'
  BY <1>1 DEF Call
<1>2. ASSUME NEW c \in Callers, Cancel(c) PROVE TypeOK'
  BY <1>2 DEF Cancel
<1>3. ASSUME NEW c \in Callers, Refuse(c) PROVE TypeOK'
  BY <1>3 DEF Refuse
<1>4. ASSUME NEW c \in Callers, JoinGate(c) PROVE TypeOK'
  BY <1>4 DEF JoinGate
<1>5. ASSUME NEW c \in Callers, CreateGate(c) PROVE TypeOK'
  BY <1>5 DEF CreateGate
<1>6. ASSUME NEW c \in Callers, GiveUp(c) PROVE TypeOK'
  BY <1>6 DEF GiveUp
<1>7. ASSUME NEW c \in Callers, CheckContext(c) PROVE TypeOK'
  BY <1>7 DEF CheckContext
<1>8. ASSUME NEW c \in Callers, Configured(c) PROVE TypeOK'
  BY <1>8 DEF Configured
<1>9. ASSUME NEW c \in Callers, ReturnToken(c) PROVE TypeOK'
  BY <1>9 DEF ReturnToken
<1>10. ASSUME NEW c \in Callers, Leave(c) PROVE TypeOK'
  BY <1>10, LeaverCounted DEF Leave
<1>11. ASSUME NEW c \in Callers, TakeToken(c) PROVE TypeOK'
  BY <1>11 DEF TakeToken
<1>12. CASE ClientClose \/ UNCHANGED vars
  BY <1>12 DEF ClientClose, vars
<1> QED BY <1>1, <1>2, <1>3, <1>4, <1>5, <1>6, <1>7, <1>8, <1>9, <1>10, <1>11, <1>12
  DEF Next, CallerStep
\* A reference to a gate is a reference to the registered one, and a gate is
\* dropped only by its last user.
LEMMA GateStep ==
  ASSUME IInv, [Next]_vars
  PROVE  GateInv'
<1> USE NoneIsNoGate DEF IInv, TypeOK, GateInv, GoTo, gateVars, callerVars
<1>1. ASSUME NEW c \in Callers, Call(c) PROVE GateInv'
  BY <1>1 DEF Call
<1>2. ASSUME NEW c \in Callers, Cancel(c) PROVE GateInv'
  BY <1>2 DEF Cancel
<1>3. ASSUME NEW c \in Callers, Refuse(c) PROVE GateInv'
  BY <1>3 DEF Refuse
<1>4. ASSUME NEW c \in Callers, JoinGate(c) PROVE GateInv'
  BY <1>4 DEF JoinGate
<1>5. ASSUME NEW c \in Callers, CreateGate(c) PROVE GateInv'
  BY <1>5 DEF CreateGate
<1>6. ASSUME NEW c \in Callers, GiveUp(c) PROVE GateInv'
  BY <1>6 DEF GiveUp
<1>7. ASSUME NEW c \in Callers, CheckContext(c) PROVE GateInv'
  BY <1>7 DEF CheckContext
<1>8. ASSUME NEW c \in Callers, Configured(c) PROVE GateInv'
  BY <1>8 DEF Configured
<1>9. ASSUME NEW c \in Callers, ReturnToken(c) PROVE GateInv'
  BY <1>9 DEF ReturnToken
<1>10. ASSUME NEW c \in Callers, Leave(c) PROVE GateInv'
  <2>1. /\ gateOf[c] \in Gates /\ setupGates[want[c]] = gateOf[c]
        /\ refs[gateOf[c]] \in Nat \ {0}
        /\ refs[gateOf[c]] = 1 => \A d \in Callers : gateOf[d] = gateOf[c] => d = c
    BY <1>10, LeaverCounted DEF Leave
  <2>2. CASE refs[gateOf[c]] = 1
    BY <1>10, <2>1, <2>2 DEF Leave
  <2>3. CASE refs[gateOf[c]] # 1
    BY <1>10, <2>1, <2>3 DEF Leave
  <2> QED BY <2>2, <2>3
<1>11. ASSUME NEW c \in Callers, TakeToken(c) PROVE GateInv'
  BY <1>11 DEF TakeToken
<1>12. CASE ClientClose \/ UNCHANGED vars
  BY <1>12 DEF ClientClose, vars
<1> QED BY <1>1, <1>2, <1>3, <1>4, <1>5, <1>6, <1>7, <1>8, <1>9, <1>10, <1>11, <1>12
  DEF Next, CallerStep
\* The token of a gate is with at most one caller.
LEMMA TokenStep ==
  ASSUME IInv, [Next]_vars
  PROVE  TokenInv'
<1> USE NoneIsNoGate DEF IInv, TypeOK, GateInv, TokenInv, HasToken, GoTo, gateVars, callerVars
<1>1. ASSUME NEW c \in Callers, Call(c) PROVE TokenInv'
  BY <1>1 DEF Call
<1>2. ASSUME NEW c \in Callers, Cancel(c) PROVE TokenInv'
  BY <1>2 DEF Cancel
<1>3. ASSUME NEW c \in Callers, Refuse(c) PROVE TokenInv'
  BY <1>3 DEF Refuse
<1>4. ASSUME NEW c \in Callers, JoinGate(c) PROVE TokenInv'
  BY <1>4 DEF JoinGate
<1>5. ASSUME NEW c \in Callers, CreateGate(c) PROVE TokenInv'
  BY <1>5 DEF CreateGate
<1>6. ASSUME NEW c \in Callers, GiveUp(c) PROVE TokenInv'
  BY <1>6 DEF GiveUp
<1>7. ASSUME NEW c \in Callers, CheckContext(c) PROVE TokenInv'
  BY <1>7 DEF CheckContext
<1>8. ASSUME NEW c \in Callers, Configured(c) PROVE TokenInv'
  BY <1>8 DEF Configured
<1>9. ASSUME NEW c \in Callers, ReturnToken(c) PROVE TokenInv'
  BY <1>9 DEF ReturnToken
<1>10. ASSUME NEW c \in Callers, Leave(c) PROVE TokenInv'
  BY <1>10 DEF Leave
<1>11. ASSUME NEW c \in Callers, TakeToken(c) PROVE TokenInv'
  BY <1>11 DEF TakeToken
<1>12. CASE ClientClose \/ UNCHANGED vars
  BY <1>12 DEF ClientClose, vars
<1> QED BY <1>1, <1>2, <1>3, <1>4, <1>5, <1>6, <1>7, <1>8, <1>9, <1>10, <1>11, <1>12
  DEF Next, CallerStep
\* The reference counter is the number of users.
LEMMA RefStep ==
  ASSUME IInv, [Next]_vars, NEW g \in Gates
  PROVE  refs'[g] = Cardinality(Users(g)')
<1> USE NoneIsNoGate DEF IInv, TypeOK, GateInv, RefInv, GoTo, gateVars, callerVars
<1>1. CASE UNCHANGED << refs, gateOf >>
  <2>1. Users(g)' = Users(g)
    BY <1>1 DEF Users
  <2> QED BY <1>1, <2>1
<1>2. ASSUME NEW c \in Callers, JoinGate(c) PROVE refs'[g] = Cardinality(Users(g)')
  <2>1. CASE g = setupGates[want[c]]
    <3>1. c \notin Users(g) /\ Users(g)' = Users(g) \cup {c}
      BY <1>2, <2>1 DEF JoinGate, Users
    <3>2. Cardinality(Users(g) \cup {c}) = Cardinality(Users(g)) + 1
      BY <3>1, UsersSize
    <3>3. refs'[g] = refs[g] + 1
      BY <1>2, <2>1 DEF JoinGate
    <3> QED BY <3>1, <3>2, <3>3
  <2>2. CASE g # setupGates[want[c]]
    <3>1. Users(g)' = Users(g)
      BY <1>2, <2>2 DEF JoinGate, Users
    <3> QED BY <1>2, <2>2, <3>1 DEF JoinGate
  <2> QED BY <2>1, <2>2
<1>3. ASSUME NEW c \in Callers, CreateGate(c) PROVE refs'[g] = Cardinality(Users(g)')
  <2>1. PICK n \in Gates \ used : /\ refs' = [refs EXCEPT ![n] = 1]
                                  /\ gateOf' = [gateOf EXCEPT ![c] = n]
    BY <1>3 DEF CreateGate
  <2>2. Users(n) = {}
    BY <2>1 DEF Users
  <2>3. CASE g = n
    <3>1. Users(g)' = {c}
      BY <1>3, <2>1, <2>2, <2>3 DEF Users
    <3> QED BY <2>1, <2>3, <3>1, FS_Singleton
  <2>4. CASE g # n
    <3>1. \A d \in Callers : gateOf'[d] = g <=> gateOf[d] = g
      BY <1>3, <2>1, <2>4 DEF CreateGate
    <3>2. Users(g)' = Users(g)
      BY <3>1, Zenon DEF Users
    <3> QED BY <2>1, <2>4, <3>2
  <2> QED BY <2>3, <2>4
<1>4. ASSUME NEW c \in Callers, Leave(c) PROVE refs'[g] = Cardinality(Users(g)')
  <2>1. CASE g = gateOf[c]
    <3>1. c \in Users(g) /\ Users(g)' = Users(g) \ {c}
      BY <1>4, <2>1 DEF Leave, Users
    <3>2. Cardinality(Users(g)') = Cardinality(Users(g)) - 1
      BY <3>1, UsersSize, Zenon
    <3>3. refs'[g] = refs[g] - 1
      BY <1>4, <2>1 DEF Leave
    <3> QED BY <3>2, <3>3
  <2>2. CASE g # gateOf[c]
    <3>1. Users(g)' = Users(g)
      BY <1>4, <2>2 DEF Leave, Users
    <3> QED BY <1>4, <2>2, <3>1 DEF Leave
  <2> QED BY <2>1, <2>2
<1> QED BY <1>1, <1>2, <1>3, <1>4
  DEF Next, CallerStep, Call, Cancel, Refuse, GiveUp, CheckContext, Configured,
      ReturnToken, TakeToken, ClientClose, vars

-----------------------------------------------------------------------------
\* The inductive invariant of the gate.
LEMMA Inductive == IInv /\ [Next]_vars => IInv'
<1> SUFFICES ASSUME IInv, [Next]_vars PROVE IInv'
  OBVIOUS
<1>1. TypeOK'
  BY TypeStep DEF IInv
<1>2. GateInv' /\ TokenInv'
  BY GateStep, TokenStep
<1>3. RefInv'
  BY RefStep DEF RefInv
<1> QED BY <1>1, <1>2, <1>3 DEF IInv

LEMMA Invariance == Spec => []IInv
BY InitInv, Inductive, PTL DEF Spec

\* The types of the model hold in every run.
THEOREM TypeCorrect == Spec => []TypeOK
<1>1. IInv => TypeOK
  BY DEF IInv
<1> QED BY <1>1, Invariance, PTL

\* At most one flow configures a session, whatever callers come and go and
\* however often the gate of the session is dropped and made again.
THEOREM Exclusion == Spec => []SetupExclusive
<1>1. IInv => SetupExclusive
  BY DEF IInv, GateInv, TokenInv, HasToken, SetupExclusive
<1> QED BY <1>1, Invariance, PTL

\* The reference counters are exact and decide which gates are registered.
THEOREM Accounting == Spec => []GateAccounting
<1>1. ASSUME IInv, NEW g \in used
      PROVE  (\E h \in Handles : setupGates[h] = g) <=> Users(g) # {}
  <2>1. g \in Gates /\ g # None
    BY <1>1, NoneIsNoGate DEF IInv, TypeOK
  <2>2. ASSUME NEW h \in Handles, setupGates[h] = g PROVE Users(g) # {}
    BY <1>1, <2>1, <2>2, FS_EmptySet DEF IInv, GateInv, RefInv
  <2>3. ASSUME NEW c \in Users(g) PROVE \E h \in Handles : setupGates[h] = g
    BY <1>1, <2>1 DEF IInv, TypeOK, GateInv, Users
  <2> QED BY <2>2, <2>3
<1>2. IInv => GateAccounting
  BY <1>1 DEF IInv, TypeOK, RefInv, GateAccounting
<1> QED BY <1>2, Invariance, PTL

\* A caller that gives the token back is never blocked.
THEOREM ReturnIsImmediate == Spec => []ReturnNeverBlocks
<1>1. IInv => ReturnNeverBlocks
  BY DEF IInv, TokenInv, HasToken, ReturnNeverBlocks
<1> QED BY <1>1, Invariance, PTL

-----------------------------------------------------------------------------
(***************************************************************************)
(* The flows                                                               *)
(***************************************************************************)
FlowTypes ==
  /\ task \in [Callers -> Tasks]
  /\ processed \in [Callers -> [Steps -> Nat]]
  /\ late \subseteq Callers \X Steps
  /\ session \in [Handles -> {"none", "open", "closed"}]

(* Where a flow is says where its caller is at the gate. *)
FlowAtGate(c) ==
  /\ task[c].at \in {"idle", "opening", "result", "closing", "done"} <=> pc[c] = "idle"
  /\ task[c].at \in {"post", "verify"} <=> pc[c] = "configuring"
  /\ task[c].at = "opening" => task[c].kind = "open"

(* Nothing has been requested before the gate was passed. *)
FlowFresh(c) ==
  task[c].at \in {"idle", "opening"} \/ pc[c] \in {"entering", "waiting", "taken"} =>
       task[c].applied = {} /\ task[c].unknown = {} /\ ~task[c].complete

(* The steps that were reached are the first ones, in their order. *)
FlowOrder(c) ==
  LET t == task[c] IN
  /\ t.at = "post" => /\ t.step \in Steps /\ t.unknown = {} /\ ~t.complete
                      /\ t.applied = {s \in Steps : s < t.step}
                      /\ t.kind = "configure" => t.step = 1
  /\ t.at = "verify" => t.unknown = {} /\ ~t.complete
  /\ t.kind # "configure" =>
       \A s \in t.applied \cup t.unknown : \A r \in Steps : r < s => r \in t.applied

(* What the report says of a step is what the server has done with it. *)
FlowTrue(c) ==
  \A s \in Steps :
    /\ s \in task[c].applied => processed[c][s] = 1 /\ << c, s >> \notin late
    /\ s \in task[c].unknown =>
         processed[c][s] \in {0, 1} /\ (<< c, s >> \in late => processed[c][s] = 0)
    /\ s \notin task[c].applied \cup task[c].unknown =>
         processed[c][s] = 0 /\ << c, s >> \notin late

FlowRemains(c) ==
  /\ task[c].failed => ~task[c].complete /\ task[c].at \in {"result", "closing", "done"}
  /\ task[c].at \notin {"post", "verify"} /\ ~task[c].complete /\ MayRemain(task[c].applied, task[c].unknown)
       => task[c].mayRemain

FlowCloses(c) ==
  /\ task[c].at = "done" /\ task[c].kind = "open" /\ task[c].failed =>
       task[c].options.keep \/ task[c].lost \/ session[want[c]] = "closed"
  /\ task[c].sessionClosed => task[c].at = "done" /\ session[want[c]] = "closed"

FlowInv(c) ==
  FlowAtGate(c) /\ FlowFresh(c) /\ FlowOrder(c) /\ FlowTrue(c) /\ FlowRemains(c) /\ FlowCloses(c)

SetupInv == IInv /\ FlowTypes /\ \A c \in Callers : FlowInv(c)

-----------------------------------------------------------------------------

\* A POST is one exchange: a success was processed once, an error is not in
\* doubt only if it was not and will not be.
LEMMA OneExchange ==
  ASSUME NEW made \in UnsafeCalls
  PROVE  /\ ProcessedNow(made) \in {0, 1}
         /\ ProcessedLater(made) => ProcessedNow(made) = 0
         /\ Succeeded(Last(made)) => ProcessedNow(made) = 1 /\ ~ProcessedLater(made)
         /\ ~Succeeded(Last(made)) /\ ~OutcomeIsUnknown(Last(made)) =>
              ProcessedNow(made) = 0 /\ ~ProcessedLater(made)
         /\ Succeeded(Last(made)) => Last(made).effect = "now"
<1>1. PICK x \in Exchanges : made = << x >>
  BY DEF UnsafeCalls, Calls, DoJSON
<1>2. Last(made) = x /\ made[1] = x /\ DOMAIN made = {1}
  BY <1>1 DEF Last
<1>3. ProcessedLater(made) <=> x.effect = "later"
  BY <1>2 DEF ProcessedLater
<1>4. ProcessedNow(made) = IF x.effect = "now" THEN 1 ELSE 0
  <2>1. CASE x.effect = "now"
    <3>1. {i \in DOMAIN made : made[i].effect = "now"} = {1}
      BY <2>1, <1>2
    <3> QED BY <2>1, <3>1, FS_Singleton DEF ProcessedNow
  <2>2. CASE x.effect # "now"
    <3>1. {i \in DOMAIN made : made[i].effect = "now"} = {}
      BY <2>2, <1>2
    <3> QED BY <2>2, <3>1, FS_EmptySet DEF ProcessedNow
  <2> QED BY <2>1, <2>2
<1>5. /\ x.effect \in Effects
      /\ x.status = 200 => x.effect = "now"
      /\ x.status = 400 => x.effect = "none"
      /\ x.phase = "RequestNotSent" => x.effect = "none"
      /\ x.status \in {0, 200, 400, 408, 429, 500, 503}
  BY DEF Exchanges, Exchange, Refusals, Doubtful, Effects
<1> QED BY <1>2, <1>3, <1>4, <1>5 DEF Succeeded, OutcomeIsUnknown, Effects

(* The steps of a compiled plan. *)
Kinds == {"CATALOG", "DATABASE", "TABLE", "USE_CATALOG", "USE_DATABASE"}
StepRecords == [kind : Kinds, target : Seq(STRING), verify : BOOLEAN]

LEMMA CreatedSteps ==
  ASSUME NEW n \in Nat, NEW objects \in Objects(n), NEW kind \in {"CATALOG", "DATABASE", "TABLE"}
  PROVE  /\ CreateSteps(kind, objects) \in Seq(StepRecords)
         /\ \A i \in 1..Len(CreateSteps(kind, objects)) :
              /\ IsCreateKind(CreateSteps(kind, objects)[i])
              /\ Len(CreateSteps(kind, objects)[i].target) = n
<1>1. /\ DOMAIN objects = 1..Len(objects) /\ Len(objects) \in Nat
      /\ \A i \in DOMAIN objects : objects[i].target \in [1..n -> STRING] /\ objects[i].verify \in BOOLEAN
  <2> DEFINE O == [target : [1..n -> STRING], verify : BOOLEAN, hasOptions : BOOLEAN]
  <2>1. \A o \in O : o.target \in [1..n -> STRING] /\ o.verify \in BOOLEAN
    OBVIOUS
  <2>2. objects \in Seq(O)
    BY DEF Objects
  <2> HIDE DEF O
  <2>3. DOMAIN objects = 1..Len(objects) /\ Len(objects) \in Nat /\ \A i \in DOMAIN objects : objects[i] \in O
    BY <2>2
  <2> QED BY <2>1, <2>3
<1>2. \A i \in DOMAIN objects : objects[i].target \in Seq(STRING) /\ Len(objects[i].target) = n
  BY <1>1
<1>3. \A i \in DOMAIN objects : Step(kind, objects[i].target, objects[i].verify) \in StepRecords
  BY <1>1, <1>2 DEF Step, StepRecords, Kinds
<1>4. CreateSteps(kind, objects) \in [1..Len(objects) -> StepRecords]
  BY <1>1, <1>3 DEF CreateSteps
<1>5. CreateSteps(kind, objects) \in Seq(StepRecords) /\ Len(CreateSteps(kind, objects)) = Len(objects)
  BY <1>1, <1>4
<1>6. \A i \in 1..Len(objects) : /\ CreateSteps(kind, objects)[i].target = objects[i].target
                                 /\ IsCreateKind(CreateSteps(kind, objects)[i])
  BY <1>1 DEF CreateSteps, Step, IsCreateKind
<1> QED BY <1>1, <1>2, <1>5, <1>6

\* The compiler puts what contains an object before the object, and a plan that
\* it does not refuse has a first step (session_setup_compile.go).
LEMMA PlanOrder ==
  /\ Steps = 1..Len(Plan) /\ Len(Plan) \in Nat \ {0}
  /\ \A s, r \in Steps : IsInside(Plan[s], Plan[r]) => r < s
<1> DEFINE A == CreateSteps("CATALOG", SetupPlan.catalogs)
           B == CreateSteps("DATABASE", SetupPlan.databases)
           C == CreateSteps("TABLE", SetupPlan.tables)
           D == UseSteps(SetupPlan)
<1>1. /\ SetupPlan.catalogs \in Objects(1) /\ SetupPlan.databases \in Objects(2)
      /\ SetupPlan.tables \in Objects(3)
      /\ SetupPlan.currentCatalog \in STRING /\ SetupPlan.currentDatabase \in STRING
  BY PlanCompiles DEF Plans
<1>3. ASSUME NEW target \in Seq(STRING), NEW kind \in Kinds PROVE Step(kind, target, FALSE) \in StepRecords
  BY DEF Step, StepRecords
<1>4. D \in Seq(StepRecords) /\ \A i \in 1..Len(D) : ~IsCreateKind(D[i])
  <2> DEFINE U == Step("USE_CATALOG", << SetupPlan.currentCatalog >>, FALSE)
             V == Step("USE_DATABASE", << SetupPlan.currentCatalog, SetupPlan.currentDatabase >>, FALSE)
  <2>1. ~IsCreateKind(U) /\ ~IsCreateKind(V)
    BY DEF IsCreateKind, Step
  <2>2. D = << >> \/ D = << U >> \o << >> \/ D = << U >> \o << V >>
    BY DEF UseSteps
  <2>3. << SetupPlan.currentCatalog >> \in Seq(STRING)
    BY <1>1
  <2>4. << SetupPlan.currentCatalog, SetupPlan.currentDatabase >> \in Seq(STRING)
    BY <1>1
  <2>5. "USE_CATALOG" \in Kinds /\ "USE_DATABASE" \in Kinds
    BY DEF Kinds
  <2>6. U \in StepRecords /\ V \in StepRecords
    BY <1>3, <2>3, <2>4, <2>5, Zenon
  <2> HIDE DEF U, V, D
  <2>7. CASE D = << >>
    BY <2>7
  <2>8. CASE D = << U >> \o << >>
    <3>1. D \in Seq(StepRecords) /\ Len(D) = 1 /\ D[1] = U
      BY <2>6, <2>8
    <3> QED BY <2>1, <3>1
  <2>9. CASE D = << U >> \o << V >>
    <3>1. D \in Seq(StepRecords) /\ Len(D) = 2 /\ D[1] = U /\ D[2] = V
      BY <2>6, <2>9
    <3> QED BY <2>1, <3>1
  <2> QED BY <2>2, <2>7, <2>8, <2>9
<1>2. 1 \in Nat /\ 2 \in Nat /\ 3 \in Nat
  OBVIOUS
<1>10. A \in Seq(StepRecords) /\ \A i \in 1..Len(A) : IsCreateKind(A[i]) /\ Len(A[i].target) = 1
  BY <1>1, <1>2, CreatedSteps, Zenon
<1>11. B \in Seq(StepRecords) /\ \A i \in 1..Len(B) : IsCreateKind(B[i]) /\ Len(B[i].target) = 2
  BY <1>1, <1>2, CreatedSteps, Zenon
<1>12. C \in Seq(StepRecords) /\ \A i \in 1..Len(C) : IsCreateKind(C[i]) /\ Len(C[i].target) = 3
  BY <1>1, <1>2, CreatedSteps, Zenon
<1>5. Plan = A \o B \o C \o D
  BY DEF Plan, Compile
<1> HIDE DEF A, B, C, D
<1>14. /\ A \in Seq(StepRecords) /\ B \in Seq(StepRecords)
       /\ C \in Seq(StepRecords) /\ D \in Seq(StepRecords)
  BY <1>4, <1>10, <1>11, <1>12
<1>6. /\ Plan \in Seq(StepRecords) /\ Len(Plan) = Len(A) + Len(B) + Len(C) + Len(D)
      /\ \A i \in 1..Len(Plan) :
           \/ i <= Len(A) /\ Plan[i] = A[i]
           \/ \E j \in 1..Len(B) : i = Len(A) + j /\ Plan[i] = B[j]
           \/ \E j \in 1..Len(C) : i = Len(A) + Len(B) + j /\ Plan[i] = C[j]
           \/ \E j \in 1..Len(D) : i = Len(A) + Len(B) + Len(C) + j /\ Plan[i] = D[j]
  <2>1. A \o B \in Seq(StepRecords) /\ Len(A \o B) = Len(A) + Len(B)
    BY <1>14
  <2>2. A \o B \o C \in Seq(StepRecords) /\ Len(A \o B \o C) = Len(A) + Len(B) + Len(C)
    BY <2>1, <1>14
  <2>3. Plan \in Seq(StepRecords) /\ Len(Plan) = Len(A) + Len(B) + Len(C) + Len(D)
    BY <2>2, <1>5, <1>14
  <2>4. ASSUME NEW i \in 1..Len(Plan)
        PROVE  \/ i <= Len(A) /\ Plan[i] = A[i]
               \/ \E j \in 1..Len(B) : i = Len(A) + j /\ Plan[i] = B[j]
               \/ \E j \in 1..Len(C) : i = Len(A) + Len(B) + j /\ Plan[i] = C[j]
               \/ \E j \in 1..Len(D) : i = Len(A) + Len(B) + Len(C) + j /\ Plan[i] = D[j]
    <3>1. CASE i <= Len(A)
      BY <1>5, <1>14, <2>1, <2>2, <2>3, <3>1
    <3>2. CASE i > Len(A) /\ i <= Len(A) + Len(B)
      <4>1. i - Len(A) \in 1..Len(B) /\ Plan[i] = B[i - Len(A)]
        BY <1>5, <1>14, <2>1, <2>2, <2>3, <3>2
      <4> QED BY <4>1
    <3>3. CASE i > Len(A) + Len(B) /\ i <= Len(A) + Len(B) + Len(C)
      <4> DEFINE k == i - (Len(A) + Len(B))
      <4>1. k \in 1..Len(C) /\ Plan[i] = C[k]
        BY <1>5, <1>14, <2>1, <2>2, <2>3, <3>3
      <4> QED BY <4>1
    <3>4. CASE i > Len(A) + Len(B) + Len(C)
      <4> DEFINE k == i - (Len(A) + Len(B) + Len(C))
      <4>1. k \in 1..Len(D) /\ Plan[i] = D[k]
        BY <1>5, <1>14, <2>1, <2>2, <2>3, <3>4
      <4> QED BY <4>1
    <3> QED BY <3>1, <3>2, <3>3, <3>4
  <2> QED BY <2>3, <2>4
<1>7. Steps = 1..Len(Plan) /\ Len(Plan) \in Nat
  BY <1>6 DEF Steps
<1>8. Len(Plan) # 0
  BY <1>6, PlanCompiles DEF Plan, Rejected
<1> DEFINE a == Len(A)
           b == a + Len(B)
           d == b + Len(C)
           depth(i) == Len(Plan[i].target)
<1>15. a \in Nat /\ b \in Nat /\ d \in Nat /\ a <= b /\ b <= d
  BY <1>14
<1>16. ASSUME NEW i \in 1..Len(Plan), IsCreateKind(Plan[i])
       PROVE  \/ i <= a /\ depth(i) = 1
              \/ i > a /\ i <= b /\ depth(i) = 2
              \/ i > b /\ i <= d /\ depth(i) = 3
  <2>1. CASE i <= a /\ Plan[i] = A[i]
    BY <2>1, <1>10
  <2>2. ASSUME NEW j \in 1..Len(B), i = Len(A) + j, Plan[i] = B[j] PROVE i > a /\ i <= b /\ depth(i) = 2
    BY <2>2, <1>11, <1>14
  <2>3. ASSUME NEW j \in 1..Len(C), i = Len(A) + Len(B) + j, Plan[i] = C[j] PROVE i > b /\ i <= d /\ depth(i) = 3
    BY <2>3, <1>12, <1>14
  <2>4. ASSUME NEW j \in 1..Len(D), Plan[i] = D[j] PROVE FALSE
    BY <2>4, <1>4, <1>16
  <2> QED BY <1>6, <2>1, <2>2, <2>3, <2>4
<1>17. ASSUME NEW i \in 1..Len(Plan), ~IsCreateKind(Plan[i]) PROVE i > d
  <2>1. ASSUME NEW j \in 1..Len(D), i = Len(A) + Len(B) + Len(C) + j PROVE i > d
    BY <2>1, <1>14
  <2>2. ~(i <= Len(A) /\ Plan[i] = A[i])
    BY <1>17, <1>10
  <2>3. \A j \in 1..Len(B) : Plan[i] # B[j]
    BY <1>17, <1>11
  <2>4. \A j \in 1..Len(C) : Plan[i] # C[j]
    BY <1>17, <1>12
  <2> QED BY <1>6, <2>1, <2>2, <2>3, <2>4
<1> HIDE DEF a, b, d, depth
<1>9. ASSUME NEW s \in Steps, NEW r \in Steps, IsInside(Plan[s], Plan[r]) PROVE r < s
  <2>1. IsCreateKind(Plan[r]) /\ depth(r) < depth(s)
    BY <1>9 DEF IsInside, depth
  <2>2. CASE IsCreateKind(Plan[s])
    BY <1>7, <1>15, <1>16, <2>1, <2>2
  <2>3. CASE ~IsCreateKind(Plan[s])
    BY <1>7, <1>15, <1>16, <1>17, <2>1, <2>3
  <2> QED BY <2>2, <2>3
<1> QED BY <1>7, <1>8, <1>9

(* Every step of a flow is a step of its caller at the gate, or none. *)
LEMMA FlowStepIsGateStep ==
  ASSUME NEW c \in Callers, FlowStep(c)
  PROVE  [Next]_vars
<1>1. CASE Opened(c)
  BY <1>1 DEF Opened, Next
<1>2. CASE OpenFails(c)
  BY <1>2 DEF OpenFails
<1>3. CASE RefuseFlow(c)
  BY <1>3 DEF RefuseFlow, Next, CallerStep
<1>4. CASE EnterFlow(c)
  BY <1>4 DEF EnterFlow, Next, CallerStep
<1>5. CASE LeaveFlow(c)
  BY <1>5 DEF LeaveFlow, Next, CallerStep
<1>6. CASE PostSucceeds(c)
  BY <1>6 DEF PostSucceeds
<1>7. CASE PostFails(c)
  BY <1>7 DEF PostFails, Fail, Next, CallerStep
<1>8. CASE VerifySucceeds(c)
  BY <1>8 DEF VerifySucceeds
<1>9. CASE VerifyFails(c)
  BY <1>9 DEF VerifyFails, Fail, Next, CallerStep
<1>10. CASE CompleteFlow(c)
  BY <1>10 DEF CompleteFlow, Next, CallerStep
<1>11. CASE Return(c)
  BY <1>11 DEF Return
<1>12. CASE CloseAfterFailure(c)
  BY <1>12 DEF CloseAfterFailure
<1>13. QED
  BY <1>1, <1>2, <1>3, <1>4, <1>5, <1>6, <1>7, <1>8, <1>9, <1>10, <1>11, <1>12
     DEF FlowStep

LEMMA SetupStepIsGateStep ==
  [SetupNext]_allVars => [Next]_vars
<1>1. ASSUME NEW c \in Callers, StartConfigure(c)
      PROVE  [Next]_vars
  BY <1>1 DEF StartConfigure, Next
<1>2. ASSUME NEW c \in Callers, NEW options \in OptionSets,
             StartApply(c, options) \/ StartOpen(c, options)
      PROVE  [Next]_vars
  BY <1>2 DEF StartApply, StartOpen, Next
<1>3. ASSUME NEW c \in Callers, PassGate(c) \/ CancelFlow(c)
      PROVE  [Next]_vars
  BY <1>3 DEF PassGate, CancelFlow, Next, CallerStep
<1>4. ASSUME CloseClient
      PROVE  [Next]_vars
  BY <1>4 DEF CloseClient, Next
<1>5. ASSUME UNCHANGED allVars
      PROVE  [Next]_vars
  BY <1>5 DEF allVars
<1>6. QED
  BY <1>1, <1>2, <1>3, <1>4, <1>5, FlowStepIsGateStep DEF SetupNext

\* The flows implement the gate: entering, cancelling, configuring and leaving
\* are the only things they do to it (session_setup.go applyCompiledSessionSetup
\* and session.go configureSessionRequest hold it across their requests).
THEOREM FlowsUseTheGate == SetupSpec => Spec
<1>1. SetupInit => Init
  BY DEF SetupInit
<1>2. QED
  BY <1>1, SetupStepIsGateStep, PTL DEF SetupSpec, Spec

\* No two flows - a ConfigureSession and a plan, or two plans - configure the
\* same session at once.
THEOREM FlowsExclusive == SetupSpec => []SetupExclusive
  BY FlowsUseTheGate, Exclusion, PTL

\* c.setupGates holds a gate exactly as long as a flow refers to it.
THEOREM FlowsAccount == SetupSpec => []GateAccounting
  BY FlowsUseTheGate, Accounting, PTL
-----------------------------------------------------------------------------
(* What a step of one caller leaves to the others. *)
FlowFrame(c) ==
  /\ \A d \in Callers \ {c} :
       /\ task'[d] = task[d] /\ processed'[d] = processed[d]
       /\ pc'[d] = pc[d] /\ want'[d] = want[d]
       /\ \A s \in Steps : << d, s >> \in late' <=> << d, s >> \in late
  /\ \A h \in Handles : session[h] = "closed" => session'[h] = "closed"

LEMMA OthersKeep ==
  ASSUME IInv, NEW c \in Callers, FlowFrame(c), NEW d \in Callers \ {c}, FlowInv(d)
  PROVE  FlowInv(d)'
<1>1. /\ task'[d] = task[d] /\ processed'[d] = processed[d] /\ pc'[d] = pc[d] /\ want'[d] = want[d]
      /\ \A s \in Steps : << d, s >> \in late' <=> << d, s >> \in late
      /\ session[want[d]] = "closed" => session'[want[d]] = "closed"
  BY DEF FlowFrame, IInv, TypeOK
<1>2. FlowAtGate(d)' /\ FlowFresh(d)' /\ FlowOrder(d)'
  BY <1>1 DEF FlowInv, FlowAtGate, FlowFresh, FlowOrder
<1>3. FlowTrue(d)'
  BY <1>1 DEF FlowInv, FlowTrue
<1>4. FlowRemains(d)'
  BY <1>1 DEF FlowInv, FlowRemains
<1>5. FlowCloses(d)'
  BY <1>1 DEF FlowInv, FlowCloses
<1> QED BY <1>2, <1>3, <1>4, <1>5 DEF FlowInv

LEMMA FreshTask ==
  ASSUME NEW kind \in {"none", "configure", "apply", "open"}, NEW options \in OptionSets \cup {None},
         NEW at \in {"idle", "gate", "opening"}, NEW t, t = Task(kind, options, at)
  PROVE  /\ t \in Tasks /\ t.kind = kind /\ t.at = at
         /\ t.applied = {} /\ t.unknown = {}
         /\ ~t.complete /\ ~t.failed /\ ~t.sessionClosed
<1>1. t \in Tasks
  BY DEF Task, Tasks
<1> QED BY <1>1 DEF Task

LEMMA StartKeeps ==
  ASSUME SetupInv, NEW c \in Callers,
         StartConfigure(c) \/ \E options \in OptionSets : StartApply(c, options) \/ StartOpen(c, options)
  PROVE  FlowTypes' /\ FlowFrame(c) /\ FlowInv(c)'
<1>1. PICK kind \in {"configure", "apply", "open"}, options \in OptionSets \cup {None}, at \in {"gate", "opening"} :
               /\ at = "opening" => kind = "open" /\ UNCHANGED << pc, want >>
               /\ at = "gate" => Call(c)
               /\ task' = [task EXCEPT ![c] = Task(kind, options, at)]
  BY DEF StartConfigure, StartApply, StartOpen, SetTask, vars, callerVars
<1>2. task[c].at = "idle" /\ UNCHANGED << processed, late, session >>
  BY DEF StartConfigure, StartApply, StartOpen
<1> DEFINE t == Task(kind, options, at)
<1>3. /\ t \in Tasks /\ t.kind = kind /\ t.at = at /\ t.applied = {} /\ t.unknown = {}
      /\ ~t.complete /\ ~t.failed /\ ~t.sessionClosed
  BY FreshTask
<1> HIDE DEF t
<1>4. FlowTypes' /\ task'[c] = t
  BY <1>1, <1>2, <1>3 DEF SetupInv, FlowTypes, t
<1>5. /\ at = "gate" => pc' = [pc EXCEPT ![c] = "entering"] /\ \E h \in Handles : want' = [want EXCEPT ![c] = h]
      /\ at = "opening" => pc' = pc /\ want' = want
      /\ at \in {"gate", "opening"} /\ (at = "opening" => kind = "open")
  BY <1>1 DEF Call, GoTo
<1>6. FlowFrame(c)
  BY <1>1, <1>2, <1>5 DEF FlowFrame, SetupInv, FlowTypes, IInv, TypeOK
<1>7. FlowInv(c) /\ pc[c] = "idle" /\ task[c].applied = {} /\ task[c].unknown = {}
  BY <1>2 DEF SetupInv, FlowInv, FlowAtGate, FlowFresh
<1>8. at = "gate" => pc'[c] = "entering"
  BY <1>5 DEF SetupInv, IInv, TypeOK
<1>9. FlowAtGate(c)'
  BY <1>3, <1>4, <1>5, <1>7, <1>8 DEF FlowAtGate
<1>12. FlowFresh(c)' /\ FlowOrder(c)'
  BY <1>3, <1>4, <1>5 DEF FlowFresh, FlowOrder
<1>10. FlowTrue(c)'
  BY <1>2, <1>3, <1>4, <1>7 DEF FlowInv, FlowTrue
<1>11. FlowRemains(c)' /\ FlowCloses(c)'
  BY <1>3, <1>4 DEF FlowRemains, FlowCloses, MayRemain
<1> QED BY <1>4, <1>6, <1>9, <1>10, <1>11, <1>12 DEF FlowInv

\* A flow that is refused, or that leaves the gate, has its result.
LEMMA ResultKeeps ==
  ASSUME SetupInv, NEW c \in Callers, RefuseFlow(c) \/ LeaveFlow(c)
  PROVE  FlowTypes' /\ FlowFrame(c) /\ FlowInv(c)'
<1> DEFINE t == task[c]
<1>1. /\ t \in Tasks /\ FlowInv(c) /\ UNCHANGED << processed, late, session, want >>
      /\ pc[c] \in {"entering", "leaving"} /\ pc' = [pc EXCEPT ![c] = "idle"]
  BY DEF SetupInv, FlowTypes, RefuseFlow, LeaveFlow, Refuse, Leave, GoTo
<1>2. PICK failed \in BOOLEAN : /\ task' = [task EXCEPT ![c] = [t EXCEPT !.at = "result", !.failed = failed]]
                                /\ failed => ~t.complete
  <2>1. CASE RefuseFlow(c)
    <3>1. ~t.complete
      BY <2>1 DEF SetupInv, FlowInv, FlowFresh, RefuseFlow, Refuse
    <3> QED BY <2>1, <3>1 DEF RefuseFlow, SetTask
  <2>2. CASE LeaveFlow(c)
    <3>1. (~t.complete) \in BOOLEAN
      BY Zenon
    <3>2. task' = [task EXCEPT ![c] = [t EXCEPT !.at = "result", !.failed = ~t.complete]]
      BY <2>2, Zenon DEF LeaveFlow, SetTask
    <3> QED BY <3>1, <3>2, Zenon
  <2> QED BY <2>1, <2>2
<1> DEFINE u == [t EXCEPT !.at = "result", !.failed = failed]
<1>3. /\ u \in Tasks /\ u.at = "result" /\ (u.failed <=> failed)
      /\ u.kind = t.kind /\ u.applied = t.applied /\ u.unknown = t.unknown
      /\ u.complete <=> t.complete
      /\ u.mayRemain <=> t.mayRemain
      /\ u.sessionClosed <=> t.sessionClosed
  BY <1>1 DEF Tasks
<1> HIDE DEF u, t
<1>4. FlowTypes' /\ task'[c] = u
  BY <1>1, <1>2, <1>3 DEF SetupInv, FlowTypes, u, t
<1>5. FlowFrame(c)
  BY <1>1, <1>2 DEF FlowFrame, SetupInv, FlowTypes, IInv, TypeOK
<1>6. pc'[c] = "idle"
  BY <1>1 DEF SetupInv, IInv, TypeOK
<1>7. task[c].at = "gate"
  BY <1>1 DEF FlowInv, FlowAtGate, Tasks, t
<1>8. FlowAtGate(c)' /\ FlowFresh(c)' /\ FlowOrder(c)'
  BY <1>1, <1>3, <1>4, <1>6 DEF FlowInv, FlowAtGate, FlowFresh, FlowOrder, t
<1>9. FlowTrue(c)'
  BY <1>1, <1>3, <1>4 DEF FlowInv, FlowTrue, t
<1>10. FlowRemains(c)' /\ FlowCloses(c)'
  BY <1>1, <1>2, <1>3, <1>4, <1>7 DEF FlowInv, FlowRemains, FlowCloses, t
<1> QED BY <1>4, <1>5, <1>8, <1>9, <1>10 DEF FlowInv

\* Passing the gate changes nothing of the flow; behind it comes the first step.
LEMMA GateKeeps ==
  ASSUME SetupInv, NEW c \in Callers, PassGate(c) \/ CancelFlow(c)
  PROVE  FlowTypes' /\ FlowFrame(c) /\ FlowInv(c)'
<1>1. UNCHANGED << task, processed, late, session, want >>
  BY DEF PassGate, CancelFlow, Cancel, JoinGate, CreateGate, TakeToken, GiveUp, ReturnToken, setupVars
<1>2. \/ pc' = pc
      \/ pc' = [pc EXCEPT ![c] = "waiting"] /\ pc[c] = "entering"
      \/ pc' = [pc EXCEPT ![c] = "taken"] /\ pc[c] = "waiting"
      \/ pc' = [pc EXCEPT ![c] = "leaving"] /\ pc[c] \in {"waiting", "returning"}
  BY DEF PassGate, CancelFlow, Cancel, JoinGate, CreateGate, TakeToken, GiveUp, ReturnToken, GoTo
<1>3. FlowTypes' /\ FlowFrame(c)
  BY <1>1, <1>2 DEF SetupInv, FlowTypes, FlowFrame, IInv, TypeOK
<1>4. /\ pc'[c] = "idle" <=> pc[c] = "idle"
      /\ pc'[c] = "configuring" <=> pc[c] = "configuring"
      /\ pc'[c] \in {"entering", "waiting", "taken"} => pc[c] \in {"entering", "waiting", "taken"}
  BY <1>2 DEF SetupInv, IInv, TypeOK
<1>5. FlowInv(c)
  BY DEF SetupInv
<1>6. FlowAtGate(c)' /\ FlowFresh(c)' /\ FlowOrder(c)'
  BY <1>1, <1>4, <1>5 DEF FlowInv, FlowAtGate, FlowFresh, FlowOrder
<1>7. FlowTrue(c)' /\ FlowRemains(c)' /\ FlowCloses(c)'
  BY <1>1, <1>5 DEF FlowInv, FlowTrue, FlowRemains, FlowCloses
<1> QED BY <1>3, <1>6, <1>7 DEF FlowInv

LEMMA EnterKeeps ==
  ASSUME SetupInv, NEW c \in Callers, EnterFlow(c)
  PROVE  FlowTypes' /\ FlowFrame(c) /\ FlowInv(c)'
<1>1. /\ pc[c] = "taken" /\ UNCHANGED << processed, late, session, want >>
      /\ pc' = [pc EXCEPT ![c] = IF c \in cancelled THEN "returning" ELSE "configuring"]
  BY DEF EnterFlow, CheckContext, GoTo
<1>2. pc'[c] = IF c \in cancelled THEN "returning" ELSE "configuring"
  BY <1>1 DEF SetupInv, IInv, TypeOK
<1>3. FlowInv(c) /\ task[c] \in Tasks
  BY DEF SetupInv, FlowTypes
<1>4. /\ task[c].at = "gate" /\ task[c].applied = {} /\ task[c].unknown = {}
      /\ ~task[c].complete /\ ~task[c].failed /\ ~task[c].sessionClosed
  BY <1>1, <1>3 DEF FlowInv, FlowAtGate, FlowFresh, FlowRemains, FlowCloses, Tasks
<1>5. CASE c \in cancelled
  <2>1. UNCHANGED task /\ pc'[c] = "returning"
    BY <1>2, <1>5 DEF EnterFlow
  <2>2. FlowTypes' /\ FlowFrame(c)
    BY <1>1, <2>1 DEF SetupInv, FlowTypes, FlowFrame, IInv, TypeOK
  <2>3. FlowAtGate(c)' /\ FlowFresh(c)' /\ FlowOrder(c)'
    BY <1>3, <1>4, <2>1 DEF FlowInv, FlowAtGate, FlowFresh, FlowOrder
  <2>4. FlowTrue(c)' /\ FlowRemains(c)' /\ FlowCloses(c)'
    BY <1>1, <1>3, <2>1 DEF FlowInv, FlowTrue, FlowRemains, FlowCloses
  <2> QED BY <2>2, <2>3, <2>4 DEF FlowInv
<1>6. CASE c \notin cancelled
  <2> DEFINE u == [task[c] EXCEPT !.at = "post", !.step = 1]
  <2>1. task' = [task EXCEPT ![c] = u] /\ pc'[c] = "configuring"
    BY <1>2, <1>6 DEF EnterFlow, SetTask
  <2>2. /\ u \in Tasks /\ u.at = "post" /\ u.step = 1
        /\ u.kind = task[c].kind /\ u.applied = {} /\ u.unknown = {}
        /\ ~u.complete /\ ~u.failed /\ ~u.sessionClosed
    BY <1>3, <1>4 DEF Tasks
  <2> HIDE DEF u
  <2>3. FlowTypes' /\ task'[c] = u
    BY <1>1, <2>1, <2>2 DEF SetupInv, FlowTypes
  <2>4. FlowFrame(c)
    BY <1>1, <2>1 DEF FlowFrame, SetupInv, FlowTypes, IInv, TypeOK
  <2>5. FlowAtGate(c)' /\ FlowFresh(c)'
    BY <2>1, <2>2, <2>3 DEF FlowAtGate, FlowFresh
  <2>6. 1 \in Steps /\ {s \in Steps : s < 1} = {}
    BY PlanOrder
  <2>7. FlowOrder(c)'
    BY <2>2, <2>3, <2>6 DEF FlowOrder
  <2>8. FlowTrue(c)'
    BY <1>1, <1>3, <1>4, <2>2, <2>3 DEF FlowInv, FlowTrue
  <2>9. FlowRemains(c)' /\ FlowCloses(c)'
    BY <2>2, <2>3 DEF FlowRemains, FlowCloses
  <2> QED BY <2>3, <2>4, <2>5, <2>7, <2>8, <2>9 DEF FlowInv
<1> QED BY <1>5, <1>6

\* OpenSession: the handle is known, or nothing is to be cleaned up.
LEMMA OpenKeeps ==
  ASSUME SetupInv, NEW c \in Callers, Opened(c) \/ OpenFails(c)
  PROVE  FlowTypes' /\ FlowFrame(c) /\ FlowInv(c)'
<1>1. FlowInv(c) /\ task[c] \in Tasks /\ task[c].at = "opening" /\ UNCHANGED << processed, late >>
  BY DEF SetupInv, FlowTypes, Opened, OpenFails
<1>2. /\ task[c].kind = "open" /\ task[c].applied = {} /\ task[c].unknown = {} /\ pc[c] = "idle"
      /\ ~task[c].complete /\ ~task[c].failed /\ ~task[c].sessionClosed
  BY <1>1 DEF FlowInv, FlowAtGate, FlowFresh, FlowRemains, FlowCloses
<1>3. /\ session' \in [Handles -> {"none", "open", "closed"}]
      /\ \A h \in Handles : session[h] = "closed" => session'[h] = "closed"
  BY DEF Opened, OpenFails, SetupInv, FlowTypes
<1>4. PICK at \in {"gate", "done"} :
        /\ task' = [task EXCEPT ![c].at = at]
        /\ at = "gate" => pc' = [pc EXCEPT ![c] = "entering"] /\ \E h \in Handles : want' = [want EXCEPT ![c] = h]
        /\ at = "done" => UNCHANGED << pc, want >>
  BY DEF Opened, OpenFails, Call, GoTo, MoveTo, vars, callerVars
<1> DEFINE u == [task[c] EXCEPT !.at = at]
<1>5. /\ u \in Tasks /\ u.at = at
      /\ u.kind = "open" /\ u.applied = {} /\ u.unknown = {}
      /\ ~u.complete /\ ~u.failed /\ ~u.sessionClosed
  BY <1>1, <1>2 DEF Tasks
<1>6. task' = [task EXCEPT ![c] = u]
  BY <1>4
<1> HIDE DEF u
<1>7. FlowTypes' /\ task'[c] = u
  BY <1>1, <1>3, <1>5, <1>6 DEF SetupInv, FlowTypes
<1>8. FlowFrame(c)
  BY <1>1, <1>3, <1>4, <1>6 DEF FlowFrame, SetupInv, FlowTypes, IInv, TypeOK
<1>9. /\ at = "gate" => pc'[c] = "entering"
      /\ at = "done" => pc'[c] = "idle"
  BY <1>2, <1>4 DEF SetupInv, IInv, TypeOK
<1>10. FlowAtGate(c)' /\ FlowFresh(c)' /\ FlowOrder(c)'
  BY <1>5, <1>7, <1>9 DEF FlowAtGate, FlowFresh, FlowOrder
<1>11. FlowTrue(c)'
  BY <1>1, <1>2, <1>5, <1>7 DEF FlowInv, FlowTrue
<1>12. FlowRemains(c)' /\ FlowCloses(c)'
  BY <1>5, <1>7 DEF FlowRemains, FlowCloses, MayRemain
<1> QED BY <1>7, <1>8, <1>10, <1>11, <1>12 DEF FlowInv

LEMMA PostKeeps ==
  ASSUME SetupInv, NEW c \in Callers, PostSucceeds(c)
  PROVE  FlowTypes' /\ FlowFrame(c) /\ FlowInv(c)'
<1> DEFINE t == task[c]
           k == t.step
<1>1. /\ FlowInv(c) /\ t \in Tasks /\ t.at = "post" /\ UNCHANGED << pc, want, session >>
      /\ pc[c] = "configuring"
  BY DEF SetupInv, FlowTypes, FlowInv, FlowAtGate, PostSucceeds, vars, callerVars
<1>2. /\ k \in Steps /\ t.unknown = {} /\ ~t.complete /\ ~t.failed /\ ~t.sessionClosed
      /\ t.applied = {s \in Steps : s < k} /\ (t.kind = "configure" => k = 1)
  BY <1>1 DEF FlowInv, FlowOrder, FlowRemains, FlowCloses
<1>3. processed[c][k] = 0 /\ << c, k >> \notin late /\ k \notin t.applied
  <2>1. k \notin t.applied
    BY <1>2, PlanOrder
  <2> QED BY <1>1, <1>2, <2>1 DEF FlowInv, FlowTrue
<1>4. processed' = [processed EXCEPT ![c][k] = 1] /\ UNCHANGED late
  <2>1. PICK made \in UnsafeCalls : Succeeded(Last(made)) /\ Reaches(c, k, made)
    BY DEF PostSucceeds
  <2>2. ProcessedNow(made) = 1 /\ ~ProcessedLater(made)
    BY <2>1, OneExchange
  <2> QED BY <1>3, <2>1, <2>2 DEF Reaches
<1>5. PICK u \in Tasks :
        /\ task' = [task EXCEPT ![c] = u]
        /\ u.applied = t.applied \cup {k} /\ u.unknown = {} /\ u.kind = t.kind
        /\ ~u.complete /\ ~u.failed /\ ~u.sessionClosed
        /\ \/ u.at = "verify"
           \/ u.at = "post" /\ u.step = k + 1 /\ \E s \in StepsOf(c) : s > k
  <2> DEFINE a == [t EXCEPT !.applied = @ \cup {k}]
             v == [a EXCEPT !.step = @ + 1]
             w == [a EXCEPT !.at = "verify"]
  <2>1. /\ a \in Tasks /\ a.applied = t.applied \cup {k} /\ a.unknown = {} /\ a.kind = t.kind
        /\ a.at = "post" /\ a.step = k /\ ~a.complete /\ ~a.failed /\ ~a.sessionClosed
    BY <1>1, <1>2 DEF Tasks
  <2>2. \/ task' = [task EXCEPT ![c] = w]
        \/ task' = [task EXCEPT ![c] = v] /\ \E s \in StepsOf(c) : s > k
    BY <2>1 DEF PostSucceeds, SetTask
  <2> HIDE DEF a
  <2>3. /\ w \in Tasks /\ w.applied = a.applied /\ w.unknown = {} /\ w.kind = t.kind
        /\ w.at = "verify" /\ ~w.complete /\ ~w.failed /\ ~w.sessionClosed
    BY <2>1 DEF Tasks
  <2>4. /\ v \in Tasks /\ v.applied = a.applied /\ v.unknown = {} /\ v.kind = t.kind
        /\ v.at = "post" /\ v.step = k + 1 /\ ~v.complete /\ ~v.failed /\ ~v.sessionClosed
    BY <2>1 DEF Tasks
  <2> QED BY <2>1, <2>2, <2>3, <2>4
<1> HIDE DEF k, t
<1>6. FlowTypes' /\ task'[c] = u
  BY <1>1, <1>2, <1>4, <1>5 DEF SetupInv, FlowTypes
<1>7. FlowFrame(c)
  BY <1>1, <1>2, <1>4, <1>5 DEF FlowFrame, SetupInv, FlowTypes
<1>8. FlowAtGate(c)' /\ FlowFresh(c)'
  BY <1>1, <1>5, <1>6 DEF FlowAtGate, FlowFresh
<1>9. u.at = "post" => /\ u.step \in Steps /\ u.kind # "configure"
                       /\ u.applied = {s \in Steps : s < u.step}
  <2> SUFFICES ASSUME u.at = "post"
               PROVE  u.step \in Steps /\ u.kind # "configure" /\ u.applied = {s \in Steps : s < u.step}
    OBVIOUS
  <2>1. PICK s \in StepsOf(c) : s > k
    BY <1>5
  <2>2. u.kind # "configure" /\ s \in Steps
    BY <1>2, <1>5, <2>1, PlanOrder DEF StepsOf, t
  <2>3. k + 1 \in Steps
    BY <1>2, <2>1, <2>2, PlanOrder
  <2>4. {r \in Steps : r < k} \cup {k} = {r \in Steps : r < k + 1}
    BY <1>2, PlanOrder
  <2> QED BY <1>2, <1>5, <2>2, <2>3, <2>4
<1>10. FlowOrder(c)'
  <2>1. u.applied = {s \in Steps : s <= k}
    BY <1>2, <1>5, PlanOrder
  <2>2. \A s \in u.applied : \A r \in Steps : r < s => r \in u.applied
    BY <1>2, <2>1, PlanOrder
  <2> QED BY <1>5, <1>6, <1>9, <2>2 DEF FlowOrder
<1>11. FlowTrue(c)'
  <2>1. \A s \in Steps : s # k => processed'[c][s] = processed[c][s]
    BY <1>2, <1>4 DEF SetupInv, FlowTypes
  <2>2. processed'[c][k] = 1
    BY <1>2, <1>4 DEF SetupInv, FlowTypes
  <2> QED BY <1>1, <1>2, <1>3, <1>4, <1>5, <1>6, <2>1, <2>2 DEF FlowInv, FlowTrue, t
<1>12. FlowRemains(c)' /\ FlowCloses(c)'
  BY <1>5, <1>6 DEF FlowRemains, FlowCloses
<1> QED BY <1>6, <1>7, <1>8, <1>10, <1>11, <1>12 DEF FlowInv

\* failSessionSetup.
LEMMA FailEffect ==
  ASSUME SetupInv, NEW c \in Callers, NEW t \in Tasks, Fail(c, t)
  PROVE  /\ pc[c] = "configuring" /\ pc'[c] = "returning" /\ UNCHANGED want
         /\ \A d \in Callers \ {c} : pc'[d] = pc[d]
         /\ \E u \in Tasks :
              /\ task' = [task EXCEPT ![c] = u]
              /\ u.at = "gate" /\ u.kind = t.kind /\ u.applied = t.applied /\ u.unknown = t.unknown
              /\ u.complete <=> t.complete
              /\ u.failed <=> t.failed
              /\ u.sessionClosed <=> t.sessionClosed
              /\ u.mayRemain <=> MayRemain(t.applied, t.unknown)
<1>1. pc[c] = "configuring" /\ pc' = [pc EXCEPT ![c] = "returning"] /\ UNCHANGED want
  BY DEF Fail, Configured, GoTo
<1>2. PICK m \in BOOLEAN : m = MayRemain(t.applied, t.unknown)
  <2>1. MayRemain(t.applied, t.unknown) \in BOOLEAN
    BY Zenon DEF MayRemain
  <2> QED BY <2>1, Zenon
<1> DEFINE u == [t EXCEPT !.at = "gate", !.mayRemain = m]
<1>3. task' = [task EXCEPT ![c] = u]
  BY <1>2, Zenon DEF Fail, SetTask
<1>4. /\ u \in Tasks
      /\ u.at = "gate" /\ u.kind = t.kind /\ u.applied = t.applied /\ u.unknown = t.unknown
      /\ u.complete <=> t.complete
      /\ u.failed <=> t.failed
      /\ u.sessionClosed <=> t.sessionClosed
      /\ u.mayRemain <=> m
  BY DEF Tasks
<1> HIDE DEF u
<1>5. u.mayRemain <=> MayRemain(t.applied, t.unknown)
  BY <1>2, <1>4, Zenon
<1>6. pc'[c] = "returning" /\ \A d \in Callers \ {c} : pc'[d] = pc[d]
  BY <1>1 DEF SetupInv, IInv, TypeOK
<1> QED BY <1>1, <1>3, <1>4, <1>5, <1>6

LEMMA PostFailsKeeps ==
  ASSUME SetupInv, NEW c \in Callers, PostFails(c)
  PROVE  FlowTypes' /\ FlowFrame(c) /\ FlowInv(c)'
<1> DEFINE t == task[c]
           k == t.step
<1>1. FlowInv(c) /\ t \in Tasks /\ t.at = "post" /\ UNCHANGED session
  BY DEF SetupInv, FlowTypes, FlowInv, PostFails
<1>2. /\ k \in Steps /\ t.unknown = {} /\ ~t.complete /\ ~t.failed /\ ~t.sessionClosed
      /\ t.applied = {s \in Steps : s < k}
  BY <1>1 DEF FlowInv, FlowOrder, FlowRemains, FlowCloses
<1>3. processed[c][k] = 0 /\ << c, k >> \notin late /\ k \notin t.applied
  <2>1. k \notin t.applied
    BY <1>2, PlanOrder
  <2> QED BY <1>1, <1>2, <2>1 DEF FlowInv, FlowTrue
<1>4. PICK made \in UnsafeCalls :
        /\ ~Succeeded(Last(made)) /\ Reaches(c, k, made)
        /\ Fail(c, IF OutcomeIsUnknown(Last(made)) THEN [t EXCEPT !.unknown = @ \cup {k}] ELSE t)
  BY DEF PostFails
<1> DEFINE n == ProcessedNow(made)
           unknown == IF OutcomeIsUnknown(Last(made)) THEN {k} ELSE {}
<1>5. /\ n \in {0, 1}
      /\ ProcessedLater(made) => n = 0
      /\ unknown = {} => n = 0 /\ ~ProcessedLater(made)
      /\ unknown \in {{}, {k}}
  BY <1>4, OneExchange
<1>6. PICK a \in Tasks :
        /\ Fail(c, a) /\ a.unknown = unknown /\ a.applied = t.applied /\ a.kind = t.kind
        /\ ~a.complete /\ ~a.failed /\ ~a.sessionClosed
  <2>1. CASE OutcomeIsUnknown(Last(made))
    <3> DEFINE a == [t EXCEPT !.unknown = @ \cup {k}]
    <3>1. /\ a \in Tasks /\ a.unknown = {k} /\ a.applied = t.applied /\ a.kind = t.kind
          /\ ~a.complete /\ ~a.failed /\ ~a.sessionClosed
      BY <1>1, <1>2 DEF Tasks
    <3>2. Fail(c, a) /\ unknown = {k}
      BY <1>4, <2>1
    <3> QED BY <3>1, <3>2
  <2>2. CASE ~OutcomeIsUnknown(Last(made))
    <3>1. Fail(c, t) /\ unknown = {}
      BY <1>4, <2>2
    <3> QED BY <1>1, <1>2, <3>1
  <2> QED BY <2>1, <2>2
<1>7. /\ processed' = [processed EXCEPT ![c][k] = n]
      /\ late' = IF ProcessedLater(made) THEN late \cup {<< c, k >>} ELSE late
  <2>1. processed' = [processed EXCEPT ![c][k] = 0 + n]
    BY <1>3, <1>4 DEF Reaches
  <2>2. 0 + n = n
    BY <1>5
  <2>3. late' = IF ProcessedLater(made) THEN late \cup {<< c, k >>} ELSE late
    BY <1>4 DEF Reaches
  <2> HIDE DEF n
  <2> QED BY <2>1, <2>2, <2>3
<1> HIDE DEF k, t, n, unknown
<1>8. /\ pc[c] = "configuring" /\ pc'[c] = "returning" /\ UNCHANGED want
      /\ \A d \in Callers \ {c} : pc'[d] = pc[d]
  BY <1>6, FailEffect
<1>9. PICK u \in Tasks :
        /\ task' = [task EXCEPT ![c] = u]
        /\ u.at = "gate" /\ u.kind = t.kind /\ u.applied = t.applied /\ u.unknown = unknown
        /\ ~u.complete /\ ~u.failed /\ ~u.sessionClosed
        /\ u.mayRemain <=> MayRemain(u.applied, u.unknown)
  BY <1>6, FailEffect
<1>10. FlowTypes' /\ task'[c] = u
  BY <1>1, <1>2, <1>5, <1>7, <1>9 DEF SetupInv, FlowTypes
<1>11. FlowFrame(c)
  BY <1>1, <1>2, <1>7, <1>8, <1>9 DEF FlowFrame, SetupInv, FlowTypes
<1>12. FlowAtGate(c)' /\ FlowFresh(c)'
  BY <1>8, <1>9, <1>10 DEF FlowAtGate, FlowFresh
<1>13. FlowOrder(c)'
  <2>1. \A s \in u.applied \cup u.unknown : \A r \in Steps : r < s => r \in u.applied
    BY <1>2, <1>5, <1>9, PlanOrder
  <2> QED BY <1>9, <1>10, <2>1 DEF FlowOrder
<1>14. FlowTrue(c)'
  <2>1. /\ \A s \in Steps : s # k => processed'[c][s] = processed[c][s]
        /\ \A s \in Steps : s # k => (<< c, s >> \in late' <=> << c, s >> \in late)
    BY <1>2, <1>7 DEF SetupInv, FlowTypes
  <2>2. processed'[c][k] = n /\ (<< c, k >> \in late' <=> ProcessedLater(made))
    BY <1>2, <1>3, <1>7 DEF SetupInv, FlowTypes
  <2>3. /\ k \notin u.applied /\ (k \in u.unknown <=> unknown # {})
        /\ \A s \in Steps : s # k => s \notin u.unknown
    BY <1>3, <1>5, <1>9
  <2>4. n = 0 \/ n = 1
    BY <1>5
  <2>5. ASSUME NEW s \in Steps, s # k
        PROVE  /\ s \in u.applied => processed'[c][s] = 1 /\ << c, s >> \notin late'
               /\ s \notin u.applied => processed'[c][s] = 0 /\ << c, s >> \notin late'
    BY <1>1, <1>2, <1>9, <2>1, <2>5 DEF FlowInv, FlowTrue, t
  <2>6. /\ k \in u.unknown => processed'[c][k] \in {0, 1} /\ (<< c, k >> \in late' => processed'[c][k] = 0)
        /\ k \notin u.unknown => processed'[c][k] = 0 /\ << c, k >> \notin late'
    BY <1>5, <2>2, <2>3, <2>4
  <2> QED BY <1>10, <2>3, <2>5, <2>6 DEF FlowTrue
<1>15. FlowRemains(c)' /\ FlowCloses(c)'
  BY <1>9, <1>10 DEF FlowRemains, FlowCloses
<1> QED BY <1>10, <1>11, <1>12, <1>13, <1>14, <1>15 DEF FlowInv

LEMMA VerifyKeeps ==
  ASSUME SetupInv, NEW c \in Callers, VerifySucceeds(c)
  PROVE  FlowTypes' /\ FlowFrame(c) /\ FlowInv(c)'
<1> DEFINE t == task[c]
<1>1. FlowInv(c) /\ t \in Tasks /\ t.at = "verify" /\ UNCHANGED << vars, processed, late, session >>
  BY DEF SetupInv, FlowTypes, FlowInv, VerifySucceeds
<1>2. PICK s \in Steps : task' = [task EXCEPT ![c] = [t EXCEPT !.verified = @ \cup {s}]]
  BY PlanOrder DEF VerifySucceeds, SetTask, Unverified, ToVerify, StepsOf
<1> DEFINE u == [t EXCEPT !.verified = @ \cup {s}]
<1>3. /\ u \in Tasks /\ u.at = t.at /\ u.kind = t.kind /\ u.step = t.step
      /\ u.applied = t.applied /\ u.unknown = t.unknown
      /\ u.complete <=> t.complete
      /\ u.failed <=> t.failed
      /\ u.sessionClosed <=> t.sessionClosed
  BY <1>1 DEF Tasks
<1> HIDE DEF u
<1>4. FlowTypes' /\ task'[c] = u
  BY <1>1, <1>2, <1>3 DEF SetupInv, FlowTypes, u
<1>5. FlowFrame(c)
  BY <1>1, <1>2 DEF FlowFrame, SetupInv, FlowTypes, vars, callerVars
<1>6. UNCHANGED << pc, want >>
  BY <1>1 DEF vars, callerVars
<1>7. FlowAtGate(c)' /\ FlowFresh(c)' /\ FlowOrder(c)'
  BY <1>1, <1>3, <1>4, <1>6 DEF FlowInv, FlowAtGate, FlowFresh, FlowOrder
<1>8. FlowTrue(c)'
  BY <1>1, <1>3, <1>4 DEF FlowInv, FlowTrue
<1>9. FlowRemains(c)' /\ FlowCloses(c)'
  BY <1>1, <1>3, <1>4 DEF FlowInv, FlowRemains, FlowCloses
<1> QED BY <1>4, <1>5, <1>7, <1>8, <1>9 DEF FlowInv

\* The end of the verification: the flow has failed, or it is complete.
LEMMA EndKeeps ==
  ASSUME SetupInv, NEW c \in Callers, VerifyFails(c) \/ CompleteFlow(c)
  PROVE  FlowTypes' /\ FlowFrame(c) /\ FlowInv(c)'
<1> DEFINE t == task[c]
<1>1. FlowInv(c) /\ t \in Tasks /\ t.at = "verify" /\ UNCHANGED << processed, late, session >>
  BY DEF SetupInv, FlowTypes, FlowInv, VerifyFails, CompleteFlow
<1>2. t.unknown = {} /\ ~t.complete /\ ~t.failed /\ ~t.sessionClosed
  BY <1>1 DEF FlowInv, FlowOrder, FlowRemains, FlowCloses
<1> HIDE DEF t
<1>3. /\ pc[c] = "configuring" /\ pc'[c] = "returning" /\ UNCHANGED want
      /\ \A d \in Callers \ {c} : pc'[d] = pc[d]
      /\ \E u \in Tasks :
           /\ task' = [task EXCEPT ![c] = u]
           /\ u.at = "gate" /\ u.kind = t.kind /\ u.applied = t.applied /\ u.unknown = {}
           /\ ~u.failed /\ ~u.sessionClosed
           /\ u.complete \/ (u.mayRemain <=> MayRemain(u.applied, u.unknown))
  <2>1. CASE VerifyFails(c)
    <3>1. Fail(c, t)
      BY <2>1 DEF VerifyFails, t
    <3> QED BY <1>1, <1>2, <3>1, FailEffect
  <2>2. CASE CompleteFlow(c)
    <3>1. pc[c] = "configuring" /\ pc' = [pc EXCEPT ![c] = "returning"] /\ UNCHANGED want
      BY <2>2 DEF CompleteFlow, Configured, GoTo
    <3>2. pc'[c] = "returning" /\ \A d \in Callers \ {c} : pc'[d] = pc[d]
      BY <3>1 DEF SetupInv, IInv, TypeOK
    <3> DEFINE u == [t EXCEPT !.at = "gate", !.complete = TRUE]
    <3>3. task' = [task EXCEPT ![c] = u]
      BY <2>2 DEF CompleteFlow, SetTask, t
    <3>4. /\ u \in Tasks /\ u.at = "gate" /\ u.kind = t.kind /\ u.applied = t.applied /\ u.unknown = {}
          /\ u.complete /\ ~u.failed /\ ~u.sessionClosed
      BY <1>1, <1>2 DEF Tasks
    <3> QED BY <3>1, <3>2, <3>3, <3>4
  <2> QED BY <2>1, <2>2
<1>4. PICK u \in Tasks :
           /\ task' = [task EXCEPT ![c] = u]
           /\ u.at = "gate" /\ u.kind = t.kind /\ u.applied = t.applied /\ u.unknown = {}
           /\ ~u.failed /\ ~u.sessionClosed
           /\ u.complete \/ (u.mayRemain <=> MayRemain(u.applied, u.unknown))
  BY <1>3
<1>5. FlowTypes' /\ task'[c] = u
  BY <1>1, <1>4 DEF SetupInv, FlowTypes
<1>6. FlowFrame(c)
  BY <1>1, <1>3, <1>4 DEF FlowFrame, SetupInv, FlowTypes
<1>7. FlowAtGate(c)' /\ FlowFresh(c)'
  BY <1>3, <1>4, <1>5 DEF FlowAtGate, FlowFresh
<1>8. FlowOrder(c)' /\ FlowTrue(c)'
  BY <1>1, <1>2, <1>4, <1>5 DEF FlowInv, FlowOrder, FlowTrue, t
<1>9. FlowRemains(c)' /\ FlowCloses(c)'
  BY <1>4, <1>5 DEF FlowRemains, FlowCloses
<1> QED BY <1>5, <1>6, <1>7, <1>8, <1>9 DEF FlowInv

\* The result is returned at once, or the session that failed is closed first.
LEMMA ReturnKeeps ==
  ASSUME SetupInv, NEW c \in Callers, Return(c)
  PROVE  FlowTypes' /\ FlowFrame(c) /\ FlowInv(c)'
<1> DEFINE t == task[c]
<1>1. FlowInv(c) /\ t \in Tasks /\ t.at = "result" /\ UNCHANGED << vars, processed, late, session >>
  BY DEF SetupInv, FlowTypes, FlowInv, Return
<1>2. PICK at \in {"closing", "done"} :
        /\ task' = [task EXCEPT ![c] = [t EXCEPT !.at = at]]
        /\ at = "done" => ~(t.kind = "open" /\ t.failed /\ ~t.options.keep)
  BY DEF Return, MoveTo
<1> DEFINE u == [t EXCEPT !.at = at]
<1>3. /\ u \in Tasks /\ u.at = at /\ u.kind = t.kind /\ u.applied = t.applied /\ u.unknown = t.unknown
      /\ u.options = t.options
      /\ u.complete <=> t.complete
      /\ u.failed <=> t.failed
      /\ u.mayRemain <=> t.mayRemain
      /\ u.sessionClosed <=> t.sessionClosed
  BY <1>1 DEF Tasks
<1> HIDE DEF u
<1>4. FlowTypes' /\ task'[c] = u
  BY <1>1, <1>2, <1>3 DEF SetupInv, FlowTypes, u
<1>5. UNCHANGED << pc, want >>
  BY <1>1 DEF vars, callerVars
<1>6. FlowFrame(c)
  BY <1>1, <1>2, <1>5 DEF FlowFrame, SetupInv, FlowTypes
<1>7. FlowAtGate(c)' /\ FlowFresh(c)' /\ FlowOrder(c)'
  BY <1>1, <1>3, <1>4, <1>5 DEF FlowInv, FlowAtGate, FlowFresh, FlowOrder
<1>8. FlowTrue(c)'
  BY <1>1, <1>3, <1>4 DEF FlowInv, FlowTrue
<1>9. FlowRemains(c)'
  BY <1>1, <1>3, <1>4 DEF FlowInv, FlowRemains
<1>10. FlowCloses(c)'
  BY <1>1, <1>2, <1>3, <1>4 DEF FlowInv, FlowCloses
<1> QED BY <1>4, <1>6, <1>7, <1>8, <1>9, <1>10 DEF FlowInv

LEMMA CloseKeeps ==
  ASSUME SetupInv, NEW c \in Callers, CloseAfterFailure(c)
  PROVE  FlowTypes' /\ FlowFrame(c) /\ FlowInv(c)'
<1> DEFINE t == task[c]
<1>1. FlowInv(c) /\ t \in Tasks /\ t.at = "closing" /\ UNCHANGED << vars, processed, late >>
  BY DEF SetupInv, FlowTypes, FlowInv, CloseAfterFailure
<1>2. PICK made \in UnsafeCalls : CloseAnswered(c, made)
  BY DEF CloseAfterFailure
<1>3. PICK ok \in BOOLEAN :
        /\ task' = [task EXCEPT ![c] = [t EXCEPT !.at = "done", !.sessionClosed = ok, !.lost = ~ok]]
        /\ ok => Last(made).effect = "now"
  <2>1. Succeeded(Last(made)) \in BOOLEAN
    BY Zenon DEF Succeeded
  <2>2. task' = [task EXCEPT ![c] = [t EXCEPT !.at = "done", !.sessionClosed = Succeeded(Last(made)),
                                             !.lost = ~Succeeded(Last(made))]]
    BY <1>2, Zenon DEF CloseAnswered, SetTask
  <2>3. Succeeded(Last(made)) => Last(made).effect = "now"
    BY OneExchange
  <2> QED BY <2>1, <2>2, <2>3, Zenon
<1>4. /\ session' \in [Handles -> {"none", "open", "closed"}]
      /\ \A h \in Handles : session[h] = "closed" => session'[h] = "closed"
      /\ ok => session'[want[c]] = "closed"
  BY <1>2, <1>3 DEF CloseAnswered, SetupInv, FlowTypes, IInv, TypeOK
<1> DEFINE u == [t EXCEPT !.at = "done", !.sessionClosed = ok, !.lost = ~ok]
<1>5. /\ u \in Tasks /\ u.at = "done" /\ u.kind = t.kind /\ u.applied = t.applied /\ u.unknown = t.unknown
      /\ u.complete <=> t.complete
      /\ u.failed <=> t.failed
      /\ u.mayRemain <=> t.mayRemain
      /\ u.sessionClosed <=> ok
      /\ u.lost <=> ~ok
  BY <1>1 DEF Tasks
<1> HIDE DEF u
<1>6. FlowTypes' /\ task'[c] = u
  BY <1>1, <1>3, <1>4, <1>5 DEF SetupInv, FlowTypes, u
<1>7. UNCHANGED << pc, want >>
  BY <1>1 DEF vars, callerVars
<1>8. FlowFrame(c)
  BY <1>1, <1>3, <1>4, <1>7 DEF FlowFrame, SetupInv, FlowTypes
<1>9. FlowAtGate(c)' /\ FlowFresh(c)' /\ FlowOrder(c)'
  BY <1>1, <1>5, <1>6, <1>7 DEF FlowInv, FlowAtGate, FlowFresh, FlowOrder
<1>10. FlowTrue(c)'
  BY <1>1, <1>5, <1>6 DEF FlowInv, FlowTrue
<1>11. FlowRemains(c)'
  BY <1>1, <1>5, <1>6 DEF FlowInv, FlowRemains
<1>12. FlowCloses(c)'
  BY <1>4, <1>5, <1>6, <1>7 DEF FlowCloses
<1> QED BY <1>6, <1>8, <1>9, <1>10, <1>11, <1>12 DEF FlowInv

-----------------------------------------------------------------------------
LEMMA SetupInitially == SetupInit => SetupInv
<1> SUFFICES ASSUME SetupInit PROVE SetupInv
  OBVIOUS
<1> DEFINE t == Task("none", None, "idle")
<1>1. /\ t \in Tasks /\ t.kind = "none" /\ t.at = "idle" /\ t.applied = {} /\ t.unknown = {}
      /\ ~t.complete /\ ~t.failed /\ ~t.sessionClosed
  BY FreshTask
<1> HIDE DEF t
<1>2. /\ task = [c \in Callers |-> t] /\ processed = [c \in Callers |-> [s \in Steps |-> 0]]
      /\ late = {} /\ session = [h \in Handles |-> IF h \in OpenSessions THEN "open" ELSE "none"]
      /\ Init
  BY DEF SetupInit, t
<1>3. IInv
  BY <1>2, InitInv
<1>4. FlowTypes
  BY <1>1, <1>2 DEF FlowTypes
<1>5. ASSUME NEW c \in Callers PROVE FlowInv(c)
  <2>1. task[c] = t /\ pc[c] = "idle"
    BY <1>2 DEF Init
  <2>2. FlowAtGate(c) /\ FlowFresh(c) /\ FlowOrder(c)
    BY <1>1, <2>1 DEF FlowAtGate, FlowFresh, FlowOrder
  <2>3. FlowTrue(c)
    BY <1>1, <1>2, <2>1 DEF FlowTrue
  <2>4. FlowRemains(c) /\ FlowCloses(c)
    BY <1>1, <2>1 DEF FlowRemains, FlowCloses, MayRemain
  <2> QED BY <2>2, <2>3, <2>4 DEF FlowInv
<1> QED BY <1>3, <1>4, <1>5 DEF SetupInv

\* One step of one caller, and what it leaves to the others.
LEMMA SetupStep == SetupInv /\ [SetupNext]_allVars => SetupInv'
<1> SUFFICES ASSUME SetupInv, [SetupNext]_allVars PROVE SetupInv'
  OBVIOUS
<1>1. IInv'
  BY SetupStepIsGateStep, Inductive DEF SetupInv
<1>2. ASSUME NEW c \in Callers, FlowTypes' /\ FlowFrame(c) /\ FlowInv(c)' PROVE SetupInv'
  <2>1. ASSUME NEW d \in Callers PROVE FlowInv(d)'
    <3>1. CASE d = c
      BY <1>2, <3>1
    <3>2. CASE d # c
      BY <1>2, <3>2, OthersKeep DEF SetupInv
    <3> QED BY <3>1, <3>2
  <2> QED BY <1>1, <1>2, <2>1 DEF SetupInv
<1>3. ASSUME NEW c \in Callers, FlowStep(c) PROVE SetupInv'
  BY <1>2, <1>3, OpenKeeps, ResultKeeps, EnterKeeps, PostKeeps, PostFailsKeeps, VerifyKeeps,
     EndKeeps, ReturnKeeps, CloseKeeps, Zenon DEF FlowStep
<1>4. ASSUME NEW c \in Callers, PassGate(c) \/ CancelFlow(c) PROVE SetupInv'
  BY <1>2, <1>4, GateKeeps
<1>5. ASSUME NEW c \in Callers,
             StartConfigure(c) \/ \E options \in OptionSets : StartApply(c, options) \/ StartOpen(c, options)
      PROVE  SetupInv'
  BY <1>2, <1>5, StartKeeps, Zenon
<1>6. CASE CloseClient \/ UNCHANGED allVars
  <2>1. UNCHANGED << task, processed, late, session, pc, want >>
    BY <1>6 DEF CloseClient, ClientClose, setupVars, callerVars, allVars, vars
  <2>2. FlowTypes'
    BY <2>1 DEF SetupInv, FlowTypes
  <2>3. ASSUME NEW c \in Callers PROVE FlowInv(c)'
    <3>1. FlowAtGate(c)' /\ FlowFresh(c)' /\ FlowOrder(c)'
      BY <2>1 DEF SetupInv, FlowInv, FlowAtGate, FlowFresh, FlowOrder
    <3>2. FlowTrue(c)' /\ FlowRemains(c)' /\ FlowCloses(c)'
      BY <2>1 DEF SetupInv, FlowInv, FlowTrue, FlowRemains, FlowCloses
    <3> QED BY <3>1, <3>2 DEF FlowInv
  <2> QED BY <1>1, <2>2, <2>3 DEF SetupInv
<1> QED BY <1>3, <1>4, <1>5, <1>6, Zenon DEF SetupNext

LEMMA SetupInvariance == SetupSpec => []SetupInv
BY SetupInitially, SetupStep, PTL DEF SetupSpec

\* The types of the flows hold in every run.
THEOREM FlowTypesCorrect == SetupSpec => []SetupTypeOK
<1>1. SetupInv => SetupTypeOK
  BY DEF SetupInv, IInv, FlowTypes, SetupTypeOK
<1> QED BY <1>1, SetupInvariance, PTL

\* The report of a flow is true, for every plan that the compiler accepts: what
\* it calls applied was processed once, what it does not name never was and
\* never will be, and nothing was created without what contains it.
THEOREM ReportIsTrue == SetupSpec => []ReportHonest
<1>1. ASSUME SetupInv, NEW c \in Callers, NEW s \in Steps
      PROVE  /\ s \in task[c].applied => Reached(c, s) = 1
             /\ s \in task[c].unknown => Reached(c, s) <= 1
             /\ s \notin task[c].applied \cup task[c].unknown => Reached(c, s) = 0
             /\ Reached(c, s) > 0 /\ task[c].kind # "configure" =>
                  \A r \in Steps : IsInside(Plan[s], Plan[r]) => r \in task[c].applied
             /\ task[c].at = "done" /\ task[c].failed /\ task[c].kind # "configure" /\ IsCreate(s) =>
                  task[c].mayRemain \/ Reached(c, s) = 0
  <2>1. FlowOrder(c) /\ FlowTrue(c) /\ FlowRemains(c)
    BY <1>1 DEF SetupInv, FlowInv
  <2>2. /\ << c, s >> \in late => Cardinality({<< c, s >>} \cap late) = 1
        /\ << c, s >> \notin late => Cardinality({<< c, s >>} \cap late) = 0
    <3>1. CASE << c, s >> \in late
      <4>1. {<< c, s >>} \cap late = {<< c, s >>}
        BY <3>1
      <4> QED BY <3>1, <4>1, FS_Singleton
    <3>2. CASE << c, s >> \notin late
      <4>1. {<< c, s >>} \cap late = {}
        BY <3>2
      <4> QED BY <3>2, <4>1, FS_EmptySet
    <3> QED BY <3>1, <3>2
  <2>3. s \in task[c].applied => Reached(c, s) = 1
    BY <2>1, <2>2 DEF FlowTrue, Reached
  <2>4. s \in task[c].unknown => Reached(c, s) <= 1
    BY <2>1, <2>2 DEF FlowTrue, Reached
  <2>5. s \notin task[c].applied \cup task[c].unknown => Reached(c, s) = 0
    BY <2>1, <2>2 DEF FlowTrue, Reached
  <2>6. ASSUME Reached(c, s) > 0, task[c].kind # "configure", NEW r \in Steps, IsInside(Plan[s], Plan[r])
        PROVE  r \in task[c].applied
    <3>1. s \in task[c].applied \cup task[c].unknown
      BY <2>5, <2>6
    <3>2. r < s
      BY <2>6, PlanOrder
    <3> QED BY <2>1, <2>6, <3>1, <3>2 DEF FlowOrder
  <2>7. task[c].at = "done" /\ task[c].failed /\ IsCreate(s) => task[c].mayRemain \/ Reached(c, s) = 0
    BY <2>1, <2>5 DEF FlowRemains, MayRemain
  <2> QED BY <2>3, <2>4, <2>5, <2>6, <2>7
<1>2. SetupInv => ReportHonest
  BY <1>1, Zenon DEF ReportHonest
<1> QED BY <1>2, SetupInvariance, PTL

\* OpenSessionWithSetup that fails with an open session leaves none behind, but
\* for the reasons it may have, and never reports a session as closed that is not.
THEOREM FailedOpenIsClosed == SetupSpec => []FailedOpenCloses
<1>1. SetupInv => FailedOpenCloses
  BY DEF SetupInv, FlowInv, FlowCloses, FailedOpenCloses
<1> QED BY <1>1, SetupInvariance, PTL
=============================================================================
