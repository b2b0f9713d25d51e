-------------------------- MODULE SessionSetupGate --------------------------
(***************************************************************************)
(* The per-session gate that ConfigureSession and ApplySessionSetup pass   *)
(* (session_setup.go acquireSessionSetup, releaseSessionSetupGateRef).     *)
(*                                                                         *)
(* A gate is made on demand, shared by everybody who comes while it is     *)
(* referenced, and dropped from c.setupGates by the last to leave; the     *)
(* next caller makes a new one.  A gate is one object: its token channel   *)
(* and its reference counter.  Gates are never reused, so the model runs   *)
(* out of them: Gates bounds how many are made.                            *)
(***************************************************************************)
EXTENDS Integers, FiniteSets

(* Names that start with Bug are faulty variants of a definition that       *)
(* follows them; no specification uses them.                               *)

CONSTANTS
  Callers,   \* goroutines that configure a session
  Handles,   \* session handles
  Gates,     \* bound: the sessionSetupGate objects that can be allocated
  None

ASSUME CallersAreFinite == IsFiniteSet(Callers)
ASSUME NoneIsNoGate == None \notin Gates

VARIABLES
  clientClosed,  \* c.clientClosed, and c.lifecycleCtx has ended
  setupGates,    \* c.setupGates: the gate of a handle, or None
  used,          \* gates allocated so far
  token,         \* tokens in gate.token, a channel of capacity 1
  refs,          \* gate.refs
  pc,            \* where each caller is
  want,          \* the handle it configures
  gateOf,        \* the gate it holds a reference to, or None
  cancelled      \* callers whose own context has ended

gateVars == << setupGates, used, token, refs >>
callerVars == << pc, want, gateOf, cancelled >>
vars == << clientClosed, gateVars, callerVars >>

Init ==
  /\ clientClosed = FALSE
  /\ setupGates = [h \in Handles |-> None]
  /\ used = {}
  /\ token = [g \in Gates |-> 0]
  /\ refs = [g \in Gates |-> 0]
  /\ pc = [c \in Callers |-> "idle"]
  /\ want \in [Callers -> Handles]
  /\ gateOf = [c \in Callers |-> None]
  /\ cancelled = {}

TypeOK ==
  /\ clientClosed \in BOOLEAN
  /\ setupGates \in [Handles -> Gates \cup {None}]
  /\ used \subseteq Gates
  /\ token \in [Gates -> {0, 1}]
  /\ refs \in [Gates -> Nat]
  /\ pc \in [Callers -> {"idle", "entering", "waiting", "taken", "configuring",
                         "returning", "leaving"}]
  /\ want \in [Callers -> Handles]
  /\ gateOf \in [Callers -> Gates \cup {None}]
  /\ cancelled \subseteq Callers

GoTo(c, step) == pc' = [pc EXCEPT ![c] = step]

(* ConfigureSession or ApplySessionSetup with a live context. *)
Call(c) ==
  /\ pc[c] = "idle"
  /\ GoTo(c, "entering")
  /\ \E h \in Handles : want' = [want EXCEPT ![c] = h]
  /\ cancelled' = cancelled \ {c}
  /\ UNCHANGED << clientClosed, gateVars, gateOf >>

Cancel(c) ==
  /\ pc[c] # "idle"
  /\ cancelled' = cancelled \cup {c}
  /\ UNCHANGED << clientClosed, gateVars, pc, want, gateOf >>

(* ctx.Err() before the lock, or c.clientClosed under it. *)
Refuse(c) ==
  /\ pc[c] = "entering"
  /\ c \in cancelled \/ clientClosed
  /\ GoTo(c, "idle")
  /\ UNCHANGED << clientClosed, gateVars, want, gateOf, cancelled >>

JoinGate(c) ==
  /\ pc[c] = "entering"
  /\ ~clientClosed
  /\ setupGates[want[c]] # None
  /\ refs' = [refs EXCEPT ![setupGates[want[c]]] = @ + 1]
  /\ gateOf' = [gateOf EXCEPT ![c] = setupGates[want[c]]]
  /\ GoTo(c, "waiting")
  /\ UNCHANGED << clientClosed, setupGates, used, token, want, cancelled >>

CreateGate(c) ==
  /\ pc[c] = "entering"
  /\ ~clientClosed
  /\ setupGates[want[c]] = None
  /\ \E g \in Gates \ used :
       /\ used' = used \cup {g}
       /\ setupGates' = [setupGates EXCEPT ![want[c]] = g]
       /\ token' = [token EXCEPT ![g] = 1]
       /\ refs' = [refs EXCEPT ![g] = 1]
       /\ gateOf' = [gateOf EXCEPT ![c] = g]
  /\ GoTo(c, "waiting")
  /\ UNCHANGED << clientClosed, want, cancelled >>

(* The select: any ready branch may be taken. *)
BugTakeAnyway(c) ==
  /\ pc[c] = "waiting"
  /\ token' = [token EXCEPT ![gateOf[c]] = @ - 1]
  /\ GoTo(c, "taken")
  /\ UNCHANGED << clientClosed, setupGates, used, refs, want, gateOf, cancelled >>

TakeToken(c) ==
  /\ pc[c] = "waiting"
  /\ token[gateOf[c]] > 0
  /\ token' = [token EXCEPT ![gateOf[c]] = @ - 1]
  /\ GoTo(c, "taken")
  /\ UNCHANGED << clientClosed, setupGates, used, refs, want, gateOf, cancelled >>

BugGiveUpKeepsReference(c) ==
  /\ pc[c] = "waiting"
  /\ c \in cancelled \/ clientClosed
  /\ GoTo(c, "idle")
  /\ gateOf' = [gateOf EXCEPT ![c] = None]
  /\ UNCHANGED << clientClosed, gateVars, want, cancelled >>

GiveUp(c) ==
  /\ pc[c] = "waiting"
  /\ c \in cancelled \/ clientClosed
  /\ GoTo(c, "leaving")
  /\ UNCHANGED << clientClosed, gateVars, want, gateOf, cancelled >>

(* The context is looked at again once the token is there. *)
BugCheckContextKeepsToken(c) ==
  /\ pc[c] = "taken"
  /\ GoTo(c, IF c \in cancelled THEN "leaving" ELSE "configuring")
  /\ UNCHANGED << clientClosed, gateVars, want, gateOf, cancelled >>

CheckContext(c) ==
  /\ pc[c] = "taken"
  /\ GoTo(c, IF c \in cancelled THEN "returning" ELSE "configuring")
  /\ UNCHANGED << clientClosed, gateVars, want, gateOf, cancelled >>

Configured(c) ==
  /\ pc[c] = "configuring"
  /\ GoTo(c, "returning")
  /\ UNCHANGED << clientClosed, gateVars, want, gateOf, cancelled >>

(* release, first half: the send blocks while the channel is full. *)
ReturnToken(c) ==
  /\ pc[c] = "returning"
  /\ token[gateOf[c]] < 1
  /\ token' = [token EXCEPT ![gateOf[c]] = @ + 1]
  /\ GoTo(c, "leaving")
  /\ UNCHANGED << clientClosed, setupGates, used, refs, want, gateOf, cancelled >>

(* releaseSessionSetupGateRef: the last to leave drops the gate. *)
Leave(c) ==
  /\ pc[c] = "leaving"
  /\ refs' = [refs EXCEPT ![gateOf[c]] = @ - 1]
  /\ setupGates' = IF refs[gateOf[c]] = 1 /\ setupGates[want[c]] = gateOf[c]
                     THEN [setupGates EXCEPT ![want[c]] = None]
                     ELSE setupGates
  /\ gateOf' = [gateOf EXCEPT ![c] = None]
  /\ GoTo(c, "idle")
  /\ UNCHANGED << clientClosed, used, token, want, cancelled >>

(* GatewayClient.Close sets both under c.stateMu. *)
ClientClose ==
  /\ clientClosed' = TRUE
  /\ UNCHANGED << gateVars, callerVars >>

CallerStep(c) ==
  \/ Refuse(c) \/ JoinGate(c) \/ CreateGate(c) \/ GiveUp(c)
  \/ CheckContext(c) \/ Configured(c) \/ ReturnToken(c) \/ Leave(c)

Next ==
  \/ \E c \in Callers : Call(c) \/ Cancel(c) \/ CallerStep(c) \/ TakeToken(c)
  \/ ClientClose

(* The requests of a setup are bounded by RequestTimeout, so a caller goes *)
(* on.  A Go channel serves its blocked receivers in order of arrival, so  *)
(* a waiter is not passed over for ever.                                   *)
Fairness == \A c \in Callers : WF_vars(CallerStep(c)) /\ SF_vars(TakeToken(c))

Spec == Init /\ [][Next]_vars
FairSpec == Spec /\ Fairness

(***************************************************************************)
(* Properties                                                              *)
(***************************************************************************)
HasToken(c) == pc[c] \in {"taken", "configuring", "returning"}
Users(g) == {c \in Callers : gateOf[c] = g}

\* Two flows never configure the same session at once, also when the gate
\* of the session has been dropped and made again in between
\* (session_setup.go sessionSetupGate: ConfigureSession and setup plans of
\* one session do not interleave).
SetupExclusive ==
  \A c, d \in Callers :
    pc[c] = "configuring" /\ pc[d] = "configuring" /\ want[c] = want[d] => c = d

\* A gate is registered exactly as long as somebody refers to it, and the
\* counter tells how many do: no gate is left behind in c.setupGates and
\* none is dropped while a caller waits on it.
GateAccounting ==
  \A g \in used :
    /\ refs[g] = Cardinality(Users(g))
    /\ (\E h \in Handles : setupGates[h] = g) <=> Users(g) # {}

\* Giving the token back never blocks: the channel is empty when the
\* holder sends on it.
ReturnNeverBlocks ==
  \A c \in Callers : pc[c] = "returning" => token[gateOf[c]] = 0

\* Nobody waits at a gate for ever.
WaiterServed ==
  \A c \in Callers : pc[c] = "waiting" ~> pc[c] # "waiting"
=============================================================================
