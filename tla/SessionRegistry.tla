-------------------------- MODULE SessionRegistry --------------------------
(***************************************************************************)
(* What GatewayClient keeps about session handles under stateMu            *)
(* (flinksqlgateway/session.go): the sessions it has opened, the bounded   *)
(* memory of those it has closed, and the CloseSession calls in flight.    *)
(*                                                                         *)
(* Each operator is one critical section, or the part of one that another  *)
(* uses; the modules that extend this one have the goroutines.  A call in  *)
(* flight (sessionCloseCall) is named after its owner.                     *)
(***************************************************************************)
EXTENDS Integers, Sequences, SequencesExt

CONSTANTS
  Handles,       \* session handles
  MaxRemembered, \* maxRememberedClosedSessions
  None

ASSUME SomethingIsRemembered == MaxRemembered \in Nat \ {0}

(* Names that start with Bug are faulty variants of a definition that       *)
(* follows them; no specification uses them.                               *)

VARIABLES
  sessions,     \* the handles in c.sessions
  remembered,   \* c.closed
  closedOrder,  \* c.closedOrder
  closeCalls    \* the owner of c.closeCalls[handle], or None

memory == << remembered, closedOrder >>
registryVars == << sessions, memory, closeCalls >>

RegistryInit(opened) ==
  /\ sessions = opened
  /\ remembered = {}
  /\ closedOrder = << >>
  /\ closeCalls = [h \in Handles |-> None]

RegistryTypeOK(Owners) ==
  /\ sessions \subseteq Handles
  /\ remembered \subseteq Handles
  /\ closedOrder \in Seq(Handles)
  /\ closeCalls \in [Handles -> Owners \cup {None}]

BugForget(h) ==
  /\ remembered' = remembered \ {h}
  /\ UNCHANGED closedOrder

(* forgetClosedSessionLocked *)
Forget(h) ==
  /\ remembered' = remembered \ {h}
  /\ closedOrder' = IF h \in remembered THEN RemoveFirst(closedOrder, h) ELSE closedOrder

(* rememberClosedSessionLocked: the oldest entry makes room. *)
Remember(h) ==
  LET order == IF h \in remembered THEN closedOrder ELSE Append(closedOrder, h)
      full == Len(order) > MaxRemembered
  IN  /\ remembered' = (remembered \cup {h}) \ (IF full THEN {Head(order)} ELSE {})
      /\ closedOrder' = IF full THEN Tail(order) ELSE order

BugRecordSession(h) ==
  /\ sessions' = sessions \cup {h}
  /\ UNCHANGED << memory, closeCalls >>

(* The critical section of OpenSession. *)
RecordSession(h) ==
  /\ sessions' = sessions \cup {h}
  /\ Forget(h)
  /\ UNCHANGED closeCalls

(* The first critical section of CloseSession, when nobody closes h. *)
OwnCloseCall(h, p) ==
  /\ h \notin remembered /\ closeCalls[h] = None
  /\ closeCalls' = [closeCalls EXCEPT ![h] = p]
  /\ UNCHANGED << sessions, memory >>

(* The second one; ok tells whether the session has been closed. *)
SettleCloseCall(h, ok) ==
  /\ closeCalls' = [closeCalls EXCEPT ![h] = None]
  /\ IF ok THEN Remember(h) ELSE UNCHANGED memory
  /\ sessions' = IF ok THEN sessions \ {h} ELSE sessions
=============================================================================
