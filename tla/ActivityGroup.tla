--------------------------- MODULE ActivityGroup ---------------------------
(***************************************************************************)
(* activityGroup (flinksqlgateway/activity.go): the counter of running     *)
(* executions and streams that every Close waits on.                       *)
(*                                                                         *)
(* The group is a passive object behind one mutex, so each method is one   *)
(* atomic step; this module gives the methods, and the modules that extend *)
(* it give the goroutines that call them.                                  *)
(*                                                                         *)
(* `idle' is a Go channel that the group REPLACES whenever it leaves the   *)
(* idle state.  Channels are numbered in the order of their creation:      *)
(* `idle' is the number of the current one and `shut' the set of those     *)
(* that have been closed.  A waiter keeps the number it read.              *)
(***************************************************************************)
EXTENDS Integers, FiniteSets

VARIABLES
  closed,   \* g.closed
  active,   \* g.active
  idle,     \* the channel g.idle points to
  shut,     \* the channels close() has been called on
  streams   \* g.streams

groupVars == << closed, active, idle, shut, streams >>

(***************************************************************************)
(* Names that start with Bug are faulty variants of the definition that    *)
(* follows them. No specification uses them: a run in which one replaces   *)
(* its definition has to report a violation.                               *)
(***************************************************************************)

(* newActivityGroup: no activity, and an idle channel that is already closed. *)
GroupInit ==
  /\ closed = FALSE
  /\ active = 0
  /\ idle = 0
  /\ shut = {0}
  /\ streams = {}

GroupTypeOK(Streams) ==
  /\ closed \in BOOLEAN
  /\ active \in Nat
  /\ idle \in Nat
  /\ shut \subseteq Nat
  /\ streams \subseteq Streams

BugBeginWhenClosed ==
  /\ idle' = IF active = 0 THEN idle + 1 ELSE idle
  /\ active' = active + 1
  /\ UNCHANGED << closed, shut, streams >>

(* begin() that registers an activity. The first one makes a fresh channel. *)
Begin ==
  /\ ~closed
  /\ idle' = IF active = 0 THEN idle + 1 ELSE idle
  /\ active' = active + 1
  /\ UNCHANGED << closed, shut, streams >>

(* begin() and registerStream() fail with closedErr. *)
Refuse ==
  /\ closed
  /\ UNCHANGED groupVars

(* end(): a no-op at zero; the last activity closes the current channel. *)
End ==
  /\ active' = IF active = 0 THEN 0 ELSE active - 1
  /\ shut' = IF active = 1 THEN shut \cup {idle} ELSE shut
  /\ UNCHANGED << closed, idle, streams >>

BugRegisterWhenClosed(s) ==
  /\ streams' = streams \cup {s}
  /\ UNCHANGED << closed, active, idle, shut >>

RegisterStream(s) ==
  /\ ~closed
  /\ streams' = streams \cup {s}
  /\ UNCHANGED << closed, active, idle, shut >>

UnregisterStream(s) ==
  /\ streams' = streams \ {s}
  /\ UNCHANGED << closed, active, idle, shut >>

(* stop(): refuse new activities. The snapshot it returns is `streams'. *)
Stop ==
  /\ closed' = TRUE
  /\ UNCHANGED << active, idle, shut, streams >>

(* wait() has been woken: the channel it captured is closed. *)
Released(ch) == ch \in shut
=============================================================================
