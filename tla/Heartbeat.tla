----------------------------- MODULE Heartbeat -----------------------------
(***************************************************************************)
(* The heartbeat runners of a client (flinksqlgateway/heartbeat.go): the   *)
(* entries of c.heartbeats, kept under stateMu like the rest of            *)
(* SessionRegistry, and the loop of each runner.  A runner is named after  *)
(* the goroutine whose startHeartbeat makes it.                            *)
(*                                                                         *)
(* This module gives the steps; the modules that extend it have the        *)
(* goroutines that start and stop runners and say when the context of a    *)
(* runner has ended.  A request and what runHeartbeat makes of its answer  *)
(* are one step, as nobody sees what is between; so are the end of a       *)
(* runner and the closing of its channels.  The delay between requests is  *)
(* not counted, and the channel of errors, which nobody in the library     *)
(* reads, is left out.                                                     *)
(***************************************************************************)
EXTENDS SessionRegistry

CONSTANT Runners

ASSUME NoneIsNoRunner == None \notin Runners

VARIABLES
  heartbeats,  \* the runner of each handle in c.heartbeats, or None
  beat,        \* where each runner is
  cancelled    \* runners somebody has cancelled

beatVars == << heartbeats, beat, cancelled >>

HeartbeatInit ==
  /\ heartbeats = [h \in Handles |-> None]
  /\ beat = [r \in Runners |-> "none"]
  /\ cancelled = {}

HeartbeatTypeOK ==
  /\ heartbeats \in [Handles -> Runners \cup {None}]
  /\ beat \in [Runners -> {"none", "waiting", "leaving", "done"}]
  /\ cancelled \subseteq Runners

BeatTo(r, step) == beat' = [beat EXCEPT ![r] = step]
Alive(r) == beat[r] = "waiting"

(* What HeartbeatRunner.Stop waits for; no runner is no wait. *)
Ended(r) == r \in {None} \cup {q \in Runners : beat[q] \in {"none", "done"}}

(* The critical section of startHeartbeat, when nobody is registered. *)
RegisterRunner(h, r) ==
  /\ heartbeats[h] = None
  /\ heartbeats' = [heartbeats EXCEPT ![h] = r]
  /\ BeatTo(r, "waiting")
  /\ UNCHANGED cancelled

(* HeartbeatRunner.Stop up to its wait for done; r may be None. *)
CancelRunner(r) ==
  /\ cancelled' = cancelled \cup ({r} \ {None})
  /\ UNCHANGED << heartbeats, beat >>

(***************************************************************************)
(* runHeartbeat; `ended' tells whether the context of the runner has ended *)
(***************************************************************************)

(* While it waits for the timer or for the answer. *)
BeatCancelled(r, ended) ==
  /\ beat[r] = "waiting" /\ ended
  /\ BeatTo(r, "leaving")
  /\ UNCHANGED << heartbeats, cancelled >>

(* A success, or a failure that does not end the loop. *)
BeatGoesOn(r, ended) ==
  /\ beat[r] = "waiting" /\ ~ended
  /\ UNCHANGED beatVars

(* ErrSessionNotFound or ErrSessionExpired. *)
BeatFindsNoSession(r, ended) ==
  /\ beat[r] = "waiting" /\ ~ended
  /\ BeatTo(r, "leaving")
  /\ UNCHANGED << heartbeats, cancelled >>

(* The deferred function: the entry is deleted if it still is its own. *)
Leave(h, r) ==
  /\ beat[r] = "leaving"
  /\ heartbeats' = [heartbeats EXCEPT ![h] = IF @ = r THEN None ELSE @]
  /\ BeatTo(r, "done")
  /\ UNCHANGED cancelled
=============================================================================
