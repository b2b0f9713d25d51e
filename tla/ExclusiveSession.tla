-------------------------- MODULE ExclusiveSession --------------------------
(***************************************************************************)
(* What SerializedSession promises its users, free of gates, groups and    *)
(* goroutines: the session runs one statement at a time, takes no new one  *)
(* once it is shut, and the server session is deleted only when the last   *)
(* statement is over.                                                      *)
(***************************************************************************)
CONSTANTS Callers, None

VARIABLES
  accepting,  \* new statements may start
  owner,      \* the caller whose statement is in progress, or None
  session     \* the server session: "open" | "closed"

vars == << accepting, owner, session >>

Init ==
  /\ accepting = TRUE
  /\ owner = None
  /\ session = "open"

Start(c) ==
  /\ accepting
  /\ owner = None
  /\ owner' = c
  /\ UNCHANGED << accepting, session >>

Finish ==
  /\ owner # None
  /\ owner' = None
  /\ UNCHANGED << accepting, session >>

Shut ==
  /\ accepting' = FALSE
  /\ UNCHANGED << owner, session >>

Delete ==
  /\ ~accepting
  /\ owner = None
  /\ session' = "closed"
  /\ UNCHANGED << accepting, owner >>

Next ==
  \/ \E c \in Callers : Start(c)
  \/ Finish
  \/ Shut
  \/ Delete

Spec == Init /\ [][Next]_vars
=============================================================================
