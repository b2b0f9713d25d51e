-------------------------- MODULE ServerOperation --------------------------
(***************************************************************************)
(* One operation of the Flink SQL Gateway, as the client in src/ uses it   *)
(* (operation.go): submitted by ExecuteStatement, read by FetchResults,    *)
(* ended by CancelOperation and CloseOperation.  The server is not part of *)
(* the repository.                                                         *)
(*                                                                         *)
(* A request may be answered; it may fail in a way that leaves unknown     *)
(* whether the server processed it (`Lost'); or the client's own context   *)
(* may end while it is in flight, with the same uncertainty (`Aborted').   *)
(***************************************************************************)
VARIABLES
  op,     \* state of the operation on the server
  faulty  \* history: some submit, cancel or close request was lost

serverVars == << op, faulty >>

ServerInit == op = "none" /\ faulty = FALSE

ServerTypeOK ==
  /\ op \in {"none", "running", "failed", "canceled", "closed"}
  /\ faulty \in BOOLEAN

Submitted == op = "none" /\ op' = "running" /\ UNCHANGED faulty

SubmitLost == op = "none" /\ op' \in {"none", "running"} /\ faulty' = TRUE

(* The statement fails by itself; resources stay until the close. *)
OperationFails == op = "running" /\ op' = "failed" /\ UNCHANGED faulty

AfterCancel == IF op = "running" THEN "canceled" ELSE op

CancelAnswered == op' = AfterCancel /\ UNCHANGED faulty
CancelAborted == op' \in {op, AfterCancel} /\ UNCHANGED faulty
CancelLost == op' \in {op, AfterCancel} /\ faulty' = TRUE

CloseAnswered == op' = "closed" /\ UNCHANGED faulty
CloseAborted == op' \in {op, "closed"} /\ UNCHANGED faulty
CloseLost == op' \in {op, "closed"} /\ faulty' = TRUE
=============================================================================
