----------------------------- MODULE ResultPages -----------------------------
(***************************************************************************)
(* The result of one statement, as the Flink SQL Gateway has it for the    *)
(* client (result_stream.go, result.go): pages of rows, the last of which  *)
(* is the EOS page, and the limits the client sets itself.  A row is named *)
(* after its position.  The server is not part of the repository.          *)
(***************************************************************************)
EXTENDS Integers, Sequences, SequencesExt

CONSTANTS
  Ends,       \* how many rows the server has sent after each page
  RowLimits,  \* values of MaxRows to consider
  PollLimits  \* values of MaxPolls to consider

ASSUME PagesAreOrdered ==
  /\ Ends \in Seq(Nat) /\ Ends # << >>
  /\ \A i, j \in DOMAIN Ends : i <= j => Ends[i] <= Ends[j]
ASSUME LimitsAreNumbers == RowLimits \subseteq Nat /\ PollLimits \subseteq Nat

LastPage == Len(Ends)

(* The rows before page i, and those of page i. *)
Before(i) == IF i = 1 THEN 0 ELSE Ends[i - 1]
Page(i) == [j \in 1..(Ends[i] - Before(i)) |-> Before(i) + j]

Rows == [i \in 1..Ends[LastPage] |-> i]
=============================================================================
