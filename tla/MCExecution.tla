---------------------------- MODULE MCExecution ----------------------------
EXTENDS Execution

(* Two pages of one row; the limit of rows can be met or exceeded, and three *)
(* polls leave room for one NOT_READY answer.                               *)
MCEnds == << 1, 2 >>
MCRowLimits == {1, 2}
MCPollLimits == {3}
=============================================================================
