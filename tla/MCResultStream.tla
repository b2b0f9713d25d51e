--------------------------- MODULE MCResultStream ---------------------------
(* Two pages with a row each.  MaxRows may be one too few or just enough,  *)
(* and three polls are enough unless two answers are NOT_READY.            *)
EXTENDS ResultStream, TLC
CONSTANTS u1

MCUsers == {u1}
MCEnds == << 1, 2 >>
MCRowLimits == {1, 2}
MCPollLimits == {3}
=============================================================================
