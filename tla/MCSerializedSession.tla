------------------------ MODULE MCSerializedSession ------------------------
(* Two callers, each an Execute or a Stream, against two closers. *)
EXTENDS SerializedSession
CONSTANTS c1, c2, k1, k2

MCCallers == {c1, c2}
MCClosers == {k1, k2}
=============================================================================
