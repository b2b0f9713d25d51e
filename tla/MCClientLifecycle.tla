------------------------- MODULE MCClientLifecycle -------------------------
(* Three casts: two recipes and a user on two handles, heartbeats on a      *)
(* session that is open, and callbacks around a recipe.                    *)
EXTENDS ClientLifecycle
CONSTANTS f1, d1, r1, r2, u1, u2, s1, h1, h2

MCFlows == {f1}
MCClosers == {Client}
MCDirects == {d1}
MCRunners == {r1, r2}
MCUsers == {u1, u2}
MCSlots == {s1}
MCHandles == {h1, h2}

MCCasts ==
  {[actors |-> {f1, d1, u1}, open |-> {h2}, slots |-> {}],
   [actors |-> {r1, r2, d1, u1}, open |-> {h1}, slots |-> {}],
   [actors |-> {f1, u1, u2}, open |-> {}, slots |-> {s1}]}
=============================================================================
