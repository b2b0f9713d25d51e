--------------------------- MODULE ChangelogTable ---------------------------
(***************************************************************************)
(* What the changelog Materializer promises: a table keyed by the primary  *)
(* key, kept in insertion order, that changes by well-formed changelog     *)
(* rows only.  `table' is what Snapshot returns.                           *)
(***************************************************************************)
EXTENDS Integers, Sequences

CONSTANTS Keys, Values, MaxRows

VARIABLES
  table,    \* rows in insertion order
  pending,  \* keys between UPDATE_BEFORE and UPDATE_AFTER
  reply     \* outcome of the last operation

vars == << table, pending, reply >>

Row(k, v) == [key |-> k, value |-> v]
Stored == {table[i].key : i \in DOMAIN table}
Holds(k, v) == \E i \in DOMAIN table : table[i] = Row(k, v)
Replaced(k, v) == [i \in DOMAIN table |-> IF table[i].key = k THEN Row(k, v) ELSE table[i]]
Without(i) == [j \in 1..(Len(table) - 1) |-> IF j < i THEN table[j] ELSE table[j + 1]]

Init ==
  /\ table = << >>
  /\ pending = {}
  /\ reply = "none"

Fail(why) == reply' = why /\ UNCHANGED << table, pending >>

Insert(k, v) ==
  \/ k \in Stored /\ Fail("duplicate")
  \/ k \notin Stored /\ Len(table) >= MaxRows /\ Fail("maxRows")
  \/ /\ k \notin Stored /\ Len(table) < MaxRows
     /\ table' = Append(table, Row(k, v))
     /\ reply' = "ok"
     /\ UNCHANGED pending

Before(k, v) ==
  \/ k \notin Stored /\ Fail("notFound")
  \/ k \in Stored /\ (k \in pending \/ ~Holds(k, v)) /\ Fail("order")
  \/ /\ Holds(k, v) /\ k \notin pending
     /\ pending' = pending \cup {k}
     /\ reply' = "ok"
     /\ UNCHANGED table

After(k, v) ==
  \/ k \notin Stored /\ Fail("notFound")
  \/ k \in Stored /\ k \notin pending /\ Fail("order")
  \/ /\ k \in Stored /\ k \in pending
     /\ table' = Replaced(k, v)
     /\ pending' = pending \ {k}
     /\ reply' = "ok"

Delete(k) ==
  \/ k \notin Stored /\ Fail("notFound")
  \/ k \in Stored /\ k \in pending /\ Fail("order")
  \/ /\ k \in Stored /\ k \notin pending
     /\ \E i \in DOMAIN table : table[i].key = k /\ table' = Without(i)
     /\ reply' = "ok"
     /\ UNCHANGED pending

Update(k, old, new) ==
  \/ k \notin Stored /\ Fail("notFound")
  \/ k \in Stored /\ (k \in pending \/ ~Holds(k, old)) /\ Fail("order")
  \/ /\ Holds(k, old) /\ k \notin pending
     /\ table' = Replaced(k, new)
     /\ reply' = "ok"
     /\ UNCHANGED pending

Rollback ==
  /\ pending' = {}
  /\ reply' = "ok"
  /\ UNCHANGED table

Malformed == \E why \in {"key", "kind", "order"} : Fail(why)

Next ==
  \/ \E k \in Keys, v \in Values : Insert(k, v) \/ Before(k, v) \/ After(k, v)
  \/ \E k \in Keys : Delete(k)
  \/ \E k \in Keys, old, new \in Values : Update(k, old, new)
  \/ Rollback
  \/ Malformed

Spec == Init /\ [][Next]_vars
=============================================================================
