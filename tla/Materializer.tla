---------------------------- MODULE Materializer ----------------------------
(***************************************************************************)
(* changelog.Materializer (changelog/materializer.go): a hash map of rows, *)
(* and the insertion order as an array with tombstones, an index into it,  *)
(* and a compaction that rebuilds both.                                    *)
(*                                                                         *)
(* Apply, ApplyUpdate and RollbackPending hold m.mu throughout, so each is *)
(* one step; goroutines interleave whole operations.  A primary key is a   *)
(* member of Keys: rowKey maps equal keys to equal strings and others to   *)
(* others.  The rest of a row is one of Values.                            *)
(***************************************************************************)
EXTENDS Integers, Sequences, FiniteSets, Functions

(* Names that start with Bug are faulty variants of a definition that       *)
(* follows them; no specification uses them.                               *)

CONSTANTS
  Keys, Values,
  MaxRows,        \* m.maxRows
  CompactAbove,   \* removeOrder compacts above this many tombstones (1024)
  Tombstone       \* the empty string, which no rowKey is

ASSUME TombstoneIsNoKey == Tombstone \notin Keys
ASSUME LimitsAreNat == MaxRows \in Nat \ {0} /\ CompactAbove \in Nat

VARIABLES
  rows,        \* m.rows, by key
  order,       \* m.order
  orderIndex,  \* m.orderIndex
  tombstones,  \* m.tombstones
  pending,     \* m.pending
  reply        \* outcome of the last operation

orderVars == << order, orderIndex, tombstones >>
vars == << rows, orderVars, pending, reply >>

Stored == DOMAIN rows

Init ==
  /\ rows = << >>
  /\ order = << >>
  /\ orderIndex = << >>
  /\ tombstones = 0
  /\ pending = {}
  /\ reply = "none"

(* IndexConsistent says what the order holds. *)
TypeOK ==
  /\ Stored \subseteq Keys /\ \A k \in Stored : rows[k] \in Values
  /\ DOMAIN orderIndex = Stored
  /\ tombstones \in Nat
  /\ pending \subseteq Keys
  /\ reply \in {"none", "ok", "duplicate", "maxRows", "notFound", "order", "key", "kind"}

Put(f, k, v) == [x \in DOMAIN f \cup {k} |-> IF x = k THEN v ELSE f[x]]
Drop(f, k) == Restrict(f, DOMAIN f \ {k})

Fail(why) ==
  /\ reply' = why
  /\ UNCHANGED << rows, orderVars, pending >>

(***************************************************************************)
(* Apply, one operator for each row kind                                   *)
(***************************************************************************)
Insert(k, v) ==
  \/ k \in Stored \cup pending /\ Fail("duplicate")
  \/ k \notin Stored \cup pending /\ Cardinality(Stored) >= MaxRows /\ Fail("maxRows")
  \/ /\ k \notin Stored \cup pending /\ Cardinality(Stored) < MaxRows
     /\ rows' = Put(rows, k, v)
     /\ order' = Append(order, k)
     /\ orderIndex' = Put(orderIndex, k, Len(order) + 1)
     /\ reply' = "ok"
     /\ UNCHANGED << tombstones, pending >>

Before(k, v) ==
  \/ k \notin Stored /\ Fail("notFound")
  \/ k \in Stored /\ (k \in pending \/ rows[k] # v) /\ Fail("order")
  \/ /\ k \in Stored /\ k \notin pending /\ rows[k] = v
     /\ pending' = pending \cup {k}
     /\ reply' = "ok"
     /\ UNCHANGED << rows, orderVars >>

After(k, v) ==
  \/ k \notin Stored /\ Fail("notFound")
  \/ k \in Stored /\ k \notin pending /\ Fail("order")
  \/ /\ k \in Stored /\ k \in pending
     /\ rows' = Put(rows, k, v)
     /\ pending' = pending \ {k}
     /\ reply' = "ok"
     /\ UNCHANGED orderVars

(* The entries that are in S, in their order: the loop of Snapshot and of   *)
(* compactOrderLocked.                                                     *)
Kept(entries, S) ==
  LET kept[n \in 0..Len(entries)] ==
        IF n = 0 THEN << >>
        ELSE IF entries[n] \in S THEN Append(kept[n - 1], entries[n])
        ELSE kept[n - 1]
  IN  kept[Len(entries)]

(* compactOrderLocked on the array `entries': the live keys close ranks. *)
Compacted(entries) == Kept(entries, Range(entries) \ {Tombstone})

BugReindexedByOldOrder(index, entries) == index

Reindexed(index, entries) ==
  [k \in DOMAIN index |-> CHOOSE i \in DOMAIN entries : entries[i] = k]

BugRemoveOrderKeepsCount(k) ==
  LET entries == [order EXCEPT ![orderIndex[k]] = Tombstone]
      index == Drop(orderIndex, k)
      compact == tombstones + 1 > CompactAbove /\ (tombstones + 1) * 2 > Len(entries)
  IN  /\ order' = IF compact THEN Compacted(entries) ELSE entries
      /\ orderIndex' = IF compact THEN Reindexed(index, Compacted(entries)) ELSE index
      /\ tombstones' = tombstones + 1

BugRemoveOrderNeverCompacts(k) ==
  /\ order' = [order EXCEPT ![orderIndex[k]] = Tombstone]
  /\ orderIndex' = Drop(orderIndex, k)
  /\ tombstones' = tombstones + 1

RemoveOrder(k) ==
  LET entries == [order EXCEPT ![orderIndex[k]] = Tombstone]
      index == Drop(orderIndex, k)
      compact == tombstones + 1 > CompactAbove /\ (tombstones + 1) * 2 > Len(entries)
  IN  /\ order' = IF compact THEN Compacted(entries) ELSE entries
      /\ orderIndex' = IF compact THEN Reindexed(index, Compacted(entries)) ELSE index
      /\ tombstones' = IF compact THEN 0 ELSE tombstones + 1

BugDeleteIgnoresPending(k) ==
  \/ k \notin Stored /\ Fail("notFound")
  \/ /\ k \in Stored
     /\ rows' = Drop(rows, k)
     /\ RemoveOrder(k)
     /\ reply' = "ok"
     /\ UNCHANGED pending

Delete(k) ==
  \/ k \notin Stored /\ Fail("notFound")
  \/ k \in Stored /\ k \in pending /\ Fail("order")
  \/ /\ k \in Stored /\ k \notin pending
     /\ rows' = Drop(rows, k)
     /\ RemoveOrder(k)
     /\ reply' = "ok"
     /\ UNCHANGED pending

(***************************************************************************)
(* ApplyUpdate and RollbackPending                                         *)
(***************************************************************************)
ApplyUpdate(k, old, new) ==
  \/ k \notin Stored /\ Fail("notFound")
  \/ k \in Stored /\ (k \in pending \/ rows[k] # old) /\ Fail("order")
  \/ /\ k \in Stored /\ k \notin pending /\ rows[k] = old
     /\ rows' = Put(rows, k, new)
     /\ reply' = "ok"
     /\ UNCHANGED << orderVars, pending >>

RollbackPending ==
  /\ pending' = {}
  /\ reply' = "ok"
  /\ UNCHANGED << rows, orderVars >>

(* No usable primary key, an unknown row kind, or an ApplyUpdate whose rows *)
(* are of the wrong kinds or of different keys.                             *)
Malformed == \E why \in {"key", "kind", "order"} : Fail(why)

Next ==
  \/ \E k \in Keys, v \in Values : Insert(k, v) \/ Before(k, v) \/ After(k, v)
  \/ \E k \in Keys : Delete(k)
  \/ \E k \in Keys, old, new \in Values : ApplyUpdate(k, old, new)
  \/ RollbackPending
  \/ Malformed

Spec == Init /\ [][Next]_vars

(***************************************************************************)
(* Snapshot, and the properties                                            *)
(***************************************************************************)
Snapshot ==
  LET live == Kept(order, Stored)
  IN  [i \in DOMAIN live |-> [key |-> live[i], value |-> rows[live[i]]]]

\* The index, the order and the map describe the same rows, through every
\* deletion and compaction: a stale index would let a later DELETE blot out
\* another row's place (materializer.go removeOrder, compactOrderLocked).
IndexConsistent ==
  /\ \A k \in Stored : order[orderIndex[k]] = k
  /\ \A i \in DOMAIN order : order[i] # Tombstone => order[i] \in Stored /\ orderIndex[order[i]] = i
  /\ tombstones = Cardinality({i \in DOMAIN order : order[i] = Tombstone})

\* Memory: rows stay within MaxRows, and the order array stays within twice
\* the rows or the compaction threshold, however long the changelog runs.
OrderBounded ==
  /\ Cardinality(Stored) <= MaxRows
  /\ \/ Len(order) <= Cardinality(Stored) + CompactAbove
     \/ Len(order) <= 2 * Cardinality(Stored)

\* A pending update always has its row: otherwise its UPDATE_AFTER would be
\* refused, and so would any INSERT of the key until RollbackPending.
PendingPresent == pending \subseteq Stored

\* The Materializer implements the table of its documentation.
Table == INSTANCE ChangelogTable WITH table <- Snapshot
ImplementsTable == Table!Spec
=============================================================================
