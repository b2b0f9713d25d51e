--------------------------- MODULE MCSessionSetup ---------------------------
EXTENDS SessionSetup
CONSTANTS c1, c2, h1, h2, g1, g2

MCCallers == {c1, c2}
MCHandles == {h1, h2}
MCGates == {g1, g2}

(* A catalog, a table in it that is to be verified, and a USE CATALOG. *)
Object(target, verify) == [target |-> target, verify |-> verify, hasOptions |-> TRUE]

MCSetupPlan ==
  [catalogs |-> << Object(<< "c" >>, FALSE) >>,
   databases |-> << >>,
   tables |-> << Object(<< "c", "d", "t" >>, TRUE) >>,
   currentCatalog |-> "c", currentDatabase |-> ""]

(* Small plans, to compare the compiler with what it promises: a plan is    *)
(* refused, or every object of it becomes one step, after the steps of      *)
(* those that contain it.                                                   *)
UpTo(n, objects) == UNION {[1..k -> objects] : k \in 0..n}

SmallPlans ==
  [catalogs : UpTo(2, {[target |-> << n >>, verify |-> FALSE, hasOptions |-> o] :
                         n \in {"c", "e"}, o \in BOOLEAN}),
   databases : UpTo(2, {Object(<< n, "d" >>, FALSE) : n \in {"c", "e", ""}}),
   tables : UpTo(1, {Object(<< n, "d", "t" >>, TRUE) : n \in {"c", "e"}}),
   currentCatalog : {"", "c"}, currentDatabase : {"", "d"}]

Declared(plan) ==
  {<< kind, object.target >> : kind \in {"CATALOG"}, object \in ToSet(plan.catalogs)}
  \cup {<< kind, object.target >> : kind \in {"DATABASE"}, object \in ToSet(plan.databases)}
  \cup {<< kind, object.target >> : kind \in {"TABLE"}, object \in ToSet(plan.tables)}

ASSUME CompilerKeepsItsPromise ==
  \A plan \in SmallPlans :
    LET steps == Compile(plan)
        created == SelectSeq(steps, IsCreateKind)
    IN  Rejected(plan) \/
          /\ Len(created) = Cardinality(Declared(plan))
          /\ {<< s.kind, s.target >> : s \in ToSet(created)} = Declared(plan)
          /\ \A i, j \in DOMAIN steps : IsInside(steps[j], steps[i]) => i < j
          /\ \A i, j \in DOMAIN steps : ~IsCreateKind(steps[i]) /\ IsCreateKind(steps[j]) => j < i

(* Verification of what is marked, or of everything that is created. *)
MCOptionSets ==
  {[metadata |-> FALSE, schema |-> FALSE, keep |-> FALSE],
   [metadata |-> TRUE,  schema |-> TRUE,  keep |-> TRUE]}
=============================================================================
