-------------------------- MODULE SessionSetupPlan --------------------------
(***************************************************************************)
(* compileSessionSetupPlan (flinksqlgateway/session_setup_compile.go): the *)
(* objects that a plan declares, in the order in which they are created.   *)
(*                                                                         *)
(* A plan is a record of sequences: catalogs (name, and whether they have  *)
(* options), databases and tables (target, and for a table whether it is   *)
(* to be verified), and the current catalog and database.  A target is the *)
(* path of names from the catalog down; NoName is the empty string, which  *)
(* stands for every name that is not a valid identifier.                   *)
(***************************************************************************)
EXTENDS Naturals, Sequences, Functions

CONSTANT NoName

Objects(depth) ==
  Seq([target : [1..depth -> STRING], verify : BOOLEAN, hasOptions : BOOLEAN])

(* SessionSetupPlan: the declarations of a kind all have paths of one depth. *)
Plans ==
  [catalogs : Objects(1), databases : Objects(2), tables : Objects(3),
   currentCatalog : STRING, currentDatabase : STRING]

Step(kind, target, verify) == [kind |-> kind, target |-> target, verify |-> verify]

CreateSteps(kind, objects) ==
  [i \in DOMAIN objects |-> Step(kind, objects[i].target, objects[i].verify)]

UseSteps(plan) ==
  IF plan.currentCatalog = NoName THEN << >>
  ELSE << Step("USE_CATALOG", << plan.currentCatalog >>, FALSE) >>
       \o IF plan.currentDatabase = NoName THEN << >>
          ELSE << Step("USE_DATABASE", << plan.currentCatalog, plan.currentDatabase >>, FALSE) >>

(* The order is fixed, whatever the order in which the caller declares.    *)
Compile(plan) ==
  CreateSteps("CATALOG", plan.catalogs) \o CreateSteps("DATABASE", plan.databases)
  \o CreateSteps("TABLE", plan.tables) \o UseSteps(plan)

Duplicates(objects) == ~IsInjective([i \in DOMAIN objects |-> objects[i].target])

Misnamed(object) == \E i \in DOMAIN object.target : object.target[i] = NoName

(* What the compiler refuses before anything is requested. *)
Rejected(plan) ==
  \/ Compile(plan) = << >>
  \/ plan.currentDatabase # NoName /\ plan.currentCatalog = NoName
  \/ \E objects \in {plan.catalogs, plan.databases, plan.tables} :
       Duplicates(objects) \/ \E i \in DOMAIN objects : Misnamed(objects[i])
  \/ \E i \in DOMAIN plan.catalogs : ~plan.catalogs[i].hasOptions

IsCreateKind(step) == step.kind \in {"CATALOG", "DATABASE", "TABLE"}

(* Whether a step is about an object inside the one that another creates. *)
IsInside(inner, outer) ==
  /\ IsCreateKind(outer)
  /\ Len(outer.target) < Len(inner.target)
  /\ SubSeq(inner.target, 1, Len(outer.target)) = outer.target
=============================================================================
