---------------------------- MODULE MCSubmission ----------------------------
EXTENDS Submission, TLC
CONSTANTS c1, c2, c3

MCCallers == {c1, c2, c3}
MCImpatient == {c1, c3}

(* Who calls what, for the versions 2, 3 and 4. *)
Asking ==
  {c1 :> "complete-statement" @@ c2 :> "materialized-table-refresh" @@ c3 :> "check"}
Refreshing ==
  {c1 :> "materialized-table-refresh" @@ c2 :> "deploy-script" @@ c3 :> "check"}
Deploying ==
  {c1 :> "deploy-script" @@ c2 :> "complete-statement" @@ c3 :> "check"}

(* The profiles of Flink 1.20 and of Flink 2.x. *)
Flink120 ==
  [versions |-> 1..3, stable |-> 3,
   features |-> {"complete-statement", "materialized-table-refresh"}]
Flink20 ==
  [versions |-> 1..4, stable |-> 3,
   features |-> {"complete-statement", "materialized-table-refresh", "deploy-script"}]

Config(auto, policy, explicit) == [auto |-> auto, policy |-> policy, explicit |-> explicit]
Gateway(advertised, known) == [advertised |-> advertised, known |-> known]
Environment(p, c, g, t) == [profile |-> p, config |-> c, gateway |-> g, tasks |-> t]

(* Every policy, with gateways that have other versions than the profile,   *)
(* and an explicit version that only the gateway, or only the               *)
(* configuration, can refuse.                                               *)
MCEnvironments ==
  {Environment(Flink20, Config(TRUE, "stable", 1), Gateway({1, 2, 4}, TRUE), Asking),
   Environment(Flink20, Config(FALSE, "highest", 3), Gateway({1, 3, 4}, TRUE), Deploying),
   Environment(Flink20, Config(FALSE, "stable", 3), Gateway({4}, TRUE), Refreshing),
   Environment(Flink120, Config(TRUE, "stable", 3), Gateway({1, 2}, FALSE), Deploying),
   Environment(Flink20, Config(FALSE, "explicit", 3), Gateway({2, 3}, TRUE), Refreshing),
   Environment(Flink20, Config(FALSE, "explicit", 1), Gateway({2, 3}, TRUE), Deploying),
   Environment(Flink120, Config(FALSE, "explicit", 4), Gateway({2, 4}, TRUE), Deploying)}
=============================================================================
