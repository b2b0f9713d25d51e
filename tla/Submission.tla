----------------------------- MODULE Submission -----------------------------
(***************************************************************************)
(* The operations that need a capability of the gateway                    *)
(* (flinksqlgateway/script.go, materialized_table.go, capability.go and    *)
(* CompleteStatement of session.go): the capability is looked up before    *)
(* the first request if the configuration fixes the version, then the      *)
(* gateway is checked (CompatibilityCheck), then the capability is looked  *)
(* up in what was selected, and only then is the operation requested.      *)
(*                                                                         *)
(* A deployment and a refresh are POSTs that must not be repeated: their   *)
(* caller is told that they were done, that they were not, or that nobody  *)
(* knows.                                                                  *)
(***************************************************************************)
EXTENDS CompatibilityCheck

(* Each caller makes one of these calls. "check" is CheckCompatibility,     *)
(* which needs no capability and asks for nothing more.                     *)
Operations == {"check", "complete-statement", "materialized-table-refresh", "deploy-script"}
Posts == {"materialized-table-refresh", "deploy-script"}

(* An environment has two fields more: the tasks, functions from Callers to *)
(* Operations, that may be tried in it, and the features of its profile.    *)
ASSUME EnvironmentsHaveTasks ==
  \A e \in Environments :
    e.tasks \subseteq [Callers -> Operations] /\ e.profile.features \subseteq Operations

CONSTANT Impatient   \* bound: the callers whose contexts may end

ASSUME ImpatientAreCallers == Impatient \subseteq Callers

VARIABLES
  task,      \* chosen once
  verdict,   \* what the call has returned: "none" | "ok" | "err" | "unsupported" | "unknown"
  sentTo,    \* history: the API version in the URL of the request, or 0
  processed, \* history: how often the gateway has processed it
  late       \* history: requests it will still process

submissionVars == << task, verdict, sentTo, processed, late >>
allVars == << vars, submissionVars >>

SubmissionInit ==
  /\ Init
  /\ \E e \in Environments :
       /\ profile = e.profile /\ config = e.config /\ gateway = e.gateway
       /\ task \in e.tasks
  /\ verdict = [c \in Callers |-> "none"]
  /\ sentTo = [c \in Callers |-> 0]
  /\ processed = [c \in Callers |-> 0]
  /\ late = {}

(***************************************************************************)
(* Capabilities                                                            *)
(***************************************************************************)
(* sqlGatewayProtocolCapabilities: v3 and v4 exclude each other's endpoint. *)
Protocol(v) ==
  CASE v = 2 -> {"complete-statement"}
    [] v = 3 -> {"complete-statement", "materialized-table-refresh"}
    [] v = 4 -> {"complete-statement", "deploy-script"}
    [] OTHER -> {}

(* capabilitiesForProfile *)
Capabilities(v) ==
  IF v \in profile.versions THEN profile.features \cap Protocol(v) ELSE {}

Supported(c, v) == task[c] = "check" \/ task[c] \in Capabilities(v)

BugConfigured == config.policy = "explicit" \/ config.auto

(* configuredCompatibility knows the version without asking. *)
Configured == ~config.auto /\ config.policy = "explicit"

(***************************************************************************)
(* compatibilityForCapability                                              *)
(***************************************************************************)
Ends(c, answer) ==
  /\ verdict[c] = "none"
  /\ verdict' = [verdict EXCEPT ![c] = answer]

NothingSent == UNCHANGED << vars, task, sentTo, processed, late >>

RefusedEarly(c) == Configured /\ task[c] # "check" /\ ~Supported(c, config.explicit)

RefuseEarly(c) ==
  /\ RefusedEarly(c)
  /\ Ends(c, "unsupported")
  /\ NothingSent

Check(c) ==
  /\ ~RefusedEarly(c)
  /\ CallerStep(c)
  /\ UNCHANGED submissionVars

(* CheckAPIVersion has returned an error, and so does the operation. *)
CheckFails(c) ==
  /\ pc[c] = "done" /\ result[c] # "nil"
  /\ Ends(c, IF result[c] = "unsupported" THEN "unsupported" ELSE "err")
  /\ NothingSent

CheckSucceeds(c) ==
  /\ pc[c] = "done" /\ result[c] = "nil" /\ task[c] = "check"
  /\ Ends(c, "ok")
  /\ NothingSent

(* compatibilitySnapshot: what was selected, or the version configured. *)
Version == IF selected # 0 THEN selected ELSE config.explicit

RefuseLate(c) ==
  /\ pc[c] = "done" /\ result[c] = "nil" /\ ~Supported(c, Version)
  /\ Ends(c, "unsupported")
  /\ NothingSent

MayRequest(c) ==
  /\ pc[c] = "done" /\ result[c] = "nil"
  /\ task[c] # "check" /\ Supported(c, Version)

(***************************************************************************)
(* The request                                                             *)
(***************************************************************************)
BugAnswer(x, malformed) == IF Succeeded(x) /\ ~malformed THEN "ok"
                           ELSE IF OutcomeIsUnknown(x) THEN "unknown" ELSE "err"

(* A success without a cluster or an operation to go with it says nothing. *)
Answer(x, malformed) ==
  CASE Succeeded(x) /\ ~malformed -> "ok"
    [] OutcomeIsUnknown(x) \/ (Succeeded(x) /\ malformed) -> "unknown"
    [] OTHER -> "err"

(* The closed client refuses, and an ended context sends nothing. *)
MaySend(c) == ~clientClosed /\ context[c] = "nil"

NotSent(c) ==
  /\ MayRequest(c) /\ ~MaySend(c)
  /\ Ends(c, "err")
  /\ NothingSent

Sent(c) ==
  /\ MayRequest(c) /\ MaySend(c)
  /\ sentTo' = [sentTo EXCEPT ![c] = Version]

(* What a POST may come to: what its caller is told, and what becomes of it *)
(* in the gateway.                                                          *)
PostOutcomes ==
  {[answer |-> Answer(made[Len(made)], malformed),
    now |-> ProcessedNow(made),
    later |-> ProcessedLater(made)] :
     made \in UnsafeCalls, malformed \in BOOLEAN}

(* DeployScript and RefreshMaterializedTable: one POST, never repeated. *)
Post(c) ==
  /\ Sent(c) /\ task[c] \in Posts
  /\ \E o \in PostOutcomes :
       /\ Ends(c, o.answer)
       /\ processed' = [processed EXCEPT ![c] = o.now]
       /\ late' = late \cup {d \in {c} : o.later}
  /\ UNCHANGED << vars, task >>

(* CompleteStatement: a GET, which may be repeated and changes nothing. *)
Get(c) ==
  /\ Sent(c) /\ task[c] \notin Posts
  /\ \E success \in SafeVerdicts : Ends(c, IF success THEN "ok" ELSE "err")
  /\ UNCHANGED << vars, task, processed, late >>

(* The gateway processes a request whose client has given up. *)
ProcessLate(c) ==
  /\ c \in late
  /\ late' = late \ {c}
  /\ processed' = [processed EXCEPT ![c] = @ + 1]
  /\ UNCHANGED << vars, task, verdict, sentTo >>

-----------------------------------------------------------------------------
SubmitStep(c) ==
  \/ RefuseEarly(c) \/ Check(c) \/ CheckFails(c) \/ CheckSucceeds(c) \/ RefuseLate(c)
  \/ NotSent(c) \/ Post(c) \/ Get(c)

Outside ==
  /\ (\E c \in Impatient : ContextEnds(c)) \/ ClientClose
  /\ UNCHANGED submissionVars

SubmissionNext ==
  \/ \E c \in Callers : SubmitStep(c) \/ ProcessLate(c)
  \/ Outside

(* Requests are bounded by RequestTimeout and the runtime runs everybody;   *)
(* nobody is obliged to process a lost request.                             *)
SubmissionFairness == \A c \in Callers : WF_allVars(SubmitStep(c))

SubmissionSpec == SubmissionInit /\ [][SubmissionNext]_allVars
FairSubmissionSpec == SubmissionSpec /\ SubmissionFairness

SubmissionTypeOK ==
  /\ task \in [Callers -> Operations]
  /\ verdict \in [Callers -> {"none", "ok", "err", "unsupported", "unknown"}]
  /\ sentTo \in [Callers -> Nat]
  /\ processed \in [Callers -> Nat]
  /\ late \subseteq Callers

(***************************************************************************)
(* Properties                                                              *)
(***************************************************************************)
Best == IF Compatible THEN CHOOSE v \in Usable : \A w \in Usable : w <= v
        ELSE 0

\* Whether an operation is refused as unsupported depends on the gateway and
\* the configuration alone, not on whether the refusal came before or after
\* the gateway was asked: it is refused only if the version the policy
\* promises does not have it, and a request only ever goes to that version,
\* which the gateway advertises (compatibility.go:369-403, transport.go:176).
PermissionTrue ==
  \A c \in Callers :
    /\ verdict[c] = "unsupported" => Best = 0 \/ ~Supported(c, Best)
    /\ sentTo[c] # 0 => sentTo[c] = Best /\ Supported(c, Best)

\* What a submission is told about its POST is true: "ok" means processed,
\* once; an error means never, now or later; and whatever happens it is not
\* processed twice (script.go:85-106, materialized_table.go:78-99).
SubmissionHonest ==
  \A c \in Callers :
    /\ verdict[c] \in {"none", "err", "unsupported"} => processed[c] = 0 /\ c \notin late
    /\ verdict[c] = "ok" /\ task[c] \in Posts => processed[c] = 1 /\ c \notin late
    /\ processed[c] <= 1 /\ (c \in late => processed[c] = 0)

\* Every call returns, however many owners of a check give up in turn.
CallsReturn ==
  \A c \in Callers : verdict[c] = "none" ~> verdict[c] # "none"
=============================================================================
