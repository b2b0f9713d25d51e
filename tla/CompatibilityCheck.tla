------------------------- MODULE CompatibilityCheck -------------------------
(***************************************************************************)
(* CheckAPIVersion (flinksqlgateway/client.go), which every operation      *)
(* calls first: the gateway is asked once what it is and which REST        *)
(* versions it has (compatibility.go resolveCompatibility), callers that   *)
(* come meanwhile share the answer, and the verdict is remembered unless   *)
(* it only says that the gateway could not be asked.                       *)
(*                                                                         *)
(* The gateway does not change, and each caller calls once, so that a call *)
(* in flight (compatibilityCheckCall) is named by its owner.  API versions *)
(* are numbers, which is how the code orders them.                         *)
(***************************************************************************)
EXTENDS ApiRequest

(* Names that start with Bug are faulty variants of a definition that       *)
(* follows them; no specification uses them.                               *)

CONSTANTS
  Callers,   \* goroutines that call CheckAPIVersion
  Environments, \* records of a release profile (the versions it has and the stable
             \*   one), a configuration (auto, policy and explicit version) and a
             \*   gateway (the versions it advertises, and known: whether /info
             \*   names a release line that has a profile)
  None

ASSUME NoneIsNoCaller == None \notin Callers
(* The registry of profiles has v1 to v4 (compatibility.go:143-174), and    *)
(* NewGatewayClient refuses any other policy (config.go:220).              *)
ASSUME EnvironmentsAreValid ==
  \A e \in Environments :
    /\ e.profile.versions \subseteq 1..4 /\ e.profile.stable \in e.profile.versions
    /\ e.config.policy \in {"stable", "highest", "explicit"}
    /\ e.config.auto \in BOOLEAN /\ e.gateway.known \in BOOLEAN

VARIABLES
  profile, config, gateway, \* the environment, chosen once
  clientClosed,             \* c.clientClosed, and c.lifecycleCtx has ended
  versionChecked,
  versionErr,
  selected,                 \* c.compatibility.APIVersion, 0 while there is none
  versionCall,              \* the owner of the call in flight, or None
  callDone, callErr, callRetry, \* the fields of the calls, by their owners
  pc,                       \* where each caller is
  joined,                   \* the call it waits for
  outcome,                  \* what resolveCompatibility returned to it: error and version
  context,                  \* ctx.Err() of each caller
  result                    \* what CheckAPIVersion returned to it

envVars == << profile, config, gateway >>
cacheVars == << versionChecked, versionErr, selected >>
callVars == << versionCall, callDone, callErr, callRetry >>
callerVars == << pc, joined, outcome, result >>
vars == << envVars, clientClosed, cacheVars, callVars, callerVars, context >>

Errors == {"nil", "canceled", "deadline", "server", "clientClosed", "unsupported"}

Outcome(err, version) == [err |-> err, version |-> version]

Init ==
  /\ \E e \in Environments :
       profile = e.profile /\ config = e.config /\ gateway = e.gateway
  /\ clientClosed = FALSE
  /\ versionChecked = FALSE /\ versionErr = "nil" /\ selected = 0
  /\ versionCall = None
  /\ callDone = [c \in Callers |-> FALSE]
  /\ callErr = [c \in Callers |-> "nil"]
  /\ callRetry = [c \in Callers |-> FALSE]
  /\ pc = [c \in Callers |-> "check"]
  /\ joined = [c \in Callers |-> None]
  /\ outcome = [c \in Callers |-> Outcome("nil", 0)]
  /\ context = [c \in Callers |-> "nil"]
  /\ result = [c \in Callers |-> "none"]

GoTo(c, step) == pc' = [pc EXCEPT ![c] = step]

Returns(c, err) ==
  /\ GoTo(c, "done")
  /\ result' = [result EXCEPT ![c] = err]

(***************************************************************************)
(* selectAPIVersion                                                        *)
(***************************************************************************)
(* The set of the slice `common'. *)
Common == profile.versions \cap gateway.advertised

(* What a scan of the sorted slice from its end finds first. *)
Highest(versions) ==
  IF versions = {} THEN Outcome("unsupported", 0)
  ELSE Outcome("nil", CHOOSE v \in versions : \A w \in versions : w <= v)

BugSelectAPIVersion ==
  IF config.policy = "explicit" THEN Outcome("nil", config.explicit)
  ELSE Highest({v \in Common : config.policy = "highest" \/ v < profile.stable})

SelectAPIVersion ==
  IF config.policy = "explicit"
    THEN IF config.explicit \in Common
           THEN Outcome("nil", config.explicit)
           ELSE Outcome("unsupported", 0)
    ELSE Highest({v \in Common : config.policy = "highest" \/ v <= profile.stable})

(***************************************************************************)
(* CheckAPIVersion                                                         *)
(***************************************************************************)
(* configuredCompatibility: the configuration contradicts itself. *)
ConfigRejected ==
  /\ ~config.auto
  /\ config.policy = "explicit"
  /\ config.explicit \notin profile.versions

Reject(c) ==
  /\ pc[c] = "check"
  /\ ConfigRejected
  /\ versionChecked' = TRUE
  /\ versionErr' = IF versionChecked THEN versionErr ELSE "unsupported"
  /\ Returns(c, versionErr')
  /\ UNCHANGED << envVars, clientClosed, selected, callVars, joined, outcome, context >>

Cached(c) ==
  /\ pc[c] = "check"
  /\ ~ConfigRejected
  /\ versionChecked
  /\ Returns(c, versionErr)
  /\ UNCHANGED << envVars, clientClosed, cacheVars, callVars, joined, outcome, context >>

Join(c) ==
  /\ pc[c] = "check"
  /\ ~ConfigRejected
  /\ ~versionChecked
  /\ versionCall # None
  /\ joined' = [joined EXCEPT ![c] = versionCall]
  /\ GoTo(c, "waiting")
  /\ UNCHANGED << envVars, clientClosed, cacheVars, callVars, outcome, result, context >>

BugOwn(c) ==
  /\ pc[c] = "check"
  /\ ~ConfigRejected
  /\ ~versionChecked
  /\ GoTo(c, IF config.auto THEN "info" ELSE "versions")
  /\ UNCHANGED << envVars, clientClosed, cacheVars, callVars, joined, outcome, result, context >>

Own(c) ==
  /\ pc[c] = "check"
  /\ ~ConfigRejected
  /\ ~versionChecked
  /\ versionCall = None
  /\ versionCall' = c
  /\ GoTo(c, IF config.auto THEN "info" ELSE "versions")
  /\ UNCHANGED << envVars, clientClosed, cacheVars, callDone, callErr, callRetry, joined,
                  outcome, result, context >>

WaitCancelled(c) ==
  /\ pc[c] = "waiting"
  /\ context[c] # "nil"
  /\ Returns(c, context[c])
  /\ UNCHANGED << envVars, clientClosed, cacheVars, callVars, joined, outcome, context >>

BugWaitReturns(c) ==
  /\ pc[c] = "waiting"
  /\ callDone[joined[c]]
  /\ Returns(c, callErr[joined[c]])
  /\ UNCHANGED << envVars, clientClosed, cacheVars, callVars, joined, outcome, context >>

WaitReturns(c) ==
  /\ pc[c] = "waiting"
  /\ callDone[joined[c]]
  /\ IF callRetry[joined[c]]
       THEN GoTo(c, "check") /\ UNCHANGED result
       ELSE Returns(c, callErr[joined[c]])
  /\ UNCHANGED << envVars, clientClosed, cacheVars, callVars, joined, outcome, context >>

Resolved(c, o) ==
  /\ outcome' = [outcome EXCEPT ![c] = o]
  /\ GoTo(c, "settle")

(* An answer to a GET, and one that is an error. *)
Answered == ~clientClosed /\ TRUE \in SafeVerdicts
Refused == ~clientClosed /\ FALSE \in SafeVerdicts

(* A GET that fails: refused or cut off by the closed client, ended by its *)
(* owner's context, out of time, or answered with an error.  /info and     *)
(* /api_versions report it as ErrCompatibilityDetection.                   *)
GetFails(c) ==
  \/ clientClosed /\ Resolved(c, Outcome("clientClosed", 0))
  \/ clientClosed /\ Resolved(c, Outcome("canceled", 0))
  \/ context[c] # "nil" /\ Resolved(c, Outcome(context[c], 0))
  \/ Resolved(c, Outcome("deadline", 0))
  \/ Refused /\ Resolved(c, Outcome("server", 0))

GetInfo(c) ==
  /\ pc[c] = "info"
  /\ \/ Answered /\ gateway.known /\ GoTo(c, "versions") /\ UNCHANGED outcome
     \/ Answered /\ ~gateway.known /\ Resolved(c, Outcome("unsupported", 0))
     \/ GetFails(c)
  /\ UNCHANGED << envVars, clientClosed, cacheVars, callVars, joined, result, context >>

GetAPIVersions(c) ==
  /\ pc[c] = "versions"
  /\ \/ Answered /\ Resolved(c, SelectAPIVersion)
     \/ GetFails(c)
  /\ UNCHANGED << envVars, clientClosed, cacheVars, callVars, joined, result, context >>

(* Only what does not depend on the request that was made is remembered. *)
BugSettle(c) ==
  /\ pc[c] = "settle"
  /\ versionChecked' = (versionChecked \/ outcome[c].err \in {"nil", "unsupported"})
  /\ versionErr' = IF outcome[c].err = "unsupported" THEN "unsupported" ELSE versionErr
  /\ selected' = IF outcome[c].err = "nil" THEN outcome[c].version ELSE selected
  /\ callErr' = [callErr EXCEPT ![c] = outcome[c].err]
  /\ versionCall' = None
  /\ Returns(c, outcome[c].err)
  /\ UNCHANGED << envVars, clientClosed, callDone, callRetry, joined, outcome, context >>

Settle(c) ==
  /\ pc[c] = "settle"
  /\ versionChecked' = (versionChecked \/ outcome[c].err \in {"nil", "unsupported"})
  /\ versionErr' = IF outcome[c].err = "unsupported" THEN "unsupported" ELSE versionErr
  /\ selected' = IF outcome[c].err = "nil" THEN outcome[c].version ELSE selected
  /\ callErr' = [callErr EXCEPT ![c] = outcome[c].err]
  /\ callRetry' = [callRetry EXCEPT ![c] = context[c] # "nil" /\ outcome[c].err = context[c]]
  /\ callDone' = [callDone EXCEPT ![c] = TRUE]
  /\ versionCall' = None
  /\ Returns(c, outcome[c].err)
  /\ UNCHANGED << envVars, clientClosed, joined, outcome, context >>

ContextEnds(c) ==
  /\ pc[c] # "done"
  /\ context[c] = "nil"
  /\ \E err \in {"canceled", "deadline"} : context' = [context EXCEPT ![c] = err]
  /\ UNCHANGED << envVars, clientClosed, cacheVars, callVars, callerVars >>

ClientClose ==
  /\ ~clientClosed
  /\ clientClosed' = TRUE
  /\ UNCHANGED << envVars, cacheVars, callVars, callerVars, context >>

-----------------------------------------------------------------------------
CallerStep(c) ==
  \/ Reject(c) \/ Cached(c) \/ Join(c) \/ Own(c) \/ WaitCancelled(c) \/ WaitReturns(c)
  \/ GetInfo(c) \/ GetAPIVersions(c) \/ Settle(c)

Next ==
  \/ \E c \in Callers : CallerStep(c) \/ ContextEnds(c)
  \/ ClientClose

Spec == Init /\ [][Next]_vars

(* VerdictTrue says which version is selected. *)
TypeOK ==
  /\ \E e \in Environments : profile = e.profile /\ config = e.config /\ gateway = e.gateway
  /\ {clientClosed, versionChecked} \subseteq BOOLEAN
  /\ versionErr \in {"nil", "unsupported"}
  /\ versionCall \in Callers \cup {None}
  /\ callDone \in [Callers -> BOOLEAN] /\ callRetry \in [Callers -> BOOLEAN]
  /\ callErr \in [Callers -> Errors]
  /\ pc \in [Callers -> {"check", "waiting", "info", "versions", "settle", "done"}]
  /\ joined \in [Callers -> Callers \cup {None}]
  /\ DOMAIN outcome = Callers /\ \A c \in Callers : outcome[c].err \in Errors
  /\ context \in [Callers -> {"nil", "canceled", "deadline"}]
  /\ result \in [Callers -> Errors \cup {"none"}]

(***************************************************************************)
(* Properties                                                              *)
(***************************************************************************)
(* What the policies promise, said without an order of steps. *)
Usable ==
  {v \in profile.versions \cap gateway.advertised :
     /\ config.policy = "explicit" => v = config.explicit
     /\ config.policy = "stable" => v <= profile.stable}

Compatible == Usable # {} /\ (config.auto => gateway.known)

\* The remembered verdict is the right one for this gateway: the highest usable
\* version if there is one and an error otherwise, whatever requests failed and
\* whoever made them; in particular no passing failure is ever remembered.
VerdictTrue ==
  versionChecked =>
    IF Compatible
      THEN versionErr = "nil" /\ selected \in Usable /\ \A v \in Usable : v <= selected
      ELSE versionErr = "unsupported" /\ selected = 0

\* The gateway is asked by one caller at a time, and by nobody once it is known.
SingleFlight ==
  /\ Cardinality({c \in Callers : pc[c] \in {"info", "versions", "settle"}}) <= 1
  /\ versionChecked => \A c \in Callers : pc[c] \notin {"info", "versions", "settle"}

\* Nobody is told that a context was cancelled unless it was their own, or the
\* client was closed: those that wait for a caller that gives up ask again.
NoForeignCancellation ==
  \A c \in Callers :
    result[c] = "canceled" => context[c] = "canceled" \/ clientClosed
=============================================================================
