----------------------------- MODULE ApiRequest -----------------------------
(***************************************************************************)
(* One call of doJSON (flinksqlgateway/transport.go) and what its caller   *)
(* may conclude from it (operation.go nonIdempotentOutcomeIsUnknown).      *)
(*                                                                         *)
(* An exchange is one HTTP round trip: how far the client saw it go        *)
(* (RequestPhase), the status of the answer (0 for none), and what became  *)
(* of the request on the server: nothing, processed, or to be processed    *)
(* after the client has given up.                                          *)
(***************************************************************************)
EXTENDS Integers, Sequences, FiniteSets

(* Names that start with Bug are faulty variants of a definition that       *)
(* follows them; no specification uses them.                               *)

Effects == {"none", "now", "later"}

(* What the gateway may answer: a success has been processed, a refusal has *)
(* not, and of a server error the client cannot tell.                      *)
Refusals == {400}
Doubtful == {408, 429, 500, 503}

Exchange(phase, status, effect) == [phase |-> phase, status |-> status, effect |-> effect]

Exchanges ==
  {Exchange("RequestNotSent", 0, "none")}
  \cup {Exchange(p, 0, e) :
          p \in {"RequestPossiblySent", "ResponseHeaderMissing", "ResponseBodyIncomplete"},
          e \in Effects}
  \cup {Exchange(p, 200, "now") : p \in {"ResponseBodyIncomplete", "ResponseReceived"}}
  \cup {Exchange(p, s, "none") :
          p \in {"ResponseBodyIncomplete", "ResponseReceived"}, s \in Refusals}
  \cup {Exchange(p, s, e) :
          p \in {"ResponseBodyIncomplete", "ResponseReceived"}, s \in Doubtful, e \in Effects}

Succeeded(x) == x.status = 200 /\ x.phase = "ResponseReceived"

(* doJSONOnce: `retry', with `alive' the state of the caller's context. *)
Retryable(x, alive) ==
  \/ x.status = 0 /\ alive
  \/ x.phase = "ResponseReceived" /\ x.status \in {408, 429, 502, 503, 504}

BugDoJSON(first, second, safeRetry, alive) ==
  IF Succeeded(first) \/ ~Retryable(first, alive) THEN << first >> ELSE << first, second >>

(* doJSON: the exchanges it makes; the last one is what the caller sees. *)
DoJSON(first, second, safeRetry, alive) ==
  IF Succeeded(first) \/ ~safeRetry \/ ~Retryable(first, alive)
    THEN << first >>
    ELSE << first, second >>

Calls(safeRetry) ==
  {DoJSON(x, y, safeRetry, alive) : x \in Exchanges, y \in Exchanges, alive \in BOOLEAN}

(* A POST or DELETE, and a GET. *)
UnsafeCalls == Calls(FALSE)
SafeCalls == Calls(TRUE)

(* Whether a GET may succeed, and may fail, at all. *)
SafeVerdicts == {Succeeded(made[Len(made)]) : made \in SafeCalls}

(* The server's side of the exchanges that a call has made. *)
ProcessedNow(made) == Cardinality({i \in DOMAIN made : made[i].effect = "now"})
ProcessedLater(made) == \E i \in DOMAIN made : made[i].effect = "later"

OutcomeIsUnknown(x) ==
  /\ ~Succeeded(x)
  /\ x.phase # "RequestNotSent"
  /\ x.status \in {0, 200, 408, 429} \/ x.status >= 500
=============================================================================
