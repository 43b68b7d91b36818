------------------------------ MODULE ApiCalls ------------------------------
(***************************************************************************)
(* The HTTP calls of the API as its parts see them: how far each has come   *)
(* (its stage), who makes it and the status it was answered with.  The      *)
(* stages of the authentication, of the rate limit and of the tool gateway  *)
(* are in KeyCache, TokenBucket and ToolGateway.                            *)
(***************************************************************************)
EXTENDS Integers, FiniteSets

CONSTANTS
    Calls,     \* requests with a bearer token
    Subjects,  \* tenant and subject of a principal
    Horizon    \* bound: the clock stops there

ASSUME CallsAssumption == IsFiniteSet(Calls) /\ Subjects # {} /\ Horizon \in Nat

VARIABLES
    now,     \* the clock of the API host and of Redis
    stage,   \* how far a call has come
    who,     \* the subject that its token names
    status   \* its HTTP status; 0 before it is answered

Stages == {"new", "wait", "fetching", "fetched", "verified", "sent", "admitted",
           "running", "begun", "changed", "answered"}

\* Calls may be on their way when the clock starts.
CallsInit(stages) ==
    /\ now = 0
    /\ stage = stages
    /\ who \in [Calls -> Subjects]
    /\ status = [c \in Calls |-> 0]

(* handle_orysys_error.                                                     *)
StatusOf(error) ==
    CASE error = "authentication_failed" -> 401
      [] error = "authorization_denied" -> 403
      [] error = "resource_not_found" -> 404
      [] error = "rate_limit_exceeded" -> 429
      [] error \in {"authentication_unavailable", "rate_limit_unavailable",
                    "provider_unavailable"} -> 503
      [] OTHER -> 400

\* The call has its answer.
Answer(c, code) ==
    /\ stage' = [stage EXCEPT ![c] = "answered"]
    /\ status' = [status EXCEPT ![c] = code]

Refuse(c, error) == Answer(c, StatusOf(error))

\* The call goes on to another stage.
Reach(c, s) ==
    /\ stage' = [stage EXCEPT ![c] = s]
    /\ UNCHANGED status
=============================================================================
