----------------------------- MODULE ToolGateway -----------------------------
(***************************************************************************)
(* Execution of read-only tools (tools/gateway.py): the caller's roles are  *)
(* checked first, then the result stored for the caller, tool and           *)
(* idempotency key is looked up, and only without one does the tool's       *)
(* handler run, outside the lock.  A result is the call that produced it.   *)
(***************************************************************************)
EXTENDS ApiCalls

CONSTANTS
    Asked,     \* tools that calls ask for
    RoleSets,  \* roles that principals have
    IdemKeys   \* idempotency keys

VARIABLES
    request,  \* the tool and the key a call names, and its principal's roles
    results,  \* _results
    got       \* the result a call was answered with

toolVars == <<request, results, got>>

(* ROLE_TOOLS and derive_access_scope.                                      *)
RoleTools == [viewer |-> {"knowledge.search"},
              analyst |-> {"knowledge.search", "analytics.incidents", "mcp.read"},
              administrator |-> {"knowledge.search", "analytics.incidents", "mcp.read",
                                 "admin.impactful_action"}]
AllowedTools(roles) == UNION {RoleTools[r] : r \in roles}

\* There is a key to name, and principals have roles that are known.
ASSUME ToolAssumption == RoleSets \subseteq SUBSET DOMAIN RoleTools /\ IdemKeys # {}

(* The handlers that bootstrap gives the gateway.                           *)
Handled == {"knowledge.search", "analytics.incidents", "mcp.read"}

May(r) == r.tool \in Handled \cap AllowedTools(r.roles)

KeyOf(c, r) == <<who[c], r.tool, r.key>>

NoRequest == [tool |-> "knowledge.search", key |-> CHOOSE k \in IdemKeys : TRUE,
              roles |-> {"viewer"}]

ToolInit ==
    /\ request = [c \in Calls |-> NoRequest]
    /\ results = [k \in {} |-> {}]
    /\ got = [c \in Calls |-> {}]

(* execute, to the handler's first await.                                   *)
DispatchCached(c, r) ==                               \* mutant: looks up first
    /\ stage[c] = "admitted"
    /\ request' = [request EXCEPT ![c] = r]
    /\ \/ /\ KeyOf(c, r) \in DOMAIN results
          /\ got' = [got EXCEPT ![c] = results[KeyOf(c, r)]]
          /\ Answer(c, 200)
       \/ /\ KeyOf(c, r) \notin DOMAIN results /\ May(r)
          /\ Reach(c, "running")
          /\ UNCHANGED got
    /\ UNCHANGED <<now, who, results>>
Dispatch(c, r) ==
    /\ stage[c] = "admitted"
    /\ request' = [request EXCEPT ![c] = r]
    /\ \/ /\ ~May(r)
          /\ Refuse(c, "authorization_denied")
          /\ UNCHANGED got
       \/ /\ May(r) /\ KeyOf(c, r) \in DOMAIN results
          /\ got' = [got EXCEPT ![c] = results[KeyOf(c, r)]]
          /\ Answer(c, 200)
       \/ /\ May(r) /\ KeyOf(c, r) \notin DOMAIN results
          /\ Reach(c, "running") \/ Refuse(c, "invalid_tool_arguments")
          /\ UNCHANGED got
    /\ UNCHANGED <<now, who, results>>

(* The handler returned: the result is stored, over one that an overlapping *)
(* call stored, and answered.                                               *)
Put(f, k, v) == [x \in DOMAIN f \cup {k} |-> IF x = k THEN v ELSE f[x]]
ReturnUnstored(c) ==                                  \* mutant: not stored
    /\ stage[c] = "running"
    /\ got' = [got EXCEPT ![c] = {c}]
    /\ Answer(c, 200)
    /\ UNCHANGED <<now, who, request, results>>
Return(c) ==
    /\ stage[c] = "running"
    /\ results' = Put(results, KeyOf(c, request[c]), {c})
    /\ got' = [got EXCEPT ![c] = {c}]
    /\ Answer(c, 200)
    /\ UNCHANGED <<now, who, request>>

\* It timed out or raised, denied the call or returned more than is allowed.
HandlerFails(c) ==
    /\ stage[c] = "running"
    /\ \E e \in {"provider_unavailable", "authorization_denied", "tool_output_too_large"} :
         Refuse(c, e)
    /\ UNCHANGED <<now, who, toolVars>>

ToolNext == \E c \in Calls :
    \/ \E t \in Asked, k \in IdemKeys, R \in RoleSets :
         Dispatch(c, [tool |-> t, key |-> k, roles |-> R])
    \/ Return(c) \/ HandlerFails(c)
-----------------------------------------------------------------------------
(* Properties *)

ToolTypeOK ==
    /\ request \in [Calls -> [tool : Asked \cup {NoRequest.tool}, key : IdemKeys,
                            roles : SUBSET DOMAIN RoleTools]]
    /\ \A k \in DOMAIN results : results[k] \in SUBSET Calls
    /\ got \in [Calls -> SUBSET Calls]

\* The identity of what a call asks for.
Same(c, d) == /\ who[c] = who[d] /\ request[c].tool = request[d].tool
              /\ request[c].key = request[d].key

\* An answer, repeated or not, is a result that the same subject's call of the
\* same tool with the same key produced, and goes to nobody whose roles do not
\* allow the tool now.
OwnResultsOnly ==
    \A c, d \in Calls : d \in got[c] => Same(c, d) /\ status[d] = 200 /\ May(request[c])

\* Once a call is answered, no later call with its key executes the tool again.
AnsweredNeverRunsAgain ==
    [][\A c, d \in Calls :
         stage[c] = "admitted" /\ stage'[c] = "running"
           => ~(status[d] = 200 /\ Same(c, d)')]_<<now, stage, who, status, toolVars>>
=============================================================================
