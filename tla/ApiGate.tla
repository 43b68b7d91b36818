------------------------------- MODULE ApiGate -------------------------------
(***************************************************************************)
(* The way of a call through the API (api/app.py): current_principal        *)
(* verifies its token and charges its subject's bucket, then execute_tool   *)
(* hands it to the gateway.  Every error on the way is its answer.          *)
(***************************************************************************)
EXTENDS KeyCache, TokenBucket, ToolGateway

callVars == <<now, stage, who, status>>
gateVars == <<callVars, keyVars, bucketVars, toolVars>>

GateTick ==
    /\ FetchInTime /\ BucketTick
    /\ UNCHANGED <<keyVars, toolVars>>

GateNext ==
    \/ KeyNext /\ UNCHANGED <<bucketVars, toolVars>>
    \/ BucketNext /\ UNCHANGED <<keyVars, toolVars>>
    \/ ToolNext /\ UNCHANGED <<keyVars, bucketVars>>
    \/ GateTick

GateInitAt(stages) == CallsInit(stages) /\ KeyInit /\ BucketInit /\ ToolInit

GateSpec == GateInitAt([c \in Calls |-> "new"]) /\ [][GateNext]_gateVars
=============================================================================
