----------------------------- MODULE GateProofs -----------------------------
(***************************************************************************)
(* Proofs about the way of a call through the API, composed of the token's  *)
(* verification, the rate limit and the tool gateway: for any calls,        *)
(* subjects, keys of the issuer, tools and times.                           *)
(***************************************************************************)
EXTENDS ApiGate, FiniteSetTheorems, TLAPS

\* A refusal is no success, and only authentication refuses with 401.
LEMMA Refusals ==
    /\ StatusOf("authentication_failed") = 401
    /\ StatusOf("authentication_unavailable") = 503
    /\ StatusOf("rate_limit_unavailable") = 503
    /\ StatusOf("rate_limit_exceeded") = 429
    /\ StatusOf("authorization_denied") = 403
    /\ StatusOf("invalid_tool_arguments") = 400
    /\ StatusOf("provider_unavailable") = 503
    /\ StatusOf("tool_output_too_large") = 400
  BY DEF StatusOf

-----------------------------------------------------------------------------
(* Whose step it is *)

KeyStages == {"new", "wait", "fetching", "fetched"}
BucketStages == {"verified", "sent"}
ToolStages == {"admitted", "running"}
GateStages == KeyStages \cup BucketStages \cup ToolStages \cup {"answered"}

CallTypes ==
    /\ now \in Nat
    /\ stage \in [Calls -> GateStages]
    /\ who \in [Calls -> Subjects]
    /\ status \in [Calls -> Int]

\* A call goes on to one of some stages, or ends with one of some statuses.
Goes(c, S) == \E s \in S : stage' = [stage EXCEPT ![c] = s] /\ status' = status
Ends(c, T) ==
    \E t \in T : stage' = [stage EXCEPT ![c] = "answered"] /\ status' = [status EXCEPT ![c] = t]

\* What that is to every call.
Stays(d) == stage'[d] = stage[d] /\ status'[d] = status[d]
Moved(d, S, T) == \/ stage'[d] \in S /\ status'[d] = status[d]
                  \/ stage'[d] = "answered" /\ status'[d] \in T

LEMMA OneMoves ==
    ASSUME CallTypes, UNCHANGED <<now, who>>, NEW c \in Calls,
           NEW S \in SUBSET (KeyStages \cup BucketStages \cup ToolStages),
           NEW T \in SUBSET Int,
           Goes(c, S) \/ Ends(c, T)
    PROVE  /\ CallTypes'
           /\ Moved(c, S, T)
           /\ \A d \in Calls : d # c => Stays(d)
  BY DEF CallTypes, GateStages, Goes, Ends, Stays, Moved

-----------------------------------------------------------------------------
(* The steps of each part *)

KeyMoves == KeyStages \cup {"verified"}

LEMMA DecodeMoves ==
    ASSUME NEW c \in Calls, NEW valid \in BOOLEAN, Decode(c, valid)
    PROVE  Goes(c, KeyMoves) \/ (Ends(c, {401}) /\ ~valid)
  BY Refusals DEF Decode, Reach, Refuse, Answer, Goes, Ends, KeyMoves

LEMMA LookUpMoves ==
    ASSUME NEW c \in Calls, NEW cached, token[c].valid \in BOOLEAN, LookUp(c, cached)
    PROVE  Goes(c, KeyMoves) \/ Ends(c, {401})
  <1>1. CASE Kid(c) \in cached
    BY <1>1, DecodeMoves DEF LookUp
  <1>2. CASE Kid(c) \notin cached
    BY <1>2, Refusals DEF LookUp, Reach, Refuse, Answer, Goes, Ends, KeyMoves, KeyStages
  <1> QED
    BY <1>1, <1>2

\* A call in the authentication is moved, or the issuer's keys are.
LEMMA KeySteps ==
    ASSUME KeyTypeOK, KeyNext
    PROVE  /\ UNCHANGED <<now, who>>
           /\ \/ UNCHANGED <<stage, status>>
              \/ \E c \in Calls : /\ stage[c] \in KeyStages
                                  /\ Goes(c, KeyMoves) \/ Ends(c, {401, 503})
  <1>0. \A c \in Calls : token[c].valid \in BOOLEAN
    BY DEF KeyTypeOK
  <1>1. ASSUME NEW c \in Calls, NEW k \in Kids, NEW valid \in BOOLEAN, Verify(c, k, valid)
        PROVE  /\ UNCHANGED <<now, who>> /\ stage[c] \in KeyStages
               /\ Goes(c, KeyMoves) \/ Ends(c, {401, 503})
    <2>1. Decode(c, valid) \/ Reach(c, "wait")
      BY <1>1 DEF Verify
    <2>2. Goes(c, KeyMoves) \/ Ends(c, {401})
      BY <2>1, DecodeMoves DEF Reach, Goes, KeyMoves, KeyStages
    <2> QED
      BY <1>1, <2>2 DEF Verify, KeyStages, Ends
  <1>2. ASSUME NEW c \in Calls, Malformed(c)
        PROVE  UNCHANGED <<now, who>> /\ stage[c] \in KeyStages /\ Ends(c, {401, 503})
    <2>1. Answer(c, 401) /\ stage[c] = "new" /\ UNCHANGED <<now, who>>
      BY <1>2, Refusals DEF Malformed, Refuse
    <2> QED
      BY <2>1 DEF Answer, Ends, KeyStages
  <1>3. ASSUME NEW c \in Calls, Acquire(c)
        PROVE  /\ UNCHANGED <<now, who>> /\ stage[c] \in KeyStages
               /\ Goes(c, KeyMoves) \/ Ends(c, {401, 503})
    <2>1. Reach(c, "fetching") \/ LookUp(c, keys)
      BY <1>3 DEF Acquire
    <2>2. Goes(c, KeyMoves) \/ Ends(c, {401})
      BY <1>0, <2>1, LookUpMoves DEF Reach, Goes, KeyMoves, KeyStages
    <2> QED
      BY <1>3, <2>2 DEF Acquire, KeyStages, Ends
  <1>4. ASSUME NEW c \in Calls, Fetch(c)
        PROVE  UNCHANGED <<now, who>> /\ stage[c] \in KeyStages /\ Goes(c, KeyMoves)
    BY <1>4 DEF Fetch, Reach, Goes, KeyMoves, KeyStages
  <1>5. ASSUME NEW c \in Calls, FetchFails(c)
        PROVE  UNCHANGED <<now, who>> /\ stage[c] \in KeyStages /\ Ends(c, {401, 503})
    <2>1. Answer(c, 503) /\ stage[c] = "fetching" /\ UNCHANGED <<now, who>>
      BY <1>5, Refusals DEF FetchFails, Refuse
    <2> QED
      BY <2>1 DEF Answer, Ends, KeyStages
  <1>6. ASSUME NEW c \in Calls, Install(c)
        PROVE  /\ UNCHANGED <<now, who>> /\ stage[c] \in KeyStages
               /\ Goes(c, KeyMoves) \/ Ends(c, {401, 503})
    <2>1. LookUp(c, fetched[c].keys)
      BY <1>6 DEF Install
    <2>2. Goes(c, KeyMoves) \/ Ends(c, {401})
      BY <1>0, <2>1, LookUpMoves
    <2> QED
      BY <1>6, <2>2 DEF Install, KeyStages, Ends
  <1>7. ASSUME NEW S \in KeySets, Rotate(S)
        PROVE  UNCHANGED <<now, who, stage, status>>
    BY <1>7 DEF Rotate
  <1> QED
    BY <1>1, <1>2, <1>3, <1>4, <1>5, <1>6, <1>7 DEF KeyNext

BucketMoves == {"sent", "admitted"}

LEMMA BucketSteps ==
    ASSUME BucketNext
    PROVE  /\ UNCHANGED <<now, who>>
           /\ \E c \in Calls : /\ stage[c] \in BucketStages
                               /\ Goes(c, BucketMoves) \/ Ends(c, {429, 503})
  <1>u. ASSUME NEW c \in Calls, Unmetered(c)
        PROVE  Goes(c, BucketMoves) \/ Ends(c, {429, 503})
    BY <1>u, Refusals DEF Unmetered, LetThrough, Reach, Refuse, Answer, Goes, Ends, BucketMoves
  <1>1. ASSUME NEW c \in Calls, NEW skew \in 0..MaxSkew, Send(c, skew)
        PROVE  UNCHANGED <<now, who>> /\ stage[c] \in BucketStages /\ Goes(c, BucketMoves)
    BY <1>1 DEF Send, Reach, Goes, BucketMoves, BucketStages
  <1>2. ASSUME NEW c \in Calls, Eval(c)
        PROVE  /\ UNCHANGED <<now, who>> /\ stage[c] \in BucketStages
               /\ Goes(c, BucketMoves) \/ Ends(c, {429, 503})
    <2>1. LetThrough(c) \/ Refuse(c, "rate_limit_exceeded") \/ Unmetered(c)
      BY <1>2 DEF Eval
    <2>2. Goes(c, BucketMoves) \/ Ends(c, {429, 503})
      BY <1>u, <2>1, Refusals DEF LetThrough, Reach, Refuse, Answer, Goes, Ends, BucketMoves
    <2> QED
      BY <1>2, <2>2 DEF Eval, BucketStages
  <1>3. ASSUME NEW c \in Calls, LimiterDown(c)
        PROVE  /\ UNCHANGED <<now, who>> /\ stage[c] \in BucketStages
               /\ Goes(c, BucketMoves) \/ Ends(c, {429, 503})
    BY <1>u, <1>3 DEF LimiterDown, BucketStages
  <1> QED
    BY <1>1, <1>2, <1>3 DEF BucketNext

LEMMA ToolSteps ==
    ASSUME ToolNext
    PROVE  /\ UNCHANGED <<now, who>>
           /\ \E c \in Calls : /\ stage[c] \in ToolStages
                               /\ Goes(c, {"running"}) \/ Ends(c, {200, 400, 403, 503})
  <1>1. ASSUME NEW c \in Calls, NEW t \in Asked, NEW k \in IdemKeys, NEW R \in RoleSets,
               Dispatch(c, [tool |-> t, key |-> k, roles |-> R])
        PROVE  /\ UNCHANGED <<now, who>> /\ stage[c] \in ToolStages
               /\ Goes(c, {"running"}) \/ Ends(c, {200, 400, 403, 503})
    BY <1>1, Refusals DEF Dispatch, Reach, Refuse, Answer, Goes, Ends, ToolStages
  <1>2. ASSUME NEW c \in Calls, Return(c)
        PROVE  UNCHANGED <<now, who>> /\ stage[c] \in ToolStages /\ Ends(c, {200, 400, 403, 503})
    BY <1>2 DEF Return, Answer, Ends, ToolStages
  <1>3. ASSUME NEW c \in Calls, HandlerFails(c)
        PROVE  UNCHANGED <<now, who>> /\ stage[c] \in ToolStages /\ Ends(c, {200, 400, 403, 503})
    <2>1. Answer(c, 503) \/ Answer(c, 403) \/ Answer(c, 400)
      BY <1>3, Refusals DEF HandlerFails, Refuse
    <2>2. UNCHANGED <<now, who>> /\ stage[c] \in ToolStages
      BY <1>3 DEF HandlerFails, ToolStages
    <2>3. CASE Answer(c, 503)
      BY <2>2, <2>3 DEF Answer, Ends
    <2>4. CASE Answer(c, 403)
      BY <2>2, <2>4 DEF Answer, Ends
    <2>5. CASE Answer(c, 400)
      BY <2>2, <2>5 DEF Answer, Ends
    <2> QED
      BY <2>1, <2>3, <2>4, <2>5
  <1>4. PICK c \in Calls :
          \/ \E t \in Asked, k \in IdemKeys, R \in RoleSets :
               Dispatch(c, [tool |-> t, key |-> k, roles |-> R])
          \/ Return(c) \/ HandlerFails(c)
    BY DEF ToolNext
  <1>5. CASE \E t \in Asked, k \in IdemKeys, R \in RoleSets :
               Dispatch(c, [tool |-> t, key |-> k, roles |-> R])
    BY <1>1, <1>5
  <1>6. CASE Return(c)
    BY <1>2, <1>6
  <1>7. CASE HandlerFails(c)
    BY <1>3, <1>7
  <1> QED
    BY <1>4, <1>5, <1>6, <1>7

-----------------------------------------------------------------------------
(* The types that the parts' steps rest on *)

GateTypes == CallTypes /\ KeyTypeOK

LEMMA KeyTypesStart == KeyInit => KeyTypeOK
  <1>1. (CHOOSE k \in Kids : TRUE) \in Kids
    BY KeyAssumption
  <1> QED
    BY <1>1, KeyAssumption DEF KeyInit, KeyTypeOK, NotFetched

LEMMA TypesStart ==
    ASSUME NEW stages \in [Calls -> GateStages], GateInitAt(stages)
    PROVE  GateTypes
  <1>1. CallTypes
    BY DEF GateInitAt, CallsInit, CallTypes
  <1> QED
    BY <1>1, KeyTypesStart DEF GateInitAt, GateTypes

LEMMA TypesGoOn ==
    ASSUME GateTypes, [GateNext]_gateVars
    PROVE  GateTypes'
  <1> USE DEF GateTypes
  <1>1. CASE KeyNext
    <2>1. CallTypes'
      <3>1. CASE UNCHANGED <<stage, status>>
        BY <1>1, <3>1, KeySteps DEF CallTypes
      <3>2. CASE \E c \in Calls : Goes(c, KeyMoves) \/ Ends(c, {401, 503})
        <4>1. UNCHANGED <<now, who>>
          BY <1>1, KeySteps
        <4> QED
          BY <3>2, <4>1, OneMoves DEF KeyMoves, KeyStages, BucketStages
      <3> QED
        BY <1>1, <3>1, <3>2, KeySteps
    <2>2. ASSUME NEW c \in Calls, NEW k \in Kids, NEW valid \in BOOLEAN, Verify(c, k, valid)
          PROVE  KeyTypeOK'
      BY <2>2 DEF Verify, KeyTypeOK
    <2>3. ASSUME NEW c \in Calls, Malformed(c) PROVE KeyTypeOK'
      BY <2>3 DEF Malformed, KeyTypeOK
    <2>l. ASSUME NEW c \in Calls, NEW S, LookUp(c, S)
          PROVE  forced' \in [Calls -> BOOLEAN]
      BY <2>l DEF LookUp, KeyTypeOK
    <2>4. ASSUME NEW c \in Calls, Acquire(c) PROVE KeyTypeOK'
      <3>1. forced' \in [Calls -> BOOLEAN]
        BY <2>4, <2>l DEF Acquire, KeyTypeOK
      <3>2. lock' \in Calls \cup {Nobody}
        BY <2>4 DEF Acquire, KeyTypeOK
      <3> QED
        BY <2>4, <3>1, <3>2 DEF Acquire, KeyTypeOK
    <2>5. ASSUME NEW c \in Calls, Fetch(c) PROVE KeyTypeOK'
      BY <2>5 DEF Fetch, KeyTypeOK, CallTypes
    <2>6. ASSUME NEW c \in Calls, FetchFails(c) PROVE KeyTypeOK'
      BY <2>6 DEF FetchFails, KeyTypeOK
    <2>7. ASSUME NEW c \in Calls, Install(c) PROVE KeyTypeOK'
      <3>1. forced' \in [Calls -> BOOLEAN]
        BY <2>7, <2>l DEF Install
      <3>2. expiresAt' \in Nat
        BY <2>7, KeyAssumption DEF Install, CallTypes
      <3> QED
        BY <2>7, <3>1, <3>2 DEF Install, KeyTypeOK, NotFetched
    <2>8. ASSUME NEW S \in KeySets, Rotate(S) PROVE KeyTypeOK'
      BY <2>8, KeyAssumption DEF Rotate, KeyTypeOK, CallTypes
    <2>9. KeyTypeOK'
      BY <1>1, <2>2, <2>3, <2>4, <2>5, <2>6, <2>7, <2>8 DEF KeyNext
    <2> QED
      BY <2>1, <2>9
  <1>2. CASE BucketNext /\ UNCHANGED keyVars
    <2>1. CallTypes'
      BY <1>2, BucketSteps, OneMoves DEF BucketMoves, BucketStages, ToolStages
    <2> QED
      BY <1>2, <2>1 DEF keyVars, KeyTypeOK
  <1>3. CASE ToolNext /\ UNCHANGED keyVars
    <2>1. CallTypes'
      BY <1>3, ToolSteps, OneMoves DEF ToolStages
    <2> QED
      BY <1>3, <2>1 DEF keyVars, KeyTypeOK
  <1>4. CASE GateTick
    BY <1>4 DEF GateTick, BucketTick, keyVars, KeyTypeOK, CallTypes
  <1>5. CASE UNCHANGED gateVars
    BY <1>5 DEF gateVars, callVars, keyVars, KeyTypeOK, CallTypes
  <1> QED
    BY <1>1, <1>2, <1>3, <1>4, <1>5 DEF GateNext

LEMMA TypesHold == GateSpec => []GateTypes
  <1>1. [c \in Calls |-> "new"] \in [Calls -> GateStages]
    BY DEF GateStages, KeyStages
  <1>2. GateInitAt([c \in Calls |-> "new"]) => GateTypes
    BY <1>1, TypesStart
  <1> QED
    BY <1>2, TypesGoOn, PTL DEF GateSpec
-----------------------------------------------------------------------------
(* The tool gateway *)

\* Results are of calls that were answered with them.
ResultsAreAnswers ==
    \A k \in DOMAIN results : \E d \in Calls :
        results[k] = {d} /\ stage[d] = "answered" /\ status[d] = 200 /\ KeyOf(d, request[d]) = k

\* What a call got is a result of the same request, and it may have it.
GotOwn ==
    \A c, d \in Calls : d \in got[c] =>
        /\ Same(c, d) /\ May(request[c])
        /\ stage[c] = "answered" /\ stage[d] = "answered" /\ status[d] = 200

RunningMay == \A c \in Calls : stage[c] = "running" => May(request[c])

\* A success is stored.
SuccessIsStored ==
    \A c \in Calls : status[c] = 200 => stage[c] = "answered" /\ KeyOf(c, request[c]) \in DOMAIN results

ToolInv ==
    /\ GateTypes
    /\ got \in [Calls -> SUBSET Calls]
    /\ DOMAIN request = Calls
    /\ ResultsAreAnswers /\ GotOwn /\ RunningMay /\ SuccessIsStored

\* The other parts' steps leave alone what the gateway knows of a call.
Aside(d) == Stays(d) \/ (/\ stage[d] \notin {"answered", "running"}
                         /\ stage'[d] # "running" /\ status'[d] # 200)

LEMMA AsideSteps ==
    ASSUME ToolInv,
           \/ KeyNext
           \/ BucketNext
           \/ GateTick
           \/ UNCHANGED callVars
    PROVE  who' = who /\ \A d \in Calls : Aside(d)
  <1> USE DEF ToolInv, GateTypes
  <1>0. \A d \in Calls : stage[d] # "answered" => status[d] # 200
    BY DEF SuccessIsStored
  <1>1. CASE KeyNext
    <2>1. CASE UNCHANGED <<stage, status>>
      BY <1>1, <2>1, KeySteps DEF Aside, Stays
    <2>2. CASE \E c \in Calls : /\ stage[c] \in KeyStages
                                /\ Goes(c, KeyMoves) \/ Ends(c, {401, 503})
      <3>1. PICK c \in Calls : /\ stage[c] \in KeyStages
                               /\ Goes(c, KeyMoves) \/ Ends(c, {401, 503})
        BY <2>2
      <3>2. Moved(c, KeyMoves, {401, 503}) /\ \A d \in Calls : d # c => Stays(d)
        <4>1. CallTypes /\ KeyTypeOK
          OBVIOUS
        <4>2. UNCHANGED <<now, who>>
          BY <1>1, <4>1, KeySteps
        <4>3. /\ KeyMoves \in SUBSET (KeyStages \cup BucketStages \cup ToolStages)
              /\ {401, 503} \in SUBSET Int
          BY DEF KeyMoves, BucketStages
        <4> HIDE DEF ToolInv, GateTypes
        <4> QED
          BY <3>1, <4>1, <4>2, <4>3, OneMoves
      <3> QED
        BY <1>0, <1>1, <3>1, <3>2, KeySteps DEF Aside, Moved, KeyMoves, KeyStages
    <2> QED
      BY <1>1, <2>1, <2>2, KeySteps
  <1>2. CASE BucketNext
    <2>1. PICK c \in Calls : /\ stage[c] \in BucketStages
                             /\ Goes(c, BucketMoves) \/ Ends(c, {429, 503})
      BY <1>2, BucketSteps
    <2>2. Moved(c, BucketMoves, {429, 503}) /\ \A d \in Calls : d # c => Stays(d)
      BY <1>2, <2>1, BucketSteps, OneMoves DEF BucketMoves, BucketStages, ToolStages
    <2> QED
      BY <1>0, <1>2, <2>1, <2>2, BucketSteps DEF Aside, Moved, BucketMoves, BucketStages
  <1>3. CASE GateTick
    BY <1>3 DEF GateTick, BucketTick, Aside, Stays
  <1>4. CASE UNCHANGED callVars
    BY <1>4 DEF callVars, Aside, Stays
  <1> QED
    BY <1>1, <1>2, <1>3, <1>4

LEMMA AsideKeeps ==
    ASSUME ToolInv, GateTypes', who' = who, UNCHANGED toolVars, \A d \in Calls : Aside(d)
    PROVE  ToolInv'
  <1> USE DEF ToolInv, toolVars
  <1>0. \A d \in Calls : stage[d] # "answered" => status[d] # 200
    BY DEF SuccessIsStored
  <1>1. ResultsAreAnswers'
    BY DEF ResultsAreAnswers, KeyOf, Aside, Stays
  <1>2. GotOwn'
    BY DEF GotOwn, Same, Aside, Stays
  <1>3. RunningMay'
    BY DEF RunningMay, Aside, Stays
  <1>4. SuccessIsStored'
    BY DEF SuccessIsStored, KeyOf, Aside, Stays
  <1> QED
    BY <1>1, <1>2, <1>3, <1>4

\* A step of the gateway moves one call, that was in its hands.
LEMMA ToolOthers ==
    ASSUME ToolInv, NEW c \in Calls, stage[c] \in ToolStages, UNCHANGED <<now, who>>,
           Goes(c, {"running"}) \/ Ends(c, {200, 400, 403, 503})
    PROVE  /\ CallTypes'
           /\ \A d \in Calls : d # c => Stays(d)
           /\ stage[c] # "answered" /\ status[c] # 200
  <1>1. CallTypes
    BY DEF ToolInv, GateTypes
  <1>2. /\ {"running"} \in SUBSET (KeyStages \cup BucketStages \cup ToolStages)
        /\ {200, 400, 403, 503} \in SUBSET Int
    BY DEF ToolStages
  <1>3. CallTypes' /\ \A d \in Calls : d # c => Stays(d)
    BY <1>1, <1>2, OneMoves
  <1>4. stage[c] # "answered" /\ status[c] # 200
    BY DEF ToolInv, ToolStages, SuccessIsStored
  <1> QED
    BY <1>3, <1>4

LEMMA DispatchKeeps ==
    ASSUME ToolInv, KeyTypeOK', NEW c \in Calls,
           NEW t \in Asked, NEW k \in IdemKeys, NEW R \in RoleSets,
           Dispatch(c, [tool |-> t, key |-> k, roles |-> R])
    PROVE  ToolInv'
  <1> DEFINE r == [tool |-> t, key |-> k, roles |-> R]
  <1>1. /\ stage[c] \in ToolStages /\ UNCHANGED <<now, who>>
        /\ Goes(c, {"running"}) \/ Ends(c, {200, 400, 403, 503})
    BY Refusals DEF Dispatch, Reach, Refuse, Answer, Goes, Ends, ToolStages
  <1>2. /\ CallTypes'
        /\ \A d \in Calls : d # c => Stays(d)
        /\ stage[c] # "answered" /\ status[c] # 200
    BY <1>1, ToolOthers
  <1>3. /\ DOMAIN request' = Calls /\ request'[c] = r
        /\ \A d \in Calls : d # c => request'[d] = request[d]
    BY DEF Dispatch, ToolInv
  <1>4. UNCHANGED results /\ who' = who
    BY DEF Dispatch
  <1>5. got' \in [Calls -> SUBSET Calls]
    BY DEF Dispatch, ToolInv, ResultsAreAnswers
  <1>6. ResultsAreAnswers'
    BY <1>2, <1>3, <1>4 DEF ResultsAreAnswers, KeyOf, Stays, ToolInv
  <1>7. RunningMay'
    <2>1. stage'[c] = "running" => May(r)
      BY Refusals, <1>2 DEF Dispatch, Refuse, Answer, CallTypes, ToolInv, GateTypes
    <2> QED
      BY <1>2, <1>3, <2>1 DEF RunningMay, Stays, ToolInv
  <1>8. CASE got' = got /\ status'[c] # 200
    <2>1. GotOwn'
      BY <1>2, <1>3, <1>4, <1>8 DEF GotOwn, Same, Stays, ToolInv
    <2>2. SuccessIsStored'
      BY <1>2, <1>3, <1>4, <1>8 DEF SuccessIsStored, KeyOf, Stays, ToolInv
    <2> QED
      BY <1>2, <1>3, <1>5, <1>6, <1>7, <2>1, <2>2 DEF ToolInv, GateTypes
  <1>9. CASE /\ May(r) /\ KeyOf(c, r) \in DOMAIN results
             /\ got' = [got EXCEPT ![c] = results[KeyOf(c, r)]]
             /\ Answer(c, 200)
    <2>1. PICK e \in Calls : /\ results[KeyOf(c, r)] = {e}
                             /\ stage[e] = "answered" /\ status[e] = 200
                             /\ KeyOf(e, request[e]) = KeyOf(c, r)
      BY <1>9 DEF ResultsAreAnswers, ToolInv
    <2>2. /\ got'[c] = {e} /\ e # c
          /\ \A d \in Calls : d # c => got'[d] = got[d]
      BY <1>2, <1>9, <2>1 DEF ToolInv
    <2>3. stage'[c] = "answered" /\ status'[c] = 200
      BY <1>9 DEF Answer, CallTypes, ToolInv, GateTypes
    <2>4. Same(c, e)'
      BY <1>3, <1>4, <2>1, <2>2 DEF Same, KeyOf
    <2>5. GotOwn'
      <3>1. ASSUME NEW a \in Calls, NEW d \in Calls, d \in got'[a]
            PROVE  /\ Same(a, d)' /\ May(request'[a])
                   /\ stage'[a] = "answered" /\ stage'[d] = "answered" /\ status'[d] = 200
        <4>1. CASE a = c
          <5>1. d = e
            BY <2>2, <3>1, <4>1
          <5>2. stage'[e] = "answered" /\ status'[e] = 200
            BY <1>2, <2>1, <2>2 DEF Stays
          <5> QED
            BY <1>3, <1>9, <2>3, <2>4, <4>1, <5>1, <5>2
        <4>2. CASE a # c
          <5>1. d \in got[a]
            BY <2>2, <3>1, <4>2
          <5>2. /\ Same(a, d) /\ May(request[a])
                /\ stage[a] = "answered" /\ stage[d] = "answered" /\ status[d] = 200
            BY <5>1 DEF GotOwn, ToolInv
          <5>3. d # c
            BY <1>2, <5>2
          <5> QED
            BY <1>2, <1>3, <1>4, <4>2, <5>2, <5>3 DEF Same, Stays
        <4> QED
          BY <4>1, <4>2
      <3> QED
        BY <3>1 DEF GotOwn, Same
    <2>6. SuccessIsStored'
      BY <1>2, <1>3, <1>4, <1>9, <2>3 DEF SuccessIsStored, KeyOf, Stays, ToolInv
    <2> QED
      BY <1>2, <1>3, <1>5, <1>6, <1>7, <2>5, <2>6 DEF ToolInv, GateTypes
  <1>10. (got' = got /\ status'[c] # 200) \/
         (/\ May(r) /\ KeyOf(c, r) \in DOMAIN results
          /\ got' = [got EXCEPT ![c] = results[KeyOf(c, r)]]
          /\ Answer(c, 200))
    BY <1>2, Refusals DEF Dispatch, Reach, Refuse, Answer, CallTypes, ToolInv, GateTypes
  <1> QED
    BY <1>8, <1>9, <1>10

LEMMA ReturnKeeps ==
    ASSUME ToolInv, KeyTypeOK', NEW c \in Calls, Return(c)
    PROVE  ToolInv'
  <1>1. /\ stage[c] \in ToolStages /\ UNCHANGED <<now, who>>
        /\ Goes(c, {"running"}) \/ Ends(c, {200, 400, 403, 503})
    BY DEF Return, Answer, Ends, ToolStages
  <1>2. /\ CallTypes'
        /\ \A d \in Calls : d # c => Stays(d)
        /\ stage[c] # "answered" /\ status[c] # 200
    BY <1>1, ToolOthers
  <1>3. stage'[c] = "answered" /\ status'[c] = 200
    BY DEF Return, Answer, CallTypes, ToolInv, GateTypes
  <1>4. UNCHANGED request /\ who' = who
    BY DEF Return
  <1>5. /\ got' \in [Calls -> SUBSET Calls] /\ got'[c] = {c}
        /\ \A d \in Calls : d # c => got'[d] = got[d]
    BY DEF Return, ToolInv
  <1>6. /\ DOMAIN results' = DOMAIN results \cup {KeyOf(c, request[c])}
        /\ \A k \in DOMAIN results' :
             results'[k] = IF k = KeyOf(c, request[c]) THEN {c} ELSE results[k]
    BY DEF Return, Put
  <1>7. ResultsAreAnswers'
    <2>1. ASSUME NEW k \in DOMAIN results'
          PROVE  \E d \in Calls : /\ results'[k] = {d} /\ stage'[d] = "answered" /\ status'[d] = 200
                                  /\ KeyOf(d, request[d])' = k
      <3>1. CASE k = KeyOf(c, request[c])
        BY <1>3, <1>4, <1>6, <3>1 DEF KeyOf
      <3>2. CASE k # KeyOf(c, request[c])
        BY <1>2, <1>4, <1>6, <3>2 DEF ResultsAreAnswers, KeyOf, Stays, ToolInv
      <3> QED
        BY <3>1, <3>2
    <2> QED
      BY <2>1 DEF ResultsAreAnswers
  <1>8. May(request[c])
    BY DEF Return, RunningMay, ToolInv
  <1>9. GotOwn'
    BY <1>2, <1>3, <1>4, <1>5, <1>8 DEF GotOwn, Same, Stays, ToolInv
  <1>10. RunningMay'
    BY <1>2, <1>3, <1>4 DEF RunningMay, Stays, ToolInv
  <1>11. SuccessIsStored'
    <2>1. ASSUME NEW d \in Calls, status'[d] = 200
          PROVE  stage'[d] = "answered" /\ KeyOf(d, request[d]) \in DOMAIN results'
      <3>1. CASE d = c
        BY <1>3, <1>6, <3>1
      <3>2. CASE d # c
        BY <1>2, <1>6, <2>1, <3>2 DEF SuccessIsStored, Stays, ToolInv
      <3> QED
        BY <3>1, <3>2
    <2> QED
      BY <1>4, <2>1 DEF SuccessIsStored, KeyOf
  <1> QED
    BY <1>2, <1>4, <1>5, <1>7, <1>9, <1>10, <1>11 DEF ToolInv, GateTypes

LEMMA FailureKeeps ==
    ASSUME ToolInv, KeyTypeOK', NEW c \in Calls, HandlerFails(c)
    PROVE  ToolInv'
  <1>1. Answer(c, 503) \/ Answer(c, 403) \/ Answer(c, 400)
    BY Refusals DEF HandlerFails, Refuse
  <1>2. stage[c] = "running" /\ UNCHANGED <<now, who, toolVars>>
    BY DEF HandlerFails
  <1>3. Ends(c, {400, 403, 503})
    <2>1. CASE Answer(c, 503)
      BY <2>1 DEF Answer, Ends
    <2>2. CASE Answer(c, 403)
      BY <2>2 DEF Answer, Ends
    <2>3. CASE Answer(c, 400)
      BY <2>3 DEF Answer, Ends
    <2> QED
      BY <1>1, <2>1, <2>2, <2>3
  <1>4. CallTypes' /\ Moved(c, {}, {400, 403, 503}) /\ \A d \in Calls : d # c => Stays(d)
    <2>1. CallTypes
      BY DEF ToolInv, GateTypes
    <2>2. {} \in SUBSET (KeyStages \cup BucketStages \cup ToolStages) /\ {400, 403, 503} \in SUBSET Int
      OBVIOUS
    <2> QED
      BY <1>2, <1>3, <2>1, <2>2, OneMoves
  <1>5. stage'[c] = "answered" /\ status'[c] # 200
    BY <1>4 DEF Moved
  <1> USE DEF ToolInv, toolVars
  <1>6. ResultsAreAnswers'
    BY <1>2, <1>4, <1>5 DEF ResultsAreAnswers, KeyOf, Stays
  <1>7. GotOwn'
    BY <1>2, <1>4, <1>5 DEF GotOwn, Same, Stays
  <1>8. RunningMay'
    BY <1>2, <1>4, <1>5 DEF RunningMay, Stays
  <1>9. SuccessIsStored'
    BY <1>2, <1>4, <1>5 DEF SuccessIsStored, KeyOf, Stays
  <1> QED
    BY <1>2, <1>4, <1>6, <1>7, <1>8, <1>9 DEF GateTypes

LEMMA ToolStepsKeep ==
    ASSUME ToolInv, KeyTypeOK', ToolNext
    PROVE  ToolInv'
  <1>1. PICK c \in Calls :
          \/ \E t \in Asked, k \in IdemKeys, R \in RoleSets :
               Dispatch(c, [tool |-> t, key |-> k, roles |-> R])
          \/ Return(c) \/ HandlerFails(c)
    BY DEF ToolNext
  <1>2. CASE \E t \in Asked, k \in IdemKeys, R \in RoleSets :
               Dispatch(c, [tool |-> t, key |-> k, roles |-> R])
    BY <1>2, DispatchKeeps
  <1>3. CASE Return(c)
    BY <1>3, ReturnKeeps
  <1>4. CASE HandlerFails(c)
    BY <1>4, FailureKeeps
  <1> QED
    BY <1>1, <1>2, <1>3, <1>4

\* What the gateway keeps has its types, whatever stages calls begin in.
LEMMA ToolTypesStart == ToolInit => ToolTypeOK
  <1>1. (CHOOSE k \in IdemKeys : TRUE) \in IdemKeys
    BY ToolAssumption
  <1>2. {"viewer"} \in SUBSET DOMAIN RoleTools
    BY DEF RoleTools
  <1>3. NoRequest \in [tool : Asked \cup {NoRequest.tool}, key : IdemKeys,
                     roles : SUBSET DOMAIN RoleTools]
    BY <1>1, <1>2 DEF NoRequest
  <1> QED
    BY <1>3 DEF ToolInit, ToolTypeOK

LEMMA ToolTypesGoOn ==
    ASSUME ToolTypeOK, ToolNext
    PROVE  ToolTypeOK'
  <1> DEFINE Request == [tool : Asked \cup {NoRequest.tool}, key : IdemKeys,
                         roles : SUBSET DOMAIN RoleTools]
  <1>0. /\ request \in [Calls -> Request] /\ got \in [Calls -> SUBSET Calls]
        /\ \A k \in DOMAIN results : results[k] \in SUBSET Calls
    BY DEF ToolTypeOK
  <1>1. ASSUME NEW c \in Calls, NEW t \in Asked, NEW k \in IdemKeys, NEW R \in RoleSets,
               Dispatch(c, [tool |-> t, key |-> k, roles |-> R])
        PROVE  ToolTypeOK'
    <2> DEFINE r == [tool |-> t, key |-> k, roles |-> R]
    <2>1. r \in Request
      BY ToolAssumption
    <2> HIDE DEF r, Request
    <2>2. /\ request' = [request EXCEPT ![c] = r] /\ results' = results
          /\ \/ got' = got
             \/ \E x \in DOMAIN results : got' = [got EXCEPT ![c] = results[x]]
      BY <1>1 DEF Dispatch, r
    <2>3. request' \in [Calls -> Request] /\ got' \in [Calls -> SUBSET Calls]
      BY <1>0, <2>1, <2>2
    <2> QED
      BY <1>0, <2>2, <2>3 DEF ToolTypeOK, Request
  <1>2. ASSUME NEW c \in Calls, Return(c) PROVE ToolTypeOK'
    <2>1. /\ results' = Put(results, KeyOf(c, request[c]), {c})
          /\ got' = [got EXCEPT ![c] = {c}] /\ request' = request
      BY <1>2 DEF Return
    <2>2. \A k \in DOMAIN results' : results'[k] \in SUBSET Calls
      BY <1>0, <2>1 DEF Put
    <2> QED
      BY <1>0, <2>1, <2>2 DEF ToolTypeOK
  <1>3. ASSUME NEW c \in Calls, HandlerFails(c) PROVE ToolTypeOK'
    BY <1>3 DEF HandlerFails, toolVars, ToolTypeOK
  <1>4. PICK c \in Calls :
          \/ \E t \in Asked, k \in IdemKeys, R \in RoleSets :
               Dispatch(c, [tool |-> t, key |-> k, roles |-> R])
          \/ Return(c) \/ HandlerFails(c)
    BY DEF ToolNext
  <1>5. CASE \E t \in Asked, k \in IdemKeys, R \in RoleSets :
               Dispatch(c, [tool |-> t, key |-> k, roles |-> R])
    BY <1>1, <1>5
  <1> QED
    BY <1>2, <1>3, <1>4, <1>5

LEMMA ToolInvHolds == GateSpec => []ToolInv
  <1>1. ASSUME GateInitAt([c \in Calls |-> "new"]), GateTypes PROVE ToolInv
    BY <1>1 DEF GateInitAt, CallsInit, ToolInit, ToolInv, ResultsAreAnswers, GotOwn,
                RunningMay, SuccessIsStored
  <1>2. ASSUME ToolInv, GateTypes', [GateNext]_gateVars PROVE ToolInv'
    <2>1. CASE ToolNext
      BY <1>2, <2>1, ToolStepsKeep DEF GateTypes
    <2>2. CASE UNCHANGED toolVars /\ (KeyNext \/ BucketNext \/ GateTick \/ UNCHANGED callVars)
      <3>1. who' = who /\ \A d \in Calls : Aside(d)
        BY <1>2, <2>2, AsideSteps
      <3> QED
        BY <1>2, <2>2, <3>1, AsideKeeps
    <2> QED
      BY <1>2, <2>1, <2>2 DEF GateNext, GateTick, BucketTick, gateVars, toolVars, callVars
  <1> QED
    BY <1>1, <1>2, TypesHold, PTL DEF GateSpec

\* For any calls, subjects, keys and roles: a stored result of execute
\* (gateway.py) goes only to calls of the same subject, tool and key whose roles
\* still allow the tool, however calls overlap.
THEOREM ResultsStayOwn == GateSpec => []OwnResultsOnly
  <1>1. ToolInv => OwnResultsOnly
    BY DEF ToolInv, GotOwn, OwnResultsOnly
  <1> QED
    BY <1>1, ToolInvHolds, PTL

\* What has run under a key and was answered never runs again under it.
THEOREM RepeatsDoNotRun == GateSpec => AnsweredNeverRunsAgain
  <1> DEFINE Bad(c, d) == /\ stage[c] = "admitted" /\ stage'[c] = "running"
                          /\ status[d] = 200 /\ Same(c, d)'
  <1>1. ASSUME ToolInv, [GateNext]_gateVars, NEW c \in Calls, NEW d \in Calls, Bad(c, d)
        PROVE  FALSE
    <2>1. stage[d] = "answered" /\ KeyOf(d, request[d]) \in DOMAIN results /\ d # c
      BY <1>1 DEF ToolInv, SuccessIsStored
    <2>2. CASE ToolNext
      <3>1. PICK b \in Calls :
              \/ \E t \in Asked, k \in IdemKeys, R \in RoleSets :
                   Dispatch(b, [tool |-> t, key |-> k, roles |-> R])
              \/ Return(b) \/ HandlerFails(b)
        BY <2>2 DEF ToolNext
      <3>2. CASE \E t \in Asked, k \in IdemKeys, R \in RoleSets :
                   Dispatch(b, [tool |-> t, key |-> k, roles |-> R])
        <4>1. PICK t \in Asked, k \in IdemKeys, R \in RoleSets :
                Dispatch(b, [tool |-> t, key |-> k, roles |-> R])
          BY <3>2
        <4> DEFINE r == [tool |-> t, key |-> k, roles |-> R]
        <4>2. b = c
          <5>1. stage' = [stage EXCEPT ![b] = stage'[b]]
            BY <1>1, <4>1 DEF Dispatch, Reach, Refuse, Answer, ToolInv, GateTypes, CallTypes
          <5> QED
            BY <1>1, <5>1 DEF ToolInv, GateTypes, CallTypes
        <4>3. KeyOf(c, r) \notin DOMAIN results
          BY <1>1, <4>1, <4>2 DEF Dispatch, Refuse, Answer, ToolInv, GateTypes, CallTypes
        <4>4. request'[c] = r /\ request'[d] = request[d] /\ who' = who
          BY <1>1, <2>1, <4>1, <4>2 DEF Dispatch, ToolInv
        <4>5. KeyOf(d, request[d]) = KeyOf(c, r)
          BY <1>1, <4>4 DEF Same, KeyOf
        <4> QED
          BY <2>1, <4>3, <4>5
      <3>3. CASE Return(b)
        BY <1>1, <3>3 DEF Return, Answer, ToolInv, GateTypes, CallTypes
      <3>4. CASE HandlerFails(b)
        BY <1>1, <3>4 DEF HandlerFails, Refuse, Answer, ToolInv, GateTypes, CallTypes
      <3> QED
        BY <3>1, <3>2, <3>3, <3>4
    <2>3. CASE KeyNext \/ BucketNext \/ GateTick \/ UNCHANGED callVars
      <3>1. Aside(c)
        BY <1>1, <2>3, AsideSteps
      <3> QED
        BY <1>1, <3>1 DEF Aside, Stays
    <2> QED
      BY <1>1, <2>2, <2>3 DEF GateNext, gateVars
  <1>2. ASSUME ToolInv, [GateNext]_gateVars
        PROVE  [\A c, d \in Calls :
                  stage[c] = "admitted" /\ stage'[c] = "running"
                    => ~(status[d] = 200 /\ Same(c, d)')]_<<now, stage, who, status, toolVars>>
    BY <1>1, <1>2
  <1> QED
    BY <1>2, ToolInvHolds, PTL DEF GateSpec, AnsweredNeverRunsAgain

-----------------------------------------------------------------------------
(* The cached keys *)

\* A key is published, or was at some time not before t.
SeenSince(k, t) == k \in published \/ t <= lastSeen[k]

\* The cache is no older than its time to live says.
CacheRecent ==
    /\ expiresAt <= now + Ttl
    /\ \A k \in keys : SeenSince(k, expiresAt - FetchTime - Ttl)

\* The issuer's answer is fresh when it is used.
FetchRecent == \A c \in Calls : stage[c] = "fetched" =>
    /\ fetched[c].time <= now /\ now <= fetched[c].time + FetchTime
    /\ \A k \in fetched[c].keys : SeenSince(k, fetched[c].time)

\* A key that a call does not find was not published all the while.
AbsentIsMissed ==
    \A c \in Calls :
        /\ InAuthentication(c) /\ Kid(c) \notin published => c \in missed
        /\ stage[c] = "fetched" /\ Kid(c) \notin fetched[c].keys => c \in missed
        /\ status[c] = 401 => stage[c] = "answered" /\ (token[c].valid => c \in missed)

KeyInv == GateTypes /\ CacheRecent /\ FetchRecent /\ AbsentIsMissed

\* What a look-up does to its call and to no other.
LEMMA LookUpSteps ==
    ASSUME GateTypes, NEW c \in Calls, NEW S, LookUp(c, S), stage[c] # "answered"
    PROVE  /\ \A d \in Calls : d # c => Stays(d)
           /\ \/ stage'[c] = "verified" /\ status'[c] = status[c] /\ Kid(c) \in S
              \/ stage'[c] = "wait" /\ status'[c] = status[c]
              \/ /\ stage'[c] = "answered" /\ status'[c] = 401
                 /\ ~token[c].valid \/ (forced[c] /\ Kid(c) \notin S)
  <1>1. CASE Reach(c, "verified") /\ Kid(c) \in S
    BY <1>1 DEF Reach, Stays, GateTypes, CallTypes
  <1>2. CASE Reach(c, "wait")
    BY <1>2 DEF Reach, Stays, GateTypes, CallTypes
  <1>3. CASE Answer(c, 401) /\ (~token[c].valid \/ (forced[c] /\ Kid(c) \notin S))
    BY <1>3 DEF Answer, Stays, GateTypes, CallTypes
  <1> QED
    BY <1>1, <1>2, <1>3, Refusals DEF LookUp, Decode, Refuse

\* What a step that leaves the issuer alone does for the call that takes it.
LEMMA CallKeeps ==
    ASSUME KeyInv, GateTypes', NEW c \in Calls, UNCHANGED <<now, published, lastSeen>>,
           missed \subseteq missed', CacheRecent',
           \A d \in Calls : d # c => Stays(d) /\ token'[d] = token[d] /\ fetched'[d] = fetched[d],
           (stage'[c] = "fetched" =>
                /\ fetched'[c].time <= now /\ now <= fetched'[c].time + FetchTime
                /\ \A k \in fetched'[c].keys : SeenSince(k, fetched'[c].time)),
           InAuthentication(c)' /\ Kid(c)' \notin published => c \in missed',
           stage'[c] = "fetched" /\ Kid(c)' \notin fetched'[c].keys => c \in missed',
           status'[c] = 401 => stage'[c] = "answered" /\ (token'[c].valid => c \in missed')
    PROVE  KeyInv'
  <1>1. FetchRecent'
    BY DEF KeyInv, FetchRecent, SeenSince, Stays
  <1>2. AbsentIsMissed'
    BY DEF KeyInv, AbsentIsMissed, InAuthentication, Kid, Stays
  <1> QED
    BY <1>1, <1>2 DEF KeyInv

LEMMA SameCache ==
    ASSUME CacheRecent, UNCHANGED <<now, published, lastSeen, keys, expiresAt>>
    PROVE  CacheRecent'
  BY DEF CacheRecent, SeenSince

\* No step accepts a key that has been withdrawn for too long.
Accepts(d) == stage[d] # "verified" /\ stage'[d] = "verified"
    => Kid(d)' \in published \/ now < lastSeen[Kid(d)'] + FetchTime + Ttl

\* A key found in a cache that has not expired may be accepted.
LEMMA FreshIsSeen ==
    ASSUME KeyInv, Fresh, NEW k \in keys
    PROVE  k \in published \/ now < lastSeen[k] + FetchTime + Ttl
  <1>1. k \in Kids /\ expiresAt \in Nat /\ now \in Nat /\ lastSeen[k] \in Nat /\ FetchTime \in Nat /\ Ttl \in Nat
    BY KeyAssumption DEF KeyInv, GateTypes, KeyTypeOK, CallTypes
  <1>2. SeenSince(k, expiresAt - FetchTime - Ttl)
    BY DEF KeyInv, CacheRecent
  <1> QED
    BY <1>1, <1>2 DEF SeenSince, Fresh

LEMMA VerifyKeeps ==
    ASSUME KeyInv, GateTypes', NEW c \in Calls, NEW k \in Kids, NEW valid \in BOOLEAN,
           Verify(c, k, valid)
    PROVE  KeyInv' /\ \A d \in Calls : Accepts(d)
  <1> USE DEF KeyInv, GateTypes
  <1>1. /\ token'[c] = [kid |-> k, valid |-> valid]
        /\ UNCHANGED <<now, published, lastSeen, keys, expiresAt, fetched, who>>
        /\ missed \subseteq missed' /\ (k \notin published => c \in missed')
        /\ stage[c] = "new"
    BY DEF Verify, KeyTypeOK
  <1>2. \A d \in Calls : d # c => Stays(d) /\ token'[d] = token[d] /\ fetched'[d] = fetched[d]
    BY DEF Verify, Decode, Reach, Refuse, Answer, Stays, KeyTypeOK, CallTypes
  <1>3. \/ stage'[c] = "verified" /\ status'[c] = status[c] /\ Fresh /\ k \in keys
        \/ stage'[c] = "wait" /\ status'[c] = status[c]
        \/ stage'[c] = "answered" /\ status'[c] = 401 /\ ~valid
    BY Refusals DEF Verify, Decode, Reach, Refuse, Answer, CallTypes
  <1>4. status[c] # 401
    BY <1>1 DEF AbsentIsMissed
  <1>5. KeyInv'
    <2>1. CacheRecent'
      BY <1>1, SameCache
    <2> HIDE DEF KeyInv, GateTypes
    <2> QED
      BY <1>1, <1>2, <1>3, <1>4, <2>1, CallKeeps DEF Kid
  <1>6. \A d \in Calls : Accepts(d)
    <2> HIDE DEF KeyInv, GateTypes
    <2> QED
      BY <1>1, <1>2, <1>3, FreshIsSeen DEF Accepts, Stays, Kid
  <1> QED
    BY <1>5, <1>6

LEMMA MalformedKeeps ==
    ASSUME KeyInv, GateTypes', NEW c \in Calls, Malformed(c)
    PROVE  KeyInv' /\ \A d \in Calls : Accepts(d)
  <1>1. /\ UNCHANGED <<now, published, lastSeen, keys, expiresAt, fetched, missed>>
        /\ ~token'[c].valid /\ stage'[c] = "answered"
    BY Refusals DEF Malformed, Refuse, Answer, KeyInv, GateTypes, KeyTypeOK, CallTypes
  <1>2. \A d \in Calls : d # c => Stays(d) /\ token'[d] = token[d] /\ fetched'[d] = fetched[d]
    BY DEF Malformed, Refuse, Answer, Stays, KeyInv, GateTypes, KeyTypeOK, CallTypes
  <1>3. CacheRecent'
    BY <1>1, SameCache DEF KeyInv
  <1>4. KeyInv'
    BY <1>1, <1>2, <1>3, CallKeeps DEF InAuthentication
  <1> QED
    BY <1>1, <1>2, <1>4 DEF Accepts, Stays

LEMMA AcquireKeeps ==
    ASSUME KeyInv, GateTypes', NEW c \in Calls, Acquire(c)
    PROVE  KeyInv' /\ \A d \in Calls : Accepts(d)
  <1>0. GateTypes
    BY DEF KeyInv
  <1>1. /\ UNCHANGED <<now, published, lastSeen, keys, expiresAt, fetched, missed, token>>
        /\ stage[c] = "wait" /\ Kid(c)' = Kid(c)
    BY DEF Acquire, Kid
  <1>2. CacheRecent'
    BY <1>1, SameCache DEF KeyInv
  <1>3. /\ Kid(c) \notin published => c \in missed
        /\ status[c] # 401
    BY <1>1 DEF KeyInv, AbsentIsMissed, InAuthentication
  <1>4. CASE Reach(c, "fetching")
    <2>1. /\ stage'[c] = "fetching" /\ status'[c] = status[c]
          /\ \A d \in Calls : d # c => Stays(d)
      BY <1>0, <1>4 DEF Reach, Stays, GateTypes, CallTypes
    <2>2. KeyInv'
      BY <1>1, <1>2, <1>3, <2>1, CallKeeps
    <2> QED
      BY <2>1, <2>2 DEF Accepts, Stays
  <1>5. CASE LookUp(c, keys) /\ ~MustFetch(c)
    <2>1. /\ \A d \in Calls : d # c => Stays(d)
          /\ \/ stage'[c] = "verified" /\ status'[c] = status[c] /\ Kid(c) \in keys
             \/ stage'[c] = "wait" /\ status'[c] = status[c]
             \/ /\ stage'[c] = "answered" /\ status'[c] = 401
                /\ ~token[c].valid \/ (forced[c] /\ Kid(c) \notin keys)
      BY <1>0, <1>1, <1>5, LookUpSteps
    <2>2. ~forced[c] /\ Fresh
      BY <1>5 DEF MustFetch
    <2>3. KeyInv'
      BY <1>1, <1>2, <1>3, <2>1, <2>2, CallKeeps
    <2>4. \A d \in Calls : Accepts(d)
      BY <1>1, <2>1, <2>2, FreshIsSeen DEF Accepts, Stays
    <2> QED
      BY <2>3, <2>4
  <1> QED
    BY <1>4, <1>5 DEF Acquire

LEMMA FetchKeeps ==
    ASSUME KeyInv, GateTypes', NEW c \in Calls, Fetch(c)
    PROVE  KeyInv' /\ \A d \in Calls : Accepts(d)
  <1>1. /\ UNCHANGED <<now, published, lastSeen, keys, expiresAt, missed, token>>
        /\ stage[c] = "fetching" /\ Kid(c)' = Kid(c)
    BY DEF Fetch, Kid
  <1>2. /\ stage'[c] = "fetched" /\ status'[c] = status[c]
        /\ fetched'[c] = [keys |-> published, time |-> now]
    BY DEF Fetch, Reach, KeyInv, GateTypes, KeyTypeOK, CallTypes
  <1>3. \A d \in Calls : d # c => Stays(d) /\ token'[d] = token[d] /\ fetched'[d] = fetched[d]
    BY DEF Fetch, Reach, Stays, KeyInv, GateTypes, KeyTypeOK, CallTypes
  <1>4. CacheRecent'
    BY <1>1, SameCache DEF KeyInv
  <1>5. /\ Kid(c) \notin published => c \in missed
        /\ status[c] # 401
    BY <1>1 DEF KeyInv, AbsentIsMissed, InAuthentication
  <1>6. now <= now + FetchTime /\ now <= now
    BY KeyAssumption DEF KeyInv, GateTypes, CallTypes
  <1>7. KeyInv'
    BY <1>1, <1>2, <1>3, <1>4, <1>5, <1>6, CallKeeps DEF SeenSince
  <1> QED
    BY <1>2, <1>3, <1>7 DEF Accepts, Stays

LEMMA FetchFailsKeeps ==
    ASSUME KeyInv, GateTypes', NEW c \in Calls, FetchFails(c)
    PROVE  KeyInv' /\ \A d \in Calls : Accepts(d)
  <1>1. /\ UNCHANGED <<now, published, lastSeen, keys, expiresAt, missed, token, fetched>>
        /\ stage'[c] = "answered" /\ status'[c] # 401
    BY Refusals DEF FetchFails, Refuse, Answer, KeyInv, GateTypes, CallTypes
  <1>2. \A d \in Calls : d # c => Stays(d)
    BY DEF FetchFails, Refuse, Answer, Stays, KeyInv, GateTypes, CallTypes
  <1>3. CacheRecent'
    BY <1>1, SameCache DEF KeyInv
  <1>4. KeyInv'
    BY <1>1, <1>2, <1>3, CallKeeps DEF InAuthentication
  <1> QED
    BY <1>1, <1>2, <1>4 DEF Accepts, Stays

LEMMA InstallKeeps ==
    ASSUME KeyInv, GateTypes', NEW c \in Calls, Install(c)
    PROVE  KeyInv' /\ \A d \in Calls : Accepts(d)
  <1> DEFINE answer == fetched[c]
  <1>0. GateTypes
    BY DEF KeyInv
  <1>1. /\ UNCHANGED <<now, published, lastSeen, missed, token>>
        /\ keys' = answer.keys /\ expiresAt' = now + Ttl
        /\ stage[c] = "fetched" /\ LookUp(c, answer.keys) /\ Kid(c)' = Kid(c)
        /\ \A d \in Calls : d # c => fetched'[d] = fetched[d]
    BY <1>0 DEF Install, Kid, GateTypes, KeyTypeOK
  <1>2. /\ answer.time <= now /\ now <= answer.time + FetchTime
        /\ \A k \in answer.keys : SeenSince(k, answer.time)
        /\ Kid(c) \notin answer.keys => c \in missed
        /\ Kid(c) \notin published => c \in missed
        /\ status[c] # 401
    BY <1>1 DEF KeyInv, FetchRecent, AbsentIsMissed, InAuthentication
  <1>3. /\ now \in Nat /\ answer.time \in Nat /\ FetchTime \in Nat /\ Ttl \in Nat \ {0}
        /\ answer.keys \subseteq Kids /\ \A k \in Kids : lastSeen[k] \in Nat
    BY <1>0, KeyAssumption DEF GateTypes, KeyTypeOK, CallTypes
  <1>4. \A k \in answer.keys : k \in published \/ answer.time <= lastSeen[k]
    BY <1>2 DEF SeenSince
  <1>5. CacheRecent'
    BY <1>1, <1>2, <1>3, <1>4 DEF CacheRecent, SeenSince
  <1>6. /\ \A d \in Calls : d # c => Stays(d)
        /\ \/ stage'[c] = "verified" /\ status'[c] = status[c] /\ Kid(c) \in answer.keys
           \/ stage'[c] = "wait" /\ status'[c] = status[c]
           \/ /\ stage'[c] = "answered" /\ status'[c] = 401
              /\ ~token[c].valid \/ (forced[c] /\ Kid(c) \notin answer.keys)
    BY <1>0, <1>1, LookUpSteps
  <1>7. KeyInv'
    BY <1>1, <1>2, <1>5, <1>6, CallKeeps
  <1>8. \A k \in answer.keys : k \in published \/ now < lastSeen[k] + FetchTime + Ttl
    BY <1>2, <1>3, <1>4
  <1>9. \A d \in Calls : Accepts(d)
    BY <1>1, <1>6, <1>8 DEF Accepts, Stays
  <1> QED
    BY <1>7, <1>9

LEMMA RotateKeeps ==
    ASSUME KeyInv, GateTypes', NEW S \in KeySets, Rotate(S)
    PROVE  KeyInv' /\ \A d \in Calls : Accepts(d)
  <1>1. /\ UNCHANGED <<now, stage, status, token, fetched, keys, expiresAt>>
        /\ published' = S
        /\ missed' = missed \cup {c \in Calls : InAuthentication(c) /\ Kid(c) \notin S}
    BY DEF Rotate
  <1>2. /\ now \in Nat /\ expiresAt \in Nat /\ FetchTime \in Nat /\ Ttl \in Nat
        /\ keys \subseteq Kids
        /\ \A c \in Calls : fetched[c].keys \subseteq Kids /\ fetched[c].time \in Nat
        /\ lastSeen \in [Kids -> Nat]
    BY KeyAssumption DEF KeyInv, GateTypes, KeyTypeOK, CallTypes
  <1>3. ASSUME NEW k \in Kids, NEW t \in Int, t <= now, SeenSince(k, t)
        PROVE  SeenSince(k, t)'
    BY <1>2, <1>3 DEF SeenSince, Rotate
  <1>4. CacheRecent'
    <2>1. expiresAt - FetchTime - Ttl \in Int /\ expiresAt - FetchTime - Ttl <= now
      BY <1>2 DEF KeyInv, CacheRecent
    <2> QED
      BY <1>1, <1>2, <1>3, <2>1 DEF KeyInv, CacheRecent
  <1>5. FetchRecent'
    BY <1>1, <1>2, <1>3 DEF KeyInv, FetchRecent
  <1>6. AbsentIsMissed'
    BY <1>1 DEF KeyInv, AbsentIsMissed, InAuthentication, Kid
  <1> QED
    BY <1>1, <1>4, <1>5, <1>6 DEF KeyInv, Accepts

\* The steps after the authentication leave alone what is known of the keys.
LEMMA LaterStepsKeep ==
    ASSUME KeyInv, GateTypes', UNCHANGED keyVars, BucketNext \/ ToolNext
    PROVE  KeyInv' /\ \A d \in Calls : Accepts(d)
  <1> DEFINE Later(d) == Stays(d) \/ (/\ stage'[d] \notin KeyMoves
                                      /\ status'[d] # 401)
  <1>0. GateTypes /\ CallTypes
    BY DEF KeyInv, GateTypes
  <1>1. UNCHANGED <<now, who>> /\ \A d \in Calls : Later(d)
    <2>1. CASE BucketNext
      <3>1. PICK c \in Calls : /\ stage[c] \in BucketStages
                               /\ Goes(c, BucketMoves) \/ Ends(c, {429, 503})
        BY <2>1, BucketSteps
      <3>2. /\ BucketMoves \in SUBSET (KeyStages \cup BucketStages \cup ToolStages)
            /\ {429, 503} \in SUBSET Int
        BY DEF BucketMoves, BucketStages, ToolStages
      <3>3. Moved(c, BucketMoves, {429, 503}) /\ \A d \in Calls : d # c => Stays(d)
        BY <1>0, <2>1, <3>1, <3>2, BucketSteps, OneMoves
      <3>4. status[c] # 401
        BY <3>1 DEF KeyInv, AbsentIsMissed, BucketStages
      <3>5. Later(c)
        BY <3>3, <3>4 DEF Moved, BucketMoves, KeyMoves, KeyStages
      <3> HIDE DEF Later
      <3> QED
        BY <2>1, <3>3, <3>5, BucketSteps DEF Later
    <2>2. CASE ToolNext
      <3>1. PICK c \in Calls : /\ stage[c] \in ToolStages
                               /\ Goes(c, {"running"}) \/ Ends(c, {200, 400, 403, 503})
        BY <2>2, ToolSteps
      <3>2. /\ {"running"} \in SUBSET (KeyStages \cup BucketStages \cup ToolStages)
            /\ {200, 400, 403, 503} \in SUBSET Int
        BY DEF ToolStages
      <3>3. Moved(c, {"running"}, {200, 400, 403, 503}) /\ \A d \in Calls : d # c => Stays(d)
        BY <1>0, <2>2, <3>1, <3>2, ToolSteps, OneMoves
      <3>4. status[c] # 401
        BY <3>1 DEF KeyInv, AbsentIsMissed, ToolStages
      <3>5. Later(c)
        BY <3>3, <3>4 DEF Moved, KeyMoves, KeyStages
      <3> HIDE DEF Later
      <3> QED
        BY <2>2, <3>3, <3>5, ToolSteps DEF Later
    <2> QED
      BY <2>1, <2>2
  <1>2. UNCHANGED <<token, fetched, keys, expiresAt, published, lastSeen, missed>>
    BY DEF keyVars
  <1>3. CacheRecent'
    BY <1>1, <1>2, SameCache DEF KeyInv
  <1>4. FetchRecent'
    BY <1>1, <1>2 DEF KeyInv, FetchRecent, SeenSince, Stays, KeyMoves, KeyStages
  <1>5. AbsentIsMissed'
    BY <1>1, <1>2 DEF KeyInv, AbsentIsMissed, InAuthentication, Kid, Stays, KeyMoves, KeyStages
  <1>6. \A d \in Calls : Accepts(d)
    BY <1>1 DEF Accepts, Stays, KeyMoves
  <1> QED
    BY <1>3, <1>4, <1>5, <1>6 DEF KeyInv

LEMMA TickKeeps ==
    ASSUME KeyInv, GateTypes', GateTick
    PROVE  KeyInv' /\ \A d \in Calls : Accepts(d)
  <1>1. /\ now' = now + 1 /\ now \in Nat /\ expiresAt \in Nat /\ Ttl \in Nat /\ FetchTime \in Nat
        /\ UNCHANGED <<stage, status, token, fetched, keys, expiresAt, published, lastSeen, missed>>
        /\ \A c \in Calls : fetched[c].time \in Nat
    BY KeyAssumption DEF GateTick, BucketTick, keyVars, KeyInv, GateTypes, CallTypes, KeyTypeOK
  <1>2. CacheRecent'
    BY <1>1 DEF KeyInv, CacheRecent, SeenSince
  <1>3. FetchRecent'
    BY <1>1 DEF KeyInv, FetchRecent, SeenSince, GateTick, BucketTick, FetchInTime
  <1>4. AbsentIsMissed'
    BY <1>1 DEF KeyInv, AbsentIsMissed, InAuthentication, Kid
  <1> QED
    BY <1>1, <1>2, <1>3, <1>4 DEF KeyInv, Accepts

LEMMA GateKeeps ==
    ASSUME KeyInv, GateTypes', [GateNext]_gateVars
    PROVE  KeyInv' /\ \A d \in Calls : Accepts(d)
  <1>1. CASE KeyNext
    <2>1. CASE \E c \in Calls, k \in Kids, valid \in BOOLEAN : Verify(c, k, valid)
      BY <2>1, VerifyKeeps
    <2>2. CASE \E c \in Calls : Malformed(c)
      BY <2>2, MalformedKeeps
    <2>3. CASE \E c \in Calls : Acquire(c)
      BY <2>3, AcquireKeeps
    <2>4. CASE \E c \in Calls : Fetch(c)
      BY <2>4, FetchKeeps
    <2>5. CASE \E c \in Calls : FetchFails(c)
      BY <2>5, FetchFailsKeeps
    <2>6. CASE \E c \in Calls : Install(c)
      BY <2>6, InstallKeeps
    <2>7. CASE \E S \in KeySets : Rotate(S)
      BY <2>7, RotateKeeps
    <2> QED
      BY <1>1, <2>1, <2>2, <2>3, <2>4, <2>5, <2>6, <2>7 DEF KeyNext
  <1>2. CASE UNCHANGED keyVars /\ (BucketNext \/ ToolNext)
    BY <1>2, LaterStepsKeep
  <1>3. CASE GateTick
    BY <1>3, TickKeeps
  <1>4. CASE UNCHANGED gateVars
    BY <1>4 DEF gateVars, callVars, keyVars, KeyInv, CacheRecent, FetchRecent, AbsentIsMissed,
                SeenSince, InAuthentication, Kid, Accepts
  <1> QED
    BY <1>1, <1>2, <1>3, <1>4 DEF GateNext

LEMMA KeyInvHolds == GateSpec => []KeyInv
  <1>1. ASSUME GateInitAt([c \in Calls |-> "new"]), GateTypes PROVE KeyInv
    <2>1. CacheRecent
      BY <1>1, KeyAssumption DEF GateInitAt, CallsInit, KeyInit, CacheRecent, SeenSince
    <2>2. FetchRecent
      BY <1>1 DEF GateInitAt, CallsInit, FetchRecent
    <2>3. AbsentIsMissed
      BY <1>1 DEF GateInitAt, CallsInit, AbsentIsMissed, InAuthentication
    <2> QED
      BY <1>1, <2>1, <2>2, <2>3 DEF KeyInv
  <1>2. ASSUME KeyInv, GateTypes', [GateNext]_gateVars PROVE KeyInv'
    BY <1>2, GateKeeps
  <1> QED
    BY <1>1, <1>2, TypesHold, PTL DEF GateSpec

\* For any calls, keys, times and rotations: verify (oidc.py) refuses a valid
\* token only if its key was not published at some moment of the call, although
\* the cache is read outside the lock that refreshes it.
THEOREM PublishedKeysAreAccepted == GateSpec => []PublishedKeyAccepted
  <1>1. KeyInv => PublishedKeyAccepted
    BY DEF KeyInv, AbsentIsMissed, PublishedKeyAccepted
  <1> QED
    BY <1>1, KeyInvHolds, PTL

\* A key that the issuer has withdrawn is accepted no longer than its fetch and
\* the time to live.
THEOREM RevokedKeysDie == GateSpec => RevokedKeyDies
  <1>1. ASSUME KeyInv, GateTypes', [GateNext]_gateVars
        PROVE  [\A c \in Calls :
                  stage[c] # "verified" /\ stage'[c] = "verified"
                    => Kid(c)' \in published \/ now < lastSeen[Kid(c)'] + FetchTime + Ttl
               ]_<<now, stage, who, status, keyVars>>
    BY <1>1, GateKeeps DEF Accepts
  <1> QED
    BY <1>1, KeyInvHolds, TypesHold, PTL DEF GateSpec, RevokedKeyDies

-----------------------------------------------------------------------------
(* The rate limit *)

\* Multiplication by Refill, of which the prover need not know more.
LEMMA RefillLaws ==
    /\ \A a, b \in Int : Refill * (a + b) = Refill * a + Refill * b
    /\ \A a, b \in Int : a <= b => Refill * a <= Refill * b
    /\ \A a \in Int : Refill * a \in Int /\ a * Refill = Refill * a
    /\ Refill * 0 = 0
  <1>1. Refill \in Nat
    BY BucketAssumption
  <1> QED
    BY <1>1

\* A bucket lives for as long as it takes to fill it twice.
LEMMA LifetimeFillsTwice ==
    /\ Lifetime \in Nat \ {0} /\ 2 * Capacity <= Refill * Lifetime
    /\ Refill * (MaxSkew + MaxDelay) <= Capacity
  <1>1. /\ Capacity \in Nat \ {0} /\ Refill \in Nat \ {0} /\ MaxSkew \in Nat /\ MaxDelay \in Nat
        /\ (MaxSkew + MaxDelay) * Refill <= Capacity
    BY BucketAssumption
  <1>2. Lifetime \in Int
    BY <1>1 DEF Lifetime
  <1>3. 2 * Capacity <= Refill * Lifetime
    BY <1>1 DEF Lifetime
  <1>4. Lifetime > 0
    BY <1>1, <1>2, <1>3
  <1>5. Refill * (MaxSkew + MaxDelay) <= Capacity
    BY <1>1, RefillLaws
  <1> QED
    BY <1>2, <1>3, <1>4, <1>5

\* Calls on their way to Redis carry a clock that is not too wrong.
StampsNear == \A c \in Calls : stage[c] = "sent" =>
    /\ sent[c].time <= now /\ now <= sent[c].time + MaxDelay
    /\ sent[c].time <= sent[c].stamp /\ sent[c].stamp <= sent[c].time + MaxSkew

\* A bucket was updated a lifetime before it expires, but for the skew, and no
\* later than now, but for the skew.
AgesNear == \A s \in Subjects : bucket[s].until > 0 =>
    /\ bucket[s].updated + Lifetime <= bucket[s].until + MaxSkew
    /\ bucket[s].updated <= now + MaxSkew

\* Clocks' time from a window's start to the bucket's last update, and what was
\* set back meanwhile.
ClockTime(s) ==
    bucket[s].updated - ledger[s].opened + MaxDelay + ClockError * ledger[s].back

\* Tokens that are left and those granted were all there or refilled since.
Balanced == \A s \in Subjects : bucket[s].until > 0 =>
    bucket[s].tokens + Granted(s) <= Capacity + Refill * ClockTime(s)

BucketInv ==
    /\ GateTypes /\ BucketTypeOK
    /\ StampsNear /\ AgesNear
    /\ Balanced /\ MeteredInProduction

\* What the script leaves for a subject is balanced again: t tokens are found,
\* of which one is taken if there is one.
LEMMA AccountBalances ==
    ASSUME NEW s \in Subjects, BucketInv, NEW stamp \in Nat,
           now - MaxDelay <= stamp, NEW opens \in BOOLEAN,
           bucket[s].until = 0 => opens,
           bucket'[s] = Left(Refilled(Found(s, stamp), stamp), stamp),
           ledger'[s] = Entry(ledger[s], bucket[s], stamp,
                              Refilled(Found(s, stamp), stamp) >= 1, opens)
    PROVE  /\ bucket'[s].tokens \in 0..Capacity
           /\ bucket'[s].tokens + Granted(s)' <= Capacity + Refill * ClockTime(s)'
  <1> DEFINE b == bucket[s]
             l == ledger[s]
             t == Refilled(Found(s, stamp), stamp)
             granted == t >= 1
             left == IF granted THEN t - 1 ELSE t
  <1>1. /\ Capacity \in Nat \ {0} /\ Refill \in Nat /\ MaxSkew \in Nat /\ MaxDelay \in Nat
        /\ now \in Nat /\ ClockError \in Nat /\ ClockError = MaxSkew + MaxDelay
    BY BucketAssumption DEF BucketInv, GateTypes, CallTypes, ClockError
  <1>2. /\ b.tokens \in 0..Capacity /\ b.updated \in Nat /\ b.until \in Nat
        /\ l.taken \in Nat /\ l.before \in Nat /\ l.opened \in Nat /\ l.back \in Nat
    BY DEF BucketInv, BucketTypeOK
  <1>3. Positive(stamp - b.updated) \in Nat
    BY <1>2 DEF Positive
  <1>4. Refill * Positive(stamp - b.updated) \in Nat
    BY <1>1, <1>3
  <1>5. t \in 0..Capacity
    <2>1. CASE now < b.until
      <3>1. t = Least(Capacity, b.tokens + Positive(stamp - b.updated) * Refill)
        BY <2>1 DEF Found, Refilled
      <3>2. Positive(stamp - b.updated) * Refill = Refill * Positive(stamp - b.updated)
        BY <1>3, RefillLaws
      <3> HIDE DEF t
      <3> QED
        BY <1>1, <1>2, <1>4, <3>1, <3>2 DEF Least
    <2>2. CASE ~(now < b.until)
      <3>1. Positive(stamp - stamp) * Refill = 0
        BY <1>1 DEF Positive
      <3>2. t = Least(Capacity, Capacity + 0)
        BY <2>2, <3>1 DEF Found, Refilled
      <3> QED
        BY <1>1, <3>2 DEF Least
    <2> QED
      BY <2>1, <2>2
  <1>6. /\ bucket'[s].tokens = left /\ bucket'[s].updated = stamp
        /\ ledger'[s].taken = (IF granted THEN l.taken + 1 ELSE l.taken)
        /\ ledger'[s].before = (IF opens THEN l.taken ELSE l.before)
        /\ ledger'[s].opened = (IF opens THEN now ELSE l.opened)
        /\ ledger'[s].back = (IF opens THEN 0 ELSE IF stamp < b.updated THEN l.back + 1 ELSE l.back)
    BY DEF Left, Entry
  <1>7. (granted => t >= 1) /\ left \in 0..Capacity /\ left + (IF granted THEN 1 ELSE 0) = t
    BY <1>1, <1>5
  <1>g. /\ Granted(s)' = ledger'[s].taken - ledger'[s].before
        /\ ClockTime(s)' = bucket'[s].updated - ledger'[s].opened + MaxDelay
                             + ClockError * ledger'[s].back
    BY DEF Granted, ClockTime, ClockError
  <1> HIDE DEF t, granted, left
  <1>8. CASE opens
    <2>1. /\ ledger'[s].before = l.taken /\ ledger'[s].opened = now /\ ledger'[s].back = 0
      BY <1>6, <1>8
    <2> HIDE DEF l
    <2>2. Granted(s)' = IF granted THEN 1 ELSE 0
      <3>1. CASE granted
        BY <1>2, <1>6, <1>g, <2>1, <3>1
      <3>2. CASE ~granted
        BY <1>2, <1>6, <1>g, <2>1, <3>2
      <3> QED
        BY <3>1, <3>2
    <2>3. left + Granted(s)' = t
      BY <1>7, <2>2
    <2>4. ClockTime(s)' \in Nat
      <3>1. ClockError * 0 = 0
        BY <1>1
      <3> QED
        BY <1>1, <1>6, <1>g, <2>1, <3>1
    <2>5. 0 <= Refill * ClockTime(s)' /\ Refill * ClockTime(s)' \in Int
      <3> HIDE DEF ClockTime
      <3> QED
        BY <1>1, <2>4, RefillLaws
    <2> HIDE DEF ClockTime
    <2> QED
      BY <1>1, <1>5, <1>6, <1>7, <2>3, <2>5
  <1>9. CASE ~opens
    <2>1. b.until > 0
      BY <1>2, <1>9
    <2>2. /\ b.tokens + (l.taken - l.before) <= Capacity + Refill * ClockTime(s)
          /\ ClockTime(s) = b.updated - l.opened + MaxDelay + ClockError * l.back
      BY <2>1 DEF BucketInv, Balanced, Granted, ClockTime
    <2> DEFINE old == ClockTime(s)
               new == stamp - l.opened + MaxDelay + ClockError * ledger'[s].back
               on == Positive(stamp - b.updated)
    <2>3. old \in Int /\ new \in Int /\ on \in Nat /\ new >= old + on
      <3>1. /\ ClockError * l.back \in Nat /\ ClockError * (l.back + 1) \in Nat
            /\ ClockError * (l.back + 1) = ClockError * l.back + ClockError
        BY <1>1, <1>2
      <3>2. CASE stamp < b.updated
        <4>1. on = 0 /\ ledger'[s].back = l.back + 1
          BY <1>2, <1>6, <1>9, <3>2 DEF Positive
        <4>2. b.updated <= now + MaxSkew
          BY <2>1 DEF BucketInv, AgesNear
        <4> HIDE DEF on
        <4> QED
          BY <1>1, <1>2, <2>2, <3>1, <4>1, <4>2
      <3>3. CASE ~(stamp < b.updated)
        <4>1. on = stamp - b.updated /\ ledger'[s].back = l.back
          BY <1>2, <1>6, <1>9, <3>3 DEF Positive
        <4> HIDE DEF on
        <4> QED
          BY <1>1, <1>2, <2>2, <3>1, <3>3, <4>1
      <3> QED
        BY <3>2, <3>3
    <2>4. /\ Refill * new >= Refill * old + Refill * on
          /\ Refill * new \in Int /\ Refill * old \in Int /\ Refill * on \in Nat
      <3> HIDE DEF old, new, on
      <3> QED
        BY <1>1, <2>3, RefillLaws
    <2>5. t <= b.tokens + Refill * on \/ (Refill * on >= Capacity /\ t <= Capacity)
      <3>1. CASE now < b.until
        <4>1. t = Least(Capacity, b.tokens + on * Refill)
          BY <3>1 DEF Found, Refilled, t
        <4>2. on * Refill = Refill * on
          BY <2>3, RefillLaws
        <4> HIDE DEF on
        <4> QED
          BY <1>1, <1>2, <2>4, <4>1, <4>2 DEF Least
      <3>2. CASE ~(now < b.until)
        <4>1. b.updated + Lifetime <= b.until + MaxSkew
          BY <2>1 DEF BucketInv, AgesNear
        <4>2. Lifetime \in Nat
          BY LifetimeFillsTwice
        <4>3. Lifetime <= (stamp - b.updated) + (MaxSkew + MaxDelay)
          BY <1>1, <1>2, <3>2, <4>1, <4>2
        <4>4. stamp - b.updated <= on
          BY <1>2 DEF Positive
        <4>5. Lifetime <= on + (MaxSkew + MaxDelay)
          BY <1>1, <1>2, <2>3, <4>2, <4>3, <4>4
        <4> HIDE DEF old, new, on
        <4>6. Refill * Lifetime <= Refill * (on + (MaxSkew + MaxDelay))
          <5>1. Lifetime \in Int /\ on + (MaxSkew + MaxDelay) \in Int
            BY <1>1, <2>3, <4>2
          <5>2. \A c, d \in Int : c <= d => Refill * c <= Refill * d
            BY RefillLaws
          <5> QED
            BY <4>5, <5>1, <5>2
        <4>7. Refill * (on + (MaxSkew + MaxDelay)) = Refill * on + Refill * (MaxSkew + MaxDelay)
          BY <1>1, <2>3, RefillLaws
        <4>8. Refill * Lifetime \in Int /\ Refill * (MaxSkew + MaxDelay) \in Int
          BY <1>1, <4>2, RefillLaws
        <4> QED
          BY <1>1, <1>5, <2>4, <4>6, <4>7, <4>8, LifetimeFillsTwice
      <3> QED
        BY <3>1, <3>2
    <2>6. bucket'[s].tokens + Granted(s)' = t + (l.taken - l.before)
      <3>1. ledger'[s].before = l.before
        BY <1>6, <1>9
      <3>2. CASE granted
        <4>1. left + 1 = t /\ left \in Int /\ ledger'[s].taken = l.taken + 1
          BY <1>6, <1>7, <3>2
        <4> HIDE DEF l
        <4> QED
          BY <1>2, <1>6, <1>g, <3>1, <4>1
      <3>3. CASE ~granted
        BY <1>2, <1>5, <1>6, <1>7, <1>g, <3>1, <3>3
      <3> QED
        BY <3>2, <3>3
    <2>7. ClockTime(s)' = new
      BY <1>6, <1>9, <1>g
    <2> HIDE DEF old, new, on
    <2>8. t + (l.taken - l.before) <= Capacity + Refill * new
      BY <1>1, <1>2, <1>5, <2>2, <2>4, <2>5 DEF old
    <2> QED
      BY <1>6, <1>7, <2>6, <2>7, <2>8
  <1> QED
    BY <1>8, <1>9

\* The balance at the last update bounds what was granted up to now.
LEMMA BalanceBounds == BucketInv => GrantsBounded
  <1> SUFFICES ASSUME BucketInv, NEW s \in Subjects, bucket[s].until > 0
               PROVE  Granted(s) <= Capacity
                        + Refill * (Elapsed(s) + ClockError * (1 + ledger[s].back))
    BY DEF GrantsBounded
  <1>1. /\ Capacity \in Nat /\ Refill \in Nat /\ MaxSkew \in Nat /\ MaxDelay \in Nat
        /\ now \in Nat /\ ClockError = MaxSkew + MaxDelay
    BY BucketAssumption DEF BucketInv, GateTypes, CallTypes, ClockError
  <1>2. /\ bucket[s].tokens \in Nat /\ bucket[s].updated \in Nat /\ Granted(s) \in Int
        /\ ledger[s].opened \in Nat /\ ledger[s].back \in Nat
    BY DEF BucketInv, BucketTypeOK, Granted
  <1>3. /\ bucket[s].updated <= now + MaxSkew
        /\ bucket[s].tokens + Granted(s) <= Capacity + Refill * ClockTime(s)
    BY DEF BucketInv, AgesNear, Balanced
  <1> DEFINE most == Elapsed(s) + ClockError * (1 + ledger[s].back)
  <1>4. ClockTime(s) \in Int /\ most \in Int /\ ClockTime(s) <= most
    <2>1. ClockError * (1 + ledger[s].back) = ClockError + ClockError * ledger[s].back
          /\ ClockError * ledger[s].back \in Int
      BY <1>1, <1>2
    <2> QED
      BY <1>1, <1>2, <1>3, <2>1 DEF ClockTime, Elapsed
  <1> HIDE DEF most
  <1>5. Refill * ClockTime(s) <= Refill * most
        /\ Refill * ClockTime(s) \in Int /\ Refill * most \in Int
    BY <1>4, RefillLaws
  <1>6. Granted(s) <= Capacity + Refill * most
    BY <1>1, <1>2, <1>3, <1>5
  <1> QED
    BY <1>6 DEF most

\* How many of some calls are a subject's.
Count(S, s) == Cardinality({d \in S : who[d] = s})

\* One more call is counted at most once, and for its subject only.
LEMMA OneMoreAdmitted ==
    ASSUME NEW A \in SUBSET Calls, NEW c \in Calls, NEW s
    PROVE  /\ Count(A, s) \in Nat /\ Count(A \cup {c}, s) \in Nat
           /\ Count(A \cup {c}, s) <= Count(A, s) + 1
           /\ who[c] # s => Count(A \cup {c}, s) = Count(A, s)
  <1> DEFINE D == {d \in A : who[d] = s}
  <1>1. IsFiniteSet(D) /\ Cardinality(D) \in Nat
    BY CallsAssumption, FS_Subset, FS_CardinalityType
  <1>2. CASE who[c] = s
    <2>1. {d \in A \cup {c} : who[d] = s} = D \cup {c}
      BY <1>2
    <2>2. Cardinality(D \cup {c}) = IF c \in D THEN Cardinality(D) ELSE Cardinality(D) + 1
      BY <1>1, FS_AddElement
    <2> HIDE DEF D
    <2>3. Count(A, s) = Cardinality(D) /\ Count(A \cup {c}, s) = Cardinality(D \cup {c})
      BY <2>1 DEF D, Count
    <2> QED
      BY <1>1, <1>2, <2>2, <2>3
  <1>3. CASE who[c] # s
    <2>1. {d \in A \cup {c} : who[d] = s} = D
      BY <1>3
    <2>2. Count(A, s) = Cardinality(D) /\ Count(A \cup {c}, s) = Cardinality(D)
      BY <2>1 DEF Count
    <2> HIDE DEF D
    <2> QED
      BY <1>1, <2>2
  <1> QED
    BY <1>2, <1>3

\* What a step of the limiter does: a call that goes on unmetered does so in
\* development only.
LEMMA UnmeteredSteps ==
    ASSUME NEW c \in Calls, Unmetered(c)
    PROVE  admitted' = admitted \/ (environment = "development" /\ admitted' = admitted \cup {c})
  BY DEF Unmetered, LetThrough

LEMMA OneBucketMoves ==
    ASSUME CallTypes, UNCHANGED <<now, who>>, NEW c \in Calls,
           Goes(c, BucketMoves) \/ Ends(c, {429, 503})
    PROVE  \A d \in Calls : d # c => Stays(d)
  <1>1. /\ BucketMoves \in SUBSET (KeyStages \cup BucketStages \cup ToolStages)
        /\ {429, 503} \in SUBSET Int
    BY DEF BucketMoves, BucketStages, ToolStages
  <1> QED
    BY <1>1, OneMoves

LEMMA BucketMovesCalls ==
    ASSUME BucketInv, NEW c \in Calls, stage[c] \in BucketStages, UNCHANGED <<now, who>>,
           Goes(c, BucketMoves) \/ Ends(c, {429, 503}), stage'[c] # "sent",
           sent' = sent
    PROVE  StampsNear'
  <1>1. \A d \in Calls : d # c => Stays(d)
    <2>1. CallTypes
      BY DEF BucketInv, GateTypes
    <2> QED
      BY <2>1, OneBucketMoves
  <1> QED
    BY <1>1 DEF BucketInv, StampsNear, Stays

LEMMA SendKeeps ==
    ASSUME BucketInv, GateTypes', NEW c \in Calls, NEW skew \in 0..MaxSkew, Send(c, skew)
    PROVE  BucketInv'
  <1>1. /\ UNCHANGED <<now, who, environment, bucket, ledger, admitted>>
        /\ sent' = [sent EXCEPT ![c] = [stamp |-> now + skew, time |-> now]]
        /\ stage' = [stage EXCEPT ![c] = "sent"]
    BY DEF Send, Reach
  <1>2. now \in Nat /\ skew \in Nat /\ skew <= MaxSkew /\ MaxSkew \in Nat /\ MaxDelay \in Nat
    BY BucketAssumption DEF BucketInv, GateTypes, CallTypes
  <1>3. BucketTypeOK'
    BY <1>1, <1>2 DEF BucketInv, BucketTypeOK
  <1>4. StampsNear'
    BY <1>1, <1>2 DEF BucketInv, BucketTypeOK, StampsNear, GateTypes, CallTypes
  <1> QED
    BY <1>1, <1>3, <1>4 DEF BucketInv, AgesNear, Balanced, Granted, ClockTime, ClockError,
                                 MeteredInProduction

LEMMA EvalKeeps ==
    ASSUME BucketInv, GateTypes', NEW c \in Calls, Eval(c)
    PROVE  BucketInv'
  <1>0. PICK s \in Subjects : s = who[c]
    BY DEF BucketInv, GateTypes, CallTypes
  <1> DEFINE stamp == sent[c].stamp
             t == Refilled(Found(s, stamp), stamp)
             granted == t >= 1
  <1>1. PICK opens \in {bucket[s].until = 0, TRUE} :
            ledger' = [ledger EXCEPT ![s] = Entry(@, bucket[s], stamp, granted, opens)]
    BY <1>0 DEF Eval
  <1>2. /\ stage[c] = "sent" /\ UNCHANGED <<now, who, environment, sent>>
        /\ bucket' = [bucket EXCEPT ![s] = Left(t, stamp)]
    BY <1>0 DEF Eval
  <1>3. \/ granted /\ LetThrough(c)
        \/ ~granted /\ Refuse(c, "rate_limit_exceeded") /\ UNCHANGED admitted
        \/ Unmetered(c)
    BY <1>0 DEF Eval
  <1>4. /\ s \in Subjects /\ stamp \in Nat /\ now \in Nat /\ opens \in BOOLEAN
        /\ Capacity \in Nat \ {0} /\ MaxSkew \in Nat /\ MaxDelay \in Nat
        /\ Lifetime \in Nat \ {0}
        /\ bucket[s].until = 0 => opens
        /\ sent[c].time \in Nat
    BY <1>1, BucketAssumption, LifetimeFillsTwice
    DEF BucketInv, BucketTypeOK, GateTypes, CallTypes
  <1>5. stamp <= now + MaxSkew /\ now - MaxDelay <= stamp
    BY <1>2, <1>4 DEF BucketInv, StampsNear
  <1>6. /\ bucket'[s] = Left(t, stamp)
        /\ ledger'[s] = Entry(ledger[s], bucket[s], stamp, granted, opens)
        /\ \A u \in Subjects : u # s => bucket'[u] = bucket[u] /\ ledger'[u] = ledger[u]
    BY <1>1, <1>2, <1>4 DEF BucketInv, BucketTypeOK
  <1>7. /\ bucket'[s].tokens \in 0..Capacity
        /\ bucket'[s].tokens + Granted(s)' <= Capacity + Refill * ClockTime(s)'
    BY <1>4, <1>5, <1>6, AccountBalances
  <1> HIDE DEF t
  <1>8. /\ ledger'[s] = [taken |-> IF granted THEN ledger[s].taken + 1 ELSE ledger[s].taken,
                         before |-> IF opens THEN ledger[s].taken ELSE ledger[s].before,
                         opened |-> IF opens THEN now ELSE ledger[s].opened,
                         back |-> IF opens THEN 0
                                  ELSE IF stamp < bucket[s].updated THEN ledger[s].back + 1
                                  ELSE ledger[s].back]
        /\ bucket'[s] = [tokens |-> IF granted THEN t - 1 ELSE t,
                         updated |-> stamp, until |-> now + Lifetime]
    BY <1>6 DEF Left, Entry
  <1>9. BucketTypeOK'
    <2>1. bucket'[s] \in [tokens : 0..Capacity, updated : Nat, until : Nat]
      BY <1>4, <1>7, <1>8
    <2>3. ledger'[s] \in [taken : Nat, before : Nat, opened : Nat, back : Nat]
      <3>1. ledger[s] \in [taken : Nat, before : Nat, opened : Nat, back : Nat]
        BY <1>4 DEF BucketInv, BucketTypeOK
      <3> HIDE DEF granted, stamp
      <3> QED
        BY <1>4, <1>8, <3>1
    <2>4. admitted' \in SUBSET Calls
      BY <1>3, UnmeteredSteps DEF LetThrough, BucketInv, BucketTypeOK
    <2>5. bucket' \in [Subjects -> [tokens : 0..Capacity, updated : Nat, until : Nat]]
      BY <1>2, <1>6, <2>1 DEF BucketInv, BucketTypeOK
    <2>6. ledger' \in [Subjects -> [taken : Nat, before : Nat, opened : Nat, back : Nat]]
      BY <1>1, <1>6, <2>3 DEF BucketInv, BucketTypeOK
    <2> QED
      BY <1>2, <2>4, <2>5, <2>6 DEF BucketInv, BucketTypeOK
  <1>10. StampsNear'
    <2>1. stage[c] \in BucketStages
      BY <1>2 DEF BucketStages
    <2>2. /\ Goes(c, BucketMoves) \/ Ends(c, {429, 503})
          /\ stage'[c] # "sent"
      BY <1>3, Refusals
      DEF Unmetered, LetThrough, Reach, Refuse, Answer, Goes, Ends, BucketMoves,
          BucketInv, GateTypes, CallTypes
    <2> QED
      BY <1>2, <2>1, <2>2, BucketMovesCalls
  <1>11. AgesNear'
    <2>1. /\ bucket'[s].updated + Lifetime <= bucket'[s].until + MaxSkew
          /\ bucket'[s].updated <= now' + MaxSkew
      BY <1>2, <1>4, <1>5, <1>8
    <2> QED
      BY <1>2, <1>6, <2>1 DEF BucketInv, AgesNear
  <1>12. Balanced'
    <2>1. \A u \in Subjects : u # s => /\ Granted(u)' = Granted(u)
                                      /\ ClockTime(u)' = ClockTime(u)
      BY <1>6 DEF Granted, ClockTime, ClockError
    <2> QED
      BY <1>6, <1>7, <2>1 DEF BucketInv, Balanced
  <1>13. MeteredInProduction'
    <2> SUFFICES ASSUME environment # "development", NEW u \in Subjects
                 PROVE  Count(admitted', u) <= ledger'[u].taken
      BY <1>2 DEF MeteredInProduction, Count
    <2>1. Count(admitted, u) <= ledger[u].taken /\ ledger[u].taken \in Nat /\ admitted \in SUBSET Calls
      BY DEF BucketInv, MeteredInProduction, BucketTypeOK, Count
    <2>2. /\ Count(admitted, u) \in Nat /\ Count(admitted \cup {c}, u) \in Nat
          /\ Count(admitted \cup {c}, u) <= Count(admitted, u) + 1
          /\ s # u => Count(admitted \cup {c}, u) = Count(admitted, u)
      BY <1>0, <2>1, OneMoreAdmitted
    <2>3. ledger[u].taken <= ledger'[u].taken /\ ledger'[u].taken \in Nat
      BY <1>4, <1>6, <1>8, <2>1
    <2>4. granted /\ s = u => ledger'[u].taken = ledger[u].taken + 1
      BY <1>8
    <2>5. admitted' = admitted \/ (granted /\ admitted' = admitted \cup {c})
      BY <1>3, UnmeteredSteps DEF LetThrough
    <2> HIDE DEF granted
    <2>6. CASE admitted' = admitted
      BY <2>1, <2>2, <2>3, <2>6
    <2>7. CASE granted /\ admitted' = admitted \cup {c}
      <3>1. CASE s = u
        BY <2>1, <2>2, <2>4, <2>7, <3>1
      <3>2. CASE s # u
        BY <2>1, <2>2, <2>3, <2>7, <3>2
      <3> QED
        BY <3>1, <3>2
    <2> QED
      BY <2>5, <2>6, <2>7
  <1> QED
    BY <1>9, <1>10, <1>11, <1>12, <1>13 DEF BucketInv

LEMMA LimiterDownKeeps ==
    ASSUME BucketInv, GateTypes', NEW c \in Calls, LimiterDown(c)
    PROVE  BucketInv'
  <1>1. /\ stage[c] = "sent" /\ Unmetered(c)
        /\ UNCHANGED <<now, who, environment, sent, bucket, ledger>>
    BY DEF LimiterDown
  <1>2. /\ stage[c] \in BucketStages /\ stage'[c] # "sent"
        /\ Goes(c, BucketMoves) \/ Ends(c, {429, 503})
    BY <1>1, Refusals
    DEF Unmetered, LetThrough, Reach, Refuse, Answer, Goes, Ends, BucketMoves, BucketStages,
        BucketInv, GateTypes, CallTypes
  <1>3. StampsNear'
    BY <1>1, <1>2, BucketMovesCalls
  <1>4. /\ admitted' \in SUBSET Calls
        /\ environment # "development" => admitted' = admitted
    BY <1>1, UnmeteredSteps DEF BucketInv, BucketTypeOK
  <1>5. BucketTypeOK'
    BY <1>1, <1>4 DEF BucketInv, BucketTypeOK
  <1>6. MeteredInProduction'
    BY <1>1, <1>4 DEF BucketInv, MeteredInProduction
  <1> QED
    BY <1>1, <1>3, <1>5, <1>6 DEF BucketInv, AgesNear, Balanced, Granted, ClockTime, ClockError

\* The other parts neither send a call to Redis nor touch a bucket.
LEMMA ElsewhereKeeps ==
    ASSUME BucketInv, GateTypes', UNCHANGED bucketVars, KeyNext \/ ToolNext
    PROVE  BucketInv'
  <1> DEFINE Elsewhere(d) == Stays(d) \/ stage'[d] # "sent"
  <1>0. GateTypes /\ CallTypes /\ KeyTypeOK
    BY DEF BucketInv, GateTypes
  <1>1. UNCHANGED <<now, who>> /\ \A d \in Calls : Elsewhere(d)
    <2>1. CASE KeyNext
      <3>1. CASE UNCHANGED <<stage, status>>
        BY <1>0, <2>1, <3>1, KeySteps DEF Stays
      <3>2. CASE \E c \in Calls : Goes(c, KeyMoves) \/ Ends(c, {401, 503})
        <4>1. PICK c \in Calls : Goes(c, KeyMoves) \/ Ends(c, {401, 503})
          BY <3>2
        <4>2. /\ KeyMoves \in SUBSET (KeyStages \cup BucketStages \cup ToolStages)
              /\ {401, 503} \in SUBSET Int
          BY DEF KeyMoves, BucketStages
        <4>3. Moved(c, KeyMoves, {401, 503}) /\ \A d \in Calls : d # c => Stays(d)
          BY <1>0, <2>1, <4>1, <4>2, KeySteps, OneMoves
        <4> QED
          BY <1>0, <2>1, <4>3, KeySteps DEF Moved, KeyMoves, KeyStages
      <3> QED
        BY <1>0, <2>1, <3>1, <3>2, KeySteps
    <2>2. CASE ToolNext
      <3>1. PICK c \in Calls : Goes(c, {"running"}) \/ Ends(c, {200, 400, 403, 503})
        BY <2>2, ToolSteps
      <3>2. /\ {"running"} \in SUBSET (KeyStages \cup BucketStages \cup ToolStages)
            /\ {200, 400, 403, 503} \in SUBSET Int
        BY DEF ToolStages
      <3>3. Moved(c, {"running"}, {200, 400, 403, 503}) /\ \A d \in Calls : d # c => Stays(d)
        BY <1>0, <2>2, <3>1, <3>2, ToolSteps, OneMoves
      <3> QED
        BY <2>2, <3>3, ToolSteps DEF Moved
    <2> QED
      BY <2>1, <2>2
  <1>2. StampsNear'
    BY <1>1 DEF BucketInv, StampsNear, Stays, bucketVars
  <1> QED
    BY <1>1, <1>2
    DEF BucketInv, BucketTypeOK, AgesNear, Balanced, Granted, ClockTime, ClockError,
        MeteredInProduction, bucketVars

LEMMA ClockKeeps ==
    ASSUME BucketInv, GateTypes', GateTick
    PROVE  BucketInv'
  <1>1. /\ now' = now + 1 /\ now \in Nat /\ MaxDelay \in Nat
        /\ UNCHANGED <<stage, who, environment, sent, bucket, ledger, admitted>>
        /\ \A c \in Calls : sent[c].time \in Nat
    BY BucketAssumption
    DEF GateTick, BucketTick, bucketVars, BucketInv, BucketTypeOK, GateTypes, CallTypes
  <1>2. StampsNear'
    BY <1>1 DEF BucketInv, StampsNear, GateTick, BucketTick, EvalInTime
  <1>3. AgesNear'
    <2>1. MaxSkew \in Nat /\ \A s \in Subjects : bucket[s].updated \in Nat
      BY BucketAssumption DEF BucketInv, BucketTypeOK
    <2> QED
      BY <1>1, <2>1 DEF BucketInv, AgesNear
  <1> QED
    BY <1>1, <1>2, <1>3 DEF BucketInv, BucketTypeOK, Balanced, Granted, ClockTime, ClockError,
                            MeteredInProduction

LEMMA BucketTypesStart == BucketInit => BucketTypeOK
  BY BucketAssumption DEF BucketInit, NoBucket, BucketTypeOK

LEMMA BucketStarts ==
    ASSUME NEW stages \in [Calls -> GateStages], GateInitAt(stages),
           \A c \in Calls : stages[c] # "sent"
    PROVE  BucketInv
  <1>1. /\ StampsNear /\ AgesNear /\ Balanced
    BY DEF GateInitAt, CallsInit, BucketInit, NoBucket, StampsNear, AgesNear, Balanced
  <1>2. BucketTypeOK
    BY BucketTypesStart DEF GateInitAt
  <1>3. MeteredInProduction
    <2>1. \A s \in Subjects : {c \in admitted : who[c] = s} = {}
      BY DEF GateInitAt, BucketInit
    <2> QED
      BY <2>1, FS_EmptySet DEF GateInitAt, BucketInit, MeteredInProduction
  <1> QED
    BY <1>1, <1>2, <1>3, TypesStart DEF BucketInv

LEMMA BucketGoesOn ==
    ASSUME BucketInv, GateTypes', [GateNext]_gateVars
    PROVE  BucketInv'
  <1>1. CASE BucketNext
    <2>1. CASE \E c \in Calls, skew \in 0..MaxSkew : Send(c, skew)
      BY <2>1, SendKeeps
    <2>2. CASE \E c \in Calls : Eval(c)
      BY <2>2, EvalKeeps
    <2>3. CASE \E c \in Calls : LimiterDown(c)
      BY <2>3, LimiterDownKeeps
    <2> QED
      BY <1>1, <2>1, <2>2, <2>3 DEF BucketNext
  <1>2. CASE UNCHANGED bucketVars /\ (KeyNext \/ ToolNext)
    BY <1>2, ElsewhereKeeps
  <1>3. CASE GateTick
    BY <1>3, ClockKeeps
  <1>4. CASE UNCHANGED gateVars
    BY <1>4 DEF gateVars, callVars, bucketVars, BucketInv, BucketTypeOK, StampsNear,
                      AgesNear, Balanced, Granted, ClockTime, ClockError, MeteredInProduction
  <1> QED
    BY <1>1, <1>2, <1>3, <1>4 DEF GateNext

LEMMA BucketInvHolds == GateSpec => []BucketInv
  <1> DEFINE stages == [c \in Calls |-> "new"]
  <1>1. stages \in [Calls -> GateStages] /\ \A c \in Calls : stages[c] # "sent"
    BY DEF GateStages, KeyStages
  <1> HIDE DEF stages
  <1>2. GateInitAt(stages) => BucketInv
    BY <1>1, BucketStarts
  <1> QED
    BY <1>2, BucketGoesOn, TypesHold, PTL DEF GateSpec, stages

\* For any capacity, refill, skew and delay within BucketAssumption, and calls
\* that overtake each other or are stamped by any of the clocks: in a window of
\* real time the script of rate_limit.py grants a subject no more than a full
\* bucket, the refill of that time and of the clocks' error, and that error once
\* more for each stamp set back, however many the calls are; outside development
\* nobody passes unmetered.
THEOREM RateIsLimited == GateSpec => []RateLimitHolds
  <1>1. BucketInv => RateLimitHolds
    BY BalanceBounds DEF BucketInv, RateLimitHolds
  <1> QED
    BY <1>1, BucketInvHolds, PTL
=============================================================================
