----------------------------- MODULE DirectGraph -----------------------------
(***************************************************************************)
(* The direct route of the assistant (graph/nodes.py, graph/builder.py,     *)
(* graph/runtime.py): input_policy -> understand_and_plan -> retrieve ->    *)
(* enrich_with_mcp -> compose_answer -> validate_answer -> [repair_once ->  *)
(* validate_answer] -> finalize | safe_failure.  Runs share no state, so one *)
(* request id is followed, through crashes and repeated sends.              *)
(*                                                                         *)
(* Evidence is its id.  A draft is the set of ids its claims cite: the       *)
(* schema gives every claim at least one, so {} means that the model was    *)
(* unavailable or its output had no structure.                              *)
(***************************************************************************)
EXTENDS Naturals, Sequences, FiniteSets

CONSTANTS
    Docs,          \* evidence ids the access filter lets retrieval return
    Records,       \* directory ids a message may name, in canonical order
    Unknown,       \* ids a model may cite that no source has
    MaxLookups,    \* MAX_MCP_LOOKUPS
    MaxChunks,     \* bound: text chunks of an answer
    Checkpointed,  \* TRUE when a durable checkpointer is configured
    MaxSends       \* bound: how often the request is sent

ASSUME DirectAssumption ==
    /\ Records \subseteq Nat /\ IsFiniteSet(Records)
    /\ Docs \cap Records = {} /\ Unknown \cap (Docs \cup Records) = {}
    /\ MaxLookups \in Nat
    /\ MaxChunks \in Nat \ {0}
    /\ Checkpointed \in BOOLEAN
    /\ MaxSends \in Nat \ {0}

VARIABLES
    pc,        \* the node the run is in
    sends,     \* how often the request was sent
    mayRead,   \* the principal's scope allows mcp.read
    asked,     \* the directory ids the message names
    evidence,  \* state["evidence"]
    draft,     \* state["draft_answer"]
    valid,     \* state["answer_valid"]
    repairs,   \* state["repair_count"]
    answer,    \* state["final_answer"]
    events,    \* the append-reduced channel of activity events
    calls,     \* model calls of this run (history)
    obtained   \* what retrieval and the directory returned in this run (history)

vars == <<pc, sends, mayRead, asked, evidence, draft, valid, repairs, answer,
          events, calls, obtained>>
request == <<sends, mayRead, asked>>

Ids == Docs \cup Records \cup Unknown
NoDraft == {}
NoAnswer == [kind |-> "none", cites |-> {}]
Grounded(cites) == [kind |-> "grounded", cites |-> cites]
Safe == [kind |-> "safe", cites |-> {}]

Nodes == {"input_policy", "understand_and_plan", "retrieve", "enrich_with_mcp",
          "compose_answer", "validate_answer", "repair_once", "finalize",
          "safe_failure"}
Ended == {"idle", "done", "lost"}

(* _events: numbers start at the length of the channel plus an offset.      *)
NumberedNoOffset(offset, types) ==                       \* mutant
    [i \in 1..Len(types) |-> [seq |-> Len(events) + i - 1, type |-> types[i]]]
Numbered(offset, types) ==
    [i \in 1..Len(types) |->
        [seq |-> Len(events) + offset + i - 1, type |-> types[i]]]
Emit(types) == events' = events \o Numbered(0, types)
EmitInTwo(first, second) ==
    events' = events \o Numbered(0, first) \o Numbered(Len(first), second)

-----------------------------------------------------------------------------
Init ==
    /\ pc = "idle"
    /\ sends = 0
    /\ mayRead = FALSE
    /\ asked = {}
    /\ evidence = {}
    /\ draft = NoDraft
    /\ valid = FALSE
    /\ repairs = 0
    /\ answer = NoAnswer
    /\ events = <<>>
    /\ calls = 0
    /\ obtained = {}

(* run() and stream(): with a durable checkpointer the channels of an        *)
(* earlier send of the same request are still there.                        *)
Begin ==
    /\ pc \in Ended
    /\ sends < MaxSends
    /\ sends' = sends + 1
    /\ pc' = "input_policy"
    /\ mayRead' \in BOOLEAN
    /\ asked' \in SUBSET Records
    /\ calls' = 0
    /\ obtained' = {}
    /\ IF Checkpointed
       THEN UNCHANGED <<evidence, draft, valid, repairs, answer, events>>
       ELSE /\ evidence' = {} /\ draft' = NoDraft /\ valid' = FALSE
            /\ repairs' = 0 /\ answer' = NoAnswer /\ events' = <<>>

\* The repair count a run starts with.
FirstRepairsKept == repairs                              \* mutant: not reset
FirstRepairs == 0

InputPolicy ==
    /\ pc = "input_policy"
    /\ repairs' = FirstRepairs
    /\ Emit(<<"run.started", "node.started", "node.completed">>)
    /\ pc' = "understand_and_plan"
    /\ UNCHANGED <<request, evidence, draft, valid, answer, calls, obtained>>

UnderstandAndPlan ==
    /\ pc = "understand_and_plan"
    /\ Emit(<<"node.started", "node.completed">>)
    /\ pc' = "retrieve"
    /\ UNCHANGED <<request, evidence, draft, valid, repairs, answer, calls, obtained>>

\* What a search that failed leaves.
DegradedKept == evidence                                 \* mutant: not cleared
Degraded == {}

Retrieve ==
    /\ pc = "retrieve"
    /\ \/ /\ evidence' \in SUBSET Docs
          /\ obtained' = evidence'
          /\ EmitInTwo(<<"node.started", "retrieval.started">>,
                       <<"retrieval.completed", "node.completed">>)
       \/ /\ evidence' = Degraded
          /\ obtained' = {}
          /\ EmitInTwo(<<"node.started", "retrieval.started">>,
                       <<"retrieval.degraded", "node.completed">>)
    /\ pc' = "enrich_with_mcp"
    /\ UNCHANGED <<request, draft, valid, repairs, answer, calls>>

(* extract_mcp_lookups: the ids in canonical order, as many as are allowed. *)
Place(r) == Cardinality({a \in asked : a < r}) + 1
Lookups == {r \in asked : Place(r) <= MaxLookups}
MayLookUpAll == TRUE                                     \* mutant: no permission
MayLookUp == mayRead

EnrichNothing ==
    /\ Lookups = {}
    /\ EmitInTwo(<<"node.started">>, <<"node.completed">>)
    /\ UNCHANGED <<evidence, obtained>>

(* The denied branch leaves node.started out and keeps its offset.          *)
EnrichDenied ==
    /\ Lookups # {} /\ ~MayLookUp
    /\ LET denied == [i \in 1..Cardinality(Lookups) |-> "tool.denied"] IN
       events' = events \o Numbered(1, denied)
                        \o Numbered(1 + Len(denied), <<"node.completed">>)
    /\ UNCHANGED <<evidence, obtained>>

EnrichLookedUp ==
    /\ Lookups # {} /\ MayLookUp
    /\ \E fate \in [Lookups -> {"failed", "missing", "found"}] :
         LET found == {r \in Lookups : fate[r] = "found"}
             at(i) == CHOOSE r \in Lookups : Place(r) = i
             tools == [i \in 1..(2 * Cardinality(Lookups)) |->
                         IF i % 2 = 1 THEN "tool.requested"
                         ELSE IF fate[at(i \div 2)] = "failed" THEN "tool.failed"
                         ELSE "tool.completed"]
         IN  /\ evidence' = evidence \cup found
             /\ obtained' = obtained \cup found
             /\ events' = events \o Numbered(0, <<"node.started">>) \o Numbered(1, tools)
                                 \o Numbered(1 + Len(tools), <<"node.completed">>)

EnrichWithMcp ==
    /\ pc = "enrich_with_mcp"
    /\ EnrichNothing \/ EnrichDenied \/ EnrichLookedUp
    /\ pc' = "compose_answer"
    /\ UNCHANGED <<request, draft, valid, repairs, answer, calls>>

(* _generate: the model may cite anything, answer nonsense or be down.      *)
Generate ==
    /\ draft' \in SUBSET Ids
    /\ calls' = calls + 1

(* compose_answer, and route_after_compose on its edge.                    *)
ComposeAnswer ==
    /\ pc = "compose_answer"
    /\ IF evidence = {}
       THEN draft' = NoDraft /\ pc' = "safe_failure" /\ UNCHANGED calls
       ELSE Generate /\ pc' = "validate_answer"
    /\ Emit(<<"node.started", "node.completed">>)
    /\ UNCHANGED <<request, evidence, valid, repairs, answer, obtained>>

(* validate_answer_citations, for a draft that has the structure.           *)
Passes == draft # NoDraft /\ draft \subseteq evidence

RouteAfterValidationUnbounded(ok) ==                     \* mutant: no limit
    IF ok THEN "finalize" ELSE "repair_once"
RouteAfterValidation(ok) ==
    IF ok THEN "finalize" ELSE IF repairs < 1 THEN "repair_once" ELSE "safe_failure"

(* validate_answer, and route_after_validation on its edge.                *)
ValidateAnswer ==
    /\ pc = "validate_answer"
    /\ valid' = Passes
    /\ pc' = RouteAfterValidation(Passes)
    /\ Emit(<<"node.started", "validation.completed", "node.completed">>)
    /\ UNCHANGED <<request, evidence, draft, repairs, answer, calls, obtained>>

RepairOnce ==
    /\ pc = "repair_once"
    /\ Generate
    /\ repairs' = repairs + 1
    /\ Emit(<<"node.started", "node.completed">>)
    /\ pc' = "validate_answer"
    /\ UNCHANGED <<request, evidence, valid, answer, obtained>>

EmitAnswer ==
    \E n \in 1..MaxChunks :
        Emit([i \in 1..n |-> "answer.delta"] \o <<"answer.completed", "run.completed">>)

Finalize ==
    /\ pc = "finalize"
    /\ answer' = Grounded(draft)
    /\ EmitAnswer
    /\ pc' = "done"
    /\ UNCHANGED <<request, evidence, draft, valid, repairs, calls, obtained>>

SafeFailure ==
    /\ pc = "safe_failure"
    /\ answer' = Safe
    /\ EmitAnswer
    /\ pc' = "done"
    /\ UNCHANGED <<request, evidence, draft, valid, repairs, calls, obtained>>

(* The process stops or the client goes away while a node runs; the node's  *)
(* update is lost, the channels of the nodes before it may be kept.         *)
Stop ==
    /\ pc \in Nodes
    /\ pc' = "lost"
    /\ UNCHANGED <<request, evidence, draft, valid, repairs, answer, events, calls,
                   obtained>>

Node ==
    \/ InputPolicy \/ UnderstandAndPlan \/ Retrieve \/ EnrichWithMcp \/ ComposeAnswer
    \/ ValidateAnswer \/ RepairOnce \/ Finalize \/ SafeFailure
Next == Begin \/ Node \/ Stop

Spec == Init /\ [][Next]_vars
-----------------------------------------------------------------------------
(* Properties *)

EventTypes == {"run.started", "node.started", "node.completed", "retrieval.started",
               "retrieval.completed", "retrieval.degraded", "tool.requested",
               "tool.completed", "tool.failed", "tool.denied", "validation.completed",
               "answer.delta", "answer.completed", "run.completed"}

\* Every variable has its type; the graph never repairs twice.
TypeOK ==
    /\ pc \in Nodes \cup Ended
    /\ sends \in 0..MaxSends
    /\ mayRead \in BOOLEAN
    /\ asked \in SUBSET Records
    /\ evidence \in SUBSET (Docs \cup Records)
    /\ draft \in SUBSET Ids
    /\ valid \in BOOLEAN
    /\ repairs \in 0..1
    /\ answer \in [kind : {"none", "grounded", "safe"}, cites : SUBSET Ids]
    /\ events \in Seq([seq : Nat, type : EventTypes])
    /\ calls \in 0..2
    /\ obtained \in SUBSET (Docs \cup Records)

\* The claims of an answer rest on what this run's search and lookups returned:
\* nothing invented, nothing left over from an earlier send of the request.
AnswerIsSupported ==
    pc = "done" /\ answer.kind = "grounded" =>
        answer.cites # {} /\ answer.cites \subseteq obtained

\* A principal without mcp.read gets no directory record, whatever the message
\* asks for and whatever an earlier send of the request was allowed.
DeniedReadsNothing ==
    pc = "done" /\ ~mayRead => (evidence \cup answer.cites) \cap Records = {}

\* The safe answer is given only for want of evidence or after the one repair
\* failed too: a crash and a second send do not use the repair up.
SafeOnlyAfterRepair ==
    pc = "done" /\ answer.kind = "safe" => evidence = {} \/ calls = 2

\* The events of a request are numbered without gap or repetition over all its
\* sends, unless a directory lookup was denied.
Contiguous == \A i \in DOMAIN events : events[i].seq = i - 1
StreamNumbered ==
    (\A i \in DOMAIN events : events[i].type # "tool.denied") => Contiguous

\* "Events carry sequence numbers ... so the Streamlit client can render a
\* stable activity timeline" (docs/architecture-plan.md): so do denied lookups'.
EveryStreamNumbered == Contiguous
=============================================================================
