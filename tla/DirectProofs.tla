----------------------------- MODULE DirectProofs -----------------------------
(***************************************************************************)
(* Proofs about DirectGraph for any evidence ids, directory records, number *)
(* of lookups and chunks, and any number of sends of a request, with and    *)
(* without a durable checkpointer.                                          *)
(***************************************************************************)
EXTENDS DirectGraph, FiniteSetTheorems, SequenceTheorems, TLAPS

Event == [seq : Nat, type : EventTypes]

-----------------------------------------------------------------------------
(* The numbers of events.                                                  *)

\* A function on the first numbers is a sequence.
LEMMA FunctionIsSequence ==
    ASSUME NEW S, NEW n \in Nat, NEW f \in [1..n -> S]
    PROVE  f \in Seq(S) /\ Len(f) = n
OBVIOUS

\* The events of a log are numbered one by one from n.
NumberedFrom(n, log) == \A i \in DOMAIN log : log[i].seq = n + i - 1

\* _events numbers what it is given from where it is told to.
LEMMA NumberedType ==
    ASSUME events \in Seq(Event), NEW offset \in Nat, NEW types \in Seq(EventTypes)
    PROVE  /\ Numbered(offset, types) \in Seq(Event)
           /\ Len(Numbered(offset, types)) = Len(types)
           /\ NumberedFrom(Len(events) + offset, Numbered(offset, types))
           /\ \A i \in 1..Len(types) : Numbered(offset, types)[i].type = types[i]
<1> DEFINE new == Numbered(offset, types)
<1>1. Len(events) \in Nat /\ Len(types) \in Nat
    OBVIOUS
<1>2. new = [i \in 1..Len(types) |-> [seq |-> Len(events) + offset + i - 1, type |-> types[i]]]
    BY DEF Numbered
<1>3. \A i \in 1..Len(types) : Len(events) + offset + i - 1 \in Nat /\ types[i] \in EventTypes
    BY <1>1
<1>4. \A i \in 1..Len(types) :
          [seq |-> Len(events) + offset + i - 1, type |-> types[i]] \in Event
    BY <1>3 DEF Event
<1>5. new \in Seq(Event) /\ Len(new) = Len(types)
    BY <1>1, <1>2, <1>4
<1>6. \A i \in 1..Len(types) : /\ new[i].seq = Len(events) + offset + i - 1
                               /\ new[i].type = types[i]
    BY <1>2
<1> HIDE DEF new
<1>7. NumberedFrom(Len(events) + offset, new)
    BY <1>5, <1>6 DEF NumberedFrom
<1> QED BY <1>5, <1>6, <1>7 DEF new

\* A log that goes on where another ends continues its numbers.
LEMMA NumberedOn ==
    ASSUME NEW n \in Nat, NEW s \in Seq(Event), NEW t \in Seq(Event),
           NumberedFrom(n, s), NumberedFrom(n + Len(s), t)
    PROVE  /\ s \o t \in Seq(Event) /\ Len(s \o t) = Len(s) + Len(t)
           /\ NumberedFrom(n, s \o t)
<1>1. /\ s \o t \in Seq(Event) /\ Len(s \o t) = Len(s) + Len(t)
      /\ \A i \in 1..Len(s) + Len(t) :
             (s \o t)[i] = IF i <= Len(s) THEN s[i] ELSE t[i - Len(s)]
    BY ConcatProperties
<1>2. ASSUME NEW i \in 1..Len(s) + Len(t) PROVE (s \o t)[i].seq = n + i - 1
    <2>1. CASE i <= Len(s)
        BY <1>1, <2>1 DEF NumberedFrom
    <2>2. CASE i > Len(s)
        <3>1. i - Len(s) \in 1..Len(t)
            BY <2>2
        <3>2. t[i - Len(s)].seq = n + Len(s) + (i - Len(s)) - 1
            BY <3>1 DEF NumberedFrom
        <3>3. (s \o t)[i] = t[i - Len(s)]
            BY <1>1, <2>2
        <3> QED BY <3>2, <3>3
    <2> QED BY <2>1, <2>2
<1> QED BY <1>1, <1>2 DEF NumberedFrom

LEMMA EventsAssociative ==
    ASSUME NEW s \in Seq(Event), NEW t \in Seq(Event), NEW u \in Seq(Event)
    PROVE  (s \o t) \o u = s \o (t \o u)
BY ConcatAssociative

\* What a node of the graph appends: events that continue the numbers of the
\* channel, or events with a denied lookup among them.
Appended(new) ==
    /\ new \in Seq(Event)
    /\ events' = events \o new
    /\ \/ NumberedFrom(Len(events), new)
       \/ \E i \in DOMAIN new : new[i].type = "tool.denied"

\* One list of events.
LEMMA EmitAppends ==
    ASSUME events \in Seq(Event), NEW types \in Seq(EventTypes), Emit(types)
    PROVE  \E new : Appended(new)
<1>1. Appended(Numbered(0, types))
    BY NumberedType DEF Appended, Emit
<1> QED BY <1>1

\* Two lists, the second numbered with the length of the first as its offset.
LEMMA EmitInTwoAppends ==
    ASSUME events \in Seq(Event), NEW first \in Seq(EventTypes), NEW second \in Seq(EventTypes),
           EmitInTwo(first, second)
    PROVE  \E new : Appended(new)
<1> DEFINE a == Numbered(0, first)
           b == Numbered(Len(first), second)
<1>1. /\ a \in Seq(Event) /\ NumberedFrom(Len(events), a) /\ Len(a) = Len(first)
      /\ b \in Seq(Event) /\ NumberedFrom(Len(events) + Len(first), b)
    BY NumberedType
<1>2. events' = (events \o a) \o b
    BY DEF EmitInTwo
<1> HIDE DEF a, b
<1>3. events' = events \o (a \o b)
    <2>1. (events \o a) \o b = events \o (a \o b)
        BY <1>1, EventsAssociative
    <2> QED BY <1>2, <2>1
<1>4. a \o b \in Seq(Event) /\ NumberedFrom(Len(events), a \o b)
    <2>1. Len(events) \in Nat /\ NumberedFrom(Len(events) + Len(a), b)
        BY <1>1
    <2> QED BY <1>1, <2>1, NumberedOn
<1> QED BY <1>3, <1>4 DEF Appended

\* The answer's chunks and the two events behind them.
LEMMA EmitAnswerAppends ==
    ASSUME events \in Seq(Event), EmitAnswer
    PROVE  \E new : Appended(new)
<1>1. PICK n \in 1..MaxChunks :
          Emit([i \in 1..n |-> "answer.delta"] \o <<"answer.completed", "run.completed">>)
    BY DEF EmitAnswer
<1>2. [i \in 1..n |-> "answer.delta"] \in Seq(EventTypes)
    <2>1. n \in Nat
        BY DirectAssumption DEF DirectAssumption
    <2>2. [i \in 1..n |-> "answer.delta"] \in [1..n -> EventTypes]
        BY DEF EventTypes
    <2> QED BY <2>1, <2>2, FunctionIsSequence
<1>3. <<"answer.completed", "run.completed">> \in Seq(EventTypes)
    BY DEF EventTypes
<1>4. [i \in 1..n |-> "answer.delta"] \o <<"answer.completed", "run.completed">> \in Seq(EventTypes)
    BY <1>2, <1>3, ConcatProperties
<1> QED BY <1>1, <1>4, EmitAppends

\* A message names finitely many records.
LEMMA LookupsFinite ==
    ASSUME asked \in SUBSET Records
    PROVE  /\ IsFiniteSet(Lookups) /\ Cardinality(Lookups) \in Nat
           /\ Lookups # {} => Cardinality(Lookups) >= 1
<1>1. IsFiniteSet(Lookups)
    <2>1. Lookups \subseteq Records
        BY DEF Lookups
    <2> QED BY <2>1, FS_Subset, DirectAssumption DEF DirectAssumption
<1>2. Cardinality(Lookups) \in Nat
    BY <1>1, FS_CardinalityType
<1>3. Cardinality(Lookups) = 0 <=> Lookups = {}
    BY <1>1, FS_EmptySet
<1> QED BY <1>1, <1>2, <1>3

\* A denied lookup is reported for every id, and so at least once.
LEMMA DeniedAppends ==
    ASSUME events \in Seq(Event), asked \in SUBSET Records, EnrichDenied
    PROVE  \E new : Appended(new)
<1> DEFINE denied == [i \in 1..Cardinality(Lookups) |-> "tool.denied"]
           a == Numbered(1, denied)
           b == Numbered(1 + Len(denied), <<"node.completed">>)
<1>1. Cardinality(Lookups) \in Nat /\ Cardinality(Lookups) >= 1
    BY LookupsFinite DEF EnrichDenied
<1>2. denied \in Seq(EventTypes) /\ Len(denied) = Cardinality(Lookups)
    <2>1. denied \in [1..Cardinality(Lookups) -> EventTypes]
        BY DEF EventTypes
    <2> QED BY <1>1, <2>1, FunctionIsSequence
<1>3. denied[1] = "tool.denied"
    BY <1>1
<1>4. events' = (events \o a) \o b
    BY DEF EnrichDenied
<1> HIDE DEF denied
<1>5. /\ a \in Seq(Event) /\ Len(a) = Len(denied)
      /\ \A i \in 1..Len(denied) : a[i].type = denied[i]
    BY <1>2, NumberedType
<1>6. b \in Seq(Event)
    <2>1. 1 + Len(denied) \in Nat
        BY <1>2
    <2>2. <<"node.completed">> \in Seq(EventTypes)
        BY DEF EventTypes
    <2> QED BY <2>1, <2>2, NumberedType
<1> HIDE DEF a, b
<1>7. events' = events \o (a \o b)
    <2>0. a \in Seq(Event) /\ b \in Seq(Event)
        BY <1>5, <1>6
    <2>1. (events \o a) \o b = events \o (a \o b)
        BY <2>0, EventsAssociative
    <2> QED BY <1>4, <2>1
<1>8. /\ a \o b \in Seq(Event) /\ 1 \in DOMAIN (a \o b) /\ (a \o b)[1] = a[1]
    <2>1. 1 <= Len(a)
        BY <1>1, <1>2, <1>5
    <2> QED BY <1>5, <1>6, <2>1, ConcatProperties
<1>9. (a \o b)[1].type = "tool.denied"
    BY <1>1, <1>2, <1>3, <1>5, <1>8
<1> QED BY <1>7, <1>8, <1>9 DEF Appended

\* The events of lookups that are made: two for each, between the node's own.
LEMMA LookedUpAppends ==
    ASSUME events \in Seq(Event), asked \in SUBSET Records, EnrichLookedUp
    PROVE  \E new : Appended(new)
<1>1. PICK tools \in Seq(EventTypes) :
          events' = events \o Numbered(0, <<"node.started">>) \o Numbered(1, tools)
                           \o Numbered(1 + Len(tools), <<"node.completed">>)
    <2>1. PICK fate \in [Lookups -> {"failed", "missing", "found"}] :
              LET at(i) == CHOOSE r \in Lookups : Place(r) = i
                  tools == [i \in 1..(2 * Cardinality(Lookups)) |->
                              IF i % 2 = 1 THEN "tool.requested"
                              ELSE IF fate[at(i \div 2)] = "failed" THEN "tool.failed"
                              ELSE "tool.completed"]
              IN  events' = events \o Numbered(0, <<"node.started">>) \o Numbered(1, tools)
                                   \o Numbered(1 + Len(tools), <<"node.completed">>)
        BY Zenon DEF EnrichLookedUp
    <2> DEFINE at(i) == CHOOSE r \in Lookups : Place(r) = i
               tools == [i \in 1..(2 * Cardinality(Lookups)) |->
                           IF i % 2 = 1 THEN "tool.requested"
                           ELSE IF fate[at(i \div 2)] = "failed" THEN "tool.failed"
                           ELSE "tool.completed"]
    <2>2. 2 * Cardinality(Lookups) \in Nat
        BY LookupsFinite
    <2> HIDE DEF at
    <2>3. tools \in [1..(2 * Cardinality(Lookups)) -> EventTypes]
        BY DEF EventTypes
    <2> USE DEF at
    <2>4. events' = events \o Numbered(0, <<"node.started">>) \o Numbered(1, tools)
                           \o Numbered(1 + Len(tools), <<"node.completed">>)
        BY <2>1, Zenon
    <2> HIDE DEF tools
    <2>5. tools \in Seq(EventTypes)
        BY <2>2, <2>3, FunctionIsSequence
    <2> QED BY <2>4, <2>5
<1> DEFINE a == Numbered(0, <<"node.started">>)
           b == Numbered(1, tools)
           c == Numbered(1 + Len(tools), <<"node.completed">>)
<1>2. /\ a \in Seq(Event) /\ Len(a) = 1 /\ NumberedFrom(Len(events), a)
      /\ b \in Seq(Event) /\ Len(b) = Len(tools) /\ NumberedFrom(Len(events) + 1, b)
      /\ c \in Seq(Event) /\ NumberedFrom(Len(events) + (1 + Len(tools)), c)
    <2>1. Len(tools) \in Nat /\ 1 + Len(tools) \in Nat /\ Len(events) \in Nat
        OBVIOUS
    <2>0. /\ <<"node.started">> \in Seq(EventTypes) /\ Len(<<"node.started">>) = 1
          /\ <<"node.completed">> \in Seq(EventTypes)
        BY DEF EventTypes
    <2>2. a \in Seq(Event) /\ Len(a) = 1 /\ NumberedFrom(Len(events) + 0, a)
        BY <2>0, NumberedType
    <2>3. b \in Seq(Event) /\ Len(b) = Len(tools) /\ NumberedFrom(Len(events) + 1, b)
        BY NumberedType
    <2>4. c \in Seq(Event) /\ NumberedFrom(Len(events) + (1 + Len(tools)), c)
        BY <2>0, <2>1, NumberedType
    <2> QED BY <2>1, <2>2, <2>3, <2>4
<1>3. events' = ((events \o a) \o b) \o c
    BY <1>1
<1> HIDE DEF a, b, c
<1>4. /\ a \o b \in Seq(Event) /\ Len(a \o b) = 1 + Len(tools)
      /\ NumberedFrom(Len(events), a \o b)
    <2>1. Len(events) \in Nat /\ NumberedFrom(Len(events) + Len(a), b)
        BY <1>2
    <2>2. a \o b \in Seq(Event) /\ Len(a \o b) = Len(a) + Len(b) /\ NumberedFrom(Len(events), a \o b)
        BY <1>2, <2>1, NumberedOn, Zenon
    <2> QED BY <1>2, <2>2
<1>5. (a \o b) \o c \in Seq(Event) /\ NumberedFrom(Len(events), (a \o b) \o c)
    <2>1. Len(events) \in Nat /\ NumberedFrom(Len(events) + Len(a \o b), c)
        BY <1>2, <1>4
    <2> QED BY <1>2, <1>4, <2>1, NumberedOn
<1>6. events' = events \o ((a \o b) \o c)
    <2>0. a \in Seq(Event) /\ b \in Seq(Event)
        BY <1>2
    <2>1. (events \o a) \o b = events \o (a \o b)
        BY <2>0, EventsAssociative
    <2> DEFINE ab == a \o b
    <2>2. ab \in Seq(Event) /\ c \in Seq(Event)
        BY <1>2, <1>4
    <2> HIDE DEF ab
    <2>3. (events \o ab) \o c = events \o (ab \o c)
        BY <2>2, EventsAssociative
    <2> USE DEF ab
    <2> QED BY <1>3, <2>1, <2>3
<1> QED BY <1>5, <1>6 DEF Appended

\* An append keeps the channel's numbers as good as they were.
LEMMA AppendedKeeps ==
    ASSUME events \in Seq(Event), StreamNumbered, NEW new, Appended(new)
    PROVE  events' \in Seq(Event) /\ StreamNumbered'
<1>1. /\ events' \in Seq(Event) /\ Len(events') = Len(events) + Len(new)
      /\ \A i \in 1..Len(events) + Len(new) :
             events'[i] = IF i <= Len(events) THEN events[i] ELSE new[i - Len(events)]
    BY ConcatProperties DEF Appended
<1>2. CASE \E i \in DOMAIN new : new[i].type = "tool.denied"
    <2>1. PICK i \in 1..Len(new) : new[i].type = "tool.denied"
        BY <1>2 DEF Appended
    <2>2. Len(events) + i \in DOMAIN events' /\ events'[Len(events) + i].type = "tool.denied"
        BY <1>1, <2>1 DEF Appended
    <2> QED BY <1>1, <2>2 DEF StreamNumbered
<1>3. CASE NumberedFrom(Len(events), new)
    <2> SUFFICES ASSUME \A i \in DOMAIN events' : events'[i].type # "tool.denied"
                 PROVE  Contiguous'
        BY <1>1 DEF StreamNumbered
    <2>1. \A i \in DOMAIN events : events[i].type # "tool.denied"
        <3>1. \A i \in 1..Len(events) : i \in DOMAIN events' /\ events'[i] = events[i]
            BY <1>1 DEF Appended
        <3> QED BY <3>1
    <2>2. NumberedFrom(0, events)
        BY <2>1 DEF StreamNumbered, Contiguous, NumberedFrom
    <2>3. NumberedFrom(0, events \o new)
        BY <1>3, <2>2, NumberedOn DEF Appended
    <2> QED BY <1>1, <2>3 DEF Appended, NumberedFrom, Contiguous
<1> QED BY <1>2, <1>3 DEF Appended

-----------------------------------------------------------------------------
(* The inductive invariant.  Each part says what a node may rely on of the   *)
(* nodes before it: a run that is lost or has not begun may find anything    *)
(* in the channels, and nothing is claimed of it.                           *)

Searching == {"input_policy", "understand_and_plan", "retrieve"}
Composing == {"compose_answer", "validate_answer", "repair_once", "finalize",
              "safe_failure", "done"}

\* Behind retrieval the evidence is this run's; records are in it only behind
\* a lookup that the principal was allowed.
EvidenceIsOfThisRun ==
    /\ pc \in Composing \cup {"enrich_with_mcp"} => evidence = obtained
    /\ pc = "enrich_with_mcp" => evidence \subseteq Docs
    /\ pc \in Composing /\ ~mayRead => evidence \cap Records = {}

\* The model was called once and once more for the repair, in this run.
CallsAreCounted ==
    /\ pc \in Searching \cup {"enrich_with_mcp", "compose_answer"} => calls = 0
    /\ pc \in {"understand_and_plan", "retrieve", "enrich_with_mcp",
               "compose_answer"} => repairs = 0
    /\ pc = "validate_answer" => calls = repairs + 1
    /\ pc = "repair_once" => repairs = 0 /\ calls = 1
    /\ pc = "safe_failure" => evidence = {} \/ calls = 2

DraftPassed == pc = "finalize" => Passes

\* A run that is done has an answer of its own.
AnswerIsOfThisRun ==
    pc = "done" =>
        \/ answer = Safe /\ (evidence = {} \/ calls = 2)
        \/ /\ answer.kind = "grounded" /\ answer.cites # {}
           /\ answer.cites \subseteq evidence

IInv ==
    /\ TypeOK /\ StreamNumbered
    /\ EvidenceIsOfThisRun /\ CallsAreCounted /\ DraftPassed /\ AnswerIsOfThisRun

\* The graph begins with nothing in its channels.
LEMMA InvInit == Init => IInv
<1> SUFFICES ASSUME Init PROVE IInv
    OBVIOUS
<1>1. TypeOK
    <2>1. events \in Seq([seq : Nat, type : EventTypes])
        BY EmptySeq DEF Init
    <2>2. sends \in 0..MaxSends /\ repairs \in 0..1 /\ calls \in 0..2
        BY DirectAssumption DEF Init, DirectAssumption
    <2>3. answer \in [kind : {"none", "grounded", "safe"}, cites : SUBSET Ids]
        BY DEF Init, NoAnswer
    <2>4. /\ pc \in Nodes \cup Ended /\ mayRead \in BOOLEAN /\ asked \in SUBSET Records
          /\ evidence \in SUBSET (Docs \cup Records) /\ draft \in SUBSET Ids
          /\ valid \in BOOLEAN /\ obtained \in SUBSET (Docs \cup Records)
        BY DEF Init, Ended, NoDraft
    <2> QED BY <2>1, <2>2, <2>3, <2>4 DEF TypeOK
<1>2. StreamNumbered
    BY DEF Init, StreamNumbered, Contiguous
<1>3. EvidenceIsOfThisRun /\ CallsAreCounted /\ DraftPassed /\ AnswerIsOfThisRun
    BY DEF Init, EvidenceIsOfThisRun, CallsAreCounted, DraftPassed, AnswerIsOfThisRun,
           Searching, Composing
<1> QED BY <1>1, <1>2, <1>3 DEF IInv

\* Every node keeps the channel's numbers; a run over a fresh channel begins
\* it anew.
LEMMA EventsStep ==
    ASSUME TypeOK, StreamNumbered, [Next]_vars
    PROVE  events' \in Seq(Event) /\ StreamNumbered'
<1>0. events \in Seq(Event) /\ asked \in SUBSET Records
    BY DEF TypeOK, Event
<1>new. ASSUME \E new : Appended(new) PROVE events' \in Seq(Event) /\ StreamNumbered'
    BY <1>0, <1>new, AppendedKeeps
<1>same. ASSUME UNCHANGED events PROVE events' \in Seq(Event) /\ StreamNumbered'
    BY <1>0, <1>same DEF StreamNumbered, Contiguous
<1>types. /\ <<"run.started", "node.started", "node.completed">> \in Seq(EventTypes)
          /\ <<"node.started", "node.completed">> \in Seq(EventTypes)
          /\ <<"node.started", "retrieval.started">> \in Seq(EventTypes)
          /\ <<"retrieval.completed", "node.completed">> \in Seq(EventTypes)
          /\ <<"retrieval.degraded", "node.completed">> \in Seq(EventTypes)
          /\ <<"node.started">> \in Seq(EventTypes) /\ <<"node.completed">> \in Seq(EventTypes)
          /\ <<"node.started", "validation.completed", "node.completed">> \in Seq(EventTypes)
    BY DEF EventTypes
<1>1. CASE Begin
    <2>1. events' = events \/ events' = <<>>
        BY <1>1 DEF Begin
    <2>2. ASSUME events' = <<>> PROVE events' \in Seq(Event) /\ StreamNumbered'
        BY <2>2, EmptySeq DEF StreamNumbered, Contiguous
    <2> QED BY <2>1, <2>2, <1>same
<1>2. CASE InputPolicy \/ UnderstandAndPlan \/ ComposeAnswer \/ ValidateAnswer \/ RepairOnce
    <2>1. \/ Emit(<<"run.started", "node.started", "node.completed">>)
          \/ Emit(<<"node.started", "node.completed">>)
          \/ Emit(<<"node.started", "validation.completed", "node.completed">>)
        BY <1>2 DEF InputPolicy, UnderstandAndPlan, ComposeAnswer, ValidateAnswer, RepairOnce
    <2> QED BY <1>0, <1>types, <2>1, EmitAppends, <1>new
<1>3. CASE Retrieve
    <2>1. \/ EmitInTwo(<<"node.started", "retrieval.started">>,
                       <<"retrieval.completed", "node.completed">>)
          \/ EmitInTwo(<<"node.started", "retrieval.started">>,
                       <<"retrieval.degraded", "node.completed">>)
        BY <1>3 DEF Retrieve
    <2> QED BY <1>0, <1>types, <2>1, EmitInTwoAppends, <1>new
<1>4. CASE EnrichWithMcp
    <2>1. CASE EnrichNothing
        <3>1. EmitInTwo(<<"node.started">>, <<"node.completed">>)
            BY <2>1 DEF EnrichNothing
        <3> QED BY <1>0, <1>types, <3>1, EmitInTwoAppends, <1>new
    <2>2. CASE EnrichDenied
        BY <1>0, <2>2, DeniedAppends, <1>new
    <2>3. CASE EnrichLookedUp
        BY <1>0, <2>3, LookedUpAppends, <1>new
    <2> QED BY <1>4, <2>1, <2>2, <2>3 DEF EnrichWithMcp
<1>5. CASE Finalize \/ SafeFailure
    <2>1. EmitAnswer
        BY <1>5 DEF Finalize, SafeFailure
    <2> QED BY <1>0, <2>1, EmitAnswerAppends, <1>new
<1>6. CASE Stop \/ UNCHANGED vars
    BY <1>6, <1>same DEF Stop, vars
<1> QED BY <1>1, <1>2, <1>3, <1>4, <1>5, <1>6 DEF Next, Node

\* Every node leaves what the nodes behind it rely on.
LEMMA PhaseStep ==
    ASSUME IInv, [Next]_vars
    PROVE  /\ EvidenceIsOfThisRun' /\ CallsAreCounted'
           /\ DraftPassed' /\ AnswerIsOfThisRun'
<1> USE DEF EvidenceIsOfThisRun, CallsAreCounted, DraftPassed, AnswerIsOfThisRun,
            Searching, Composing
<1> DEFINE Goal == /\ EvidenceIsOfThisRun' /\ CallsAreCounted'
                   /\ DraftPassed' /\ AnswerIsOfThisRun'
<1>0. /\ EvidenceIsOfThisRun /\ CallsAreCounted /\ DraftPassed /\ AnswerIsOfThisRun
      /\ calls \in 0..2 /\ repairs \in 0..1
    BY DEF IInv, TypeOK
<1>1. CASE Begin
    BY <1>1 DEF Begin
<1>2. CASE InputPolicy \/ UnderstandAndPlan
    BY <1>0, <1>2 DEF InputPolicy, UnderstandAndPlan, FirstRepairs, request
<1>3. CASE Retrieve
    <2>1. evidence' = obtained' /\ evidence' \subseteq Docs
        BY <1>3 DEF Retrieve, Degraded
    <2>2. /\ pc = "retrieve" /\ pc' = "enrich_with_mcp" /\ calls' = calls /\ repairs' = repairs
        BY <1>3 DEF Retrieve
    <2> QED BY <1>0, <2>1, <2>2
<1>4. CASE EnrichWithMcp
    <2>1. /\ pc = "enrich_with_mcp" /\ pc' = "compose_answer" /\ calls' = calls
          /\ repairs' = repairs /\ mayRead' = mayRead
        BY <1>4 DEF EnrichWithMcp, request
    <2>2. evidence' = obtained'
        <3>1. evidence = obtained
            BY <1>0, <2>1
        <3>2. \/ evidence' = evidence /\ obtained' = obtained
              \/ \E found : evidence' = evidence \cup found /\ obtained' = obtained \cup found
            BY <1>4, Zenon DEF EnrichWithMcp, EnrichNothing, EnrichDenied, EnrichLookedUp
        <3> QED BY <3>1, <3>2
    <2>3. ~mayRead => evidence' = evidence
        BY <1>4 DEF EnrichWithMcp, EnrichNothing, EnrichDenied, EnrichLookedUp, MayLookUp
    <2>4. evidence \cap Records = {}
        BY <1>0, <2>1, DirectAssumption DEF DirectAssumption
    <2> QED BY <1>0, <2>1, <2>2, <2>3, <2>4
<1>5. CASE ComposeAnswer
    BY <1>0, <1>5 DEF ComposeAnswer, Generate, request
<1>6. CASE ValidateAnswer
    BY <1>0, <1>6 DEF ValidateAnswer, RouteAfterValidation, Passes, request
<1>7. CASE RepairOnce
    BY <1>0, <1>7 DEF RepairOnce, Generate, request
<1>8. CASE Finalize
    BY <1>0, <1>8 DEF Finalize, Grounded, Passes, NoDraft, request
<1>9. CASE SafeFailure
    BY <1>0, <1>9 DEF SafeFailure, request
<1>10. CASE Stop
    BY <1>0, <1>10 DEF Stop, request
<1>11. CASE UNCHANGED vars
    BY <1>0, <1>11 DEF vars, Passes
<1> QED BY <1>1, <1>2, <1>3, <1>4, <1>5, <1>6, <1>7, <1>8, <1>9, <1>10, <1>11 DEF Next, Node

\* Every step keeps the types: the counts of calls and repairs stay within
\* their bounds because of where the run may be.
LEMMA TypeStep == IInv /\ [Next]_vars => TypeOK'
<1> SUFFICES ASSUME IInv, [Next]_vars PROVE TypeOK'
    OBVIOUS
<1>0. TypeOK /\ CallsAreCounted
    BY DEF IInv
<1>events. events' \in Seq([seq : Nat, type : EventTypes])
    BY EventsStep DEF IInv, Event
<1> USE DEF TypeOK
<1>1. CASE Begin
    <2>1. sends' \in 0..MaxSends /\ calls' \in 0..2
        BY <1>0, <1>1, DirectAssumption DEF Begin, DirectAssumption
    <2>2. repairs' \in 0..1 /\ valid' \in BOOLEAN
        <3>1. \/ repairs' = repairs /\ valid' = valid
              \/ repairs' = 0 /\ valid' = FALSE
            BY <1>1 DEF Begin
        <3>2. repairs \in 0..1 /\ valid \in BOOLEAN
            BY <1>0
        <3>3. repairs' \in 0..1
            BY <3>1, <3>2
        <3>4. valid' \in BOOLEAN
            BY <3>1, <3>2, Zenon
        <3> QED BY <3>3, <3>4
    <2>3. /\ evidence' \in SUBSET (Docs \cup Records) /\ draft' \in SUBSET Ids
          /\ answer' \in [kind : {"none", "grounded", "safe"}, cites : SUBSET Ids]
        BY <1>0, <1>1 DEF Begin, NoDraft, NoAnswer
    <2>4. /\ pc' \in Nodes /\ mayRead' \in BOOLEAN /\ asked' \in SUBSET Records
          /\ obtained' = {}
        BY <1>1 DEF Begin, Nodes
    <2> QED BY <1>events, <2>1, <2>2, <2>3, <2>4
<1>2. CASE InputPolicy \/ UnderstandAndPlan
    BY <1>0, <1>2, <1>events DEF InputPolicy, UnderstandAndPlan, FirstRepairs, request, Nodes
<1>3. CASE Retrieve
    <2>1. evidence' \in SUBSET Docs /\ obtained' \in SUBSET Docs
        BY <1>3 DEF Retrieve, Degraded
    <2> QED BY <1>0, <1>3, <2>1, <1>events DEF Retrieve, request, Nodes
<1>4. CASE EnrichWithMcp
    <2>1. Lookups \subseteq Records
        BY <1>0 DEF Lookups
    <2>2. evidence' \subseteq evidence \cup Lookups /\ obtained' \subseteq obtained \cup Lookups
        BY <1>4 DEF EnrichWithMcp, EnrichNothing, EnrichDenied, EnrichLookedUp
    <2>3. evidence' \subseteq Docs \cup Records /\ obtained' \subseteq Docs \cup Records
        BY <1>0, <2>1, <2>2
    <2> QED BY <1>0, <1>4, <2>3, <1>events DEF EnrichWithMcp, request, Nodes
<1>5. CASE ComposeAnswer
    BY <1>0, <1>5, <1>events
       DEF ComposeAnswer, Generate, request, Nodes, NoDraft, CallsAreCounted, Searching
<1>6. CASE ValidateAnswer
    BY <1>0, <1>6, <1>events DEF ValidateAnswer, RouteAfterValidation, Passes, request, Nodes
<1>7. CASE RepairOnce
    BY <1>0, <1>7, <1>events DEF RepairOnce, Generate, request, Nodes, CallsAreCounted
<1>8. CASE Finalize
    BY <1>0, <1>8, <1>events DEF Finalize, Grounded, request, Ended
<1>9. CASE SafeFailure
    BY <1>0, <1>9, <1>events DEF SafeFailure, Safe, request, Ended
<1>10. CASE Stop
    BY <1>0, <1>10 DEF Stop, request, Ended
<1>11. CASE UNCHANGED vars
    BY <1>0, <1>11 DEF vars
<1> QED BY <1>1, <1>2, <1>3, <1>4, <1>5, <1>6, <1>7, <1>8, <1>9, <1>10, <1>11 DEF Next, Node

-----------------------------------------------------------------------------
(* The theorems.                                                           *)

LEMMA InvHolds == Spec => []IInv
<1>1. IInv /\ [Next]_vars => IInv'
    BY EventsStep, PhaseStep, TypeStep DEF IInv
<1> QED BY InvInit, <1>1, PTL DEF Spec

\* Every variable keeps its type: no run repairs its answer twice or calls the
\* model a third time.
THEOREM TypeCorrect == Spec => []TypeOK
<1>1. IInv => TypeOK
    BY DEF IInv
<1> QED BY InvHolds, <1>1, PTL

\* The claims of an answer rest on what this run's search and lookups returned,
\* however often the request was sent and stopped before.
THEOREM AnswersAreSupported == Spec => []AnswerIsSupported
<1>1. IInv => AnswerIsSupported
    BY DEF IInv, AnswerIsOfThisRun, EvidenceIsOfThisRun, AnswerIsSupported, Safe, Composing
<1> QED BY InvHolds, <1>1, PTL

\* No directory record reaches the evidence or the answer of a principal who
\* may not read it.
THEOREM DeniedNeverRead == Spec => []DeniedReadsNothing
<1>1. IInv => DeniedReadsNothing
    BY DEF IInv, AnswerIsOfThisRun, EvidenceIsOfThisRun, DeniedReadsNothing, Safe, Composing
<1> QED BY InvHolds, <1>1, PTL

\* The safe answer is given for want of evidence or behind the repair.
THEOREM SafeAnswersAreLast == Spec => []SafeOnlyAfterRepair
<1>1. IInv => SafeOnlyAfterRepair
    BY DEF IInv, AnswerIsOfThisRun, SafeOnlyAfterRepair
<1> QED BY InvHolds, <1>1, PTL

\* The events of a request are numbered without gap over all its sends, as
\* long as no directory lookup is denied.
THEOREM StreamsAreNumbered == Spec => []StreamNumbered
<1>1. IInv => StreamNumbered
    BY DEF IInv
<1> QED BY InvHolds, <1>1, PTL

=============================================================================
