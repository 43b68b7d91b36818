----------------------------- MODULE MCServices -----------------------------
(***************************************************************************)
(* The services around the graphs, on small instances.  The parts share no  *)
(* state but the calls', so that a behaviour is of one part at a time: the  *)
(* others keep their initial state.  Calls of the limiter, the gateway and  *)
(* the stores begin where the part before them let them through.            *)
(***************************************************************************)
EXTENDS ApiGate, MemoryStore, FeedbackStore, Ingestion, Chunking, ProviderCalls,
        ClientSession, Provisioning, TLC

VARIABLE part  \* the part that runs

serviceVars == <<gateVars, memoryVars, feedbackVars, ingestionVars, chunkingVars,
                 providerVars, clientVars, provisionVars, part>>

First(S) == CHOOSE x \in S : TRUE

\* One key that is always published and one that comes and goes.
MCKeySets == {Kids, {First(Kids)}}
MCRoleSets == {{"viewer"}, {"analyst"}}
MCRatings == {-1, 1}
MCUsernames == <<"viewer", "analyst">>
MCManifests ==
    LET Corpus(d1, d2) == "d1" :> d1 @@ "d2" :> d2
    IN {Corpus({1, 2}, {1}), Corpus({2, 3}, {1}), Corpus({3}, {2}), "d1" :> {1, 3}}
MCParagraphs == UNION {[1..n -> {1, 3, 6}] : n \in 1..3}
MCElements == UNION {[1..n -> MCParagraphs] : n \in 1..2}

Alike == Permutations(Calls)

CallParts == [gate |-> "new", keys |-> "new", bucket |-> "verified", tools |-> "admitted",
              memory |-> "admitted", feedback |-> "admitted"]
OtherParts == {"ingestion", "chunking", "provider", "client", "provisioning"}

\* Subjects are alike: two calls are of the same one, the third of any.  One call
\* goes the whole way through the gate, two through its part with the lock.
MCInit ==
    /\ part \in DOMAIN CallParts \cup OtherParts
    /\ \E idle \in SUBSET Calls :
         /\ Cardinality(idle) = CASE part \in OtherParts -> Cardinality(Calls)
                                  [] part = "gate" -> 2
                                  [] part = "keys" -> 1
                                  [] OTHER -> 0
         /\ GateInitAt([c \in Calls |-> IF c \in idle THEN "answered" ELSE CallParts[part]])
    /\ Cardinality({c \in Calls : who[c] = First(Subjects)}) >= 2
    /\ (part \in OtherParts \cup {"gate", "keys"}) => who = [c \in Calls |-> First(Subjects)]
    /\ (part # "bucket") => environment = "production"
    /\ (part \notin {"gate", "keys"}) => published = Kids
    /\ MemoryInit /\ FeedbackInit /\ IngestionInit /\ ChunkingInit
    /\ ProviderInit /\ ClientInit /\ ProvisionInit
    /\ (part # "provisioning") => ~realm.exists

MCNext ==
    /\ UNCHANGED part
    /\ \/ /\ part = "gate"
          /\ GateNext
          /\ UNCHANGED <<memoryVars, feedbackVars, ingestionVars, chunkingVars, providerVars, clientVars, provisionVars>>
       \/ /\ part = "keys"
          /\ \/ KeyNext /\ UNCHANGED <<bucketVars, toolVars>>
             \/ GateTick
          /\ UNCHANGED <<memoryVars, feedbackVars, ingestionVars, chunkingVars, providerVars, clientVars, provisionVars>>
       \/ /\ part = "bucket"
          /\ \/ BucketNext /\ UNCHANGED <<keyVars, toolVars>>
             \/ GateTick
          /\ UNCHANGED <<memoryVars, feedbackVars, ingestionVars, chunkingVars, providerVars, clientVars, provisionVars>>
       \/ /\ part = "tools"
          /\ ToolNext
          /\ UNCHANGED <<keyVars, bucketVars, memoryVars, feedbackVars, ingestionVars, chunkingVars, providerVars, clientVars, provisionVars>>
       \/ /\ part = "memory"
          /\ MemoryNext \/ (now < Year /\ MemoryTick)  \* bound: until memories expire
          /\ UNCHANGED <<keyVars, bucketVars, toolVars, feedbackVars, ingestionVars, chunkingVars, providerVars, clientVars, provisionVars>>
       \/ /\ part = "feedback"
          /\ FeedbackNext
          /\ UNCHANGED <<keyVars, bucketVars, toolVars, memoryVars, ingestionVars, chunkingVars, providerVars, clientVars, provisionVars>>
       \/ /\ part = "ingestion"
          /\ IngestionNext
          /\ UNCHANGED <<gateVars, memoryVars, feedbackVars, chunkingVars, providerVars, clientVars, provisionVars>>
       \/ /\ part = "chunking"
          /\ ChunkingNext
          /\ UNCHANGED <<gateVars, memoryVars, feedbackVars, ingestionVars, providerVars, clientVars, provisionVars>>
       \/ /\ part = "provider"
          /\ ProviderNext
          /\ UNCHANGED <<gateVars, memoryVars, feedbackVars, ingestionVars, chunkingVars, clientVars, provisionVars>>
       \/ /\ part = "client"
          /\ ClientNext
          /\ UNCHANGED <<gateVars, memoryVars, feedbackVars, ingestionVars, chunkingVars, providerVars, provisionVars>>
       \/ /\ part = "provisioning"
          /\ ProvisionNext
          /\ UNCHANGED <<gateVars, memoryVars, feedbackVars, ingestionVars, chunkingVars, providerVars, clientVars>>

MCSpec == MCInit /\ [][MCNext]_serviceVars

\* Every variable of every part has its type.
ServicesTypeOK ==
    /\ KeyTypeOK /\ BucketTypeOK /\ ToolTypeOK /\ MemoryTypeOK /\ FeedbackTypeOK
    /\ IngestionTypeOK /\ ProviderTypeOK /\ ClientTypeOK /\ ProvisionTypeOK
=============================================================================
