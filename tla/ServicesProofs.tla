--------------------------- MODULE ServicesProofs ---------------------------
(***************************************************************************)
(* Proofs about the services without proofs of their own: the writing of an *)
(* index, the provisioning of users, the calls of the embedding provider    *)
(* and the chat client; and that all services together, with the gate's and *)
(* the stores' invariants, keep the types of their variables.               *)
(***************************************************************************)
EXTENDS MCServices, GateProofs, StoreProofs, FiniteSetTheorems, TLAPS

-----------------------------------------------------------------------------
(* Ingestion *)

JobSteps == {"idle", "embedding", "next", "listed", "written", "done"}

JobType ==
    /\ job \in [step : JobSteps, manifest : Manifests \cup {NoManifest},
                todo : SUBSET Docs, doc : Docs, existing : SUBSET ChunkIds]
    /\ job.todo \subseteq DOMAIN job.manifest
    /\ index \in [Docs -> SUBSET ChunkIds]
    /\ whole \in [Docs -> SUBSET ChunkIds]

\* A document in hand is one that is left.
InHand == job.step \in {"listed", "written"} => job.doc \in job.todo

\* While a document is written, what it had is kept, and no chunk appears that
\* is neither of the old version nor of the new one.
Listing ==
    /\ job.step = "listed" => job.existing \subseteq index[job.doc]
    /\ job.step \in {"listed", "written"} => index[job.doc] \subseteq job.existing \cup Incoming
    /\ job.step = "written" => whole[job.doc] = Incoming

WholeKept == \A d \in Docs : whole[d] \subseteq index[d]

\* Documents that a job has left behind are as its manifest says.
Finished == \A d \in DOMAIN job.manifest \ job.todo : index[d] = job.manifest[d]

AllDone == job.step = "done" => job.todo = {}

IngestionInv == JobType /\ InHand /\ Listing /\ WholeKept /\ Finished /\ AllDone

\* The documents of a manifest and their chunks are among the constants'.
LEMMA ManifestChunks ==
    ASSUME NEW m \in Manifests \cup {NoManifest}
    PROVE  /\ DOMAIN m \subseteq Docs
           /\ \A d \in DOMAIN m : m[d] \subseteq ChunkIds
  <1>1. CASE m \in Manifests
    <2>1. \A d \in DOMAIN m : m[d] \in {m[x] : x \in DOMAIN m}
      OBVIOUS
    <2>2. \A d \in DOMAIN m : m[d] \subseteq UNION {m[x] : x \in DOMAIN m}
      BY <2>1
    <2>3. UNION {m[x] : x \in DOMAIN m} \subseteq ChunkIds
      BY <1>1 DEF ChunkIds
    <2> QED
      BY <1>1, <2>2, <2>3, IngestionAssumption
  <1>2. CASE m = NoManifest
    BY <1>2 DEF NoManifest
  <1> QED
    BY <1>1, <1>2

LEMMA IngestionStarts == IngestionInit => IngestionInv
  <1>1. (CHOOSE d \in Docs : TRUE) \in Docs
    BY IngestionAssumption
  <1> QED
    BY <1>1 DEF IngestionInit, IngestionInv, JobType, JobSteps, InHand, Listing, WholeKept,
                Finished, AllDone, NoManifest

LEMMA IngestionGoesOn == IngestionInv /\ [IngestionNext]_ingestionVars => IngestionInv'
  <1> SUFFICES ASSUME IngestionInv, [IngestionNext]_ingestionVars
               PROVE  IngestionInv'
    OBVIOUS
  <1> USE DEF IngestionInv
  <1>t. JobType /\ InHand /\ Listing /\ WholeKept /\ Finished /\ AllDone
    OBVIOUS
  <1>m. /\ DOMAIN job.manifest \subseteq Docs
        /\ \A d \in DOMAIN job.manifest : job.manifest[d] \subseteq ChunkIds
    BY <1>t, ManifestChunks DEF JobType
  <1>i. job.step \in {"listed", "written"} =>
          /\ job.doc \in job.todo /\ job.doc \in Docs
          /\ Incoming \in SUBSET ChunkIds
    BY <1>t, <1>m DEF InHand, Incoming, JobType
  <1>1. ASSUME NEW m \in Manifests, IngestStart(m)
        PROVE  IngestionInv'
    <2>1. job' = [step |-> "embedding", manifest |-> m, todo |-> DOMAIN m,
                  doc |-> job.doc, existing |-> {}] /\ UNCHANGED <<index, whole>>
      BY <1>1 DEF IngestStart, Job
    <2>2. JobType'
      BY <1>t, <2>1, ManifestChunks DEF JobType, JobSteps
    <2> QED
      BY <1>t, <2>1, <2>2 DEF InHand, Listing, WholeKept, Finished, AllDone
  <1>2. CASE IngestEmbedded
    <2>1. /\ job.step = "embedding" /\ job' = [job EXCEPT !.step = "next"]
          /\ UNCHANGED <<index, whole>>
      BY <1>2 DEF IngestEmbedded, GoOn
    <2>2. JobType'
      BY <1>t, <2>1 DEF JobType, JobSteps
    <2> QED
      BY <1>t, <2>1, <2>2 DEF JobType, InHand, Listing, WholeKept, Finished, AllDone
  <1>3. ASSUME NEW d \in Docs, IngestList(d)
        PROVE  IngestionInv'
    <2>1. /\ d \in job.todo /\ UNCHANGED <<index, whole>>
          /\ job' = [step |-> "listed", manifest |-> job.manifest, todo |-> job.todo,
                     doc |-> d, existing |-> index[d]]
      BY <1>3 DEF IngestList, Job
    <2>2. JobType'
      BY <1>t, <2>1 DEF JobType, JobSteps
    <2>3. Listing'
      BY <2>1 DEF Listing
    <2> QED
      BY <1>t, <2>1, <2>2, <2>3 DEF InHand, WholeKept, Finished, AllDone
  <1>4. ASSUME NEW c \in ChunkIds, IngestUpsert(c)
        PROVE  IngestionInv'
    <2>1. /\ job.step = "listed" /\ c \in Incoming /\ UNCHANGED <<job, whole>>
          /\ index' = [index EXCEPT ![job.doc] = @ \cup {c}]
      BY <1>4 DEF IngestUpsert, NewIds
    <2>2. JobType'
      BY <1>t, <1>i, <2>1 DEF JobType
    <2>3. \A d \in Docs : index[d] \subseteq index'[d] /\ (d # job.doc => index'[d] = index[d])
      BY <1>t, <2>1 DEF JobType
    <2>4. Listing'
      BY <1>t, <1>i, <2>1 DEF Listing, JobType, Incoming
    <2>5. Finished'
      BY <1>t, <1>m, <1>i, <2>1, <2>3 DEF Finished
    <2> QED
      BY <1>t, <2>1, <2>2, <2>3, <2>4, <2>5 DEF InHand, WholeKept, AllDone
  <1>5. CASE UpsertDone
    <2>1. /\ job.step = "listed" /\ NewIds \subseteq index[job.doc] /\ UNCHANGED index
          /\ job' = [job EXCEPT !.step = "written"]
          /\ whole' = [whole EXCEPT ![job.doc] = Incoming]
      BY <1>5 DEF UpsertDone, GoOn
    <2>2. /\ job' \in [step : JobSteps, manifest : Manifests \cup {NoManifest},
                todo : SUBSET Docs, doc : Docs, existing : SUBSET ChunkIds]
          /\ job'.step = "written" /\ job'.manifest = job.manifest /\ job'.todo = job.todo
          /\ job'.doc = job.doc /\ job'.existing = job.existing
      BY <1>t, <2>1 DEF JobType, JobSteps
    <2>3. JobType'
      BY <1>t, <1>i, <2>1, <2>2 DEF JobType
    <2>4. Incoming \subseteq index[job.doc] /\ Incoming' = Incoming
      BY <1>t, <2>1, <2>2 DEF Listing, NewIds, Incoming
    <2>5. WholeKept'
      BY <1>t, <1>i, <2>1, <2>4 DEF WholeKept, JobType
    <2>6. Listing'
      BY <1>t, <1>i, <2>1, <2>2, <2>4 DEF Listing, JobType
    <2> QED
      BY <1>t, <2>1, <2>2, <2>3, <2>5, <2>6 DEF InHand, Finished, AllDone
  <1>6. ASSUME NEW c \in ChunkIds, IngestDelete(c)
        PROVE  IngestionInv'
    <2>1. /\ job.step = "written" /\ c \notin Incoming /\ UNCHANGED <<job, whole>>
          /\ index' = [index EXCEPT ![job.doc] = @ \ {c}]
      BY <1>6 DEF IngestDelete, MayDelete, StaleIds
    <2>2. JobType'
      BY <1>t, <1>i, <2>1 DEF JobType
    <2>3. index'[job.doc] = index[job.doc] \ {c} /\ \A d \in Docs : d # job.doc => index'[d] = index[d]
      BY <1>t, <2>1 DEF JobType
    <2>4. Listing'
      BY <1>t, <1>i, <2>1, <2>3 DEF Listing, Incoming
    <2>5. Finished'
      BY <1>t, <1>m, <1>i, <2>1, <2>3 DEF Finished
    <2>6. WholeKept'
      BY <1>t, <2>1, <2>3 DEF WholeKept, Listing
    <2> QED
      BY <1>t, <2>1, <2>2, <2>4, <2>5, <2>6 DEF InHand, AllDone
  <1>7. CASE DocumentDone
    <2>1. /\ job.step = "written" /\ StaleIds \cap index[job.doc] = {}
          /\ UNCHANGED <<index, whole>>
          /\ job' = [step |-> "next", manifest |-> job.manifest, todo |-> job.todo \ {job.doc},
                     doc |-> job.doc, existing |-> {}]
      BY <1>7 DEF DocumentDone, Job
    <2>2. JobType'
      BY <1>t, <2>1 DEF JobType, JobSteps
    <2>3. Incoming \subseteq index[job.doc]
      BY <1>t, <1>i, <2>1 DEF Listing, WholeKept
    <2>4. index[job.doc] = Incoming
      BY <1>t, <2>1, <2>3 DEF Listing, StaleIds
    <2>5. Finished'
      BY <1>t, <2>1, <2>4 DEF Finished, Incoming
    <2> QED
      BY <1>t, <2>1, <2>2, <2>5 DEF InHand, Listing, WholeKept, AllDone
  <1>8. CASE IngestDone
    <2>1. /\ job.step = "next" /\ job.todo = {} /\ UNCHANGED <<index, whole>>
          /\ job' = [job EXCEPT !.step = "done"]
      BY <1>8 DEF IngestDone, GoOn
    <2>2. JobType'
      BY <1>t, <2>1 DEF JobType, JobSteps
    <2> QED
      BY <1>t, <2>1, <2>2 DEF JobType, InHand, Listing, WholeKept, Finished, AllDone
  <1>9. CASE IngestStops
    <2>1. /\ UNCHANGED <<index, whole>>
          /\ job' = [step |-> "idle", manifest |-> NoManifest, todo |-> {},
                     doc |-> job.doc, existing |-> {}]
      BY <1>9 DEF IngestStops, Job
    <2>2. JobType'
      BY <1>t, <2>1 DEF JobType, JobSteps
    <2> QED
      BY <1>t, <2>1, <2>2 DEF InHand, Listing, WholeKept, Finished, AllDone, NoManifest
  <1>10. CASE UNCHANGED ingestionVars
    BY <1>t, <1>10 DEF ingestionVars, JobType, InHand, Listing, Incoming, WholeKept, Finished, AllDone
  <1> QED
    BY <1>1, <1>2, <1>3, <1>4, <1>5, <1>6, <1>7, <1>8, <1>9, <1>10 DEF IngestionNext

\* However often jobs stop and whatever manifests they are started with, what was
\* written whole of a document stays until its next version is whole, and a job
\* that ends leaves exactly what its manifest says (ingestion/service.py over
\* adapters/pinecone/writer.py).
THEOREM DocumentsStayWhole == IngestionSpec => []WholeDocuments
  <1>1. IngestionInv => WholeDocuments
    BY DEF IngestionInv, WholeKept, Finished, AllDone, WholeDocuments
  <1> QED
    BY <1>1, IngestionStarts, IngestionGoesOn, PTL DEF IngestionSpec

-----------------------------------------------------------------------------
(* Provisioning *)

ProvisionType ==
    /\ step \in {"idle", "realm", "profile", "user", "role", "done"}
    /\ at \in Nat \ {0} /\ at <= Len(Usernames) + 1
    /\ realm \in Realms
    /\ accounts \in [DOMAIN Usernames -> Accounts]

\* Users come after the declaration, and the role after the attributes.
InOrder ==
    /\ step \in {"realm", "profile"} => at = 1
    /\ step = "profile" => realm.exists
    /\ step \in {"user", "role"} => realm.declared
    /\ step = "role" => at \in DOMAIN Usernames /\ accounts[at].exists /\ accounts[at].claims
    /\ step = "done" => at \notin DOMAIN Usernames

\* The users the job has come past are ready.
PastReady ==
    step \in {"user", "role", "done"} =>
        \A i \in DOMAIN Usernames : i < at => accounts[i].claims /\ accounts[i].role

ProvisionInv == ProvisionType /\ InOrder /\ PastReady

LEMMA ProvisionStarts == ProvisionInit => ProvisionInv
  <1>1. Len(Usernames) \in Nat
    BY ProvisionAssumption
  <1> QED
    BY <1>1 DEF ProvisionInit, ProvisionInv, ProvisionType, InOrder, PastReady

LEMMA ProvisionGoesOn == ProvisionInv /\ [ProvisionNext]_provisionVars => ProvisionInv'
  <1> SUFFICES ASSUME ProvisionInv, [ProvisionNext]_provisionVars
               PROVE  ProvisionInv'
    OBVIOUS
  <1> USE DEF ProvisionInv, Proceed
  <1>u. Len(Usernames) \in Nat /\ DOMAIN Usernames = 1..Len(Usernames)
    BY ProvisionAssumption
  <1>1. CASE ProvisionStart
    BY <1>1, <1>u DEF ProvisionStart, ProvisionType, InOrder, PastReady
  <1>2. CASE EnsureRealm
    <2>1. realm' \in Realms /\ realm'.exists
      <3>1. CASE realm.exists
        BY <1>2, <3>1 DEF EnsureRealm, ProvisionType
      <3>2. CASE ~realm.exists
        <4>1. PICK d \in BOOLEAN : realm' = [exists |-> TRUE, declared |-> d]
          BY <1>2, <3>2 DEF EnsureRealm
        <4> QED
          BY <4>1 DEF Realms
      <3> QED
        BY <3>1, <3>2
    <2> QED
      BY <1>2, <2>1 DEF EnsureRealm, ProvisionType, InOrder, PastReady
  <1>3. CASE EnsureProfileAttributes
    <2>1. realm' \in Realms /\ realm'.declared
      BY <1>3 DEF EnsureProfileAttributes, ProvisionType, InOrder, Realms
    <2> QED
      BY <1>3, <1>u, <2>1 DEF EnsureProfileAttributes, ProvisionType, InOrder, PastReady
  <1>4. CASE EnsureUser
    <2>1. /\ step = "user" /\ at \in DOMAIN Usernames /\ realm.declared
          /\ accounts' = [accounts EXCEPT ![at] = Ensured(@)]
          /\ step' = "role" /\ UNCHANGED <<at, realm>>
      BY <1>4 DEF EnsureUser, InOrder
    <2>2. /\ accounts[at] \in Accounts /\ Ensured(accounts[at]) \in Accounts
          /\ Ensured(accounts[at]).exists /\ Ensured(accounts[at]).claims
      BY <2>1 DEF ProvisionType, Accounts, Ensured, Realms
    <2>3. /\ accounts' \in [DOMAIN Usernames -> Accounts]
          /\ accounts'[at] = Ensured(accounts[at])
          /\ \A i \in DOMAIN Usernames : i < at => accounts'[i] = accounts[i]
      BY <1>u, <2>1, <2>2 DEF ProvisionType
    <2> QED
      BY <2>1, <2>2, <2>3 DEF ProvisionType, InOrder, PastReady
  <1>5. CASE MapRole
    <2>1. /\ step = "role" /\ at \in DOMAIN Usernames
          /\ accounts[at].exists /\ accounts[at].claims /\ realm.declared
          /\ accounts' = [accounts EXCEPT ![at].role = TRUE]
          /\ step' = "user" /\ at' = at + 1 /\ UNCHANGED realm
      BY <1>5 DEF MapRole, InOrder
    <2>2. accounts[at] \in Accounts /\ [accounts[at] EXCEPT !.role = TRUE] \in Accounts
      BY <2>1 DEF ProvisionType, Accounts
    <2>3. /\ accounts' \in [DOMAIN Usernames -> Accounts]
          /\ accounts'[at].claims /\ accounts'[at].role
          /\ \A i \in DOMAIN Usernames : i < at => accounts'[i] = accounts[i]
      BY <1>u, <2>1, <2>2 DEF ProvisionType, Accounts
    <2>4. \A i \in DOMAIN Usernames : i < at' => i < at \/ i = at
      BY <1>u, <2>1 DEF ProvisionType
    <2>5. PastReady'
      BY <2>1, <2>3, <2>4 DEF PastReady
    <2> QED
      BY <1>u, <2>1, <2>3, <2>5 DEF ProvisionType, InOrder
  <1>6. CASE ProvisionDone
    BY <1>6 DEF ProvisionDone, ProvisionType, InOrder, PastReady
  <1>7. CASE ProvisionStops
    BY <1>7 DEF ProvisionStops, ProvisionType, InOrder, PastReady
  <1>8. CASE UNCHANGED provisionVars
    BY <1>8 DEF provisionVars, ProvisionType, InOrder, PastReady
  <1> QED
    BY <1>1, <1>2, <1>3, <1>4, <1>5, <1>6, <1>7, <1>8 DEF ProvisionNext

\* Whatever was made by hand or left by jobs that stopped, of any list of users,
\* a job that ends has given each the attributes and the role that the API asks
\* of a token (auth/provision.py).
THEOREM UsersWorkAfterwards == ProvisionSpec => []ProvisionedUsersWork
  <1>1. ProvisionInv => ProvisionedUsersWork
    <2>1. DOMAIN Usernames = 1..Len(Usernames) /\ Len(Usernames) \in Nat
      BY ProvisionAssumption
    <2> QED
      BY <2>1 DEF ProvisionInv, ProvisionType, InOrder, PastReady, ProvisionedUsersWork
  <1> QED
    BY <1>1, ProvisionStarts, ProvisionGoesOn, PTL DEF ProvisionSpec


-----------------------------------------------------------------------------
(* The embedding provider *)

Whole == FlattenSeq([n \in Numbers |-> Texts(n)])
BatchVectors == {<<>>} \cup {Texts(n) : n \in Numbers}
BatchStates == [step : {"queued", "asking", "sleeping", "done", "failed"},
                attempt : 0..MaxAttempts, vectors : BatchVectors]
Outcomes == {"new", "running", "returned", "failed", "cancelled"}
Lent == {x \in Embeds \X Numbers : HoldsSlot(x[1], x[2])}

ProviderType ==
    /\ batch \in [Embeds -> [Numbers -> BatchStates]]
    /\ free \in Nat
    /\ vectors \in [Embeds -> {<<>>, Whole}]
    /\ outcome \in [Embeds -> Outcomes]

\* Only a batch with an attempt left sleeps, and one that is done has the
\* vectors of its own texts.
BatchesMatch ==
    \A e \in Embeds, n \in Numbers :
        /\ batch[e][n].step = "sleeping" => batch[e][n].attempt < MaxAttempts
        /\ batch[e][n].step = "done" => batch[e][n].vectors = Texts(n)

ProviderInv == ProviderType /\ BatchesMatch /\ VectorsMatchTexts /\ ProviderSlotsConserved

\* Whatever the order of the items of a response, sorted by their index they
\* are the texts' own vectors: as many items as texts leave no text out.
LEMMA ResponseInOrder ==
    ASSUME NEW n \in Numbers, NEW items \in Responses(n), Len(items) = BatchSize
    PROVE  Ordered(items) = Texts(n)
<1>0. BatchSize \in Nat
    BY ProviderAssumption DEF ProviderAssumption
<1>1. PICK k \in {BatchSize - 1, BatchSize},
           p \in {q \in [1..BatchSize -> 1..BatchSize] : IsInjective(q)} :
          items = [i \in 1..k |-> [index |-> p[i], vector |-> Texts(n)[p[i]]]]
    BY DEF Responses
<1> DEFINE item(j) == [index |-> p[j], vector |-> Texts(n)[p[j]]]
<1>2. k = BatchSize
    <2>1. k \in Nat
        BY <1>0, <1>1, ProviderAssumption DEF ProviderAssumption
    <2>2. Len(items) = k
        BY <1>1, <2>1
    <2> QED BY <2>2
<1>3. DOMAIN items = 1..BatchSize /\ \A j \in 1..BatchSize : items[j] = item(j)
    BY <1>1, <1>2
<1>4. p \in Injection(1..BatchSize, 1..BatchSize)
    BY DEF Injection
<1>5. IsFiniteSet(1..BatchSize)
    BY <1>0, FS_Interval
<1>6. p \in Surjection(1..BatchSize, 1..BatchSize)
    BY <1>4, <1>5, FS_Injection
<1>7. ASSUME NEW i \in 1..BatchSize
      PROVE  (CHOOSE x \in Range(items) : x.index = i).vector = Texts(n)[i]
    <2>1. PICK j \in 1..BatchSize : p[j] = i
        BY <1>6 DEF Surjection
    <2>2. item(j) \in Range(items) /\ item(j).index = i
        BY <1>3, <2>1 DEF Range
    <2>3. \A x \in Range(items) : x.index = i => x.vector = Texts(n)[i]
        BY <1>3 DEF Range
    <2> QED BY <2>2, <2>3
<1> QED BY <1>3, <1>7 DEF Ordered, Texts

\* Only finitely many batches hold slots.
LEMMA LentFinite ==
    /\ \A S : S \subseteq Embeds \X Numbers => IsFiniteSet(S)
    /\ IsFiniteSet(Lent) /\ Cardinality(Lent) \in Nat
<1>1. IsFiniteSet(Numbers)
    BY FS_Interval, ProviderAssumption DEF Numbers, ProviderAssumption
<1>2. IsFiniteSet(Embeds \X Numbers)
    BY <1>1, FS_Product, ProviderAssumption DEF ProviderAssumption
<1>3. \A S : S \subseteq Embeds \X Numbers => IsFiniteSet(S)
    BY <1>2, FS_Subset
<1>4. Lent \subseteq Embeds \X Numbers
    BY DEF Lent
<1> QED BY <1>3, <1>4, FS_CardinalityType

\* A batch that begins to ask takes a slot, one that ends gives it back.
LEMMA LentOne ==
    ASSUME ProviderType, NEW e \in Embeds, NEW n \in Numbers, NEW s,
           batch' = [batch EXCEPT ![e][n] = s]
    PROVE  LET holds == s.step \in {"asking", "sleeping"}
           IN  /\ ~HoldsSlot(e, n) /\ holds => Cardinality(Lent') = Cardinality(Lent) + 1
               /\ HoldsSlot(e, n) /\ ~holds => Cardinality(Lent') = Cardinality(Lent) - 1
               /\ HoldsSlot(e, n) <=> holds => Lent' = Lent
<1> DEFINE holds == s.step \in {"asking", "sleeping"}
<1>0. batch \in [Embeds -> [Numbers -> BatchStates]]
    BY DEF ProviderType
<1>1. \A x \in Embeds \X Numbers : x # <<e, n>> => batch'[x[1]][x[2]] = batch[x[1]][x[2]]
    BY <1>0
<1>2. batch'[e][n] = s
    BY <1>0
<1>3. ASSUME ~HoldsSlot(e, n), holds PROVE Cardinality(Lent') = Cardinality(Lent) + 1
    <2>1. Lent' = Lent \cup {<<e, n>>} /\ <<e, n>> \notin Lent
        BY <1>1, <1>2, <1>3 DEF Lent, HoldsSlot
    <2> QED BY <2>1, LentFinite, FS_AddElement
<1>4. ASSUME HoldsSlot(e, n), ~holds PROVE Cardinality(Lent') = Cardinality(Lent) - 1
    <2>1. Lent' = Lent \ {<<e, n>>} /\ <<e, n>> \in Lent
        BY <1>1, <1>2, <1>4 DEF Lent, HoldsSlot
    <2> QED BY <2>1, LentFinite, FS_RemoveElement
<1>5. ASSUME HoldsSlot(e, n) <=> holds PROVE Lent' = Lent
    BY <1>1, <1>2, <1>5 DEF Lent, HoldsSlot
<1> QED BY <1>3, <1>4, <1>5

\* A call that is cancelled gives back the slots of its own batches.
LEMMA LentCancelled ==
    ASSUME ProviderType, NEW e \in Embeds, EmbedCancelled(e)
    PROVE  /\ Cardinality(Lent') = Cardinality(Lent) - Cardinality({n \in Numbers : HoldsSlot(e, n)})
           /\ Cardinality({n \in Numbers : HoldsSlot(e, n)}) \in Nat
<1> DEFINE own == {n \in Numbers : HoldsSlot(e, n)}
           pairs == {x \in Lent : x[1] = e}
           f == [n \in own |-> <<e, n>>]
<1>0. batch \in [Embeds -> [Numbers -> BatchStates]]
    BY DEF ProviderType
<1>1. Lent' = Lent \ pairs
    <2>1. \A n \in Numbers : ~(batch'[e][n].step \in {"asking", "sleeping"})
        BY <1>0 DEF EmbedCancelled, BatchStates
    <2>2. \A c \in Embeds, n \in Numbers : c # e => batch'[c][n] = batch[c][n]
        BY <1>0 DEF EmbedCancelled
    <2> QED BY <2>1, <2>2 DEF Lent, HoldsSlot
<1>2. IsFiniteSet(own)
    <2>1. IsFiniteSet(Numbers)
        BY FS_Interval, ProviderAssumption DEF Numbers, ProviderAssumption
    <2> QED BY <2>1, FS_Subset
<1>3. f \in Bijection(own, pairs)
    <2>1. f \in [own -> pairs]
        BY DEF Lent
    <2>2. \A a, b \in own : f[a] = f[b] => a = b
        OBVIOUS
    <2>3. \A x \in pairs : \E a \in own : f[a] = x
        BY DEF Lent
    <2> QED BY <2>1, <2>2, <2>3 DEF Bijection, Injection, Surjection, IsInjective
<1>4. Cardinality(pairs) = Cardinality(own)
    BY <1>2, <1>3, FS_Bijection DEF ExistsBijection
<1>5. Lent \cap pairs = pairs
    OBVIOUS
<1>6. Cardinality(own) \in Nat
    BY <1>2, FS_CardinalityType
<1> HIDE DEF pairs, own
<1>7. Cardinality(Lent \ pairs) = Cardinality(Lent) - Cardinality(Lent \cap pairs)
    BY LentFinite, FS_Difference
<1> QED BY <1>1, <1>4, <1>5, <1>6, <1>7 DEF own


\* What a step of one batch does: the slot it takes or gives back, the state it
\* leaves the batch in, and that it ends no call with an answer.
BatchBecomes(e, n, s) ==
    /\ batch' = [batch EXCEPT ![e][n] = s] /\ vectors' = vectors
    /\ s.step = "sleeping" => s.attempt < MaxAttempts
    /\ s.step = "done" => s.vectors = Texts(n)
    /\ \/ outcome' = outcome
       \/ outcome' = [outcome EXCEPT ![e] = "failed"]
Paid(e, n, s) ==
    LET holds == s.step \in {"asking", "sleeping"}
    IN  \/ ~HoldsSlot(e, n) /\ holds /\ free > 0 /\ free' = free - 1
        \/ HoldsSlot(e, n) /\ ~holds /\ free' = free + 1
        \/ (HoldsSlot(e, n) <=> holds) /\ free' = free

LEMMA BatchMoves ==
    ASSUME ProviderInv, NEW e \in Embeds, NEW n \in Numbers,
           \/ TakeSlot(e, n) \/ AskAgain(e, n)
           \/ \E items \in Responses(n) : Respond(e, n, items)
           \/ \E transient \in BOOLEAN : AskFails(e, n, transient)
    PROVE  \E s \in BatchStates : BatchBecomes(e, n, s) /\ Paid(e, n, s)
<1> DEFINE was == batch[e][n]
           failing == [was EXCEPT !.step = "failed"]
           asking(a) == [was EXCEPT !.step = "asking", !.attempt = a]
<1>0. /\ batch \in [Embeds -> [Numbers -> BatchStates]] /\ was \in BatchStates
      /\ MaxAttempts \in Nat \ {0} /\ was.attempt \in Nat
      /\ was.step = "sleeping" => was.attempt < MaxAttempts
    BY ProviderAssumption
       DEF ProviderInv, ProviderType, BatchesMatch, BatchStates, ProviderAssumption
<1>1. /\ Texts(n) \in BatchVectors
      /\ \A a \in 0..MaxAttempts :
             asking(a) \in BatchStates /\ asking(a).step = "asking"
    BY <1>0 DEF BatchVectors, BatchStates
<1>2. CASE TakeSlot(e, n)
    <2>1. 1 \in 0..MaxAttempts
        BY <1>0
    <2>2. batch' = [batch EXCEPT ![e][n] = asking(1)]
        BY <1>2 DEF TakeSlot
    <2>3. ~HoldsSlot(e, n) /\ free > 0 /\ free' = free - 1 /\ UNCHANGED <<vectors, outcome>>
        BY <1>2 DEF TakeSlot, HoldsSlot
    <2> HIDE DEF asking
    <2> QED BY <1>1, <2>1, <2>2, <2>3 DEF BatchBecomes, Paid
<1>3. CASE AskAgain(e, n)
    <2> DEFINE more == was.attempt + 1
    <2>1. was.step = "sleeping"
        BY <1>3 DEF AskAgain
    <2>2. more \in 0..MaxAttempts
        BY <1>0, <2>1
    <2>3. batch' = [batch EXCEPT ![e][n] = asking(more)]
        BY <1>3 DEF AskAgain
    <2>4. HoldsSlot(e, n) /\ UNCHANGED <<free, vectors, outcome>>
        BY <1>3, <2>1 DEF AskAgain, HoldsSlot
    <2> HIDE DEF asking, more
    <2> QED BY <1>1, <2>2, <2>3, <2>4 DEF BatchBecomes, Paid
<1>4. failing \in BatchStates /\ failing.step = "failed"
    BY <1>0 DEF BatchStates
<1>5. ASSUME NEW items \in Responses(n), Respond(e, n, items)
      PROVE  \E s \in BatchStates : BatchBecomes(e, n, s) /\ Paid(e, n, s)
    <2>1. HoldsSlot(e, n) /\ free' = free + 1 /\ vectors' = vectors
        BY <1>5 DEF Respond, HoldsSlot
    <2>2. CASE Len(items) = BatchSize
        <3> DEFINE s == [was EXCEPT !.step = "done", !.vectors = Texts(n)]
        <3>1. s \in BatchStates /\ s.step = "done" /\ s.vectors = Texts(n)
            BY <1>0, <1>1 DEF BatchStates
        <3>2. batch' = [batch EXCEPT ![e][n] = s] /\ outcome' = outcome
            BY <1>5, <2>2, ResponseInOrder DEF Respond, Succeed
        <3> HIDE DEF s
        <3> QED BY <2>1, <3>1, <3>2 DEF BatchBecomes, Paid
    <2>3. CASE Len(items) # BatchSize
        <3>1. /\ batch' = [batch EXCEPT ![e][n] = failing]
              /\ outcome' = [outcome EXCEPT ![e] = "failed"]
            BY <1>5, <2>3 DEF Respond, Break
        <3> HIDE DEF failing
        <3> QED BY <1>4, <2>1, <3>1 DEF BatchBecomes, Paid
    <2> QED BY <2>2, <2>3
<1>6. ASSUME NEW transient \in BOOLEAN, AskFails(e, n, transient)
      PROVE  \E s \in BatchStates : BatchBecomes(e, n, s) /\ Paid(e, n, s)
    <2>1. HoldsSlot(e, n) /\ vectors' = vectors
        BY <1>6 DEF AskFails, HoldsSlot
    <2>2. CASE transient /\ was.attempt < MaxAttempts
        <3> DEFINE s == [was EXCEPT !.step = "sleeping"]
        <3>1. s \in BatchStates /\ s.step = "sleeping" /\ s.attempt < MaxAttempts
            BY <1>0, <2>2 DEF BatchStates
        <3>2. batch' = [batch EXCEPT ![e][n] = s] /\ UNCHANGED <<free, outcome>>
            BY <1>6, <2>2 DEF AskFails
        <3> HIDE DEF s
        <3> QED BY <2>1, <3>1, <3>2 DEF BatchBecomes, Paid
    <2>3. CASE ~(transient /\ was.attempt < MaxAttempts)
        <3>1. /\ batch' = [batch EXCEPT ![e][n] = failing] /\ free' = free + 1
              /\ outcome' = [outcome EXCEPT ![e] = "failed"]
            BY <1>6, <2>3 DEF AskFails, Break
        <3> HIDE DEF failing
        <3> QED BY <1>4, <2>1, <3>1 DEF BatchBecomes, Paid
    <2> QED BY <2>2, <2>3
<1> QED BY <1>2, <1>3, <1>5, <1>6

LEMMA ProviderStep == ProviderInv /\ [ProviderNext]_providerVars => ProviderInv'
<1> SUFFICES ASSUME ProviderInv, [ProviderNext]_providerVars PROVE ProviderInv'
    OBVIOUS
<1>0. /\ batch \in [Embeds -> [Numbers -> BatchStates]]
      /\ vectors \in [Embeds -> {<<>>, Whole}] /\ outcome \in [Embeds -> Outcomes]
      /\ free \in Nat /\ Slots \in Nat /\ Cardinality(Lent) \in Nat
      /\ free + Cardinality(Lent) = Slots
      /\ ProviderType /\ BatchesMatch
    BY ProviderAssumption, LentFinite
       DEF ProviderInv, ProviderType, ProviderSlotsConserved, Lent, ProviderAssumption
<1>1. ASSUME NEW e \in Embeds, NEW n \in Numbers,
             \/ TakeSlot(e, n) \/ AskAgain(e, n)
             \/ \E items \in Responses(n) : Respond(e, n, items)
             \/ \E transient \in BOOLEAN : AskFails(e, n, transient)
      PROVE  ProviderInv'
    <2>1. PICK s \in BatchStates : BatchBecomes(e, n, s) /\ Paid(e, n, s)
        BY <1>1, BatchMoves
    <2>2. free' \in Nat /\ free' + Cardinality(Lent') = Slots
        <3>1. batch' = [batch EXCEPT ![e][n] = s]
            BY <2>1 DEF BatchBecomes
        <3> DEFINE holds == s.step \in {"asking", "sleeping"}
        <3>2. /\ ~HoldsSlot(e, n) /\ holds => Cardinality(Lent') = Cardinality(Lent) + 1
              /\ HoldsSlot(e, n) /\ ~holds => Cardinality(Lent') = Cardinality(Lent) - 1
              /\ (HoldsSlot(e, n) <=> holds) => Lent' = Lent
            BY <1>0, <3>1, LentOne
        <3>3. \/ ~HoldsSlot(e, n) /\ holds /\ free > 0 /\ free' = free - 1
              \/ HoldsSlot(e, n) /\ ~holds /\ free' = free + 1
              \/ (HoldsSlot(e, n) <=> holds) /\ free' = free
            BY <2>1 DEF Paid
        <3> HIDE DEF holds
        <3>4. CASE ~HoldsSlot(e, n) /\ holds /\ free > 0 /\ free' = free - 1
            <4>1. Cardinality(Lent') = Cardinality(Lent) + 1
                BY <3>2, <3>4
            <4> QED BY <1>0, <3>4, <4>1
        <3>5. CASE HoldsSlot(e, n) /\ ~holds /\ free' = free + 1
            <4>1. Cardinality(Lent') = Cardinality(Lent) - 1
                BY <3>2, <3>5
            <4> QED BY <1>0, <3>5, <4>1
        <3>6. CASE (HoldsSlot(e, n) <=> holds) /\ free' = free
            <4>1. Lent' = Lent
                BY <3>2, <3>6
            <4> QED BY <1>0, <3>6, <4>1
        <3> QED BY <3>3, <3>4, <3>5, <3>6
    <2>3. ProviderType'
        BY <1>0, <2>1, <2>2 DEF BatchBecomes, ProviderType, Outcomes
    <2>4. BatchesMatch'
        <3>1. batch'[e] = [batch[e] EXCEPT ![n] = s] /\ batch[e] \in [Numbers -> BatchStates]
            BY <1>0, <2>1 DEF BatchBecomes
        <3>2. \A c \in Embeds : c # e => batch'[c] = batch[c]
            BY <1>0, <2>1 DEF BatchBecomes
        <3>3. ASSUME NEW c \in Embeds, NEW m \in Numbers
              PROVE  \/ batch'[c][m] = batch[c][m]
                     \/ c = e /\ m = n /\ batch'[c][m] = s
            BY <3>1, <3>2
        <3> QED BY <1>0, <2>1, <3>3 DEF BatchesMatch, BatchBecomes
    <2>5. VectorsMatchTexts'
        BY <1>0, <2>1 DEF BatchBecomes, VectorsMatchTexts, ProviderInv
    <2> QED BY <2>2, <2>3, <2>4, <2>5 DEF ProviderInv, ProviderSlotsConserved, Lent
<1>2. ASSUME NEW e \in Embeds, EmbedStart(e) PROVE ProviderInv'
    <2>1. /\ UNCHANGED <<batch, free, vectors>>
          /\ outcome' = [outcome EXCEPT ![e] = "running"]
        BY <1>2 DEF EmbedStart
    <2>2. ProviderType' /\ VectorsMatchTexts'
        BY <1>0, <2>1 DEF ProviderType, Outcomes, VectorsMatchTexts, ProviderInv
    <2> QED BY <2>1, <2>2 DEF ProviderInv, BatchesMatch, ProviderSlotsConserved, HoldsSlot
<1>3. ASSUME NEW e \in Embeds, EmbedReturn(e) PROVE ProviderInv'
    <2>1. [n \in Numbers |-> batch[e][n].vectors] = [n \in Numbers |-> Texts(n)]
        BY <1>0, <1>3 DEF EmbedReturn, BatchesMatch
    <2>2. /\ UNCHANGED <<batch, free>> /\ vectors' = [vectors EXCEPT ![e] = Whole]
          /\ outcome' = [outcome EXCEPT ![e] = "returned"]
        BY <1>3, <2>1 DEF EmbedReturn, Whole
    <2>3. ProviderType'
        BY <1>0, <2>2 DEF ProviderType, Outcomes
    <2>4. VectorsMatchTexts'
        BY <1>0, <2>2 DEF VectorsMatchTexts, ProviderInv, Whole
    <2> QED BY <2>2, <2>3, <2>4 DEF ProviderInv, BatchesMatch, ProviderSlotsConserved, HoldsSlot
<1>4. ASSUME NEW e \in Embeds, EmbedCancelled(e) PROVE ProviderInv'
    <2> DEFINE own == Cardinality({n \in Numbers : HoldsSlot(e, n)})
    <2>1. /\ free' = free + own /\ vectors' = vectors
          /\ outcome' = [outcome EXCEPT ![e] = "cancelled"]
        BY <1>4 DEF EmbedCancelled
    <2>2. Cardinality(Lent') = Cardinality(Lent) - own /\ own \in Nat
        BY <1>0, <1>4, LentCancelled
    <2> HIDE DEF own
    <2>3. free' \in Nat /\ free' + Cardinality(Lent') = Slots
        BY <1>0, <2>1, <2>2
    <2>4. \A c \in Embeds, n \in Numbers :
             \/ batch'[c][n] = batch[c][n]
             \/ batch'[c][n] = [batch[c][n] EXCEPT !.step = "failed"]
        BY <1>0, <1>4 DEF EmbedCancelled
    <2>5. batch' \in [Embeds -> [Numbers -> BatchStates]]
        <3>0. \A b \in BatchStates : [b EXCEPT !.step = "failed"] \in BatchStates
            BY DEF BatchStates
        <3>1. \A n \in Numbers : [batch[e][n] EXCEPT !.step = "failed"] \in BatchStates
            BY <1>0, <3>0
        <3> DEFINE row == [n \in Numbers |->
                              IF batch[e][n].step = "done" THEN batch[e][n]
                              ELSE [batch[e][n] EXCEPT !.step = "failed"]]
        <3>2. row \in [Numbers -> BatchStates]
            BY <1>0, <3>1
        <3>3. batch' = [batch EXCEPT ![e] = row]
            BY <1>4 DEF EmbedCancelled
        <3> HIDE DEF row
        <3> QED BY <1>0, <3>2, <3>3
    <2>6. ProviderType'
        BY <1>0, <2>1, <2>3, <2>5 DEF ProviderType, Outcomes
    <2>7. BatchesMatch'
        <3> SUFFICES ASSUME NEW c \in Embeds, NEW n \in Numbers
                     PROVE  /\ batch'[c][n].step = "sleeping" => batch'[c][n].attempt < MaxAttempts
                            /\ batch'[c][n].step = "done" => batch'[c][n].vectors = Texts(n)
            BY DEF BatchesMatch
        <3>1. CASE batch'[c][n] = batch[c][n]
            BY <1>0, <3>1 DEF BatchesMatch
        <3>2. CASE batch'[c][n] = [batch[c][n] EXCEPT !.step = "failed"]
            <4>1. batch'[c][n].step = "failed"
                BY <1>0, <3>2 DEF BatchStates
            <4> QED BY <4>1
        <3> QED BY <2>4, <3>1, <3>2
    <2>8. VectorsMatchTexts'
        BY <1>0, <2>1 DEF VectorsMatchTexts, ProviderInv
    <2> QED BY <2>3, <2>6, <2>7, <2>8 DEF ProviderInv, ProviderSlotsConserved, Lent
<1>5. CASE UNCHANGED providerVars
    BY <1>5 DEF providerVars, ProviderInv, ProviderType, BatchesMatch, VectorsMatchTexts,
                ProviderSlotsConserved, HoldsSlot
<1> QED BY <1>1, <1>2, <1>3, <1>4, <1>5 DEF ProviderNext

LEMMA ProviderStarts == ProviderInit => ProviderInv
<1> SUFFICES ASSUME ProviderInit PROVE ProviderInv
    OBVIOUS
<1>1. Idle \in BatchStates /\ Idle.step = "queued"
    BY ProviderAssumption DEF Idle, BatchStates, BatchVectors, ProviderAssumption
<1>2. ProviderType /\ BatchesMatch /\ VectorsMatchTexts
    BY <1>1, ProviderAssumption
       DEF ProviderInit, ProviderType, BatchesMatch, VectorsMatchTexts, Outcomes,
           ProviderAssumption
<1>3. Lent = {}
    BY <1>1 DEF ProviderInit, Lent, HoldsSlot
<1>4. ProviderSlotsConserved
    <2>1. Cardinality(Lent) = 0
        BY <1>3, FS_EmptySet
    <2>2. free = Slots /\ Slots \in Nat
        BY ProviderAssumption DEF ProviderInit, ProviderAssumption
    <2>3. free + Cardinality(Lent) = Slots
        BY <2>1, <2>2
    <2> QED BY <2>3 DEF ProviderSlotsConserved, Lent
<1> QED BY <1>2, <1>4 DEF ProviderInv

LEMMA ProviderInvHolds == ProviderSpec => []ProviderInv
BY ProviderStarts, ProviderStep, PTL DEF ProviderSpec

LEMMA ProviderTypes == ProviderInv => ProviderTypeOK
<1> SUFFICES ASSUME ProviderInv PROVE ProviderTypeOK
    OBVIOUS
<1>1. /\ batch \in [Embeds -> [Numbers -> BatchStates]] /\ free \in Nat
      /\ outcome \in [Embeds -> Outcomes]
    BY DEF ProviderInv, ProviderType
<1>2. free + Cardinality(Lent) = Slots /\ Cardinality(Lent) \in Nat /\ Slots \in Nat
    BY LentFinite, ProviderAssumption
       DEF ProviderInv, ProviderSlotsConserved, Lent, ProviderAssumption
<1>3. free \in 0..Slots
    BY <1>1, <1>2
<1> QED BY <1>1, <1>3 DEF ProviderTypeOK, BatchStates, Outcomes

\* Every variable of the provider's client has its type: no batch is asked more
\* often than the retries allow, and no more slots are free than there are.
THEOREM ProviderTypeCorrect == ProviderSpec => []ProviderTypeOK
BY ProviderTypes, ProviderInvHolds, PTL

\* The semaphore of the client loses no slot and lends none twice:
\* ProviderSlotsConserved for any number of calls, batches, attempts and slots.
THEOREM ProviderLosesNoSlot == ProviderSpec => []ProviderSlotsConserved
BY ProviderInvHolds, PTL DEF ProviderInv

\* A call that returns gives every text its own vector: VectorsMatchTexts for
\* any number and size of batches and any order of a response's items.
THEOREM TextsGetTheirVectors == ProviderSpec => []VectorsMatchTexts
BY ProviderInvHolds, PTL DEF ProviderInv


-----------------------------------------------------------------------------
(* The chat client *)

SessionType ==
    /\ issued \in Seq(Users)
    /\ bound \in 0..Token
    /\ thread \in Threads \cup {Nowhere}

\* Somebody who is logged in has a token.
HasToken == loggedIn => Token # 0

\* With a client, the conversation is one of the identity the client is of, which
\* need not be the present one: what _client compares decides that.
ThreadOfClient ==
    bound # 0 /\ thread # Nowhere => thread \in DOMAIN owner /\ owner[thread] = issued[bound]

\* A page that was drawn was drawn for the present token.
DrawnForToken ==
    script # "idle" => loggedIn /\ bound = Token /\ thread # Nowhere

SessionInv == SessionType /\ HasToken /\ ThreadOfClient /\ DrawnForToken

\* What the invariant is about.
sessionVars == <<issued, loggedIn, bound, thread, owner>>

LEMMA SessionStarts == ClientInit => SessionInv
  <1>1. <<>> \in Seq(Users) /\ Len(<<>>) = 0
    OBVIOUS
  <1> QED
    BY <1>1 DEF ClientInit, SessionInv, SessionType, HasToken, ThreadOfClient,
                DrawnForToken, Token

\* A new conversation is the client's own.
LEMMA CreatedIsOwn ==
    ASSUME SessionInv, NEW t \in Threads, NEW k \in 1..Token, Create(t, k), UNCHANGED issued
    PROVE  thread' = t /\ thread' # Nowhere /\ thread' \in DOMAIN owner' /\ owner'[thread'] = issued'[k]
  <1>1. thread' = t /\ t # Nowhere
    BY ClientAssumption DEF Create
  <1>2. owner' = [x \in DOMAIN owner \cup {t} |-> IF x = t THEN issued[k] ELSE owner[x]]
    BY DEF Create
  <1> QED
    BY <1>1, <1>2

LEMMA SessionGoesOn == SessionInv /\ [ClientNext]_clientVars => SessionInv'
  <1> SUFFICES ASSUME SessionInv, [ClientNext]_clientVars
               PROVE  SessionInv'
    OBVIOUS
  <1>t. SessionType /\ HasToken /\ ThreadOfClient /\ DrawnForToken /\ Token \in Nat
    BY DEF SessionInv, SessionType, Token
  \* Steps that leave the session as it is, of a page that was or is drawn.
  <1>s. ASSUME UNCHANGED sessionVars, script' = "idle" \/ script # "idle"
        PROVE  SessionInv'
    BY <1>t, <1>s DEF sessionVars, SessionInv, SessionType, HasToken, ThreadOfClient,
                      DrawnForToken, Token
  <1>1. ASSUME NEW u \in Users, Authenticate(u)
        PROVE  SessionInv'
    <2>1. /\ script = "idle" /\ issued' = Append(issued, u)
          /\ UNCHANGED <<script, bound, thread, owner>>
      BY <1>1 DEF Authenticate, page
    <2>2. issued' \in Seq(Users) /\ Len(issued') = Token + 1
      BY <1>t, <2>1 DEF SessionType, Token
    <2>3. \A k \in 1..Token : issued'[k] = issued[k]
      BY <1>t, <2>1 DEF SessionType, Token
    <2>4. bound # 0 => issued'[bound] = issued[bound]
      BY <1>t, <2>3 DEF SessionType
    <2> QED
      BY <1>t, <2>1, <2>2, <2>4
         DEF SessionInv, SessionType, HasToken, ThreadOfClient, DrawnForToken, Token
  <1>2. CASE RunScript
    <2>1. /\ loggedIn /\ script' = "drawn" /\ bound' = Token /\ Token \in 1..Token
          /\ UNCHANGED <<issued, loggedIn>>
      BY <1>t, <1>2 DEF RunScript, HasToken
    <2>2. thread' # Nowhere /\ thread' \in DOMAIN owner' /\ owner'[thread'] = issued'[bound']
          /\ thread' \in Threads \cup {Nowhere}
      <3>1. CASE Remembered # Nowhere
        <4>1. bound = Token /\ thread' = thread /\ thread # Nowhere /\ UNCHANGED owner
          BY <1>2, <3>1 DEF RunScript, Remembered
        <4> QED
          BY <1>t, <2>1, <4>1 DEF ThreadOfClient, SessionType
      <3>2. CASE Remembered = Nowhere
        <4>1. PICK t \in Threads : Create(t, Token)
          BY <1>2, <3>2 DEF RunScript
        <4> QED
          BY <2>1, <4>1, CreatedIsOwn
      <3> QED
        BY <3>1, <3>2
    <2> QED
      BY <1>t, <2>1, <2>2 DEF SessionInv, SessionType, HasToken, ThreadOfClient,
                              DrawnForToken, Token
  <1>3. CASE RunScriptFails
    <2>1. /\ script' = "idle" /\ thread' = Nowhere /\ bound' \in {0, Token}
          /\ UNCHANGED <<issued, loggedIn, owner>>
      BY <1>3 DEF RunScriptFails, api
    <2> QED
      BY <1>t, <2>1 DEF SessionInv, SessionType, HasToken, ThreadOfClient,
                        DrawnForToken, Token
  <1>4. CASE NewConversation
    <2>1. script' = "idle" /\ bound \in 1..Token /\ UNCHANGED <<issued, loggedIn>>
      BY <1>t, <1>4 DEF NewConversation, SessionType
    <2>2. CASE \E t \in Threads : Create(t, bound) /\ UNCHANGED bound
      <3>1. PICK t \in Threads : Create(t, bound) /\ UNCHANGED bound
        BY <2>2
      <3>2. thread' = t /\ thread' \in DOMAIN owner' /\ owner'[thread'] = issued'[bound']
        BY <2>1, <3>1, CreatedIsOwn
      <3> QED
        BY <1>t, <2>1, <3>1, <3>2 DEF SessionInv, SessionType, HasToken, ThreadOfClient,
                                      DrawnForToken, Token
    <2>3. CASE thread' = Nowhere /\ bound' = 0
      BY <1>t, <2>1, <2>3 DEF SessionInv, SessionType, HasToken, ThreadOfClient,
                              DrawnForToken, Token
    <2> QED
      BY <1>4, <2>2, <2>3 DEF NewConversation
  <1>5. CASE Logout
    <2>1. /\ script' = "idle" /\ ~loggedIn' /\ bound' = 0 /\ thread' = Nowhere
          /\ UNCHANGED <<issued, owner>>
      BY <1>5 DEF Logout
    <2> QED
      BY <1>t, <2>1 DEF SessionInv, SessionType, HasToken, ThreadOfClient,
                        DrawnForToken, Token
  <1>6. ASSUME NEW t \in Threads, SwitchConversation(t)
        PROVE  SessionInv'
    <2>1. /\ script' = "idle" /\ UNCHANGED <<issued, loggedIn, bound, owner>>
          /\ t \in DOMAIN owner /\ owner[t] = issued[bound]
          /\ thread' = t \/ thread' = thread
      BY <1>6 DEF SwitchConversation, api
    <2> QED
      BY <1>t, <2>1 DEF SessionInv, SessionType, HasToken, ThreadOfClient,
                        DrawnForToken, Token
  <1>7. CASE AskForTools \/ RequestRestart \/ DecideRestart
             \/ \E i \in DOMAIN view : ThumbsUpOrDown(i)
    BY <1>7, <1>s DEF AskForTools, RequestRestart, DecideRestart, ThumbsUpOrDown,
                      sessionVars, api
  <1>8. CASE Ask \/ FirstEvent \/ Answered \/ ScriptEnds
    BY <1>8, <1>s DEF Ask, FirstEvent, Answered, ScriptEnds, sessionVars, api, page
  <1>9. CASE UNCHANGED clientVars
    BY <1>t, <1>9 DEF clientVars, SessionInv, SessionType, HasToken, ThreadOfClient,
                      DrawnForToken, Token
  <1> QED
    BY <1>1, <1>2, <1>3, <1>4, <1>5, <1>6, <1>7, <1>8, <1>9 DEF ClientNext

\* However tokens are refreshed and identities change between runs of the script,
\* a drawn page asks in a conversation of the present identity (ui/app.py).
THEOREM QuestionsStayOwn == ClientSpec => []SessionFollowsIdentity
  <1>1. SessionInv => SessionFollowsIdentity
    BY DEF SessionInv, SessionType, HasToken, ThreadOfClient, DrawnForToken,
           SessionFollowsIdentity, Me
  <1> QED
    BY <1>1, SessionStarts, SessionGoesOn, PTL DEF ClientSpec

Messages == [role : {"user", "assistant"}, run : 0..MaxRuns, by : Users]

ClientType ==
    /\ script \in {"idle", "drawn", "asked", "streaming"}
    /\ toolsFor \in 0..Token
    /\ DOMAIN owner \subseteq Threads
    /\ ticket \in Users \cup {Nowhere}
    /\ rated \subseteq 1..MaxRuns
    /\ activeRun \in 0..MaxRuns /\ runs \in 0..MaxRuns
    /\ view \in Seq(Messages)

LEMMA ClientTypesStart == ClientInit => ClientType
  <1>1. <<>> \in Seq(Messages) /\ Len(<<>>) = 0
    OBVIOUS
  <1>2. 0 \in 0..MaxRuns
    BY ClientAssumption
  <1> QED
    BY <1>1, <1>2 DEF ClientInit, ClientType, Token

\* While a page is drawn, its client is of the token in use, an identity's.
LEMMA DrawnHasClient ==
    ASSUME SessionInv, script # "idle"
    PROVE  bound = Token /\ bound \in 1..Token /\ issued[bound] \in Users
  <1>1. bound = Token /\ Token # 0 /\ Token \in Nat /\ issued \in Seq(Users)
    BY DEF SessionInv, SessionType, HasToken, DrawnForToken, Token
  <1> QED
    BY <1>1 DEF Token

LEMMA ClientTypesGoOn ==
    ASSUME SessionInv, ClientType, [ClientNext]_clientVars
    PROVE  ClientType'
  <1>t. /\ issued \in Seq(Users) /\ Token \in Nat /\ bound \in 0..Token
        /\ toolsFor \in 0..Token /\ MaxRuns \in Nat /\ runs \in 0..MaxRuns
        /\ activeRun \in 0..MaxRuns /\ view \in Seq(Messages)
        /\ rated \subseteq 1..MaxRuns
    BY ClientAssumption DEF SessionInv, SessionType, ClientType, Token
  \* A message is shown by the client of the page.
  <1>v. ASSUME script # "idle", NEW role \in {"user", "assistant"}, NEW run \in 0..MaxRuns,
               Show(role, run)
        PROVE  view' \in Seq(Messages)
    <2>1. [role |-> role, run |-> run, by |-> issued[bound]] \in Messages
      BY <1>v, DrawnHasClient DEF Messages
    <2> QED
      BY <1>t, <1>v, <2>1 DEF Show
  <1>c. ASSUME NEW t \in Threads, NEW k, Create(t, k)
        PROVE  DOMAIN owner' \subseteq Threads
    BY <1>c DEF Create, ClientType
  <1>1. ASSUME NEW u \in Users, Authenticate(u)
        PROVE  ClientType'
    <2>1. Token' = Token + 1 /\ UNCHANGED <<script, page, owner, runs>>
      BY <1>t, <1>1 DEF Authenticate, Token
    <2>2. toolsFor' \in 0..Token'
      BY <1>t, <2>1 DEF page
    <2> QED
      BY <2>1, <2>2 DEF ClientType, page
  <1>2. CASE RunScript
    BY <1>2, <1>c DEF RunScript, ClientType, Token
  <1>3. CASE RunScriptFails
    BY <1>3 DEF RunScriptFails, api, ClientType, Token
  <1>4. CASE NewConversation
    <2>1. <<>> \in Seq(Messages) /\ 0 \in 0..MaxRuns
      BY <1>t
    <2>2. /\ view' \in {<<>>, view} /\ activeRun' \in {0, activeRun}
          /\ UNCHANGED <<script, issued, toolsFor, ticket, rated, runs>>
      BY <1>4 DEF NewConversation
    <2>3. DOMAIN owner' \subseteq Threads
      BY <1>4, <1>c DEF NewConversation, ClientType
    <2> QED
      BY <1>t, <2>1, <2>2, <2>3 DEF ClientType, Token
  <1>5. CASE Logout
    <2>1. <<>> \in Seq(Messages) /\ 0 \in 0..MaxRuns /\ 0 \in 0..Token
      BY <1>t
    <2> QED
      BY <1>5, <2>1 DEF Logout, ClientType, Token
  <1>6. ASSUME NEW t \in Threads, SwitchConversation(t)
        PROVE  ClientType'
    <2>1. [role |-> "assistant", run |-> 0, by |-> owner[t]] \in Messages
      <3>1. script # "idle" /\ owner[t] = issued[bound]
        BY <1>6 DEF SwitchConversation
      <3> QED
        BY <1>t, <3>1, DrawnHasClient DEF Messages
    <2>2. <<[role |-> "assistant", run |-> 0, by |-> owner[t]]>> \in Seq(Messages)
      BY <2>1
    <2>3. <<>> \in Seq(Messages) /\ 0 \in 0..MaxRuns
      BY <1>t
    <2>4. view' \in Seq(Messages) /\ activeRun' \in 0..MaxRuns
      BY <1>t, <1>6, <2>2, <2>3 DEF SwitchConversation
    <2> QED
      BY <1>6, <2>4 DEF SwitchConversation, api, ClientType, Token
  <1>7. CASE AskForTools
    BY <1>t, <1>7 DEF AskForTools, api, ClientType, Token
  <1>8. CASE RequestRestart
    <2>1. issued[bound] \in Users
      BY <1>8, DrawnHasClient DEF RequestRestart
    <2> QED
      BY <1>8, <2>1 DEF RequestRestart, api, ClientType, Token
  <1>9. CASE DecideRestart
    BY <1>9 DEF DecideRestart, api, ClientType, Token
  <1>10. ASSUME NEW i \in DOMAIN view, ThumbsUpOrDown(i)
         PROVE  ClientType'
    <2>1. view[i] \in Messages /\ view[i].run # 0
      BY <1>t, <1>10 DEF ThumbsUpOrDown, Answers
    <2>2. view[i].run \in 1..MaxRuns
      BY <1>t, <2>1 DEF Messages
    <2> QED
      BY <1>10, <2>2 DEF ThumbsUpOrDown, api, ClientType, Token
  <1>11. CASE Ask
    <2>1. view' \in Seq(Messages)
      BY <1>t, <1>v, <1>11 DEF Ask
    <2> QED
      BY <1>11, <2>1 DEF Ask, api, ClientType, Token
  <1>12. CASE FirstEvent
    <2>1. runs' \in 0..MaxRuns /\ activeRun' \in 0..MaxRuns
      BY <1>t, <1>12 DEF FirstEvent
    <2> QED
      BY <1>12, <2>1 DEF FirstEvent, ClientType, Token
  <1>13. CASE Answered
    <2>1. view' \in Seq(Messages)
      BY <1>t, <1>v, <1>13 DEF Answered
    <2> QED
      BY <1>13, <2>1 DEF Answered, api, ClientType, Token
  <1>14. CASE ScriptEnds
    BY <1>14 DEF ScriptEnds, page, api, ClientType, Token
  <1>15. CASE UNCHANGED clientVars
    BY <1>15 DEF clientVars, ClientType, Token
  <1> QED
    BY <1>1, <1>2, <1>3, <1>4, <1>5, <1>6, <1>7, <1>8, <1>9, <1>10, <1>11, <1>12, <1>13,
       <1>14, <1>15 DEF ClientNext

-----------------------------------------------------------------------------
(* All services *)

GateParts == {"gate", "keys", "bucket"}

\* Calls that a part begins with in the middle are typed by that part's own
\* invariant, which knows the stages they can be in; what the other parts keep
\* of calls stays as it began.
ServicesInv ==
    /\ KeyTypeOK /\ BucketTypeOK /\ ToolTypeOK /\ MemoryTypeOK /\ FeedbackTypeOK
    /\ IngestionInv /\ ProviderInv /\ ProvisionInv /\ SessionInv /\ ClientType
    /\ part \in GateParts => BucketInv
    /\ part = "memory" => MemoryInv
    /\ part = "feedback" => FeedbackInv

LEMMA ServicesTypes == ServicesInv => ServicesTypeOK
  <1> SUFFICES ASSUME ServicesInv PROVE ServicesTypeOK
    OBVIOUS
  <1>1. IngestionTypeOK
    BY DEF ServicesInv, IngestionInv, JobType, JobSteps, IngestionTypeOK
  <1>2. ProviderTypeOK
    BY ProviderTypes DEF ServicesInv
  <1>3. ProvisionTypeOK
    <2>1. Len(Usernames) \in Nat
      BY ProvisionAssumption
    <2> QED
      BY <2>1 DEF ServicesInv, ProvisionInv, ProvisionType, ProvisionTypeOK
  <1>4. ClientTypeOK
    BY DEF ServicesInv, SessionInv, SessionType, ClientType, ClientTypeOK
  <1> QED
    BY <1>1, <1>2, <1>3, <1>4 DEF ServicesInv, ServicesTypeOK

\* What the stores' variables begin with has its types, whatever stages calls
\* begin in.
LEMMA StoreTypesStart ==
    MemoryInit /\ FeedbackInit => MemoryTypeOK /\ FeedbackTypeOK
  <1>1. (CHOOSE i \in Items : TRUE) \in Items /\ (CHOOSE s \in Subjects : TRUE) \in Subjects
    BY MemoryAssumption, CallsAssumption
  <1>2. MemoryInit => MemoryTypeOK
    BY <1>1 DEF MemoryInit, MemoryTypeOK, NoOp
  <1>3. NoPost \in [name : {"none", "submit", "review"}, owner : Subjects, run : Runs,
                    rating : Ratings]
    BY CallsAssumption, FeedbackAssumption DEF NoPost
  <1>4. ASSUME FeedbackInit PROVE FeedbackTypeOK
    <2>1. Rows = {} /\ feedback \in [Rows -> [rating : Ratings, reviewed : BOOLEAN]]
      BY <1>4 DEF FeedbackInit, Rows
    <2> QED
      BY <1>3, <1>4, <2>1 DEF FeedbackInit, FeedbackTypeOK
  <1> QED
    BY <1>2, <1>4

\* The calls of the limiter, the gateway and the stores begin in one stage.
LEMMA CallsBegin ==
    ASSUME MCInit, part \in GateParts \cup {"memory", "feedback"}
    PROVE  \E stages \in [Calls -> {"new", "verified", "admitted", "answered"}] :
             /\ GateInitAt(stages)
             /\ part \in GateParts => \A c \in Calls : stages[c] # "admitted"
             /\ part \in {"memory", "feedback"} => stages = [c \in Calls |-> "admitted"]
  <1>1. PICK idle \in SUBSET Calls :
          /\ Cardinality(idle) = CASE part \in OtherParts -> Cardinality(Calls)
                                   [] part = "gate" -> 2
                                   [] part = "keys" -> 1
                                   [] OTHER -> 0
          /\ GateInitAt([c \in Calls |-> IF c \in idle THEN "answered" ELSE CallParts[part]])
    BY DEF MCInit
  <1> DEFINE stages == [c \in Calls |-> IF c \in idle THEN "answered" ELSE CallParts[part]]
  <1>2. part \in GateParts => CallParts[part] \in {"new", "verified"}
    BY DEF GateParts, CallParts
  <1>3. part \in {"memory", "feedback"} => CallParts[part] = "admitted"
    BY DEF CallParts
  <1>4. stages \in [Calls -> {"new", "verified", "admitted", "answered"}]
    BY <1>2, <1>3
  <1>5. ASSUME part \in {"memory", "feedback"} PROVE stages = [c \in Calls |-> "admitted"]
    <2>1. Cardinality(idle) = 0
      BY <1>1, <1>5 DEF OtherParts
    <2>2. IsFiniteSet(idle)
      BY CallsAssumption, FS_Subset
    <2>3. idle = {}
      BY <2>1, <2>2, FS_EmptySet
    <2> QED
      BY <1>3, <1>5, <2>3
  <1>6. part \in GateParts => \A c \in Calls : stages[c] # "admitted"
    BY <1>2
  <1> QED
    BY <1>1, <1>4, <1>5, <1>6

LEMMA ServicesStart == MCInit => ServicesInv
  <1> SUFFICES ASSUME MCInit PROVE ServicesInv
    OBVIOUS
  <1>1. /\ KeyInit /\ BucketInit /\ ToolInit /\ MemoryInit /\ FeedbackInit
        /\ IngestionInit /\ ProviderInit /\ ClientInit /\ ProvisionInit
    BY DEF MCInit, GateInitAt
  <1>2. KeyTypeOK /\ BucketTypeOK /\ ToolTypeOK /\ MemoryTypeOK /\ FeedbackTypeOK
    BY <1>1, KeyTypesStart, BucketTypesStart, ToolTypesStart, StoreTypesStart
  <1>3. IngestionInv /\ ProviderInv /\ ProvisionInv /\ SessionInv /\ ClientType
    BY <1>1, IngestionStarts, ProviderStarts, ProvisionStarts, SessionStarts, ClientTypesStart
  <1>4. part \in GateParts => BucketInv
    <2> SUFFICES ASSUME part \in GateParts PROVE BucketInv
      OBVIOUS
    <2>1. PICK stages \in [Calls -> {"new", "verified", "admitted", "answered"}] :
            GateInitAt(stages) /\ \A c \in Calls : stages[c] # "admitted"
      BY CallsBegin
    <2>2. stages \in [Calls -> GateStages] /\ \A c \in Calls : stages[c] # "sent"
      BY <2>1 DEF GateStages, KeyStages, BucketStages
    <2> QED
      BY <2>1, <2>2, BucketStarts
  <1>5. part \in {"memory", "feedback"} => CallsInit([c \in Calls |-> "admitted"])
    BY CallsBegin DEF GateInitAt
  <1>6. part = "memory" => MemoryInv
    BY <1>1, <1>5, MemoryStarts
  <1>7. part = "feedback" => FeedbackInv
    BY <1>1, <1>5, FeedbackStarts
  <1> QED
    BY <1>2, <1>3, <1>4, <1>6, <1>7 DEF ServicesInv

\* What a step of the services is to each of them.
LEMMA ServicesStep ==
    ASSUME [MCNext]_serviceVars
    PROVE  /\ part' = part
           /\ [IngestionNext]_ingestionVars /\ [ProviderNext]_providerVars
           /\ [ClientNext]_clientVars /\ [ProvisionNext]_provisionVars
           /\ part = "memory" => [MemoryNext \/ MemoryTick]_memoryAll
           /\ part # "memory" => UNCHANGED memoryVars
           /\ part = "feedback" => [FeedbackNext]_<<now, stage, who, status, feedbackVars>>
           /\ part # "feedback" => UNCHANGED feedbackVars
           /\ part \in GateParts => [GateNext]_gateVars
           /\ part \notin GateParts => UNCHANGED <<keyVars, bucketVars>>
           /\ [ToolNext]_toolVars
  <1> USE DEF GateParts
  <1>1. CASE part = "gate" /\ MCNext
    BY <1>1 DEF MCNext, GateNext, GateTick
  <1>2. CASE part = "keys" /\ MCNext
    BY <1>2 DEF MCNext, GateNext, GateTick
  <1>3. CASE part = "bucket" /\ MCNext
    BY <1>3 DEF MCNext, GateNext, GateTick
  <1>4. CASE part = "tools" /\ MCNext
    BY <1>4 DEF MCNext
  <1>5. CASE part = "memory" /\ MCNext
    BY <1>5 DEF MCNext
  <1>6. CASE part = "feedback" /\ MCNext
    BY <1>6 DEF MCNext
  <1>7. CASE part \in OtherParts /\ MCNext
    <2>1. UNCHANGED <<part, gateVars, memoryVars, feedbackVars>>
      BY <1>7 DEF MCNext, OtherParts
    <2>2. UNCHANGED <<keyVars, bucketVars, toolVars>>
      BY <2>1 DEF gateVars
    <2>3. /\ [IngestionNext]_ingestionVars /\ [ProviderNext]_providerVars
          /\ [ClientNext]_clientVars /\ [ProvisionNext]_provisionVars
      BY <1>7 DEF MCNext
    <2> QED
      BY <1>7, <2>1, <2>2, <2>3 DEF OtherParts
  <1>8. CASE UNCHANGED serviceVars
    BY <1>8 DEF serviceVars, gateVars, callVars, memoryAll
  <1> QED
    BY <1>1, <1>2, <1>3, <1>4, <1>5, <1>6, <1>7, <1>8 DEF MCNext, OtherParts

LEMMA ServicesGoOn == ServicesInv /\ [MCNext]_serviceVars => ServicesInv'
  <1> SUFFICES ASSUME ServicesInv, [MCNext]_serviceVars
               PROVE  ServicesInv'
    OBVIOUS
  <1>p. part' = part
    BY ServicesStep
  <1>1. IngestionInv' /\ ProviderInv' /\ ProvisionInv' /\ SessionInv' /\ ClientType'
    BY ServicesStep, IngestionGoesOn, ProviderStep, ProvisionGoesOn, SessionGoesOn,
       ClientTypesGoOn DEF ServicesInv
  <1>2. part \in GateParts => BucketInv'
    <2> SUFFICES ASSUME part \in GateParts PROVE BucketInv'
      OBVIOUS
    <2>1. BucketInv /\ GateTypes /\ [GateNext]_gateVars
      BY ServicesStep DEF ServicesInv, BucketInv
    <2> QED
      BY <2>1, TypesGoOn, BucketGoesOn
  <1>3. KeyTypeOK' /\ BucketTypeOK'
    <2>1. CASE part \in GateParts
      BY <1>2, <2>1 DEF BucketInv, GateTypes
    <2>2. CASE part \notin GateParts
      <3>1. UNCHANGED <<keyVars, bucketVars>> /\ KeyTypeOK /\ BucketTypeOK
        BY <2>2, ServicesStep DEF ServicesInv
      <3> QED
        BY <3>1 DEF keyVars, bucketVars, KeyTypeOK, BucketTypeOK
    <2> QED
      BY <2>1, <2>2
  <1>4. ToolTypeOK'
    <2>1. CASE ToolNext
      BY <2>1, ToolTypesGoOn DEF ServicesInv
    <2>2. CASE UNCHANGED toolVars
      BY <2>2 DEF ServicesInv, toolVars, ToolTypeOK
    <2> QED
      BY <2>1, <2>2, ServicesStep
  <1>5. part = "memory" => MemoryInv'
    BY ServicesStep, MemoryGoesOn DEF ServicesInv
  <1>6. MemoryTypeOK'
    <2>1. CASE part = "memory"
      BY <1>5, <2>1 DEF MemoryInv, MemoryType
    <2>2. CASE part # "memory"
      <3>1. UNCHANGED memoryVars /\ MemoryTypeOK
        BY <2>2, ServicesStep DEF ServicesInv
      <3> QED
        BY <3>1 DEF memoryVars, MemoryTypeOK
    <2> QED
      BY <2>1, <2>2
  <1>7. part = "feedback" => FeedbackInv'
    BY ServicesStep, FeedbackGoesOn DEF ServicesInv
  <1>8. FeedbackTypeOK'
    <2>1. CASE part = "feedback"
      BY <1>7, <2>1 DEF FeedbackInv, FeedbackType
    <2>2. CASE part # "feedback"
      <3>1. UNCHANGED feedbackVars /\ FeedbackTypeOK
        BY <2>2, ServicesStep DEF ServicesInv
      <3> QED
        BY <3>1 DEF feedbackVars, FeedbackTypeOK, Rows
    <2> QED
      BY <2>1, <2>2
  <1> QED
    BY <1>p, <1>1, <1>2, <1>3, <1>4, <1>5, <1>6, <1>7, <1>8 DEF ServicesInv

\* Whichever service runs, and from whatever state its calls begin in, every
\* variable of every service keeps its type: in particular no more tokens are in
\* a bucket and no more slots free than there are, and the client is bound to
\* a token that was issued.
THEOREM ServicesKeepTypes == MCSpec => []ServicesTypeOK
  BY ServicesStart, ServicesGoOn, ServicesTypes, PTL DEF MCSpec
=============================================================================
