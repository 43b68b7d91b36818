------------------------------ MODULE Ingestion ------------------------------
(***************************************************************************)
(* Ingestion of a corpus (ingestion/service.py) into the vector index       *)
(* (adapters/pinecone/writer.py).  A job cuts and encodes its documents and *)
(* brings one after the other up to date: it lists the chunks that the      *)
(* index has of the document, upserts those that are new in batches and     *)
(* deletes those that are stale.  It may stop anywhere and is then started  *)
(* again, with this manifest or with another.                               *)
(***************************************************************************)
EXTENDS Naturals, FiniteSets

CONSTANTS
    Docs,      \* document ids
    Manifests  \* corpora: functions from documents to the ids of their chunks

ChunkIds == UNION {UNION {m[d] : d \in DOMAIN m} : m \in Manifests}

ASSUME IngestionAssumption ==
    /\ Docs # {}
    /\ \A m \in Manifests : DOMAIN m \subseteq Docs /\ \A d \in DOMAIN m : m[d] # {}

VARIABLES
    job,    \* what it does, the manifest, the documents left, the one in hand
            \* and the chunks that the index listed of it
    index,  \* the index: the chunks of every document
    whole   \* history: the chunks of a document's latest complete upsert

ingestionVars == <<job, index, whole>>

NoManifest == [d \in {} |-> {}]
Job(step, m, todo, doc, existing) ==
    job' = [step |-> step, manifest |-> m, todo |-> todo, doc |-> doc, existing |-> existing]
GoOn(step) == job' = [job EXCEPT !.step = step]

Incoming == job.manifest[job.doc]
NewIds == Incoming \ job.existing
StaleIds == job.existing \ Incoming

IngestionInit ==
    /\ job = [step |-> "idle", manifest |-> NoManifest, todo |-> {},
              doc |-> CHOOSE d \in Docs : TRUE, existing |-> {}]
    /\ index = [d \in Docs |-> {}]
    /\ whole = [d \in Docs |-> {}]

(* ingest, to its first await: load, chunk, fit and encode.                 *)
IngestStart(m) ==
    /\ job.step \in {"idle", "done"}
    /\ Job("embedding", m, DOMAIN m, job.doc, {})
    /\ UNCHANGED <<index, whole>>

IngestEmbedded ==
    /\ job.step = "embedding"
    /\ GoOn("next")
    /\ UNCHANGED <<index, whole>>

(* upsert_document: the ids the index has of the document.                  *)
IngestList(d) ==
    /\ job.step = "next" /\ d \in job.todo
    /\ Job("listed", job.manifest, job.todo, d, index[d])
    /\ UNCHANGED <<index, whole>>

\* Batches are written concurrently: records arrive in any order.
IngestUpsert(c) ==
    /\ job.step = "listed" /\ c \in NewIds \ index[job.doc]
    /\ index' = [index EXCEPT ![job.doc] = @ \cup {c}]
    /\ UNCHANGED <<job, whole>>

UpsertDone ==
    /\ job.step = "listed" /\ NewIds \subseteq index[job.doc]
    /\ GoOn("written")
    /\ whole' = [whole EXCEPT ![job.doc] = Incoming]
    /\ UNCHANGED index

MayDeleteEarly == job.step \in {"listed", "written"}    \* mutant: before the upsert
MayDelete == job.step = "written"

IngestDelete(c) ==
    /\ MayDelete /\ c \in StaleIds \cap index[job.doc]
    /\ index' = [index EXCEPT ![job.doc] = @ \ {c}]
    /\ UNCHANGED <<job, whole>>

DocumentDone ==
    /\ job.step = "written" /\ StaleIds \cap index[job.doc] = {}
    /\ Job("next", job.manifest, job.todo \ {job.doc}, job.doc, {})
    /\ UNCHANGED <<index, whole>>

\* The report.
IngestDone ==
    /\ job.step = "next" /\ job.todo = {}
    /\ GoOn("done")
    /\ UNCHANGED <<index, whole>>

\* A provider fails or the process stops.
IngestStops ==
    /\ job.step \notin {"idle", "done"}
    /\ Job("idle", NoManifest, {}, job.doc, {})
    /\ UNCHANGED <<index, whole>>

IngestionNext ==
    \/ \E m \in Manifests : IngestStart(m)
    \/ \E d \in Docs : IngestList(d)
    \/ \E c \in ChunkIds : IngestUpsert(c) \/ IngestDelete(c)
    \/ IngestEmbedded \/ UpsertDone \/ DocumentDone \/ IngestDone \/ IngestStops

IngestionSpec == IngestionInit /\ [][IngestionNext]_ingestionVars
-----------------------------------------------------------------------------
(* Properties *)

IngestionTypeOK ==
    /\ job.step \in {"idle", "embedding", "next", "listed", "written", "done"}
    /\ job.manifest \in Manifests \cup {NoManifest}
    /\ job.todo \subseteq DOMAIN job.manifest
    /\ job.doc \in Docs /\ job.existing \subseteq ChunkIds
    /\ index \in [Docs -> SUBSET ChunkIds]
    /\ whole \in [Docs -> SUBSET ChunkIds]

\* Searches never see a gap: wherever jobs stop, what was once written whole of
\* a document stays until its next version is whole; and a job that ends leaves
\* exactly its manifest's chunks of its documents, whatever earlier jobs that
\* stopped left behind.
WholeDocuments ==
    /\ \A d \in Docs : whole[d] \subseteq index[d]
    /\ job.step = "done" => \A d \in DOMAIN job.manifest : index[d] = job.manifest[d]
=============================================================================
