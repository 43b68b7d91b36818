# Orysys in TLA+

Orysys is an assistant over a company's documents: a FastAPI service streams
answers that LangGraph graphs compose from retrieved evidence, keeps
conversations, memories and approvals in PostgreSQL, limits rates in Redis and
is used through a Streamlit client. This directory models the parts of it whose
correctness depends on the order in which things happen, checks them with TLC
and proves the most important results with TLAPS. Paths below are relative to
`src/src/orysys/` unless they begin with `docs/`.

## 1. The system

| Component | State | Operations | Meets | What is hard |
|---|---|---|---|---|
| research graph (`research/runtime.py`, `adapters/model_research.py`) | channels of a run, worker semaphore, two deadlines | plan, discover, partition, worker, reduce, retry_gaps, compose; run timeout | models, retrieval, checkpointer | fan-out, hanging workers, cancellation, a bounded retry, two racing deadlines, a request id sent twice |
| direct graph (`graph/`) | channels of a run | nine nodes, two conditional edges | model, retrieval, directory, checkpointer | degraded steps, one repair, stops anywhere followed by a second send |
| approval proposals (`adapters/postgres_controls.py`) | row, audit events | propose, decide | API, audit table | read, check and write are separate; expiry; lost answers |
| conversations (`adapters/postgres.py`, `application/conversations.py`, `api/app.py`) | messages, rolling summary | get, append, send_message, _stream_run | graphs, client | appends that overlap; an answer stored after it was told; a commit whose acknowledgement is lost |
| memory (`adapters/postgres.py`, `memory/`) | status, audit events | propose, confirm, recall, delete | chat endpoint | status and audit in two transactions |
| token verification (`adapters/oidc.py`) | key cache, expiry | verify, refresh | identity provider | rotation, outage, concurrent refresh |
| rate limiter (`adapters/rate_limit.py`) | bucket per subject | consume | Redis | several clocks, an expiring bucket, lost answers |
| tool gateway (`tools/gateway.py`) | results by idempotency key | execute | handlers | lookup and store under the lock, execution outside it |
| model clients (`adapters/retry.py`, `adapters/cloudflare/`) | semaphore | complete, embed | providers | concurrent batches, retries inside slots, cancellation |
| retrieval (`adapters/pinecone/retrieval.py`) | none | search | index, reranker | partial degradation |
| ingestion (`ingestion/`, `adapters/pinecone/writer.py`) | index, encoder file | ingest, upsert_document | index | stops between upsert, deletion and dump |
| feedback (`adapters/postgres_controls.py`, `feedback/`) | one row per subject and run | record, mark_reviewed, export | API | idempotent upsert |
| chat client (`ui/`) | session state | logins, reruns, streaming, feedback, approvals | API | reruns in the middle of a stream, a token or an identity that changes between two runs |
| provisioning (`auth/provision.py`) | realm, users | provision | identity provider | stops between requests; what was made by hand |
| approval interrupt graph, MCP server, bootstrap, telemetry, evaluations | little or none | | | not concurrent, or not used |

How they interact. `api/app.py` verifies the token, takes a token of the
bucket, loads the conversation, stores the question and starts a run.
`RoutingAssistantRuntime` sends it to the direct or the research graph by words
of the message. The graph's nodes read and append to *channels*; with
`AsyncPostgresSaver` the channels are stored after each step under a key made of
tenant, subject, conversation and request id. The API relays the run's events to
the client and stores the answer when they are exhausted. Approvals are made and
decided by calls of their own; nothing else touches them.

What makes the parts correct:

- research: bounded calls, depth and time; no slot of the semaphore lost;
  successful batches survive failed ones; citations come from what a worker was
  given; incompleteness is marked.
- direct: claims rest on this run's evidence; permissions hold for what is
  looked up; the repair is given once and not used up by a crash; numbered events.
- approvals: at most one decision, authorised, in time, told truthfully,
  audited in order.
- conversations: a run that is told to have ended well has its answer stored, whole,
  once and behind its question; the summary and the verbatim tail fit together.
- keys: a key that is published is accepted, one that was withdrawn dies with
  the cache; limiter: a subject gets a full bucket and the refill of the time, but
  the code adds the clocks' error whenever a stamp is older than the one before
  (section 5); gateway: a result goes to whom it belongs, and what was answered
  does not run again.
- memory: the lifecycle is kept whatever calls overlap, and only the owner's calls
  change a memory or are shown it; the trail tells of every change that was
  answered with success, but not of every change (section 5); feedback: an export
  says what was reviewed.
- ingestion: no search sees a gap of a document, no chunk loses text;
  provisioning: a job that ends leaves users that can work.
- embeddings: every text gets its own vector and no slot is lost; client: a
  question goes to a conversation of whoever is asking.

The hazards are listed, each at its line, in `PROJECT.json`.

## 2. The plan

1. `ResearchGraph` - the part with most concurrency and most limits. Done.
2. `Approvals` over `OneShotDecision` - the part where an action is executed. Done.
3. `DirectGraph` - the default route, with sends repeated over a checkpoint. Done.
4. `Chat` - the store under both routes. Done.
5. `ApiGate` - what a call passes before it does anything, composed of `KeyCache`,
   `TokenBucket` and `ToolGateway`. Done, with its proofs.
6. The stores: `MemoryStore` over `MemoryLifecycle`, `FeedbackStore`, both with
   stops between their transactions. Done, with their proofs.
7. The jobs and clients: `Ingestion`, `Chunking`, `Provisioning`, `ProviderCalls`,
   `ClientSession`. Done, with their proofs.
8. Proofs of every safety property that a passing run checks, of the action
   properties and of the two refinements. Done.
9. Left: liveness, which only TLC checks, and the parts of section 7.

Abstract specifications: `OneShotDecision` and `MemoryLifecycle`, both stated as
properties of runs and proved implemented. An abstract "executes at most once per
key" was dropped: calls of the gateway that overlap do execute twice, by design of
the code, so that what holds is stated directly (`AnsweredNeverRunsAgain`).

## 3. The modules

### ResearchGraph (MCResearch, ResearchProofs)

One process with several runs. `pc[r]` is the node of run `r`, the channels of
`ResearchState` are variables of the same name (`selected` is
`selected_evidence`, `depth` is `recursion_depth`), `work[r]` is the fan-out
under way, `free` the semaphore, `age` and `due` the two deadlines in ticks.

- A document stands for all evidence with its id, since `partition` never
  separates them. A finding is a normalised key with the documents it cites.
- `outcomes` is a list with one entry per fan-out. The code's list has one entry
  per outcome, but only outcomes of the same batch are ever compared and a
  fan-out adds at most one for each.
- `reduce` sorts by `(batch_id, attempt)` (`LatestByAttempt`), `retry_gaps` and
  `compose` go by list order (`LatestByArrival`). The model keeps the difference.
- A worker waits for a slot and runs inside one `asyncio.timeout`, so
  `ExpireWorker` takes both; the answer of the model is any draft
  (`FinishWorker`), filtered as `ModelResearchWorker.analyze` does. A worker that
  raises and one whose draft is filtered away end alike, as a failure.
- `RunTimeout` is `asyncio.timeout` around the graph: it cancels everything the
  run awaits, and `async with` gives the slots back.
- `Begin` with `Checkpointed` keeps the channels of an earlier send.
- Time passes only while every active run awaits something. Nodes that compute
  take no time, which is what lets a deadline be met at all.

Left out: wording, scopes and filters, telemetry, the status `partial` (no code
produces it), the direct graph's sharing of the same thread key.

### Approvals, OneShotDecision (MCApi, MCApprovals, ApprovalsProofs)

Each call of `decide` is a process with the statements of
`PostgresApprovalRepository.decide` as its steps: `Read` (SELECT and the status
check), `Check` (expiry, token, hash and `now`, which nothing is awaited
between: one tick), `Expire`, `Update` (with its row count) and `Audit`, which is
a transaction of its own. `Lose` is a stop of the process, an error of the
database or a caller that goes away; an `Expire` or `Audit` whose commit is not
acknowledged ends in it, too. `propose` is `Insert` and then `HandOut`, which is the
audit event and the token together: a call may be lost before it, and the proposal is
then pending and undecidable (nobody has a token), while a loss behind the event
leaves a token that nobody uses. The columns a call compares after its read never change, so a call keeps no copy
of the row. The isolation is PostgreSQL's default, READ COMMITTED: an UPDATE
evaluates its WHERE clause on the committed row.

`OneShotDecision` says what the store promises, in terms of the verdict, the
winner and what callers are told. `DecidesOnce` is the refinement, with
`decided_at` and `executed_at` (and not `status`) as the decision.

`InMemoryApprovalRepository` runs the same steps under a lock: its behaviours are
those of the model in which one call finishes before the next begins.

### DirectGraph (MCApi, MCDirect, DirectProofs)

One request id, sent up to `MaxSends` times, each send stopped anywhere. Nodes
are actions, the conditional edge after a node is part of its action. A draft is
the set of evidence ids its claims cite; the schema demands at least one id per
claim, so the empty set stands for "no structured answer". `obtained` (history)
is what this run's search and lookups returned. Event numbers are computed as
`_events` does, with the offsets of the nodes that emit in parts.

### Chat (MCApi, MCChat, ChatProofs)

Posts (messages sent) to one conversation. A call of the store is `ReadRow` and
`ReadMessages` (two statements of `get`), and for an append then the transaction
`CommitMessage`, which inserts the message and writes the summary computed from that
read. It is acknowledged (`Write`), or its acknowledgement is lost (`WriteUnheard`): the
message is stored, and the store raises, which `_stream_run` reports as `run.failed`,
or the post is gone. `Fail` is an error of run or store with nothing committed, `Leave` a
client that disconnects or a process that stops. A summary is the length of the
prefix it covers. A run may end with the whole answer or without any text, which
`Finish` does not store, as `if answer:` has it.

`OutcomeIsHonest` therefore promises nothing of a run that failed: its answer may be
stored or not. What ended well is stored if there was an answer, and what is stored
is whole, behind its question and there once.

### ApiCalls, KeyCache, TokenBucket, ToolGateway, ApiGate (GateProofs)

`ApiCalls` holds what every part sees of an HTTP call: its `stage`, the subject
`who` its token names, the `status` it was answered with, and the clock `now`. A
part's actions take a call from stage to stage, `Refuse` ends it with the status
that `handle_orysys_error` gives its error.

`KeyCache` is `OidcIdentityVerifier`. `Verify` is the code up to its first await,
with the first look at the cache; `Acquire` is `_refresh` once the lock is
taken, with the second look at the expiry; `Fetch` is the instant at which the
issuer answers and `Install` the code after it, which replaces the keys, releases
the lock and reads the cache in one step. `LookUp` is the read after a refresh: a
key that is still absent makes the call come back with `force=True` once, and is
refused then. Signature, issuer, audience and claims are one bit of a token.
`Rotate` changes what the issuer publishes at any time; `lastSeen` and `missed`
are history. `FetchTime` bounds the time between the issuer's answer and its use,
which the HTTP client's timeout does in the code.

`TokenBucket` is `RedisRateLimiter`: `Send` reads the caller's clock, `Eval` is the
script, which is atomic in Redis. Clocks differ by `MaxSkew`, calls are under way
up to `MaxDelay`, so that stamps reach the script in any order. The bucket expires
by the clock of Redis after `Lifetime`, the code's `ceil(capacity / refill * 2)`.
The answer may be lost after the script ran (`Unmetered` in `Eval`). `ledger` is
history: it accounts for a window that any call may open, and counts in it the
stamps that were older than the one before, which the script stores as it does any
other. `GrantsBounded` gives each of those set-backs one clock error and no more:
it says what the script keeps to, whatever the order of the stamps. A bound by
the time alone is `RateIsByTime`, which the script does not keep to.
`BucketAssumption`
says that clocks and delays differ by less than it takes to fill a bucket, without
which an expired bucket could be refilled twice. Calls cost one token, as in
the code that uses the limiter.

`ToolGateway` is `execute`: `Dispatch` is all of it up to the handler (roles first,
then the stored result, then the validation of the arguments), `Return` and
`HandlerFails` are what comes after it. Two calls with one key that overlap both
run; the later result stays. A result is the call that produced it.

`ApiGate` composes them: a call passes the three in turn, one clock ticks for all.

### MemoryStore, MemoryLifecycle (StoreProofs)

The memory endpoints over PostgreSQL. A call reads the API's clock
(`BeginProposal`, `BeginMemory`), then changes or reads the table in one
statement, then records its event in another transaction (`RecordMemory`);
`MemoryFails` is a failure of the database or the end of the process at either
place, and an event that is stored may be answered with an error, if its commit was not
acknowledged. `done` (history) has every change with the call that made it, `trail`
those that were recorded. `MemoryLifecycle` is `memory/in_memory.py`, whose operations
are single steps under a lock, and `KeepsLifecycle` the refinement. Both know who
calls: a caller changes and is shown memories of its own subject only (`Owns`), and the
changes are the same with the same callers. The two differ in one thing: a memory that is deleted a second time is found by the one in memory and
not found in PostgreSQL, so that the refinement never takes that step. The in-memory
repository records a change in the step that makes it. PostgreSQL's does not, and
`DeletionIsAudited` is what is lost thereby: a deletion whose owner is told that there is
no such memory should be on the trail, or about to be.

### FeedbackStore (StoreProofs)

`record` (`INSERT ... ON CONFLICT`), `mark_reviewed` and the export, whose reading,
file, dataset and upload are four steps with a stop after each.

### Ingestion, Chunking, Provisioning (ServicesProofs, ChunkingProofs)

`Ingestion` is a job over a manifest, that is, a function from documents to
the ids of their chunks. `upsert_document` is `IngestList`, `IngestUpsert` (records of
concurrent batches arrive in any order), `UpsertDone`, `IngestDelete` and
`DocumentDone`; `IngestStops` may come anywhere, and the next job may have another
manifest. `whole` (history) is the last version of a document that was written
completely.

`Chunking` is `_split_oversized`, `_tail` and `_split_text` as folds over words of
given lengths, checked for every element of a bounded set. `ChunkingAssumption` says what
`_split_text` sees of an element: no empty word, and no paragraph without words, since
it drops those; and an overlap smaller than the target, which `ChunkingConfig` demands.

`Provisioning` is one job after the other, each a sequence of requests to
Keycloak that may stop after any, begun over a realm and users in any state.
Keycloak drops attributes that are not declared, which is why the order matters.

### ProviderCalls (ServicesProofs)

`embed` of the Cloudflare client: all batches are started at once, each takes a slot
and keeps it through the retries and pauses of `request_with_retry`. A response
has its items in any order, or too few; that their indices are distinct and within the
batch is taken from the provider, since the client counts the items and sorts by the
index without looking further. When one batch fails the call fails at
once and the others go on (`asyncio.gather` without cancelling); when the caller
is cancelled they all end.

### ClientSession (ServicesProofs)

The Streamlit script in one browser session. `RunScript` is a run up to the drawn
page, in which buttons' callbacks (`NewConversation`, `Logout`,
`SwitchConversation`) have been run before it with the client of the run that drew
them. `Authenticate` is a login or the refresh of a token, by whomever. A run that
is streaming ends at any moment (`ScriptEnds`), as Streamlit stops it for a new
input.

### MCApi

`Chat`, `Approvals` and `DirectGraph` on small instances in one run. They share no
variable; `part` chooses one in the initial state, and the others keep theirs, so that
each has exactly the behaviours it has alone. `MCChat`, `MCApprovals` and `MCDirect` are
the instances of the runs that expect a violation.

### MCServices (ServicesProofs)

The modules of this section from `ApiCalls` on, on small instances, in one run.
Its variable `part` chooses one of them in the initial state and never changes;
the others keep their initial state. They share no variable but the calls' own
(`now`, `stage`, `who`, `status`), which only the chosen part moves, so each
part has exactly the behaviours it has alone. `gate` is the composition of three
parts. The parts `keys`, `bucket` and `tools` are the gate's with more calls, that
begin where the part before lets them through.

## 4. The runs

| Run | Instance | Result |
|---|---|---|
| `research_single` | one run, 3 documents, 2 keys, 2 children, 4 calls, window 2 of deadline 4 | 8 properties hold |
| `research_shared` | two runs, one slot, window 1 of deadline 3, a planner of up to 2 | slots conserved, also when a run is cancelled over its workers; hung workers answered |
| `research_late_plan` | planner slower than deadline minus window | `NoSuccessDiscarded` violated |
| `research_resend` | one id sent twice, durable checkpointer | `CompleteMeansCovered` violated |
| `api` | one proposal, three calls, three principals, the clock over the expiry; three posts, two at a time, thresholds 3 and 2; two sends, one document, two records, one lookup | 15 properties hold, one a refinement |
| `approvals_expired` | two calls of one administrator | `ExpiredNeverExecuted` violated |
| `direct_denied` | one send | `EveryStreamNumbered` violated |
| `chat_forgets` | three messages, one at a time | `NothingForgotten` violated |
| `services` | three calls of two subjects, two keys, a bucket of one token, one tool, two memories, one run's feedback; two documents of up to two chunks, elements of up to two paragraphs of three words, two batches of two texts with one slot; two identities and two tokens | 15 properties hold, one a refinement |
| `client_inherits` | two identities in one session | `NothingInherited` violated |
| `memory_unaudited` | three calls of one subject, one memory | `DeletionIsAudited` violated |
| `rate_setback` | five calls of one subject, two clocks, no time that passes | `RateIsByTime` violated |

Why the bounds are enough. The research instance keeps the program's
proportions: `1 + max_children < max_model_calls < 1 + 2 * max_children` (5 < 8 < 9
there, 3 < 4 < 5 here), so that a retry is cut; three documents in batches of
one exceed the two children, so that the partition is cut; and in
`research_single` the window is shorter than the deadline by more than the
planner takes. Two runs over one slot are the smallest instance in which a run
waits for another's worker; there the planner may use up the difference, so that
a run is cancelled while its worker holds the slot. Three calls of `decide` allow a winner, a loser that read
before it and one that came after; time covers before, at and after the expiry.
Two sends are the smallest number with a repeated one. Thresholds 3 and 2 let
three messages and their answers pass both. Symmetry is used over calls and
over messages, which are chosen alike and never compared; in `api` posts and calls
bear the same names, so that one group of permutations is of both.

In `services` three calls are the smallest number with one that finds what two
overlapping ones did: two calls of the gateway store under one key and the third
repeats, one confirms and one deletes a memory that a third proposed. Two memories
let a recall mix owners; the memories' clock goes up to the longest life. Subjects are
alike, so two calls are fixed to be of the same one and the third is of any. In
the composed gate one call goes the whole way, in the part `keys` two contend
for the lock. A time to live of 2 within a horizon of 3 lets keys expire with a
fetch under way, and a bucket of one token with a lifetime of 2 lets a bucket
expire within the horizon. One key is always published, one comes and goes. Four
manifests shrink, grow and exchange a document's chunks and leave a document out.
Words of 1, 3 and 6 letters against a target of 6 and an overlap of 4 make words
that fill a chunk, words that fit with others and words that fit the overlap.
Two attempts are the smallest number with a retry.

`CHECK_DEADLOCK FALSE` is set where every request may have ended. The research
runs check deadlock: `Rest` in `MCResearch` steps only when every run has ended
for the last time.

Fairness. `ResearchGraph`: the event loop runs what is ready (nodes that
compute), timers fire (`ExpireWorker`, `RunTimeout`, `Tick`) and the chat
client's own timeout ends the planner's call (`Plan`). Nothing is assumed of
searches and workers, which may hang. `DirectGraph`, `Approvals` and `Chat` have no
liveness property and assume no fairness. The modules of `services` have none
either: a call, a job or a session may stop anywhere, and the properties say
what then holds.

## 5. What the violations say

Each is a disagreement of the code with a sentence of its documentation; the
quotations are in `PROJECT.json`.

- `research_late_plan`: the workers' deadline is 60 s from the plan, the run's 65 s
  from its begin. A planner that takes more than 5 s turns "the smaller deadline"
  into the later one, and the timeout drops successful siblings.
- `research_resend`: with a durable checkpointer the reducer prefers the attempt 1
  of an earlier send to the attempt 0 of the present one, while the mark for
  incompleteness goes by list order.
- `approvals_expired`: recording the expiry overwrites an approval committed in
  the meantime. The action was executed in time; its record says expired.
- `direct_denied`: a denied lookup loses `node.started` but counts it.
- `chat_forgets`: with 9 to 12 messages the oldest are neither in the context's
  tail nor in a summary.
- `client_inherits`: when another identity logs in, `_client` drops the id of the
  conversation and keeps its messages on the page. The questions go to a
  conversation of the new identity (`SessionFollowsIdentity` holds).
- `memory_unaudited`: a memory is deleted in one transaction and the event recorded in
  another. When the first commits and the second never comes, the owner's retry is
  answered 404 and the deletion stays off the trail, although ADR 7 says that
  lifecycle changes are audited. What holds is `AuditIsFaithful`: no change that was
  answered with success is missing, and the trail tells of nothing that did not happen.
- `rate_setback`: the script stores a stamp that is older than the one it found and
  refills by the next one's distance from it. Stamps of two clocks in turn are each
  granted the difference anew, so that grants go on with no time passing. What
  holds is `RateLimitHolds`, in which every set-back counts.

## 6. The proofs

The proof modules assume only what the `ASSUME` of the modelled modules states
(finite or non-empty sets, natural numbers, the order of two bounds, roles that are
known, words that are not empty), which TLC
evaluates on every run that extends them. Six theorems about the
research graph carry a hypothesis more, in their statement; it is discussed below.

`ApprovalsProofs` proves for any number of proposals, callers and ticks:
`TypeCorrect`, `Authorised` (`ExecutionAuthorised`), `AnswersAgree`
(`AnswerIsTheDecision`), `ExpiredStays` (`ExpiredIsFinal`) and
`StoreDecidesOnce` (`DecidesOnce`). The inductive invariant `IInv` adds to the
types what a call *knows* at each of its steps (a call that is past the read
names a row whose requester it is; past the check it carries the token and its
stamp is before the expiry) and what a row *records* (decided exactly if it has a
winner, whose form and stamp it shows). The properties alone are not inductive:
nothing in them says why the call that is about to write is entitled to.
`TrailIsTold` (`TrailTellsTheStory`) adds `Carries` (who carries a token was
given it, after the proposal was recorded) and `Story` (the trail is one of four,
ends with a decision only once its call was answered or was lost behind the
event, and lacks it only while the winner is at its audit or lost there).

`ResearchProofs` proves for any runs, documents, keys, workers, slots and
deadlines: `TypeCorrect` (`TypeOK`) and `NoSlotLost` (`SlotsConserved`). `IInv`
adds that only a fan-out has workers (`WorkersRest`), that they work on batches
of the partition (`WorkersHaveBatches`) and that a run recurses only below its
budget (`RecursionLeft`). Without the first, beginning a fan-out could overwrite
workers that hold slots. Conservation is by counting: each step adds one held
slot, removes one or removes those of one run, and `free` moves by as much. The
upper bound of `free` in `TypeOK` follows from it. On top of `IInv` it proves what
makes an answer right, one run at a time; a step of another run leaves a run's
channels alone (`Local`).
- `BudgetHolds` (`BudgetRespected`), for `MaxDepth <= 1`: `CallsArePlanned` adds
  to the calls made those of the workers that still wait. A retry is cut to what is
  left by the ranks of the failed batches, and ranks on a set of naturals
  count it. `model_research.py:62` plans one level of retries. `domain/plans.py:16`
  would allow two, and with two the property is false: `retry_gaps` works out
  what is left from the first fan-out and forgets the retry before, and TLC
  finds a run over its budget.
- `StreamsAreWellFormed` (`StreamWellFormed`): events grow by those of one node,
  numbered from the length of the stream (`StreamGrows`).
- `ClaimsAreRead`, `FindingsSurvive` and `CompleteAnswersCover`
  (`CitationsWereRead`, `SiblingsSurvive`, `CompleteMeansCovered`): outcomes are of
  the batches and cite what those hold (`OutcomesAreOfBatches`), a batch that
  succeeded is not tried again, so that its success is its last outcome by place
  as by attempt (`SuccessIsLast`), and what was reduced is what was reported
  (`Reductions`). The two orders of the code agree exactly because of `SuccessIsLast`.
- `SuccessIsNotDiscarded` (`NoSuccessDiscarded`): `Timely` says that a fan-out
  which has a success ends before the run's deadline.

All but the first assume `ThreadIsFresh`: no checkpointer, or a request id sent
once. It is what `research_resend` violates, where the channels of the send
before make `CompleteMeansCovered` false. The last also assumes
`PlanLatency + PlanWindow < RunDeadline`, the condition of
`research_single` that `research_late_plan` drops.

`DirectProofs` proves for any evidence, lookups, chunks and sends, with and without a
checkpointer: `TypeCorrect` (`TypeOK`), `AnswersAreSupported`
(`AnswerIsSupported`), `DeniedNeverRead` (`DeniedReadsNothing`), `SafeAnswersAreLast`
(`SafeOnlyAfterRepair`) and `StreamsAreNumbered` (`StreamNumbered`). A send may begin
anywhere, over whatever the one before left in the channels. So `IInv` says at which
nodes a channel is this run's: the evidence once it was searched
(`EvidenceIsOfThisRun`), the draft once it passed validation (`DraftPassed`), the
answer once it is finalised (`AnswerIsOfThisRun`), and how often the model was called
by then (`CallsAreCounted`). `TypeOK` bounds the calls by two and the repairs by
one, which rests on that count and not on the types.

`ChatProofs` proves for any number of posts, also in flight, and any
thresholds: `TypeCorrect` (`ChatTypeOK`), `SummariesArePast` (`SummaryIsOfThePast`),
`OutcomesAreHonest` (`OutcomeIsHonest`) and `LoneAppendsHeal` (`LoneAppendHeals`).
Messages are only added, so that what a call read keeps clear of the tail while
others append (`ReadsAreOfThePast`). `Stored` is about the messages, acknowledged
or not: a post stores a message of a role at one place of its way
(`MessagesAreTimely`) and not again (`MessagesAreOnce`), an answer is whole
(`AnswersAreWhole`), and its question comes before it (`QuestionsComeFirst`).

`GateProofs` proves about `GateSpec`, the composition, for any calls, subjects,
keys, tools, clocks and bounds. It first says whose step a step is: `KeySteps`,
`BucketSteps` and `ToolSteps` give the stages a part moves a call from and to,
and the statuses it ends it with, so that each invariant is argued for its own
part and is left alone by the others.
- `ResultsStayOwn` (`OwnResultsOnly`) and `RepeatsDoNotRun`
  (`AnsweredNeverRunsAgain`): `ToolInv` adds that a stored result is a call that was
  answered with success under that key, and that every success is stored.
- `PublishedKeysAreAccepted` (`PublishedKeyAccepted`) and `RevokedKeysDie`
  (`RevokedKeyDies`): `KeyInv` adds that a cached key was published no longer ago
  than the cache's expiry tells (`CacheRecent`), the same of an answer of the
  issuer that is not installed yet (`FetchRecent`), and that a key which a call does
  not find was not published all the while (`AbsentIsMissed`).
- `RateIsLimited` (`RateLimitHolds`): `BucketInv` adds how far stamps and ages of
  buckets may be wrong (`StampsNear`, `AgesNear`), and `Balanced`: tokens left and
  tokens granted in the window are together no more than a full bucket and the
  refill up to the last stamp, each set-back adding the clocks' error. For a bucket
  that expired, its lifetime fills two buckets and the clocks' error is worth at
  most one (`LifetimeFillsTwice`). The bound is by real time and set-backs; a bound by
  time alone is false (`rate_setback`).

`StoreProofs` proves about the memories `TrailIsFaithful` (`AuditIsFaithful`) and the
refinement `MemoryKeepsLifecycle` (`KeepsLifecycle`), and about the feedback
`ExportIsReviewed` (`OnlyReviewedIsExported`). `MemoryInv` adds that what a call
changed shows in the table until and after it is recorded (`ChangesShow`), so that no
other call can have made the same change (`ChangedOnce`), and that ids of
proposals are new. `FeedbackInv` adds that a row says for good what it said when
it was reviewed.

`ServicesProofs` proves `DocumentsStayWhole` (`WholeDocuments`): while a document is written,
the index has what was listed and nothing foreign (`Listing`), and documents that
are done stay as the manifest says (`Finished`). It also proves
`UsersWorkAfterwards` (`ProvisionedUsersWork`): users come after the
declaration of the attributes (`InOrder`), and those behind the job are ready
(`PastReady`). About the embeddings it proves `ProviderTypeCorrect`,
`ProviderLosesNoSlot` (`ProviderSlotsConserved`, by counting as above) and
`TextsGetTheirVectors` (`VectorsMatchTexts`): a response that has as many items as its
batch has texts, no index twice and none out of range, has every index
(`ResponseInOrder`, a pigeonhole argument), so that sorting puts each vector where its
text is.

About the client it proves `QuestionsStayOwn` (`SessionFollowsIdentity`): the conversation is
one of the identity that the client is of (`ThreadOfClient`), also when a callback
made it with the client of an earlier run, and a drawn page's client is the
present one's. `ServicesKeepTypes` (`ServicesTypeOK`) is about `MCSpec`, all services
with one running at a time. The types of the gate's and the stores' variables
depend on the stages in which calls may be, and these differ by the part that runs.
So `ServicesInv` keeps the invariant of the running part (`BucketInv`, `MemoryInv`,
`FeedbackInv`) beside the types of all, and `ServicesStep` says what a step is to each
part. In this module are also the invariants of parts that know no calls.

`ChunkingProofs` proves `TextIsCovered` (`ChunksCoverTheText`) for any element, target and
overlap. What a fold computes over a list of any length needs induction over
data. The library's induction theorems take an operator, which the provers cannot
instantiate, but the well-foundedness of the order of the naturals takes a set:
`Least` says that every set of naturals has a least element, and `UpTo` that a set
which holds 0 and with each number the next holds them all. A fold is then shown to
be a function on sets of indices (`IsFold`, `FoldExists`) whose values the invariant
of the loop describes.
- `FillsTo` is that invariant for the loop of `_split_oversized`: the parts so far and
  the words in hand cover the paragraph's words up to here, each part keeping to the
  target unless a word is longer. `SplitCovers` is what it leaves at the end.
- `AddsTo` is the one of `_split_text`: the chunks so far and the chunk in hand are a
  `Chain` of runs, each linked to the next, that begins with the first word and ends
  with the last that was added. `TailRuns` says that a tail is a run that ends where
  its chunk ends and fits the overlap. It is what makes a new chunk begin in or right
  after the one before it, while the part after the tail makes it go further.
- `WordsInOrder` says that the words of all paragraphs, one after the other, are
  numbered by their places (`Before` counts those of earlier paragraphs).

Model-checked only: liveness (`EveryRunEnds`, `HungWorkersAreAnswered`), which needs
fairness and ENABLED, beyond the prover. The properties of the runs that expect a
violation are false and stay with TLC, too.

## 7. What is not modelled

- The approval interrupt graph: one node that waits for a decision, which nothing
  in the API uses.
- Retrieval: it keeps no state; the graphs see any authorised set of evidence or a
  failure, and its ranking is arithmetic over scores of services.
- The directory MCP server, bootstrap, configuration, telemetry and the
  evaluations: a read-only table, sequential wiring, observers, test code.
- Of the model clients, `complete`, which asks in the pattern of `ProviderCalls`
  without batches; of the ingestion, loading files and fitting the sparse
  encoder; of the conversations, `create` and `list`, which are seen from the
  client only; of the client, layout and the list of memories.
- Resources without a stated bound, such as the results the gateway keeps, and
  the quality of what is found: what a vector of an earlier fit does to a
  ranking. `PROJECT.json` lists them among the hazards, with the reason.

The contents of prompts and answers are left out, and the correctness of
PostgreSQL, Redis, Keycloak, LangGraph and asyncio is taken as their
documentation describes it: a transaction and a script are atomic, a checkpoint
holds the channels after the last finished step, a cancelled `async with`
releases.
