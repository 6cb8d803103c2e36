# Formal models of the Financial Intelligence Ecosystem (FIE)

This directory holds TLA+ specifications of FIE: the Redis Streams event bus
with idempotent handlers, the circuit breaker behind every outgoing call, the two
ingestion pipelines that write to several stores at once, the entity resolution
that decides which mentions are one company, the figures of a company from a
filing's text to a valuation, the research reports that are drafted by a model and
checked against those figures, and the knowledge graph with the questions that are
answered from it.  TLC checks them on small instances, and TLAPS proves their safety
properties for every value of the constants.  Paths are relative to the
repository's root.

    tlc -workers 2 -config EventBus.cfg MCEventBus.tla     # any run of PROJECT.json
    tlapm EventBusProofs.tla                               # any *Proofs module

`PROJECT.json` lists the components, the runs with their properties, which lines
of the code every definition translates, the mutants that show each property can
fail, the hazards, the findings and the theorems.

## 1. The system

FIE is a Python monorepo: libraries under `packages/`, two products under
`apps/` (MarketMind, a knowledge graph built from documents; Atlas, statements
and research built from filings), and deployment files.  Both products are
asyncio services of several processes that share PostgreSQL, Neo4j and Redis.

| Component | Where | State | Operations | Correct when | Modelled in |
|---|---|---|---|---|---|
| Event bus | `packages/events` | stream, pending entries list, dead-letter stream, idempotency keys (Redis); one loop per consumer | publish, read, reclaim, dispatch, claim, release, acknowledge, dead-letter | no event lost; a handler never runs twice at once nor succeeds twice; delivery bounded; every message settles | `EventBus` |
| In-memory bus | `packages/events/.../bus.py` | handler list | publish = dispatch | (test double) | – |
| Resilience | `packages/common/.../resilience.py` | breaker state and counters, shared by concurrent calls | execute, retry, timeout, before-call, record success or failure | trial limit; no wedge; retries end; recovery | `Resilience` |
| AI router, registry | `packages/ai` | provider registry | build, complete with failover | failures fail over, refusals are not hidden | `Research` |
| AI providers, embeddings | `packages/ai` | none | translate vendor protocols | (I/O) | – |
| Structured output, citation checks | `packages/ai/.../structured.py` | none | parse, check citations | unknown citations detected | `Grounding`, `Research` |
| Auth | `packages/auth` | none (tokens) | verify, match permissions | no grant without a matching permission | – |
| Database clients | `packages/database` | connections | session scope, set-if-absent, lock | all or nothing per session | inside the modules that use them |
| Schemas, provenance | `packages/schemas` | none | validate | facts carry sources | – |
| MarketMind ingestion | `apps/marketmind/.../ingestion`, `storage`, `graph` | documents, chunks, mentions (PostgreSQL), nodes and edges (Neo4j), events | ingest: deduplicate, chunk, embed, extract, resolve, write, publish | stores agree; one copy per content; one node per company | `IngestionPipeline` |
| Entity resolution | `apps/marketmind/.../resolution` | an in-memory index per run | add, candidates, resolve, merge | same company, same node | `Resolution` |
| Chunking, metadata | `apps/marketmind/.../ingestion` | none | split, extract | offsets resolve to text | – |
| Knowledge graph | `apps/marketmind/.../graph`, `domain/relationships.py` | nodes, edges | upsert, neighbourhood, relationships, path | only sensible edges, one direction for a symmetric one | `KnowledgeGraph` |
| GraphRAG, MarketMind API | `apps/marketmind/.../retrieval`, `api` | none | fuse vector and graph hits, answer, show | answers cite what was retrieved; views are graphs | `Retrieval` |
| Atlas filings | `apps/atlas/.../filings`, `storage` | filings, statement sets (PostgreSQL), events | ingest: store, transcribe, replace the set | one set per period, never lost, never overwritten unseen | `FilingPipeline` |
| Atlas statements, analysis | `apps/atlas/.../domain`, `analysis`, `filings/extraction.py`, `storage`, `api` | the tables of figures | transcribe, validate, store, read, analyse, value | figures as filed, ratios of the figures, valuations that add up | `Figures`, `Analysis`, `StatementStore` |
| Atlas research | `apps/atlas/.../research`, `clients` | reports | compute, value, ask MarketMind, draft, ground, retry, store, list | every figure grounded, every citation supplied | `Grounding`, `Research` |
| Settings, observability, tests, deployment | the rest | – | – | – | – |

How they interact.  A request to a product API opens one PostgreSQL session,
runs a pipeline and commits when the endpoint returns (`get_session`,
`PostgresDatabase.session`).  The pipelines call AI providers through the router,
each call wrapped in a `ResiliencePolicy`; MarketMind also writes the graph,
statement by statement, each write committed at once.  Both publish events to the
bus on a best-effort basis, and any process may subscribe through
`RedisStreamEventBus.run`, whose handlers are wrapped in `IdempotentHandler`.
Atlas reads MarketMind over HTTP, again through a `ResiliencePolicy`.  A research
report reads the figures that filings left in the statement tables; a question to
MarketMind reads the chunks and the graph that ingestion left.

What is hard about it: consumers that interleave between any two Redis round
trips and act on replies that have gone stale; claims that outlive the process
that took them; a message reclaimed from a consumer that is slow rather than
dead; a stream trimmed under the group; breaker outcomes that arrive in a state
other than the one that admitted the call; concurrent requests that read, decide
and write with awaits in between; a transaction that rolls back while the graph
writes and events it accompanies stay; figures that change scale, precision and
sign on their way through text, columns and ratios; a report drafted against
figures that are restated meanwhile; how precisely a number was written deciding
what it may stand for; a question answered from several reads of a graph that
grows between them.  `PROJECT.json` lists these under `hazards`, each at its line.

## 2. Modules

| Module | Models | Role |
|---|---|---|
| `EventBus` | `redis_bus.py`, `idempotency.py`, `redis_client.py` | state machine, properties |
| `EventDelivery` | what the bus promises one group | abstract specification |
| `EventBusRefinement` | the mapping between the two | refinement |
| `MCEventBus`, `EventBusProofs` | | TLC instance, theorems |
| `Resilience` | `resilience.py` | state machine, properties |
| `MCResilience`, `ResilienceProofs` | | TLC instance, theorems |
| `ContentStore` | what an ingestion pipeline promises its callers | abstract specification of both pipelines |
| `IngestionPipeline` | MarketMind `ingestion/pipeline.py`, `storage/repository.py`, `graph/`, `resolver.resolve_batch` | state machine, properties, refinement |
| `MCIngestionPipeline`, `IngestionProofs` | | TLC instance, theorems |
| `Resolution` | MarketMind `resolution/resolver.py`, `Entity.merged_with`, `_candidate_index`, the node upsert | state machine, properties |
| `MCResolution`, `ResolutionProofs` | | TLC instance, theorems |
| `FilingPipeline` | Atlas `filings/pipeline.py`, `storage/repository.py` | state machine, properties, refinement |
| `MCFilingPipeline`, `FilingProofs` | | TLC instance, theorems |
| `Figures` | Atlas `domain/money.py`, `periods.py`, `statements.py` | operators |
| `Analysis` | Atlas `analysis/ratios.py`, `growth.py`, `dcf.py`, `comparables.py` | operators, on `Figures` |
| `StatementStore` | Atlas `filings/extraction.py`, `storage/`, `api/schemas.py`, the analysis endpoints | state machine on `Analysis`, properties |
| `MCStatementStore`, `StatementProofs` | | TLC instance, theorems |
| `Grounding` | Atlas `research/grounding.py`, the citation check of `structured.py` | operators, with the promise they are held to |
| `Research` | Atlas `research/pipeline.py`, `reports.py`, `clients/marketmind.py`, `packages/ai/.../registry.py`, `factory.py` | state machine on `Grounding`, properties |
| `MCResearch`, `ResearchProofs` | | TLC instance, theorems |
| `KnowledgeGraph` | MarketMind `domain/relationships.py`, `graph/repository.py`, `graph/queries.py` | operators on a graph |
| `Retrieval` | MarketMind `retrieval/graphrag.py`, `api/routers/graph.py`, `retrieval.py`, `entities.py` | state machine on `KnowledgeGraph`, properties |
| `MCRetrieval`, `RetrievalProofs` | | TLC instance, theorems |

The definitions named `Mut...` are mistakes a programmer could make in the
definition they stand next to.  No specification uses them; they measure whether
a property notices the mistake.

### EventBus

One product stream, one consumer group, its consumers.  A message id is the
position of the entry in `stream`; `trimmed` says how far MAXLEN removed entries,
`delivered` is the group's last-delivered id, `pending`, `idle` and `deliveries`
are the pending entries list with its idle times and delivery counts, `dlq` the
dead-letter stream and `claims` the idempotency keys.  Each consumer runs the
loop of `run`: `PollPending` (XPENDING), then for each entry of that reply
`GiveUp`, `Reclaim`, `ReclaimTrimmed` or `ReclaimMissed` (XCLAIM or the
dead-letter path, `_reclaim_stale`), `ReadNew` (XREADGROUP) and `DispatchNew` for
each message (`_consume_new`).  A dispatch goes through `TakeClaim` or
`SkipDuplicate` (`set_if_absent`), `HandlerSucceeds` or `HandlerFails`,
`Release`, `Ack`, and for messages that cannot be decoded or are over budget
`LookUp` and `DeadLetter`.  Each of these is one await, so consumers interleave
between any two.  `todo` and `seen` hold the XPENDING reply, which is stale from
the moment it arrives.  Faults: `Stop` and `Restart` of a consumer anywhere,
failed store calls (`ClaimFails` with or without effect, `ReleaseFails`),
`ExpireClaim`, trimming in `Publish`.

`PatientReclaim` chooses between two readings of time.  With it, an entry goes
idle only when no consumer holds it, which is what `reclaim_idle_ms` is meant to
achieve; without it, an entry may go idle while a consumer holds it, which the
defaults allow (both limits are 60 s and a batch of 32 is read at once).  The safety
run and all safety theorems take the second reading.  The bus then loses events in
two ways, and two histories mark them at the step where it happens: `orphaned` has
the events whose claim outlived an unfinished run (a stop, or a failed release), and
`overtaken` those whose message a second consumer is about to acknowledge as a
duplicate, no other copy being left, while the first run has not ended (`Overtakes`).
`NoSilentLoss` and the refinement excuse exactly these; `EventDelivery` has the
promise of `redis_bus.py` for every other event.

Left out: the cap of the dead-letter stream itself, several subscriptions in one
`run`, failures of `publish`.  The retention of a claim is taken to be longer
than a handler run (defaults: a day and a minute).

### Resilience

`Callers` are tasks inside `ResiliencePolicy.execute` on one policy.  The three
critical sections of the breaker (`_before_call`, `_record_success`,
`_record_failure`) contain no await and are atomic; between them the operation
runs and calls overlap.  `Admit`/`Reject`, `Succeed`/`Fail`/`Refuse`, `Wake` and
`CancelBackoff` are the steps of a call, `Refuse` being an error that is not
retryable or a cancellation: the code records it as a success.  `recovery`
replaces the clock by "the window is waiting" or "has elapsed".
`consecutive_failures` is counted up to the threshold, past which the code does
not tell counts apart; `total_rejections` is a statistic and left out.

### IngestionPipeline

Each submission gets a document id of its own, so the model names documents by
their submission, and the id of an extracted entity is the pair of submission and
surface form.  PostgreSQL rows belong to the request's transaction and appear at
`Commit`; `sources` and `edges` (the graph) and `announced` (the bus) change at
once and survive `Fail`.  `LookUp` sees committed documents only; `Flush` waits
for an open transaction with the same content hash and is refused if that one
committed.  `LoadCandidates` is one graph read per extracted entity, `Resolve`
the batch resolution, `WriteEntity` and `WriteEdge` one graph write each (a
failing edge write is swallowed by the code, so an edge may stay unwritten),
`RecordMentions` the mention rows under resolved ids, `Announce` the best-effort
publication *before* the commit.  Fuzzy, alias and identifier matches only decide
which surfaces count as the same entity; the model takes `Canonical` as given.
The chunk rows and embeddings of a request are part of its document.

### Resolution

`IngestionPipeline` has the concurrency and simple names; this module has the
decisions, for documents ingested one after another as `ingest_all` does.  A
document is a sequence of mentions (name and identifiers).  `FindByIdentifier`
and `FindByName` are the graph reads of `_candidate_index`, `IndexRow` enters a
row into the `EntityIndex` (`known`, `holder`, `blocks` are `_by_id`,
`_by_identifier`, `_blocks`; `_by_canonical` adds no candidate the blocks do not
have).  `Match`, `Refuse`, `MatchFuzzy` and `Create` are the outcomes of
`resolve` together with what `resolve_batch` does about them: merge and replace,
or add.  `candidates` is a Python set, so any matching candidate may be the first
and end the loop; that is why `Match` and `Refuse` can both be enabled.  `Write`
is one `upsert_entity`, with its unions; `Fail` gives the document up anywhere,
leaving what was written.

Names are canonical names.  Normalization, similarity and token overlap are the
constants `BlockOf`, `Score` and `SharesTokens`; the proofs hold for any of them.
The `mentions` of an entity, a history, stand for its sources.  The extractor
currently supplies tickers only; the model allows the types of which the resolver
holds two values against each other, CIK, LEI, ISIN, CUSIP and ticker, since nodes may
have been written by other loaders.  DOMAIN, which `resolver.py:325-329` exempts and of
which it compares one value per entity, is outside `Identifiers`: nothing in the
repository extracts a domain.  A graph
row that no longer satisfies the domain rules is skipped by the code; the rows
here are those the code wrote, which do.

### FilingPipeline

The same first half, then `StatementRepository.save`: `SelectSet` reads the
committed set of the company and period, `DeleteSet` waits for the row's lock and
deletes it if it is still there (deleting a row that is gone is not an error),
`InsertSet` waits for an open transaction holding the same period key and is
refused if a committed set that this transaction did not delete is in the way.
A set is named after its filing.  The figures and their validation are abstracted
to "a valid set or none" (`Extract`).  `Outage` is a transcription for which no provider
could be reached: unlike an answer that cannot be used it ends the request, and the
filing it flushed is rolled back.

`answer` in both pipelines is set at the commit.  FastAPI is required as
`>=0.115` without an upper bound, and newer versions run the exit code of a
`yield` dependency after the response is sent; then a caller can be told
"created" before a commit that fails.  The models describe the older order.

### ContentStore

What callers of either pipeline may rely on: at most one stored copy of each
content, "created" exactly for the copy that is stored, "duplicate" only while
such a copy exists, "error" leaving nothing in this store.  `Withdraw` says the same of
an outage of the AI providers, which is less than `filings/pipeline.py:3-6` promises
("a
transcription that fails still leaves a citable document on record"): the refinement
shows what callers can rely on, not that docstring.

### Figures, Analysis, StatementStore

`Figures` has money as an integer count of *grains* (`Whole` grains in a unit,
`Cent` in a cent, `ColumnUnit` in the last place of a NUMERIC(28, 4) column), with
every rounding the code does (`HalfUp`), fiscal periods and their keys, and the
identities under which a statement and a set can be constructed at all.  `Analysis`
has every ratio, growth, compound growth and trend, the discounted cash flow with
its assumptions, projection, sensitivity grid and cost of capital, and the market
multiples with the value peers imply; what cannot be computed is `Absent`, a value of
its own and never a zero.

`StatementStore` is the path of one company's figures.  A filing's `Text` says what
is printed and in which scale; `Transcribed`, `Build` and `Extracted` are
`StatementExtractor._validate`, `RowOf` the row writers, `Save` the upsert of a
period's set, `Loads` the reconstruction on the way out.  `Submit`, `SubmitAgain`,
`SubmitUnread` and `RefusePeriod` are the outcomes of posting a filing;
`GetStatements`, `GetAnalysis`, `ValueLatest`, `ValueYear` and `RefuseInputs` are the
endpoints that read.  A request is one step here, because `FilingPipeline` has the
interleavings and this module has the arithmetic.  `ORDER BY period_end DESC` leaves
ties open, so `Newest` and `Histories` are sets of possible results.  An `answer`
carries the question it is for: `asked` is the period, the fiscal year, or `Absent`
for the latest set, also when nothing was found (`NotFound`).

Left out: currencies (a set has one), the wording of metrics and of reasons for a
missing one, display strings.  Projected flows keep
their fraction until a result is rounded; the code carries 28 digits, beyond what any
result shows.

### Grounding and Research

`Grounding` is the check of a draft's figures: what a written number stands for
(`Grains`), how many of its digits its author vouches for (`SignificantDigits`),
and whether some computed value, rounded to as many, equals it (`IsSupported`).  The
magnitude word is read from the first letters of the next word, as the pattern does
(`PowerOf` has the words of the instance, `Magnitudes` the ones that mean it).
`Justified` states the promise without any rounding, as a distance between a value
and what is written: half of the last place vouched for.  The runs compare the two.

`Research` runs requests side by side: `Load` and `Value`, `AskMarketMind` with its
retries (the client turns most failures into an empty context, and a body that is not
JSON into an error), the provider chain of each draft (`ProviderFails`,
`ProviderRefuses`, `ProviderGarbles`, `ProviderDrafts`; `RejectChain` when a fallback
was never registered), the one corrective draft, then `Save`, `AnnounceReport` and
`Commit`, with `Fail` anywhere and `Restate` replacing the figures on file at any
moment.  `BuildRegistry` is the registry as the factory leaves it: an optional
provider that cannot be constructed is skipped.  A draft is whatever the model wrote:
nothing ties it to the evidence, and only the check stands between it and the reader.

Left out: the wording of prompts, the events on analysis and valuation (best effort,
and nothing relies on them), a request that names its provider (no caller does).

### KnowledgeGraph and Retrieval

`KnowledgeGraph` has the two writes (`UpsertEntity`; `UpsertRelationship`, which
writes nothing unless both ends are there and replaces what the edge said of time)
and the reads: rows of relationships, neighbourhoods as *paths* (Cypher returns one
row for every path, not for every node), lookup by id, shortest paths.  A `LIMIT`
cuts rows in the order of the query and leaves ties open, so every limited read is a
set of possible results (`Limited`).

`Retrieval` is one request beside ingestion (`WriteEntity`, `WriteRelationship`,
`CommitDocument`).  A question goes `Ask`, `Search`, `Anchor`, then for each seed
`Expand` and `Relate`, then `Assemble` and `Synthesize`: one action per database
read, so that documents arrive between any two.  A graph view goes `Visualize`,
`FindSeed`, `CollectEdges` for each node and `ShowView`; `FindPath`, `GetEntity` and
`ListRelationships` are single reads.  `embedded` remembers the model a chunk was
embedded with, because a rollout of a new one leaves vectors of both in the table.

A document has one chunk here, and its source id is its name.  Left out: the text of
the prompt, substring search, counts, statistics and health.

## 3. Runs

| Run | Instance | Shows |
|---|---|---|
| `EventBus` | 2 consumers; a good, an undecodable and an unaccepted event; 2 publications, stream cap 1, budget 1; impatient reclaims; 1 stop, 1 store error, 1 expiry | `TypeOK`, `HandlerExclusive`, `AtMostOnce`, `DeliveryBound`, `EventsAccountedFor`, `ImplementsDelivery` |
| `EventBusLiveness` | 2 consumers, an event whose handler may succeed or fail and an undecodable one, 2 publications, stream cap 1, batch 1, patient reclaims, 1 stop | `EventuallySettled` |
| `EventBusCrash` | 1 event, 1 stop | violation of `NoEventLost` |
| `Resilience` | 4 callers, 2 attempts, thresholds 2, 2 trials | `TypeOK`, `TrialLimit`, `NeverWedged`, `EveryCallReturns`, `Recovers` |
| `Ingestion` | 2 submissions of one document, 1 of another; no, one or three surfaces of two companies | `TypeOK`, `StoresAgree`, `DuplicatesNeedOverlap`, `ImplementsContentStore` |
| `Filing` | an original, its redelivery, two later filings of the same period | `TypeOK`, `OneSetPerPeriod`, `SetsCiteStoredFilings`, `PeriodKeepsFigures`, `NoBlindReplacement`, `EveryFilingAnswered`, `ImplementsContentStore` |
| `Resolution` | 2 documents of 1 or 2 mentions out of 9: 5 names, 3 identifiers of 2 types | `TypeOK`, `IndexSound`, `OneCompanyPerNode`, `NodesAreJustified` |
| `Statements` | 7 filings of one company: an annual report, its restatement, two quarters, a later year, a letter without statements, one with an impossible period; 6 valuation inputs | `TypeOK`, `FiguresAsFiled`, `AnswersFitTheQuestion`, `RatiosFollowFigures`, `ValuationsAreCoherent` |
| `QuarterValued` | the same | violation of `AnnualFlowsAreAnnual` |
| `Research` | 2 requests, 2 versions of the figures, 6 drafts, a default provider and a fallback | `TypeOK`, `PublishableIsGrounded`, `FaultsAreNamed`, `RequestsEndTruthfully` |
| `YearMisread` | the same | violation of `YearsAreExempt` |
| `Retrieval` | 2 companies and an industry, 6 statements about them, 2 documents, 2 embedding models | `TypeOK`, `AnswersStandOnSources`, `FactsAreEdges`, `ViewsAreTrue` |

What the composed properties say.  `EventsAccountedFor`: an event that is owed is
deliverable, being handled, handled, dead-lettered, behind a claim that outlived an
unfinished run, or overtaken (`NoSilentLoss`), and a message is buried only for a
reason (`DeadLettersJustified`).  `AnswersFitTheQuestion`: a set is served for the
period asked for (`PeriodServed`), valued for the year asked for and the newest of it
(`YearValued`), and a period or year is not found only when it is not on file or, for a
year, when each of its sets has as many others before it as a history reads
(`NothingMissed`).
`StoresAgree`: mention rows name nodes that exist (`MentionsResolve`), a stored
document is indexed in full (`DocumentsFullyIndexed`), and edges join nodes and cite
what wrote them (`EdgesGrounded`).  `NodesAreJustified`: no merge without grounds
(`MergesJustified`), nothing a document said is forgotten (`NodesRemember`), and two
nodes of one name disagree about an identifier (`TwinsDisagree`).  `FiguresAsFiled`:
what is stored is what was printed (`StoredAsPrinted`), and what was dropped was
reported (`NothingDroppedSilently`).  `RatiosFollowFigures` and
`ValuationsAreCoherent` hold the computed values against the exact ones by
inequalities that round nothing.  The parts of a valuation add up and dearer capital
is not worth more (`ValuationsAddUp`); a pair of peers implies its mean
(`PeersImplyTheirMean`), a company at its own multiple is worth its own price
(`OwnMultipleIsOwnPrice`), a sensitivity grid falls along the discount rate, rises along
terminal growth and has its gaps where the one does not clear the other (`GridsFall`),
and capital costs between equity and debt after tax (`CapitalCostsBetween`), for every
set on file and every input that may be asked for.

Why the bounds are enough.  *EventBus*: two publications make every relation
between messages happen (the same event twice, one trimmed by the other, one
pending while the other is new); two consumers make every race between an owner
and a reclaimer happen; a budget of one is reached and overrun; one stop, one
store error and one expiry let each fault hit every location, and combine.
Consumers are symmetric, the liveness run uses no symmetry.  The safety run uses a
view that leaves out what a consumer dispatched last once it has finished with it, since
nothing reads it again.  The liveness run keeps reclaims patient, because the other
reading doubles its states past what TLC's liveness check finishes; that consumers do
settle every message under impatient reclaims is therefore not shown.  The histories
`stops`, `storeErrors`, `expiries` only bound the instance; their bounds are the
constants `MaxPublished`, `MaxStops`, `MaxStoreErrors`, `MaxExpiries`.
*Resilience*: with four callers two trials can be running while two outcomes of
an earlier period are still to arrive.  *Ingestion*: two twins race for one
content hash while a third request races with both for the nodes; three surfaces
of two companies give merged surfaces, a self-loop and an edge across companies.
*Resolution*: four mentions are enough for a chain of merges by identifier, name,
alias and similarity through the graph and back, and the nine mentions contain
identifiers that agree, disagree, and do both; `NameLimit` (five rows) is out of
reach of four nodes.  *Filing*: three contents of one period put one request at
its select, one at its delete and one at its insert.  *Statements*: the seven
filings arrive in any order and any number, in two scales, with illegible, missing,
zero and negative figures, a set whose identities fail, an older period after a newer
one and two that end on the same day.  A unit has 18 grains, a cent 6 and a column's
last place 3, so that every rounding of the code loses something; ratios have 100
parts, rates 10, the spread is 2 of them, a horizon 2 years (`MaxYears`) and a history
2 sets (`HistoryLimit`, 40 in the code), which three periods overrun.  *Research*: two
requests race with each other and with restatements; a draft may be grounded in one
version and not in the other, quote the valuation, cite what is unknown, or contain a
year.  One corrective draft, one retry of MarketMind (`MaxAttempts` 2) and a page of
one report are each reached and exceeded.  Magnitude words stand for tens and hundreds
because TLC's integers end at 2^31; the rounding does not depend on which power of ten a
word means.  Requests are symmetric.  *Retrieval*: two companies joined by two edges
and an industry two hops away make parallel edges, cycles, a path that is not the
shortest and a node beyond the depth; every limit is exceeded by some graph (`TopK` 1,
`MaxSeeds` 2, `MaxNeighbours` 2, `NodeCap` 3, `GraphDepth` 1; views of depth 1 and 2,
paths to 3).

### What the violated properties say

Each is a sentence of the repository that the code does not keep.

1. `EventBusCrash`: a consumer that dies during its handler leaves its claim
   behind.  The consumer that reclaims the message finds the claim, takes the
   message for a duplicate and acknowledges it.  `redis_bus.py:7` promises that
   "work is never stranded".
2. `QuarterValued`: without a fiscal year a company is valued on its latest set, and
   with one on the newest set of that year, a quarter included; the flow of three
   months is then discounted as the "free cash flow per year" of `analysis/dcf.py`.
3. `YearMisread`: the unit of a number is matched in the first letters of the next
   word (`grounding.py:56`), so that "2024 margins" is read as 2024 million and the
   report is withheld for a figure nobody wrote, although "a bare four-digit integer
   with no unit is a year" (`grounding.py:139`).

### Known divergences without a run

The models contain the behaviour below; no property contradicts it.

*Event bus.*  An event can be lost without any crash, with the default timing: its
entry goes idle while its handler runs or waits in the batch, another consumer reclaims
it and acknowledges it as a duplicate, and then the handler fails.  The models have
this behaviour (`Overtakes`), and with `PatientReclaim = FALSE` and `MaxStops = 0` the
instance of `EventBusCrash` shows it as a trace.  `redis_bus.py:3-8` promises
otherwise.  `max_delivery_attempts` is compared with `>` (`redis_bus.py:167`)
against a count that includes the first delivery, so a message gets one delivery more
than the number configured, plus at most one per consumer from stale replies
(`DeliveryBound`).

*Resilience.*  A success of a call admitted before the circuit opened closes the open
circuit without waiting for the recovery window.  `half_open_calls` is never
decremented within a half-open period (`resilience.py:262`), so a success threshold
above `half_open_max_calls`, which the configuration accepts, blocks the dependency
for good; the run and the theorem assume the opposite.  A trial call that ends with a
caller error closes the circuit, because every non-retryable outcome counts as a
success.

*Ingestion and filings.*  The rollback of a document leaves the nodes that cite it
(`ingestion/pipeline.py:278`), and events are published before the transaction commits
(`filings/pipeline.py:101`, against the commit at the end of the request).  An outage
of all AI providers rolls a filing back, although "a transcription that fails still
leaves a citable document on record" (`filings/pipeline.py:3-6`): only `AIProviderResponseError` is caught (`Outage` of
`FilingPipeline`, `Withdraw` of `ContentStore`).  A filing
whose transcription failed is answered as a duplicate from then on and never
transcribed again.

*Resolution.*  `resolver.py:8-10` puts a shared identifier before an equal name, but
the loop takes the first decisive candidate of a set (`resolver.py:190`): a mention
with the ticker of one node and the name of another may merge by name, and then two
nodes have that ticker.  The portable graph upsert never de-duplicates aliases
(`queries.py:109` filters with `WHERE NOT x IN []`).  An alias gained in a merge is
not entered into the index (`resolver.py:141`), and the graph's lookup by name ignores
aliases, so a later mention under that name alone can miss its node and found a second
one.

*Figures.*  An older filing that arrives late replaces its own restatement.  Share
counts are never scaled, and one below half of a column's last place becomes zero.
Rounding to columns may break an identity that held exactly at its tolerance; the set
can then be stored and not be read back.  Two sets that end on the same day are both
"latest".  Year-to-date growth compares periods of the same kind whatever quarter
they reach.  A year beyond the forty newest sets is not found (`research/pipeline.py:212`).
The growth a forecast is built with is not among the assumptions a valuation states
(`dcf.py:81`).

*Research.*  Provenance names the default model of the primary provider even when a
fallback wrote the text (`reports.py:209`, `graphrag.py:254`).  An optional provider that
cannot be constructed is skipped with a warning (`factory.py:59`), and if it is a
configured fallback every later request fails at the lookup of its chain
(`registry.py:116`).  `context_for` raises on a body that is not JSON, although it
"returns an empty list on any failure"; and the path it asks for,
`/api/v1/graph/entities/{id}/neighbours` (`clients/marketmind.py:142`), is one that
MarketMind does not serve, so that the context is always empty.  A figure the prompt
shows rounded, like 0.00 for 0.004, is rejected by the check when it is quoted.

*Retrieval.*  "A fabricated citation fails the answer" (`graphrag.py:16-17`), but the
code drops the citation and returns the answer with `grounded` false, and an answer
without any citation counts as grounded.  "Every item carrying an explicit source id"
(`graphrag.py:12-13`) holds for passages and not for graph facts.  At depth 1 a
seed is not among the names the expansion brings back unless another seed reached it,
and the fact shows its raw id (`graphrag.py:311`).  Rows of a view are paths: repeated
nodes use up its cap, and the cap on the relationships of one node cuts edges without
`truncated` saying so.  A type hint that is wrong turns an entity into a 404, although
it is "never a correctness requirement" (`graph/repository.py:268-276`).  A later
document that says nothing of time erases the known end of a relationship
(`queries.py:134`).

### Fairness

*EventBus*: weak fairness of each consumer's loop (asyncio schedules it, every
Redis call and, through `with_timeout`, every handler ends), of restarts
(`docker-compose.prod.yml` gives services `restart: unless-stopped`) and of idle
time passing.  Publishing, faults and expiries are nobody's obligation.
*Resilience*: weak fairness of every call's steps, of new calls (`Recovers` is a
promise about a dependency that is in use) and of time.  *Filing*: weak fairness
of each request's own steps; a request that has arrived runs on because every
await it makes ends in a result or an error (HTTP timeouts and `with_timeout` for
providers, `statement_timeout` for PostgreSQL), not because a failure must
happen: `Fail` carries no fairness.  A request waiting for a lock is not enabled
to step, so `EveryFilingAnswered` says that the lock order has no cycle.
*Ingestion* has the same structure with one kind of lock and is checked for
safety and refinement only.  *Resolution*, *Statements*, *Research* and *Retrieval*
state no fairness: they are about what is stored and answered, whenever that is.
The configurations of *Research* and *Retrieval* switch the deadlock check off,
because every request of the instance may have ended.

`Quiet` is the only step when every submission of an instance has been answered.

## 4. Proofs

All proofs hold for any number of consumers, callers, requests, filings or documents.
Every invariant, action property and refinement of the passing runs is a theorem: the
run checks it on its instance, the theorem says it of every one.

### What is assumed

The named `ASSUME`s of the modules, which TLC evaluates on every instance: finite sets
of actors, positive settings, distinct names, and of the numbers

- `ScalesAssumption` (`Figures`): a discount factor has no more places than a ratio (four
  and six in the code), and a unit of money no more places than a ratio and a column
  have together;
- `PrintedAssumption`, `AbsentAssumption` (`StatementStore`): a printed line is a whole
  number of the filing's scale, undisclosed or illegible, and a statement set is not the
  value that stands for having none;
- `InputsAssumption` (`StatementStore`): rates and horizons are numbers, and nothing more;
  which of them a valuation admits is `Requestable`, from the code;
- `GrainsAssumption` (`Research`): evidence is a number of grains, and a figure in a draft
  is written with digits, places and a suffix, as the pattern of the check reads it.

Two theorems have a hypothesis besides.  `PatienceSuffices` assumes `PatientReclaim`:
it says that nothing is overtaken then, so that only crashes and failed releases cost an
event; `NoEventUnaccounted` and `DeliveryImplemented` hold without it.
`NodesStayJustified` assumes `NamesFit`: no name has more nodes than a lookup by name
returns (five).  Beyond it a node can be hidden from the resolver and
get a twin, which is the hazard at `graph/repository.py:290`; the parts that do not
depend on it, `EvidenceHoldsNodes` and `NothingIsForgotten`, are theorems without it.

### The arguments

*EventBusProofs.*  `TypeCorrect` is inductive as stated.  `ExclusiveHandling` and
`AtMostOnceHandling` rest on `ClaimInv`: a consumer between winning the claim and
its outcome holds the claim (`RunnersHoldClaim`), no two such consumers have the
same event, and an event that is unclaimed or being run has succeeded at most as
often as its claim expired (`ClaimAccounting`).  `HandlerExclusive` alone is not
inductive: it is the claim that keeps a second runner out.  `BoundedDelivery`
rests on `BudgetInv`: deliveries of a message plus the consumers whose XPENDING
reply still entitles them to claim it never exceed the budget plus the number of
consumers; every delivery beyond the budget uses up one entitlement.
`BurialsAreJustified` rests on `BurialInv`: a consumer on its way to bury a message has
seen a reason that was true, and as delivery counts and trimming only grow
(`NextAdvances`) the reason still is when it acts, however stale its reply.
`NoEventUnaccounted` and `DeliveryImplemented` rest on `DeliveryInv`: a claim is of an
event that was handled, is being run, or was left behind (`ClaimsExplained`), trimming
keeps the newest entries (`TrimmingKeeps`), and every message is settled or some message
of the same event is still pending or undelivered and not about to be acknowledged
(`SettledOrKept`); with impatient reclaims the only step that can take the last such
message from an event being run is the one that `Overtakes` marks.  `PatienceSuffices`
rests on `PatienceInv`: what a consumer has in hand nobody else has and is not idle
(`Possession`), so the message of a run is never another consumer's to acknowledge.
`SettledOrKept` speaks of events and not of messages, because a duplicate is acknowledged on the strength of its twin.

*ResilienceProofs.*  `TrialsAreLimited` and `HalfOpenNeverWedges` rest on
`TrialInv`: within a half-open period every admitted trial is still running or
has recorded a success, and successes are below the threshold.  Outcomes of
earlier periods only help, since they close or reopen the circuit or add
successes.  The second theorem assumes `SuccessThreshold <= HalfOpenMaxCalls`;
without it the first half-open period in which all trials succeed is stuck.

*IngestionProofs.*  `TypeCorrect`, and `TheStoresAgree` from `IngestInv`, which
follows a request through its loops: what it still has to write (`Loops`), that a
surface resolves to a node of its own canonical name (`Resolved`; that a first surface
of a name exists is well-foundedness of the order of mentions, `FirstAlike`), that the
nodes behind the loop cite the document (`Cited`), that what is about to be committed
is complete and in the graph (`Staged`), and that only a request that is over is stored
(`Ends`).  `StoresAgree` alone is not inductive: a node is cited long before the
document it cites is committed.  The proof uses that citations are only ever added,
which is also why a rollback leaves orphans and never a wrong citation.
`OnlyOverlapDuplicates` rests on `OverlapInv`: a node was founded by the first surface
of its name in a request that found none to join (`NodesAreFirst`), and a request past
its lookups knows every node that requests over before it began had made (`Loaded`).
`ContentStoreImplemented` rests on `ContentInv`: whoever holds a content hash in an open
transaction holds it alone and against no stored copy, and a request on its way to
answer "duplicate" has a stored twin.

*FilingProofs.*  `OneVersionOfAPeriod`, `SetsAreCitable`, `FiguresArePermanent`
and `ReplacementsAreInformed` rest on `SaveInv`: an admitted insert implies that
the committed sets of its period are the ones its transaction deleted and that no
other transaction of the period has inserted; a transaction deletes only what it
read and commits a deletion only together with an insert; whatever is stored
belongs to a request that is over.  Without the last part a commit could add a
set that is already there.  `ContentStoreImplemented` is the argument of
`IngestionProofs` for this pipeline.

*ResolutionProofs*.  `TypeCorrect`, `IndexIsSound` and `NodesAreOneCompany` are one
induction, on `ResolutionInv`.  A match is typed only if a candidate id is in the
index, so typing needs `IndexInv` (blocks and identifier table point into the
index).  `OneCompanyPerNode` speaks of the graph, while merges happen in the index
and reach the graph later, unioned with what is there; `NodeInv` says that no
entity of the index conflicts with itself, and that what the graph and the
outcomes waiting to be written have of an indexed node is part of what the index
has.  A merge without a conflict preserves the first, and the union of two parts
of one consistent entity is consistent.  Nothing is assumed about scores, blocks
or the order of candidates.  `NothingIsForgotten` and `EvidenceHoldsNodes` need
`MemoryInv`: every entity, in the index, waiting or in the graph, has exactly the names
and identifiers of its mentions and is one cluster of evidence, and a later outcome for
a node contains what earlier ones and the graph have of it; so the unions of the writes
never join two clusters.  `NodesStayJustified` adds `TwinsInv`: where what the index
has came from, that the nodes of a looked-up name are at hand, and that any two of them
disagree or were set apart (`TwinInv`), also while one of the two is still to be written.

*StatementProofs.*  `TypeCorrect` and `AnswersFit`, for any filings in any order.
The lemma `HistoriesReachTheNewest` says that a history of bounded length contains,
of any year it contains at all, the newest set, whichever way ties fall; without it a
valuation for a year could be of an older quarter.  `HistoriesMissTheOldest` is its
counterpart: a set that such a history leaves out has as many others before it as the
history reads.  `FiguresAreAsFiled` rests on
`RowsInv`: a row is what a filing on record comes to.  An answer is computed from the
rows, so what remains of `RatiosFollow` and `ValuationsCohere` is arithmetic over all
integers.  `HalfUp` moves a value by half a place at most and is monotone; products of
factors above one grow and discount factors fall with the rate, of any exponent.  The
exponent takes an induction, which is done through the least number that would fail
(`LeastNumber`), since a power is a recursive function.  Present value, terminal value
and enterprise value are exact before they are rounded, so a total differs from the sum
of its reported parts by their roundings only, and a lower rate or a higher terminal
growth can only raise what is reported.  The trend of two sets is their growth exactly.
Compound growth over one year is not: the proof attempt showed that of a decline that
ends in a half the one is rounded up and the other away from zero, so that they are one
apart in the last place of the ratio (`GrowthsAgree` allows for exactly that).

*ResearchProofs.*  `EndsAreTruthful` and `PublishedIsChecked`: whatever the providers
do and however often the figures change, a caller told "created" has a committed
report and nobody else has, an outage never hides a refusal, and a report served or
announced as publishable has passed the check against the version it was computed
from.  `SupportJustifies` says that the check is the promise: a written number and a
value rounded to the digits vouched for are equal if and only if the value is within
half of the last of these digits, where the power of ten that is rounded to depends on
the size of the value itself.  With `GradesInv`, which follows a row from its last draft
to the record, it gives `PublishedIsGrounded` and `NamesItsFaults`.  `RequestsKeepBounds`
is the type invariant with the bounds on tries, calls and drafts.

*RetrievalProofs.*  `AnswersCiteTheComparable` and `FactsAreInTheGraph`, from three
parts: every stored edge is canonical (`Canonical`), the context holds what the reads
so far justify (`ContextInv`), and an answer is made of a context that no longer
changes (`AnswerInv`).  That one symmetric relationship is not told in both directions
follows from the canonical direction and the order of names, not from any read.
`ReadsKeepLimits` counts: what a context has plus what its remaining seeds may still
bring never exceeds the limits (`CountsInv`).  `ViewsStayTrue` is about paths: a row of
a neighbourhood as long as its path is in the ball of that radius, and a view that is
not truncated has the whole ball and the edges in it (`ViewInv`), of the graph as it was
when the view began, because nodes and edges are only ever added.

### What is only model-checked

Liveness (`EventuallySettled`, `EveryCallReturns`, `Recovers`, `EveryFilingAnswered`),
which needs ENABLED and is outside the prover, and the three violations.

## 5. Not modelled, and what is left

Not modelled, because there is no state and no order in it: vendor protocols, HTTP,
SQL and Cypher text, embeddings, token verification and hashing, logging, metrics and
tracing, settings validation, test doubles, migrations, the in-memory bus.
Permission matching, the provenance rules, chunking and metadata extraction, the
wording of prompts and the length of a back-off are functions of strings or floats
that unit tests reach well.  The Redis lock and `FilingRepository.delete`,
`delete_document`, `company` and `unregister` have no caller in the applications.
Substring search, statistics and health checks are single reads.

What could be added: one composition of `FilingPipeline` with `StatementStore`, in which
a request is several steps and the figures are real; and a resolver that runs beside
another one, which `IngestionPipeline` has for simple names only.
