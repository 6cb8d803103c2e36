--------------------------- MODULE IngestionPipeline ---------------------------
(***************************************************************************)
(* marketmind.ingestion: concurrent ingest requests over PostgreSQL, the   *)
(* knowledge graph and the event bus.                                      *)
(*                                                                         *)
(* PostgreSQL writes belong to the request's transaction and appear at     *)
(* Commit; graph writes and published events take effect at once and       *)
(* outlive a rollback.  Every await that reads or writes a store is an     *)
(* action.  A submission is its document: it gets a document id of its     *)
(* own, and the id of an entity it extracts is the pair of the submission  *)
(* and the surface form.                                                   *)
(***************************************************************************)
EXTENDS Naturals, Sequences, FiniteSets

CONSTANTS
  Requests,     \* submissions of a document
  ContentOf,    \* the content (content_hash) of each submission
  Surfaces,     \* names a model may extract
  Canonical,    \* the canonical name of each surface form
  Relations,    \* pairs of surfaces a model may relate
  Extractions   \* what one extraction may return, in the order of the entities

ASSUME RequestsAssumption == IsFiniteSet(Requests)
ASSUME ExtractionAssumption ==
  /\ Extractions \subseteq Seq(Surfaces)
  /\ Relations \subseteq Surfaces \X Surfaces

VARIABLES
  docs,       \* committed documents, with their chunks
  mentions,   \* committed entity_mentions: <<node, document>>
  sources,    \* graph: documents each node cites; {} when there is no node
  edges,      \* graph: <<source, target, citing document>>
  announced,  \* documents whose DOCUMENT_INGESTED reached the bus
  pc,         \* where each request is
  extracted,  \* surfaces its extraction returned, in order
  todo,       \* of these, the rest the current loop has not reached
  links,      \* extracted relationships not yet written
  known,      \* candidate nodes it loaded from the graph
  target,     \* the node each extracted surface resolved to
  staged,     \* mention rows of its open transaction
  answer,     \* what the caller was told
  before      \* history: requests that were over when this one began

stores  == <<docs, mentions, sources, edges, announced>>
work    == <<todo, links, known, target, staged>>
vars    == <<stores, pc, extracted, work, answer, before>>

Nodes == Requests \X Surfaces
Alike(s, t) == Canonical[s] = Canonical[t]
Named(r) == {extracted[r][i] : i \in DOMAIN extracted[r]}
InGraph == {n \in Nodes : sources[n] # {}}

Locations ==
  {"new", "flush", "duplicate", "extract", "load", "resolve", "write", "mentions", "link",
   "announce", "commit", "over"}

\* The transaction of r holds the unique index entry of its content.
Holds(r) ==
  pc[r] \in {"extract", "load", "resolve", "write", "mentions", "link", "announce", "commit"}

GoTo(r, location) == pc' = [pc EXCEPT ![r] = location]

\* The request ends, and with it what only its coroutine held.
Finish(r, verdict) ==
  /\ GoTo(r, "over")
  /\ answer' = [answer EXCEPT ![r] = verdict]
  /\ todo' = [todo EXCEPT ![r] = <<>>] /\ links' = [links EXCEPT ![r] = {}]
  /\ known' = [known EXCEPT ![r] = {}] /\ target' = [target EXCEPT ![r] = <<>>]
  /\ staged' = [staged EXCEPT ![r] = {}]

\* The loop over the extracted entities goes on, or ends and is left.
NextEntity(r, after) ==
  /\ todo' = [todo EXCEPT ![r] = Tail(@)]
  /\ GoTo(r, IF Len(todo[r]) = 1 THEN after ELSE pc[r])

\* A plausible mistake. StoredTwins: the lookup sees a document before it is committed.
MutStoredTwins(r) == {q \in Requests : ContentOf[q] = ContentOf[r] /\ (q \in docs \/ Holds(q))}

StoredTwins(r) == {q \in docs : ContentOf[q] = ContentOf[r]}

(***************************************************************************)
(* Plausible mistakes, which no behaviour of the specification makes; each *)
(* stands in for the definition it names when the sensitivity of a         *)
(* property is measured.                                                   *)
(***************************************************************************)

\* Candidates: only nodes that a committed document cites are matched.
MutCandidates(r, s) == {n \in known[r] : Alike(n[2], s) /\ sources[n] \cap docs # {}}

\* RecordMentions: rows are recorded only for nodes this request created.
MutMentionCreated(r) ==
  /\ pc[r] = "mentions"
  /\ staged' = [staged EXCEPT ![r] = {target[r][s] : s \in Named(r)} \cap ({r} \X Surfaces)]
  /\ GoTo(r, "link")
  /\ UNCHANGED <<stores, extracted, todo, links, known, target, answer, before>>

(***************************************************************************)
(* Initial state: nothing stored.                                          *)
(***************************************************************************)
Init ==
  /\ docs = {} /\ mentions = {} /\ edges = {} /\ announced = {}
  /\ sources = [n \in Nodes |-> {}]
  /\ pc = [r \in Requests |-> "new"]
  /\ extracted = [r \in Requests |-> <<>>] /\ todo = [r \in Requests |-> <<>>]
  /\ links = [r \in Requests |-> {}] /\ known = [r \in Requests |-> {}]
  /\ target = [r \in Requests |-> <<>>] /\ staged = [r \in Requests |-> {}]
  /\ answer = [r \in Requests |-> "none"]
  /\ before = [r \in Requests |-> {}]

(***************************************************************************)
(* The document                                                            *)
(***************************************************************************)

\* The request arrives; SELECT by content hash reads committed documents only.
LookUp(r) ==
  /\ pc[r] = "new"
  /\ before' = [before EXCEPT ![r] = {q \in Requests : pc[q] = "over"}]
  /\ GoTo(r, IF StoredTwins(r) = {} THEN "flush" ELSE "duplicate")
  /\ UNCHANGED <<stores, extracted, work, answer>>

AnswerDuplicate(r) ==
  /\ pc[r] = "duplicate"
  /\ Finish(r, "duplicate")
  /\ UNCHANGED <<stores, extracted, before>>

\* INSERT waits for an open transaction with the same content hash, and the
\* unique constraint refuses it if that transaction committed.
Flush(r) ==
  /\ pc[r] = "flush"
  /\ \A q \in Requests \ {r} : ContentOf[q] = ContentOf[r] => ~Holds(q)
  /\ IF StoredTwins(r) = {} THEN GoTo(r, "extract") /\ UNCHANGED <<work, answer>>
                            ELSE Finish(r, "error")
  /\ UNCHANGED <<stores, extracted, before>>

(***************************************************************************)
(* The graph                                                               *)
(***************************************************************************)

\* The chunks, embedded and stored in the open transaction, go to a model that
\* names entities and relationships between them; a relationship it leaves out
\* is one that is never written.  Without entities _build_graph returns early.
Extract(r) ==
  /\ pc[r] = "extract"
  /\ \E entities \in Extractions :
       /\ extracted' = [extracted EXCEPT ![r] = entities]
       /\ todo' = [todo EXCEPT ![r] = entities]
       /\ GoTo(r, IF entities = <<>> THEN "announce" ELSE "load")
  /\ links' = [links EXCEPT ![r] = Relations \cap (Named(r)' \X Named(r)')]
  /\ UNCHANGED <<stores, known, target, staged, answer, before>>

\* _candidate_index: one graph read for each extracted entity.
LoadCandidates(r) ==
  /\ pc[r] = "load"
  /\ known' = [known EXCEPT ![r] = @ \cup {n \in InGraph : Alike(n[2], Head(todo[r]))}]
  /\ NextEntity(r, "resolve")
  /\ UNCHANGED <<stores, extracted, links, target, staged, answer, before>>

Candidates(r, s) == {n \in known[r] : Alike(n[2], s)}

\* The first extracted surface with the canonical name of s.
FirstAlike(r, s) ==
  LET first == CHOOSE i \in DOMAIN extracted[r] :
                 /\ Alike(extracted[r][i], s)
                 /\ \A j \in 1..(i - 1) : ~Alike(extracted[r][j], s)
  IN extracted[r][first]

\* resolve_batch: a surface joins a candidate of its canonical name, whichever
\* the candidate set yields first; without candidates the surfaces of one name
\* share the id of the first.
Choices(r, s) == IF Candidates(r, s) # {} THEN Candidates(r, s) ELSE {<<r, FirstAlike(r, s)>>}

\* A mistake for Resolve: only entities that matched nothing are kept.
MutResolve(r) ==
  /\ pc[r] = "resolve"
  /\ target' = [target EXCEPT ![r] =
        [s \in {q \in Named(r) : Candidates(r, q) = {}} |-> <<r, FirstAlike(r, s)>>]]
  /\ known' = [known EXCEPT ![r] = {}]
  /\ todo' = [todo EXCEPT ![r] = extracted[r]]
  /\ GoTo(r, "write")
  /\ UNCHANGED <<stores, extracted, links, staged, answer, before>>

Resolve(r) ==
  /\ pc[r] = "resolve"
  /\ \E t \in [Named(r) -> UNION {Choices(r, s) : s \in Named(r)}] :
       /\ \A s \in Named(r) : t[s] \in Choices(r, s)
       /\ target' = [target EXCEPT ![r] = t]
  /\ known' = [known EXCEPT ![r] = {}]
  /\ todo' = [todo EXCEPT ![r] = extracted[r]]
  /\ GoTo(r, "write")
  /\ UNCHANGED <<stores, extracted, links, staged, answer, before>>

\* upsert_entity: MERGE creates the node or unions the citations into it.
WriteEntity(r) ==
  /\ pc[r] = "write"
  /\ sources' = [sources EXCEPT ![target[r][Head(todo[r])]] = @ \cup {r}]
  /\ NextEntity(r, "mentions")
  /\ UNCHANGED <<docs, mentions, edges, announced, extracted, links, known, target, staged,
                 answer, before>>

\* Mention rows, under the resolved ids, in the open transaction.
RecordMentions(r) ==
  /\ pc[r] = "mentions"
  /\ staged' = [staged EXCEPT ![r] = {target[r][s] : s \in Named(r)}]
  /\ GoTo(r, "link")
  /\ UNCHANGED <<stores, extracted, todo, links, known, target, answer, before>>

\* A remapped self-loop is rejected, and the query matches both endpoints.
Writable(r, link) ==
  /\ target[r][link[1]] # target[r][link[2]]
  /\ {target[r][link[1]], target[r][link[2]]} \subseteq InGraph

\* upsert_relationships: a relationship that cannot be written is skipped.
WriteEdge(r) ==
  /\ pc[r] = "link"
  /\ \E link \in links[r] :
       /\ links' = [links EXCEPT ![r] = @ \ {link}]
       /\ \/ UNCHANGED edges
          \/ /\ Writable(r, link)
             /\ edges' = edges \cup {<<target[r][link[1]], target[r][link[2]], r>>}
  /\ UNCHANGED <<docs, mentions, sources, announced, pc, extracted, todo, known, target,
                 staged, answer, before>>

EdgesWritten(r) ==
  /\ pc[r] = "link" /\ links[r] = {}
  /\ GoTo(r, "announce")
  /\ UNCHANGED <<stores, extracted, work, answer, before>>

(***************************************************************************)
(* The end: events are published on a best-effort basis, then the session  *)
(* scope commits.  Whatever raises on the way rolls the transaction back.  *)
(***************************************************************************)
Announce(r) ==
  /\ pc[r] = "announce"
  /\ announced' \in {announced, announced \cup {r}}
  /\ GoTo(r, "commit")
  /\ UNCHANGED <<docs, mentions, sources, edges, extracted, work, answer, before>>

Commit(r) ==
  /\ pc[r] = "commit"
  /\ docs' = docs \cup {r}
  /\ mentions' = mentions \cup (staged[r] \X {r})
  /\ Finish(r, "created")
  /\ UNCHANGED <<sources, edges, announced, extracted, before>>

Fail(r) ==
  /\ pc[r] \notin {"new", "over"}
  /\ Finish(r, "error")
  /\ UNCHANGED <<stores, extracted, before>>

Advance(r) ==
  \/ AnswerDuplicate(r) \/ Flush(r) \/ Extract(r)
  \/ LoadCandidates(r) \/ Resolve(r) \/ WriteEntity(r)
  \/ RecordMentions(r) \/ WriteEdge(r) \/ EdgesWritten(r) \/ Announce(r) \/ Commit(r)

\* Every submission has been answered.
Quiet == (\A r \in Requests : pc[r] = "over") /\ UNCHANGED vars

Next == (\E r \in Requests : LookUp(r) \/ Advance(r) \/ Fail(r)) \/ Quiet

Spec == Init /\ [][Next]_vars

(***************************************************************************)
(* Types                                                                   *)
(***************************************************************************)

\* Every variable has its type, and a request past resolution has a node for
\* each surface it extracted.
TypeOK ==
  /\ docs \subseteq Requests /\ announced \subseteq Requests
  /\ mentions \subseteq Nodes \X Requests
  /\ sources \in [Nodes -> SUBSET Requests]
  /\ edges \subseteq Nodes \X Nodes \X Requests
  /\ pc \in [Requests -> Locations]
  /\ extracted \in [Requests -> Seq(Surfaces)] /\ todo \in [Requests -> Seq(Surfaces)]
  /\ links \in [Requests -> SUBSET Relations] /\ known \in [Requests -> SUBSET Nodes]
  /\ staged \in [Requests -> SUBSET Nodes]
  /\ answer \in [Requests -> {"none", "created", "duplicate", "error"}]
  /\ before \in [Requests -> SUBSET Requests]
  /\ \A r \in Requests :
       pc[r] \in {"write", "mentions", "link"} => target[r] \in [Named(r) -> Nodes]

(***************************************************************************)
(* Safety                                                                  *)
(***************************************************************************)

\* A committed mention leads somewhere at both ends: its document is stored
\* and its node exists and cites that document, although the two live in
\* stores that share no transaction and other requests merge into the node.
MentionsResolve ==
  \A m \in mentions : m[2] \in docs /\ m[2] \in sources[m[1]]

\* The graph holds every entity of r, citing r.
Represented(r) ==
  \A s \in Named(r) : \E n \in Nodes : Alike(n[2], s) /\ r \in sources[n]

\* A document that is stored or announced is in the graph with every entity
\* extracted from it, and each entity of a stored one can be quoted.
DocumentsFullyIndexed ==
  /\ \A r \in docs \cup announced : Represented(r)
  /\ \A r \in docs : \A s \in Named(r) :
       \E n \in Nodes : Alike(n[2], s) /\ <<n, r>> \in mentions

\* An edge joins two different nodes that both cite its document: remapping
\* leaves no edge on an id that resolution merged away.
EdgesGrounded ==
  \A e \in edges : e[1] # e[2] /\ e[3] \in sources[e[1]] \cap sources[e[2]]

\* Postgres and Neo4j, which share no transaction, agree on what was ingested:
\* mentions, documents and edges lead to what they speak of.
StoresAgree == MentionsResolve /\ DocumentsFullyIndexed /\ EdgesGrounded

Overlapped(r, q) == r \notin before[q] /\ q \notin before[r]

\* "Concurrent ingestion of two documents mentioning the same company would
\* race to create the node twice": only concurrency does.  Sequential requests
\* share one node per name, also when some of them failed and left theirs.
DuplicatesNeedOverlap ==
  \A n, o \in InGraph : n # o /\ Alike(n[2], o[2]) => n[1] # o[1] /\ Overlapped(n[1], o[1])

(***************************************************************************)
(* Refinement                                                              *)
(***************************************************************************)

\* Callers see a content store.
Store == INSTANCE ContentStore WITH stored <- docs
ImplementsContentStore == Store!Spec
=============================================================================
