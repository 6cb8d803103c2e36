------------------------------ MODULE Resolution ------------------------------
(***************************************************************************)
(* marketmind.resolution: deciding which node of the knowledge graph an    *)
(* extracted company belongs to, document after document.                  *)
(*                                                                         *)
(* Documents are ingested one at a time (ingest_all is sequential for this *)
(* reason; IngestionPipeline has the concurrent requests).  For each, the  *)
(* candidates are read from the graph into an in-memory index, the         *)
(* mentions are resolved against the index in order, and the outcome of    *)
(* each is written back.  Lookups and blocks are kept per entity type and  *)
(* only companies carry identifiers, so one type stands for all.  Names    *)
(* are canonical names.                                                    *)
(***************************************************************************)
EXTENDS Naturals, Sequences, FiniteSets

CONSTANTS
  Documents,        \* documents to ingest
  MaxMentions,      \* bound: mentions in one document
  Mentions,         \* what a document may mention: records of a name and identifiers
  Names,            \* canonical names
  Identifiers,      \* identifier keys, each a type with a value
  TypeOf,           \* the type of each key: ticker, CIK, LEI, ISIN or CUSIP
  BlockOf,          \* the blocking key (first token) of each name
  Score,            \* similarity of two names
  SharesTokens,     \* pairs of names with enough tokens in common
  CandidateScore,   \* minimum_candidate_score
  FuzzyThreshold,   \* fuzzy_threshold
  NameLimit,        \* rows a lookup by name returns at most
  Absent            \* no node, no document

Nodes == Documents \X (1..MaxMentions)

ASSUME AbsentAssumption == Absent \notin Nodes /\ Absent \notin Documents
ASSUME BoundAssumption == MaxMentions \in Nat
ASSUME MentionsAssumption ==
  \A m \in Mentions : /\ m.name \in Names /\ m.identifiers \subseteq Identifiers
                      /\ \A j, k \in m.identifiers : TypeOf[j] = TypeOf[k] => j = k

VARIABLES
  graph,      \* the node with each id, or Absent
  known,      \* EntityIndex._by_id
  holder,     \* EntityIndex._by_identifier
  blocks,     \* EntityIndex._blocks
  document,   \* the document being ingested, or Absent
  seen,       \* documents that were submitted
  batch,      \* the mentions extracted from it
  phase,      \* "idle", "load", "resolve" or "write"
  at,         \* position in the batch
  asking,     \* identifiers of the mention at this position not yet looked up
  found,      \* rows read from the graph and not yet indexed
  resolved,   \* what each mention became: an id and a copy of its entity
  refused     \* history: nodes created because identifiers disagreed

index == <<known, holder, blocks>>
vars  == <<graph, index, document, seen, batch, phase, at, asking, found, resolved, refused>>

(***************************************************************************)
(* Entities                                                                *)
(***************************************************************************)

\* "mentions" is a history: the mentions that were merged into the entity.
Entities ==
  [name : Names, aliases : SUBSET Names, identifiers : SUBSET Identifiers,
   mentions : SUBSET Mentions]

ASSUME EntityAssumption == Absent \notin Entities

Extracted(m) ==
  [name |-> m.name, aliases |-> {}, identifiers |-> m.identifiers, mentions |-> {m}]

\* Entity.merged_with
MergedWith(e, o) ==
  [name        |-> e.name,
   aliases     |-> (e.aliases \cup {o.name} \cup o.aliases) \ {e.name},
   identifiers |-> e.identifiers \cup o.identifiers,
   mentions    |-> e.mentions \cup o.mentions]

Shared(e, o) == e.identifiers \cap o.identifiers

\* _compare_identifiers: two values of a type of which a company has one.  DOMAIN,
\* the type that is exempt, is outside Identifiers: no code extracts a domain.
Conflicting(e, o) ==
  \E j \in e.identifiers, k \in o.identifiers : TypeOf[j] = TypeOf[k] /\ j # k

(***************************************************************************)
(* EntityIndex                                                             *)
(***************************************************************************)
Indexed == {n \in Nodes : known[n] # Absent}

Register(n, e) ==
  /\ known' = [known EXCEPT ![n] = e]
  /\ holder' = [k \in Identifiers |-> IF k \in e.identifiers THEN n ELSE holder[k]]

\* EntityIndex.add: the entity can be found under its name and its aliases.
Add(n, e) ==
  /\ Register(n, e)
  /\ blocks' = [b \in DOMAIN blocks |->
                  IF b \in {BlockOf[s] : s \in {e.name} \cup e.aliases}
                  THEN blocks[b] \cup {n} ELSE blocks[b]]

\* A mistake for Replace: the identifiers are registered, the entity is not.
MutReplace(n, e) ==
  /\ holder' = [k \in Identifiers |-> IF k \in e.identifiers THEN n ELSE holder[k]]
  /\ UNCHANGED <<known, blocks>>

\* EntityIndex.replace: an alias gained in a merge is not indexed.
Replace(n, e) == Register(n, e) /\ UNCHANGED blocks

\* EntityIndex.candidates; what _by_canonical would add is in the block already.
Candidates(e) ==
  ({holder[k] : k \in e.identifiers} \ {Absent}) \cup blocks[BlockOf[e.name]]

(***************************************************************************)
(* EntityResolver.resolve.  The candidates are a Python set, so the loop   *)
(* meets them in any order and the first decisive one ends it.             *)
(***************************************************************************)
SameName(e, n) == e.name = known[n].name \/ e.name \in known[n].aliases

\* A mistake for Matches: the conflict is looked at only where the names differ.
MutMatches(e) ==
  {n \in Candidates(e) :
     \/ SameName(e, n)
     \/ ~Conflicting(e, known[n]) /\ Shared(e, known[n]) # {}}

\* Identifiers agree, or nothing is known against the name.
Matches(e) ==
  {n \in Candidates(e) :
     ~Conflicting(e, known[n]) /\ (Shared(e, known[n]) # {} \/ SameName(e, n))}

\* Some identifiers agree and others do not.
Ambiguous(e) == {n \in Candidates(e) : Conflicting(e, known[n]) /\ Shared(e, known[n]) # {}}

Similar(e, n) == Score[e.name, known[n].name]

\* Those with the highest score among the candidates without a conflict.
BestFuzzy(e) ==
  LET close == {n \in Candidates(e) :
                  ~Conflicting(e, known[n]) /\ Similar(e, n) >= CandidateScore}
  IN {n \in close : \A o \in close : Similar(e, o) <= Similar(e, n)}

\* A mistake for Confident: the token overlap is not required.
MutConfident(e, n) == Similar(e, n) >= FuzzyThreshold

Confident(e, n) ==
  Similar(e, n) >= FuzzyThreshold /\ <<e.name, known[n].name>> \in SharesTokens

(***************************************************************************)
(* Initial state: an empty graph.                                          *)
(***************************************************************************)
NoIndex ==
  /\ known' = [n \in Nodes |-> Absent]
  /\ holder' = [k \in Identifiers |-> Absent]
  /\ blocks' = [b \in {BlockOf[s] : s \in Names} |-> {}]

Init ==
  /\ graph = [n \in Nodes |-> Absent]
  /\ known = [n \in Nodes |-> Absent]
  /\ holder = [k \in Identifiers |-> Absent]
  /\ blocks = [b \in {BlockOf[s] : s \in Names} |-> {}]
  /\ document = Absent /\ seen = {} /\ batch = <<>> /\ phase = "idle"
  /\ at = 0 /\ asking = {} /\ found = {} /\ resolved = <<>> /\ refused = {}

(***************************************************************************)
(* _candidate_index                                                        *)
(***************************************************************************)
Begin(d) ==
  /\ phase = "idle" /\ d \notin seen
  /\ \E size \in 1..MaxMentions : batch' \in [1..size -> Mentions]
  /\ document' = d /\ seen' = seen \cup {d}
  /\ phase' = "load" /\ at' = 1 /\ asking' = batch'[1].identifiers
  /\ UNCHANGED <<graph, index, found, resolved, refused>>

\* A row that matches, any one of them (LIMIT 1).
FindByIdentifier ==
  /\ phase = "load" /\ found = {}
  /\ \E k \in asking :
       LET rows == {n \in Nodes : graph[n] # Absent /\ k \in graph[n].identifiers} IN
       /\ asking' = asking \ {k}
       /\ \/ rows = {} /\ found' = {}
          \/ \E n \in rows : found' = {n} \ Indexed
  /\ UNCHANGED <<graph, index, document, seen, batch, phase, at, resolved, refused>>

NamedInGraph(s) == {n \in Nodes : graph[n] # Absent /\ graph[n].name = s}

\* The lookup by name is the last of a mention.
FindByName ==
  /\ phase = "load" /\ found = {} /\ asking = {}
  /\ \E rows \in SUBSET NamedInGraph(batch[at].name) :
       /\ Cardinality(rows) <= NameLimit
       /\ rows = NamedInGraph(batch[at].name) \/ Cardinality(rows) = NameLimit
       /\ found' = rows \ Indexed
  /\ IF at = Len(batch)
       THEN phase' = "resolve" /\ at' = 1 /\ asking' = {}
       ELSE phase' = "load" /\ at' = at + 1 /\ asking' = batch[at + 1].identifiers
  /\ UNCHANGED <<graph, index, document, seen, batch, resolved, refused>>

\* A row becomes an entity again (entity_from_node) and is indexed.
IndexRow ==
  /\ \E n \in found : Add(n, graph[n]) /\ found' = found \ {n}
  /\ UNCHANGED <<graph, document, seen, batch, phase, at, asking, resolved, refused>>

(***************************************************************************)
(* resolve_batch                                                           *)
(***************************************************************************)
Current == Extracted(batch[at])

\* A mistake for Settle: the writes start where resolution stopped.
MutSettle(n, e) ==
  /\ resolved' = Append(resolved, <<n, e>>)
  /\ at' = at + 1 /\ phase' = (IF at = Len(batch) THEN "write" ELSE phase)
  /\ UNCHANGED <<graph, document, seen, batch, asking, found>>

\* The mention settles on node n, now e; the next one follows.
Settle(n, e) ==
  /\ resolved' = Append(resolved, <<n, e>>)
  /\ IF at = Len(batch) THEN phase' = "write" /\ at' = 1 ELSE phase' = phase /\ at' = at + 1
  /\ UNCHANGED <<graph, document, seen, batch, asking, found>>

Resolving == phase = "resolve" /\ found = {}

MergeInto(n) ==
  /\ Replace(n, MergedWith(known[n], Current))
  /\ Settle(n, MergedWith(known[n], Current))
  /\ UNCHANGED refused

CreateNode ==
  /\ Add(<<document, at>>, Current)
  /\ Settle(<<document, at>>, Current)

Match == Resolving /\ \E n \in Matches(Current) : MergeInto(n)

\* "Refuse to decide rather than guess": the mention becomes a node of its own.
Refuse ==
  /\ Resolving /\ Ambiguous(Current) # {}
  /\ CreateNode
  /\ refused' = refused \cup {<<document, at>>}

Undecided == Resolving /\ Matches(Current) = {} /\ Ambiguous(Current) = {}

MatchFuzzy == Undecided /\ \E n \in BestFuzzy(Current) : Confident(Current, n) /\ MergeInto(n)

Create ==
  /\ Undecided
  /\ BestFuzzy(Current) = {} \/ \E n \in BestFuzzy(Current) : ~Confident(Current, n)
  /\ CreateNode
  /\ UNCHANGED refused

(***************************************************************************)
(* Writing back                                                            *)
(***************************************************************************)

\* upsert_entity: the lists of a node are unioned, never replaced.
Upserted(n, e) ==
  IF graph[n] = Absent THEN e
  ELSE [e EXCEPT !.name = graph[n].name,
                 !.aliases = @ \cup graph[n].aliases,
                 !.identifiers = @ \cup graph[n].identifiers,
                 !.mentions = @ \cup graph[n].mentions]

Abandon ==
  /\ NoIndex
  /\ document' = Absent /\ phase' = "idle" /\ batch' = <<>>
  /\ at' = 0 /\ asking' = {} /\ found' = {} /\ resolved' = <<>>
  /\ UNCHANGED <<seen, refused>>

Write ==
  /\ phase = "write"
  /\ LET n == resolved[at][1] IN
     graph' = [graph EXCEPT ![n] = Upserted(n, resolved[at][2])]
  /\ IF at = Len(resolved)
       THEN Abandon
       ELSE at' = at + 1
            /\ UNCHANGED <<index, document, seen, batch, phase, asking, found, resolved, refused>>

\* A lookup or a write fails: the document is given up, what was written stays.
Fail == phase # "idle" /\ Abandon /\ UNCHANGED graph

\* All documents were submitted.
Quiet == seen = Documents /\ phase = "idle" /\ UNCHANGED vars

Next ==
  \/ \E d \in Documents : Begin(d)
  \/ FindByIdentifier \/ FindByName \/ IndexRow
  \/ Match \/ Refuse \/ MatchFuzzy \/ Create \/ Write \/ Fail \/ Quiet

Spec == Init /\ [][Next]_vars

(***************************************************************************)
(* Types                                                                   *)
(***************************************************************************)
MaybeEntity == Entities \cup {Absent}

\* Every variable has its type, and a position is one of the batch.
TypeOK ==
  /\ graph \in [Nodes -> MaybeEntity] /\ known \in [Nodes -> MaybeEntity]
  /\ holder \in [Identifiers -> Nodes \cup {Absent}]
  /\ blocks \in [{BlockOf[s] : s \in Names} -> SUBSET Nodes]
  /\ document \in Documents \cup {Absent} /\ seen \subseteq Documents
  /\ batch \in Seq(Mentions) /\ Len(batch) <= MaxMentions
  /\ phase \in {"idle", "load", "resolve", "write"}
  /\ at \in 0..MaxMentions /\ asking \subseteq Identifiers /\ found \subseteq Nodes
  /\ resolved \in Seq(Nodes \X Entities) /\ refused \subseteq Nodes
  /\ phase # "idle" => document \in Documents /\ at \in 1..Len(batch)

(***************************************************************************)
(* Safety                                                                  *)
(***************************************************************************)

\* What the index points to is in the index, and is what the pointer says:
\* candidates() never looks up an id that is not there, and an identifier
\* leads to a company that has it.
IndexSound ==
  /\ \A b \in DOMAIN blocks : blocks[b] \subseteq Indexed
  /\ \A k \in Identifiers : holder[k] # Absent =>
       holder[k] \in Indexed /\ k \in known[holder[k]].identifiers

\* "Two companies both called Acme Corp with different CIKs are two
\* companies": however long the chain of merges, by name, alias, similarity or
\* another identifier, no node collects two values of a type that tells
\* companies apart.
OneCompanyPerNode ==
  \A n \in Nodes : graph[n] # Absent => ~Conflicting(graph[n], graph[n])

\* Two mentions that the rules of the ladder connect by themselves.
Evidence(m, o) ==
  \/ m.identifiers \cap o.identifiers # {}
  \/ m.name = o.name
  \/ Score[m.name, o.name] >= FuzzyThreshold /\ <<m.name, o.name>> \in SharesTokens

\* A node holds together: its mentions cannot be parted into two groups
\* without evidence between them.
MergesJustified ==
  \A n \in Nodes : graph[n] # Absent =>
    \A part \in (SUBSET graph[n].mentions) \ {{}, graph[n].mentions} :
      \E m \in part, o \in graph[n].mentions \ part : Evidence(m, o) \/ Evidence(o, m)

\* A node knows every name and identifier it was mentioned by and no other,
\* through merges, failures and the way to the graph and back.
NodesRemember ==
  \A n \in Nodes : graph[n] # Absent =>
    /\ {graph[n].name} \cup graph[n].aliases = {m.name : m \in graph[n].mentions}
    /\ graph[n].identifiers = UNION {m.identifiers : m \in graph[n].mentions}

\* Two nodes of one name are two companies: their identifiers disagree, or
\* one was set apart because the evidence was contradictory.
TwinsDisagree ==
  \A n, o \in Nodes :
    /\ graph[n] # Absent /\ graph[o] # Absent /\ n # o
    /\ graph[n].name = graph[o].name
    => Conflicting(graph[n], graph[o]) \/ {n, o} \cap refused # {}

\* What the graph says of companies is what documents said of them: each node
\* is one cluster of evidence, forgets nothing, and has no needless twin.
NodesAreJustified == MergesJustified /\ NodesRemember /\ TwinsDisagree
=============================================================================
