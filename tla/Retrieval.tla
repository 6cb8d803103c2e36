-------------------------------- MODULE Retrieval --------------------------------
(***************************************************************************)
(* What MarketMind answers from (marketmind.retrieval.graphrag,            *)
(* marketmind.api.routers.graph and .retrieval): one request at work while *)
(* documents are ingested.  The passages come from Postgres and the        *)
(* relationships from Neo4j, one read at a time, and each read sees what   *)
(* has been written by then.                                               *)
(*                                                                         *)
(* A document has one chunk here and they share a name.  The model that    *)
(* answers is shown its context and bound to nothing.                      *)
(***************************************************************************)
EXTENDS KnowledgeGraph

CONSTANTS
  Statements,        \* what documents say: [type, source, target, validity]
  Documents,
  MentionsOf,        \* document -> the entities its chunk mentions
  Similarity,        \* document -> similarity of its chunk to the question
  MinimumSimilarity,
  EmbeddingModels,
  Current,           \* the model that questions are embedded with
  None,
  Phantom,           \* a source id that nobody supplied
  TopK, MaxSeeds, MaxNeighbours, GraphDepth,   \* GraphRAGConfig
  Depths,            \* of a view, of 1 to 3
  Filters,           \* the relationship types it may be restricted to
  PathDepth,         \* of a path, of 1 to 6
  NodeCap            \* graph_visualization_max_nodes

ASSUME RetrievalAssumption ==
  /\ IsFiniteSet(Entities)
  /\ {TopK, MaxSeeds, MaxNeighbours, NodeCap} \subseteq Nat \ {0}
  /\ GraphDepth \in 1..3 /\ Depths \subseteq 1..3 /\ PathDepth \in 1..6
  /\ Filters \subseteq SUBSET DOMAIN Schema
  /\ Current \in EmbeddingModels /\ None \notin EmbeddingModels
  /\ Phantom \notin Documents
  /\ \A said \in Statements :
       said.type \in DOMAIN Schema /\ {said.source, said.target} \subseteq Entities

VARIABLES
  graph,             \* Neo4j
  embedded,          \* document committed -> the model its chunk is embedded with, or None
  pc,                \* where the request is
  context,           \* of a question: [asked, passages, seeds, todo, seed, reached, facts]
  answer,            \* what the caller is told
  view               \* of a graph view: [seed, depth, types, before, rows, todo, edges]

vars == <<graph, embedded, pc, context, answer, view>>

Types == DOMAIN Schema
Stored == DOMAIN embedded
EmptyContext ==
  [asked |-> {}, passages |-> {}, seeds |-> {}, todo |-> {}, seed |-> None, reached |-> {},
   facts |-> {}]
NoView ==
  [seed |-> None, depth |-> 1, types |-> {}, before |-> {}, rows |-> {}, todo |-> {},
   edges |-> {}]
NoAnswer ==
  [outcome |-> "none", cited |-> {}, grounded |-> FALSE, sufficient |-> FALSE]
Locations ==
  {"new", "search", "anchor", "expand", "relate", "synthesize", "seed", "collect", "over"}

Init ==
  /\ graph = NoGraph /\ embedded = << >> /\ pc = "new"
  /\ context = EmptyContext /\ answer = NoAnswer /\ view = NoView

GoTo(location) == pc' = location
Answered(result) == GoTo("over") /\ answer' = result
Told(outcome) == [NoAnswer EXCEPT !.outcome = outcome]

(***************************************************************************)
(* Ingestion, as far as retrieval sees it                                  *)
(***************************************************************************)
WriteEntity ==
  /\ \E entity \in Entities \ graph.nodes : graph' = UpsertEntity(graph, entity)
  /\ UNCHANGED <<embedded, pc, context, answer, view>>

WriteRelationship ==
  /\ \E said \in Statements :
       /\ IsRelationship(said.type, said.source, said.target)
       /\ graph' = UpsertRelationship(graph, said.type, said.source, said.target, said.validity)
  /\ UNCHANGED <<embedded, pc, context, answer, view>>

\* A document's chunk and mentions appear at once, after the nodes that they
\* mention.  Without vectors the chunk is stored all the same.
CommitDocument ==
  /\ \E document \in Documents \ Stored, model \in EmbeddingModels \cup {None} :
       /\ MentionsOf[document] \subseteq graph.nodes
       /\ embedded' = [d \in Stored \cup {document} |->
                         IF d = document THEN model ELSE embedded[d]]
  /\ UNCHANGED <<graph, pc, context, answer, view>>

(***************************************************************************)
(* Questions                                                               *)
(***************************************************************************)

\* The caller may name the entities to start from, known or not.
Ask ==
  /\ pc = "new"
  /\ \E asked \in SUBSET Entities : context' = [EmptyContext EXCEPT !.asked = asked]
  /\ GoTo("search")
  /\ UNCHANGED <<graph, embedded, answer, view>>

\* Plausible mistake. Comparable: whatever model made the vector.
MutComparable(document) == embedded[document] # None

Comparable(document) == embedded[document] = Current

SearchSimilar ==
  Limited({d \in Stored : Comparable(d)}, TopK, [d \in Stored |-> <<-Similarity[d], 0>>])

Search ==
  /\ pc = "search"
  /\ \E hits \in SearchSimilar :
       context' = [context EXCEPT !.passages = {d \in hits : Similarity[d] >= MinimumSimilarity}]
  /\ GoTo("anchor")
  /\ UNCHANGED <<graph, embedded, answer, view>>

\* Seeds: those the caller named, or else what the passages mention.
Anchors ==
  IF context.asked # {} THEN context.asked ELSE UNION {MentionsOf[d] : d \in context.passages}

\* All are seeds, a few are expanded: the caller's first, or any.
Anchor ==
  /\ pc = "anchor"
  /\ \E chosen \in Limited(Anchors, MaxSeeds, [a \in Anchors |-> <<0, 0>>]) :
       context' = [context EXCEPT !.seeds = Anchors, !.todo = chosen]
  /\ GoTo("expand")
  /\ UNCHANGED <<graph, embedded, answer, view>>

\* The first of the two reads of a seed: what it reaches.
Expand ==
  /\ pc = "expand"
  /\ \E seed \in context.todo :
     \E rows \in Neighbourhood(graph, seed, GraphDepth, Types, MaxNeighbours) :
       context' = [context EXCEPT !.reached = @ \cup {row.at : row \in rows},
                                  !.todo = @ \ {seed},
                                  !.seed = seed]
  /\ GoTo("relate")
  /\ UNCHANGED <<graph, embedded, answer, view>>

\* A sentence, in the direction of the edge.  The seed goes by its name only
\* where some seed has reached it by now, and else by its id.
Fact(seed, row) ==
  [subject |-> IF row.is_outgoing THEN seed ELSE row.other,
   type |-> row.type,
   object |-> IF row.is_outgoing THEN row.other ELSE seed,
   validity |-> row.validity,
   named |-> seed \in context.reached]

Relate ==
  /\ pc = "relate"
  /\ \E rows \in RelationshipsOf(graph, context.seed, "both", MaxNeighbours) :
       context' = [context EXCEPT !.facts = @ \cup {Fact(context.seed, row) : row \in rows}]
  /\ GoTo("expand")
  /\ UNCHANGED <<graph, embedded, answer, view>>

IsEmpty == context.passages = {} /\ context.facts = {}
EntityIds == context.seeds \cup context.reached

\* The caller wanted the context, or the question goes on to the model.
Assemble ==
  /\ pc = "expand" /\ context.todo = {}
  /\ \/ Answered(Told("context"))
     \/ IsEmpty /\ Answered(Told("not found"))
     \/ ~IsEmpty /\ GoTo("synthesize") /\ UNCHANGED answer
  /\ UNCHANGED <<graph, embedded, context, view>>

\* What may be cited; a passage has its document's name.
SourceIds == context.passages

\* Citations of what was not supplied are dropped and told of; a refusal, an
\* outage or a response of another form is raised.
Synthesize ==
  /\ pc = "synthesize"
  /\ \/ \E cited \in SUBSET (Documents \cup {Phantom}), sufficient \in BOOLEAN :
          Answered([Told("answer") EXCEPT !.cited = cited \cap SourceIds,
                                          !.grounded = cited \subseteq SourceIds,
                                          !.sufficient = sufficient])
     \/ Answered(Told("error"))
  /\ UNCHANGED <<graph, embedded, context, view>>

(***************************************************************************)
(* Graph views                                                             *)
(***************************************************************************)

\* The neighbourhood is read first, the seed after it.
Visualize ==
  /\ pc = "new"
  /\ \E seed \in Entities, depth \in Depths, types \in Filters :
     \E rows \in Neighbourhood(graph, seed, depth, types, NodeCap) :
       view' = [NoView EXCEPT !.seed = seed, !.depth = depth, !.types = types,
                              !.before = Edges(graph), !.rows = rows]
  /\ GoTo("seed")
  /\ UNCHANGED <<graph, embedded, context, answer>>

Shown == {view.seed} \cup {row.at : row \in view.rows}

FindSeed ==
  /\ pc = "seed"
  /\ IF FindById(graph, view.seed, "any") # {}
       THEN /\ view' = [view EXCEPT !.todo = Shown]
            /\ GoTo("collect")
            /\ UNCHANGED answer
       ELSE Answered(Told("not found")) /\ UNCHANGED view
  /\ UNCHANGED <<graph, embedded, context>>

\* Plausible mistake. Placed: from the node whose relationships are read.
MutPlaced(node, row) == <<row.type, node, row.other>>

\* An edge in the direction it is stored in.
Placed(node, row) ==
  IF row.is_outgoing THEN <<row.type, node, row.other>> ELSE <<row.type, row.other, node>>

\* The relationships of the nodes shown, one node at a time, of every type.
CollectEdges ==
  /\ pc = "collect"
  /\ \E node \in view.todo :
     \E rows \in RelationshipsOf(graph, node, "both", NodeCap) :
       view' = [view EXCEPT
                  !.edges = @ \cup {Placed(node, row) : row \in {r \in rows : r.other \in Shown}},
                  !.todo = @ \ {node}]
  /\ UNCHANGED <<graph, embedded, pc, context, answer>>

Truncated == Cardinality(view.rows) >= NodeCap

ShowView ==
  /\ pc = "collect" /\ view.todo = {}
  /\ Answered(Told("view"))
  /\ UNCHANGED <<graph, embedded, context, view>>

\* How two entities connect: one read.  The database refuses to look for a
\* path from a node to itself; an entity it does not have matches no row.
FindPath ==
  /\ pc = "new"
  /\ \E source \in Entities, target \in Entities, depth \in 1..PathDepth :
       LET paths == ShortestPaths(graph, source, target, depth)
       IN  \/ source = target /\ source \in graph.nodes /\ Answered(Told("error")) /\ UNCHANGED view
           \/ /\ source # target \/ source \notin graph.nodes
              /\ paths = {} /\ Answered(Told("not found")) /\ UNCHANGED view
           \/ /\ source # target
              /\ \E walk \in paths :
                   view' = [NoView EXCEPT !.seed = source, !.before = Edges(graph), !.rows = {walk}]
              /\ Answered(Told("path"))
  /\ UNCHANGED <<graph, embedded, context>>

\* One entity, perhaps with a hint of its type.
GetEntity ==
  /\ pc = "new"
  /\ \E entity \in Entities, type \in {TypeOf[e] : e \in Entities} \cup {"any"} :
       \/ FindById(graph, entity, type) = {} /\ Answered(Told("not found"))
       \/ FindById(graph, entity, type) # {} /\ Answered(Told("entity"))
  /\ UNCHANGED <<graph, embedded, context, view>>

\* The relationships of one entity; of an unknown one, none.
ListRelationships ==
  /\ pc = "new"
  /\ \E seed \in Entities, direction \in {"both", "incoming", "outgoing"} :
     \E rows \in RelationshipsOf(graph, seed, direction, NodeCap) :
       view' = [NoView EXCEPT !.seed = seed, !.types = {direction}, !.before = Edges(graph),
                              !.edges = {Placed(seed, row) : row \in rows}]
  /\ Answered(Told("relationships"))
  /\ UNCHANGED <<graph, embedded, context>>

Next ==
  \/ WriteEntity \/ WriteRelationship \/ CommitDocument
  \/ Ask \/ Search \/ Anchor \/ Expand \/ Relate \/ Assemble \/ Synthesize
  \/ Visualize \/ FindSeed \/ CollectEdges \/ ShowView \/ FindPath
  \/ GetEntity \/ ListRelationships

Spec == Init /\ [][Next]_vars

(***************************************************************************)
(* Properties                                                              *)
(***************************************************************************)
\* Every variable has its type, edges join entities that are in the graph,
\* and no read of a request brings more than its limit.
TypeOK ==
  /\ graph.nodes \subseteq Entities
  /\ \A edge \in Edges(graph) :
       IsRelationship(edge[1], edge[2], edge[3]) /\ {edge[2], edge[3]} \subseteq graph.nodes
  /\ Stored \subseteq Documents /\ pc \in Locations
  /\ context.passages \subseteq Stored /\ Cardinality(context.passages) <= TopK
  /\ context.todo \subseteq context.seeds /\ Cardinality(context.todo) <= MaxSeeds
  /\ Cardinality(context.reached) <= MaxSeeds * MaxNeighbours
  /\ Cardinality(context.facts) <= MaxSeeds * MaxNeighbours
  /\ Cardinality(view.rows) <= NodeCap /\ view.todo \subseteq Shown

\* An answer cites documents that were retrieved for the question: their
\* vectors are of the model that the question was embedded with, and near
\* enough; and it was given something to stand on.
AnswersStandOnSources ==
  answer.outcome = "answer" =>
    /\ \A d \in answer.cited : embedded[d] = Current /\ Similarity[d] >= MinimumSimilarity
    /\ context.passages \cup context.facts # {}

\* What a context tells of the graph is in the graph, whatever was written
\* between its reads: a fact is an edge, in the direction it is stored in, of
\* a seed that the caller named or a passage mentions; and a relationship
\* that has no direction is not told in both.
FactsAreEdges ==
  /\ \A fact \in context.facts :
       /\ <<fact.type, fact.subject, fact.object>> \in Edges(graph)
       /\ {fact.subject, fact.object} \cap context.seeds # {}
       /\ fact.type \in Symmetric =>
            \A other \in context.facts :
              other.type = fact.type => other.subject # fact.object \/ other.object # fact.subject
  /\ \A seed \in context.seeds :
       seed \in context.asked \/ \E d \in context.passages : seed \in MentionsOf[d]

\* Entities within so many hops, over these edges.
Ball(edges, seed, depth) ==
  LET ball[n \in 0..depth] ==
        IF n = 0 THEN {seed}
        ELSE ball[n - 1] \cup {e \in Entities :
               \E edge \in edges : e \in {edge[2], edge[3]}
                                    /\ {edge[2], edge[3]} \cap ball[n - 1] # {}}
  IN  ball[depth]
OfTypes(edges, types) == {edge \in edges : edge[1] \in types}

\* A view is a graph: its edges are stored edges between entities it shows, in
\* their direction, and none of its entities is further away than it says.
\* One that is not truncated leaves out no entity within its depth, and no edge
\* between those shown except of an entity with more than it may read, of
\* all that was there when it was begun.  A path is as short as there was.  A
\* list of relationships below its limit has all that point the way asked for.
ViewsAreTrue ==
  LET within(types, depth) == Ball(OfTypes(view.before, types), view.seed, depth)
  IN  /\ answer.outcome = "view" =>
           /\ \A edge \in view.edges : edge \in Edges(graph) /\ {edge[2], edge[3]} \subseteq Shown
           /\ \A row \in view.rows : row.at \in within(view.types, Len(row.path))
           /\ ~Truncated =>
                /\ within(view.types, view.depth) \subseteq Shown
                /\ \A edge \in view.before :
                     (/\ {edge[2], edge[3]} \subseteq Shown
                      /\ \E end \in {edge[2], edge[3]} :
                           Cardinality(EdgeRows(graph, end, "both")) <= NodeCap)
                     => edge \in view.edges
      /\ answer.outcome = "path" =>
           \A row \in view.rows :
             row.at \in within(Types, Len(row.path)) \ within(Types, Len(row.path) - 1)
      /\ answer.outcome = "relationships" /\ Cardinality(view.edges) < NodeCap =>
           view.edges = {edge \in view.before :
                           \/ edge[2] = view.seed /\ view.types # {"incoming"}
                           \/ edge[3] = view.seed /\ view.types # {"outgoing"}}

=============================================================================
