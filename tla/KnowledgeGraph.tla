------------------------------ MODULE KnowledgeGraph ------------------------------
(***************************************************************************)
(* MarketMind's knowledge graph (marketmind.domain.relationships,          *)
(* marketmind.graph): what may be an edge, how one is written, and the     *)
(* reads that retrieval and the graph endpoints are built from.            *)
(*                                                                         *)
(* A graph is [nodes, edges].  An edge is its dedupe key, <<type, source,  *)
(* target>>, and edges gives what it says of time.  Properties that no     *)
(* read below depends on (names, aliases, sources) are left out; entities  *)
(* are merged by the resolver before they come here (see Resolution).      *)
(***************************************************************************)
EXTENDS Integers, Sequences, FiniteSetsExt, TLC

CONSTANTS
  Entities,
  TypeOf,          \* the entity type of each
  Order,           \* of names, and of ids
  Schema,          \* relationship type -> [sources, targets], entity types
  TypeOrder,       \* of the names of the relationship types
  Symmetric,       \* the relationship types whose direction says nothing
  Validities       \* what an edge says of time: nothing, since when, until when

\* Names differ, and a relationship without direction joins like with like.
ASSUME GraphAssumption ==
  /\ Order \in [Entities -> Nat]
  /\ \A e, f \in Entities : Order[e] = Order[f] => e = f
  /\ \A type \in Symmetric, e, f \in Entities :
       /\ type \in DOMAIN Schema
       /\ TypeOf[e] \in Schema[type].sources
       /\ TypeOf[f] \in Schema[type].targets
       => TypeOf[e] = TypeOf[f]

NoGraph == [nodes |-> {}, edges |-> << >>]
Edges(g) == DOMAIN g.edges

(***************************************************************************)
(* Writing                                                                 *)
(***************************************************************************)
IsRelationship(type, source, target) ==
  /\ source # target
  /\ TypeOf[source] \in Schema[type].sources
  /\ TypeOf[target] \in Schema[type].targets

\* Plausible mistake. CanonicalEndpoints: as the document had them.
MutCanonicalEndpoints(type, source, target) == <<source, target>>

CanonicalEndpoints(type, source, target) ==
  IF /\ type \in Symmetric
     /\ TypeOf[source] = TypeOf[target]
     /\ Order[target] < Order[source]
    THEN <<target, source>>
    ELSE <<source, target>>

UpsertEntity(g, entity) == [g EXCEPT !.nodes = @ \cup {entity}]

\* Nothing is written unless both ends are there; what the edge said of time
\* is replaced, also by nothing.
UpsertRelationship(g, type, source, target, validity) ==
  LET ends == CanonicalEndpoints(type, source, target)
      edge == <<type, ends[1], ends[2]>>
  IN  IF {source, target} \subseteq g.nodes
        THEN [g EXCEPT !.edges = [e \in Edges(g) \cup {edge} |->
                                    IF e = edge THEN validity ELSE g.edges[e]]]
        ELSE g

(***************************************************************************)
(* Reading                                                                 *)
(***************************************************************************)

\* Before in the order of a pair of sort keys.
Before(first, second) ==
  first[1] < second[1] \/ (first[1] = second[1] /\ first[2] < second[2])

\* Plausible mistake. Limited: one row too many.
MutLimited(rows, limit, key) ==
  IF Cardinality(rows) <= limit + 1
    THEN {rows}
    ELSE {kept \in kSubset(limit + 1, rows) :
            \A row \in kept, left \in rows \ kept : ~Before(key[left], key[row])}

\* ORDER BY key LIMIT limit: the results it may have, for ties come in any
\* order.
Limited(rows, limit, key) ==
  IF Cardinality(rows) <= limit
    THEN {rows}
    ELSE {kept \in kSubset(limit, rows) :
            \A row \in kept, left \in rows \ kept : ~Before(key[left], key[row])}

\* The relationships of an entity, each from its point of view.
EdgeRows(g, entity, direction) ==
  {[type |-> edge[1],
    other |-> IF edge[2] = entity THEN edge[3] ELSE edge[2],
    is_outgoing |-> edge[2] = entity,
    validity |-> g.edges[edge]] :
     edge \in {e \in Edges(g) : (entity = e[2] /\ direction # "incoming")
                               \/ (entity = e[3] /\ direction # "outgoing")}}
RelationshipsOf(g, entity, direction, limit) ==
  LET rows == EdgeRows(g, entity, direction)
  IN  Limited(rows, limit, [row \in rows |-> <<TypeOrder[row.type], Order[row.other]>>])

\* A lookup under the wrong type finds nothing.
FindById(g, entity, type) == IF type \in {"any", TypeOf[entity]} THEN g.nodes \cap {entity} ELSE {}

\* A path crosses no relationship twice, but it may return to an entity.
Continuations(g, walk, types) ==
  {edge \in Edges(g) \ Range(walk.path) : edge[1] \in types /\ walk.at \in {edge[2], edge[3]}}

\* The paths from an entity that cross this many relationships.
Walks(g, seed, types, depth) ==
  LET step(walk, edge) ==
        [path |-> Append(walk.path, edge),
         at |-> IF edge[2] = walk.at THEN edge[3] ELSE edge[2]]
      walks[n \in 0..depth] ==
        IF n = 0
          THEN {[path |-> << >>, at |-> seed]}
          ELSE UNION {{step(walk, edge) : edge \in Continuations(g, walk, types)} :
                        walk \in walks[n - 1]}
  IN  walks[depth]

\* One row for every path, however many lead to one entity, the nearest first.
Neighbourhood(g, seed, depth, types, limit) ==
  LET rows == UNION {Walks(g, seed, types, n) : n \in 1..depth}
  IN  Limited(rows, limit, [walk \in rows |-> <<Len(walk.path), Order[walk.at]>>])

\* The paths that the database may answer a question for the shortest with.
ShortestPaths(g, source, target, depth) ==
  LET arriving(n) == {w \in Walks(g, source, DOMAIN Schema, n) : w.at = target}
      lengths == {n \in 1..depth : arriving(n) # {}}
  IN  IF lengths = {} THEN {} ELSE arriving(Min(lengths))
=============================================================================
