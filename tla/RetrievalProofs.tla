---------------------------- MODULE RetrievalProofs ----------------------------
(***************************************************************************)
(* What Retrieval guarantees for any graph, documents and limits: what an  *)
(* answer cites was retrieved for its question, and what a context tells   *)
(* of the graph is in the graph, whatever is written between its reads.    *)
(*                                                                         *)
(* The inductive invariant has three parts for answers: every stored edge  *)
(* is canonical (Canonical), the context holds what the reads so far       *)
(* justify (ContextInv), and an answer is made from a context that no      *)
(* longer changes (AnswerInv).  Limits and views add the finite graph      *)
(* (GraphInv), what a request may still read (CountsInv), and what its     *)
(* view is made of (ViewInv).                                              *)
(***************************************************************************)
EXTENDS Retrieval, FiniteSetTheorems, TLAPS

\* Stored edges are relationships between known entities, and one without
\* direction is stored in the order of its ends.
Canonical ==
  /\ graph = [nodes |-> graph.nodes, edges |-> graph.edges]
  /\ \A edge \in Edges(graph) :
       /\ edge \in Types \X Entities \X Entities
       /\ IsRelationship(edge[1], edge[2], edge[3])
       /\ edge[1] \in Symmetric => Order[edge[2]] < Order[edge[3]]

\* The fields of a context, so far as its request has come.
ContextShape ==
  /\ context = [asked |-> context.asked, passages |-> context.passages, seeds |-> context.seeds,
                todo |-> context.todo, seed |-> context.seed, reached |-> context.reached,
                facts |-> context.facts]
  /\ pc \in {"search", "anchor"} => context.facts = {}
  /\ pc = "search" => context.seeds = {}
  /\ context.todo \subseteq context.seeds
  /\ pc = "relate" => context.seed \in context.seeds

\* Passages were comparable with the question and near enough.
PassagesCompare ==
  \A d \in context.passages :
    d \in Stored /\ embedded[d] = Current /\ Similarity[d] >= MinimumSimilarity

\* Seeds were named by the caller or are mentioned in a passage.
SeedsAreGiven ==
  \A seed \in context.seeds :
    seed \in context.asked \/ \E d \in context.passages : seed \in MentionsOf[d]

\* A fact is a stored edge of a seed.
FactsAreStored ==
  \A fact \in context.facts :
    /\ <<fact.type, fact.subject, fact.object>> \in Edges(graph)
    /\ {fact.subject, fact.object} \cap context.seeds # {}

ContextInv == ContextShape /\ PassagesCompare /\ SeedsAreGiven /\ FactsAreStored

\* The model is asked only with something to stand on, and cites only that.
AnswerInv ==
  /\ pc = "synthesize" => ~IsEmpty
  /\ pc # "over" => answer = NoAnswer
  /\ answer.outcome = "answer" => answer.cited \subseteq context.passages /\ ~IsEmpty

RetrievalInv == Canonical /\ ContextInv /\ AnswerInv

\* What is read of an entity's relationships, to whatever limit, are rows of
\* its edges.
LEMMA RowsAreEdges ==
  ASSUME NEW g, NEW entity, NEW direction, NEW limit,
         NEW rows \in RelationshipsOf(g, entity, direction, limit)
  PROVE  rows \subseteq EdgeRows(g, entity, direction)
BY DEF RelationshipsOf, Limited, kSubset

\* A row of a well-formed graph, told as a sentence, is the edge it is of.
LEMMA FactsTellEdges ==
  ASSUME Canonical, NEW seed, NEW row \in EdgeRows(graph, seed, "both")
  PROVE  LET fact == Fact(seed, row)
         IN  /\ <<fact.type, fact.subject, fact.object>> \in Edges(graph)
             /\ seed \in {fact.subject, fact.object}
<1>1. PICK edge \in Edges(graph) :
        /\ seed \in {edge[2], edge[3]}
        /\ row = [type |-> edge[1],
                  other |-> IF edge[2] = seed THEN edge[3] ELSE edge[2],
                  is_outgoing |-> edge[2] = seed,
                  validity |-> graph.edges[edge]]
  BY DEF EdgeRows
<1>2. edge = <<edge[1], edge[2], edge[3]>>
  BY DEF Canonical
<1>3. QED
  BY <1>1, <1>2 DEF Fact

\* The edge that a statement is stored as is canonical, whichever end the
\* statement begins with.
LEMMA StoredCanonically ==
  ASSUME NEW said \in Statements, IsRelationship(said.type, said.source, said.target)
  PROVE  LET ends == CanonicalEndpoints(said.type, said.source, said.target)
             edge == <<said.type, ends[1], ends[2]>>
         IN  /\ edge \in Types \X Entities \X Entities
             /\ IsRelationship(said.type, ends[1], ends[2])
             /\ said.type \in Symmetric => Order[ends[1]] < Order[ends[2]]
<1>1. said.type \in Types /\ said.source \in Entities /\ said.target \in Entities
  BY RetrievalAssumption DEF Types
<1>2. Order[said.source] \in Nat /\ Order[said.target] \in Nat
  BY <1>1, GraphAssumption
<1>3. Order[said.source] # Order[said.target]
  BY <1>1, GraphAssumption DEF IsRelationship
<1>4. said.type \in Symmetric => TypeOf[said.source] = TypeOf[said.target]
  BY <1>1, GraphAssumption DEF IsRelationship, Types
<1>5. QED
  BY <1>1, <1>2, <1>3, <1>4 DEF IsRelationship, CanonicalEndpoints

LEMMA InitRetrieval == Init => RetrievalInv
BY DEF Init, RetrievalInv, Canonical, ContextInv, ContextShape, PassagesCompare, SeedsAreGiven,
       FactsAreStored, AnswerInv, NoGraph, Edges, EmptyContext, NoAnswer, Types

\* A write that keeps every edge keeps what contexts and answers rest on.
LEMMA WriteKeepsInv ==
  ASSUME RetrievalInv, Canonical', Edges(graph) \subseteq Edges(graph'),
         UNCHANGED <<embedded, pc, context, answer>>
  PROVE  RetrievalInv'
BY DEF RetrievalInv, ContextInv, ContextShape, PassagesCompare, SeedsAreGiven, FactsAreStored,
       AnswerInv, IsEmpty, Stored

\* So does a step of a request that leaves the databases and its context.
LEMMA RequestKeepsInv ==
  ASSUME RetrievalInv, UNCHANGED <<graph, embedded, context>>, AnswerInv',
         pc' \notin {"search", "anchor", "relate"}
  PROVE  RetrievalInv'
BY DEF RetrievalInv, Canonical, ContextInv, ContextShape, PassagesCompare, SeedsAreGiven,
       FactsAreStored, Edges, Stored

LEMMA StepRetrieval == RetrievalInv /\ [Next]_vars => RetrievalInv'
<1> SUFFICES ASSUME RetrievalInv, [Next]_vars PROVE RetrievalInv'
  OBVIOUS
<1>1. CASE WriteEntity
  <2>1. /\ graph'.edges = graph.edges
        /\ graph' = [nodes |-> graph'.nodes, edges |-> graph'.edges]
    BY <1>1 DEF WriteEntity, UpsertEntity, RetrievalInv, Canonical
  <2>2. Canonical' /\ Edges(graph) \subseteq Edges(graph')
    BY <2>1 DEF RetrievalInv, Canonical, Edges
  <2>3. QED
    BY <1>1, <2>2, WriteKeepsInv DEF WriteEntity
<1>2. CASE WriteRelationship
  <2>1. PICK said \in Statements :
          /\ IsRelationship(said.type, said.source, said.target)
          /\ graph' =
               UpsertRelationship(graph, said.type, said.source, said.target, said.validity)
    BY <1>2 DEF WriteRelationship
  <2> DEFINE ends == CanonicalEndpoints(said.type, said.source, said.target)
             edge == <<said.type, ends[1], ends[2]>>
  <2>2. /\ graph' = [nodes |-> graph'.nodes, edges |-> graph'.edges]
        /\ Edges(graph) \subseteq Edges(graph') /\ Edges(graph') \subseteq Edges(graph) \cup {edge}
    BY <2>1 DEF UpsertRelationship, RetrievalInv, Canonical, Edges
  <2>3. /\ edge \in Types \X Entities \X Entities
        /\ IsRelationship(said.type, ends[1], ends[2])
        /\ said.type \in Symmetric => Order[ends[1]] < Order[ends[2]]
    BY <2>1, StoredCanonically
  <2>4. Canonical'
    <3>1. ASSUME NEW e \in Edges(graph')
          PROVE  /\ e \in Types \X Entities \X Entities
                 /\ IsRelationship(e[1], e[2], e[3])
                 /\ e[1] \in Symmetric => Order[e[2]] < Order[e[3]]
      <4>1. CASE e = edge
        <5>1. e[1] = said.type /\ e[2] = ends[1] /\ e[3] = ends[2]
          BY <4>1
        <5>2. QED
          BY <4>1, <5>1, <2>3
      <4>2. CASE e \in Edges(graph)
        BY <4>2 DEF RetrievalInv, Canonical
      <4>3. QED
        BY <2>2, <3>1, <4>1, <4>2
    <3>2. QED
      BY <2>2, <3>1 DEF Canonical, Types
  <2>5. QED
    BY <1>2, <2>2, <2>4, WriteKeepsInv DEF WriteRelationship
<1>3. CASE CommitDocument
  <2>1. \A d \in Stored : d \in Stored' /\ embedded'[d] = embedded[d]
    BY <1>3 DEF CommitDocument, Stored
  <2>2. QED
    BY <1>3, <2>1
    DEF CommitDocument, RetrievalInv, Canonical, ContextInv, ContextShape, PassagesCompare,
        SeedsAreGiven, FactsAreStored, AnswerInv, IsEmpty, Edges
<1>4. CASE Ask
  <2>1. PICK asked \in SUBSET Entities : context' = [EmptyContext EXCEPT !.asked = asked]
    BY <1>4 DEF Ask
  <2>2. context' = [asked |-> asked, passages |-> {}, seeds |-> {}, todo |-> {}, seed |-> None,
                    reached |-> {}, facts |-> {}]
    BY <2>1 DEF EmptyContext
  <2>3. ContextInv'
    BY <1>4, <2>2
    DEF Ask, GoTo, ContextInv, ContextShape, PassagesCompare, SeedsAreGiven, FactsAreStored
  <2>4. AnswerInv' /\ Canonical'
    BY <1>4 DEF Ask, GoTo, RetrievalInv, Canonical, AnswerInv, NoAnswer, Edges
  <2>5. QED
    BY <2>3, <2>4 DEF RetrievalInv
<1>5. CASE Search
  <2>1. PICK hits \in SearchSimilar :
          context' = [context EXCEPT !.passages =
                        {d \in hits : Similarity[d] >= MinimumSimilarity}]
    BY <1>5 DEF Search
  <2>2. hits \subseteq {d \in Stored : Comparable(d)}
    BY DEF SearchSimilar, Limited, kSubset
  <2> DEFINE near == {d \in hits : Similarity[d] >= MinimumSimilarity}
  <2>3. \A d \in near :
          d \in Stored /\ embedded[d] = Current /\ Similarity[d] >= MinimumSimilarity
    BY <2>2 DEF Comparable
  <2>4. context' = [context EXCEPT !.passages = near]
    BY <2>1
  <2> HIDE DEF near
  <2>5. ContextInv'
    BY <1>5, <2>3, <2>4
    DEF Search, GoTo, RetrievalInv, ContextInv, ContextShape, PassagesCompare, SeedsAreGiven,
        FactsAreStored, Stored
  <2>6. AnswerInv' /\ Canonical'
    BY <1>5 DEF Search, GoTo, RetrievalInv, Canonical, AnswerInv, NoAnswer, Edges
  <2>7. QED
    BY <2>5, <2>6 DEF RetrievalInv
<1>6. CASE Anchor
  <2>1. PICK chosen :
          /\ chosen \in Limited(Anchors, MaxSeeds, [a \in Anchors |-> <<0, 0>>])
          /\ context' = [context EXCEPT !.seeds = Anchors, !.todo = chosen]
    BY <1>6 DEF Anchor
  <2>2. chosen \subseteq Anchors
    BY <2>1 DEF Limited, kSubset
  <2>3. \A seed \in Anchors :
          seed \in context.asked \/ \E d \in context.passages : seed \in MentionsOf[d]
    BY DEF Anchors
  <2>4. ContextInv'
    BY <1>6, <2>1, <2>2, <2>3
    DEF Anchor, GoTo, RetrievalInv, ContextInv, ContextShape, PassagesCompare, SeedsAreGiven,
        FactsAreStored, Stored
  <2>5. pc = "anchor" /\ pc' = "expand" /\ UNCHANGED <<graph, embedded, answer>>
    BY <1>6 DEF Anchor, GoTo
  <2>6. AnswerInv' /\ Canonical'
    BY <2>5 DEF RetrievalInv, Canonical, AnswerInv, NoAnswer, Edges
  <2>7. QED
    BY <2>4, <2>6 DEF RetrievalInv
<1>7. CASE Expand
  <2>1. PICK seed, reached :
          context' = [context EXCEPT !.reached = reached, !.todo = @ \ {seed}, !.seed = seed]
    BY <1>7 DEF Expand
  <2>2. ContextInv'
    BY <1>7, <2>1
    DEF Expand, GoTo, RetrievalInv, ContextInv, ContextShape, PassagesCompare, SeedsAreGiven,
        FactsAreStored, Edges, Stored
  <2>3. AnswerInv' /\ Canonical'
    BY <1>7 DEF Expand, GoTo, RetrievalInv, Canonical, AnswerInv, NoAnswer, Edges
  <2>4. QED
    BY <2>2, <2>3 DEF RetrievalInv
<1>8. CASE Relate
  <2>1. PICK rows \in RelationshipsOf(graph, context.seed, "both", MaxNeighbours) :
          context' = [context EXCEPT !.facts = @ \cup {Fact(context.seed, row) : row \in rows}]
    BY <1>8 DEF Relate
  <2>2. \A row \in rows :
          LET fact == Fact(context.seed, row)
          IN  /\ <<fact.type, fact.subject, fact.object>> \in Edges(graph)
              /\ context.seed \in {fact.subject, fact.object}
    BY RowsAreEdges, FactsTellEdges DEF RetrievalInv
  <2>3. context.seed \in context.seeds
    BY <1>8 DEF Relate, RetrievalInv, ContextInv, ContextShape
  <2> DEFINE told == {Fact(context.seed, row) : row \in rows}
  <2>4. \A fact \in told :
          /\ <<fact.type, fact.subject, fact.object>> \in Edges(graph)
          /\ {fact.subject, fact.object} \cap context.seeds # {}
    BY <2>2, <2>3
  <2>5. context' = [context EXCEPT !.facts = @ \cup told]
    BY <2>1
  <2> HIDE DEF told
  <2>6. FactsAreStored'
    BY <1>8, <2>4, <2>5
    DEF Relate, RetrievalInv, ContextInv, ContextShape, FactsAreStored, Edges
  <2>7. QED
    BY <1>8, <2>5, <2>6
    DEF Relate, GoTo, RetrievalInv, Canonical, ContextInv, ContextShape, PassagesCompare,
        SeedsAreGiven, AnswerInv, NoAnswer, Edges, Stored
<1>9. CASE Assemble
  BY <1>9, RequestKeepsInv
  DEF Assemble, Answered, Told, GoTo, NoAnswer, RetrievalInv, AnswerInv, IsEmpty
<1>10. CASE Synthesize
  BY <1>10, RequestKeepsInv
  DEF Synthesize, SourceIds, Answered, Told, GoTo, NoAnswer, RetrievalInv, AnswerInv, IsEmpty
<1>11. CASE Visualize
  BY <1>11, RequestKeepsInv DEF Visualize, GoTo, NoAnswer, RetrievalInv, AnswerInv
<1>12. CASE FindSeed
  <2>1. /\ UNCHANGED <<graph, embedded, context>> /\ pc = "seed"
        /\ \/ pc' = "collect" /\ UNCHANGED answer
           \/ pc' = "over" /\ answer'.outcome = "not found"
    BY <1>12 DEF FindSeed, Answered, Told, GoTo, NoAnswer
  <2>2. answer = NoAnswer
    BY <2>1 DEF RetrievalInv, AnswerInv
  <2>3. CASE pc' = "collect" /\ UNCHANGED answer
    <3>1. AnswerInv'
      BY <2>2, <2>3 DEF AnswerInv, NoAnswer
    <3>2. QED
      BY <2>1, <2>3, <3>1, RequestKeepsInv
  <2>4. CASE pc' = "over" /\ answer'.outcome = "not found"
    <3>1. AnswerInv'
      BY <2>4 DEF AnswerInv
    <3>2. QED
      BY <2>1, <2>4, <3>1, RequestKeepsInv
  <2>5. QED
    BY <2>1, <2>3, <2>4
<1>13. CASE CollectEdges
  BY <1>13, RequestKeepsInv DEF CollectEdges, NoAnswer, RetrievalInv, AnswerInv
<1>14. CASE ShowView
  BY <1>14, RequestKeepsInv
  DEF ShowView, Answered, Told, GoTo, NoAnswer, RetrievalInv, AnswerInv
<1>15. CASE FindPath
  BY <1>15, RequestKeepsInv
  DEF FindPath, Answered, Told, GoTo, NoAnswer, RetrievalInv, AnswerInv
<1>16. CASE GetEntity
  BY <1>16, RequestKeepsInv
  DEF GetEntity, Answered, Told, GoTo, NoAnswer, RetrievalInv, AnswerInv
<1>17. CASE ListRelationships
  BY <1>17, RequestKeepsInv
  DEF ListRelationships, Answered, Told, GoTo, NoAnswer, RetrievalInv, AnswerInv
<1>18. CASE UNCHANGED vars
  BY <1>18, WriteKeepsInv DEF vars, RetrievalInv, Canonical, Edges
<1>19. QED
  BY <1>1, <1>2, <1>3, <1>4, <1>5, <1>6, <1>7, <1>8, <1>9, <1>10, <1>11, <1>12, <1>13, <1>14,
     <1>15, <1>16, <1>17, <1>18 DEF Next

LEMMA AlwaysRetrieval == Spec => []RetrievalInv
BY InitRetrieval, StepRetrieval, PTL DEF Spec

\* Whatever is ingested meanwhile, an answer cites passages that were
\* compared like with like, and the model was given something.
THEOREM AnswersCiteTheComparable == Spec => []AnswersStandOnSources
<1>1. RetrievalInv => AnswersStandOnSources
  BY DEF RetrievalInv, ContextInv, PassagesCompare, AnswerInv, AnswersStandOnSources, IsEmpty
<1>2. QED
  BY <1>1, AlwaysRetrieval, PTL

\* Whatever is ingested between the reads of a request, the facts of its
\* context are stored edges of its seeds, and no relationship without
\* direction is told in both.
THEOREM FactsAreInTheGraph == Spec => []FactsAreEdges
<1>1. ASSUME RetrievalInv PROVE FactsAreEdges
  <2>1. ASSUME NEW fact \in context.facts, NEW other \in context.facts,
               fact.type \in Symmetric, other.type = fact.type,
               other.subject = fact.object, other.object = fact.subject
        PROVE  FALSE
    <3>1. /\ <<fact.type, fact.subject, fact.object>> \in Edges(graph)
          /\ <<fact.type, fact.object, fact.subject>> \in Edges(graph)
      BY <1>1, <2>1 DEF RetrievalInv, ContextInv, FactsAreStored
    <3>2. /\ Order[fact.subject] < Order[fact.object]
          /\ Order[fact.object] < Order[fact.subject]
          /\ fact.subject \in Entities /\ fact.object \in Entities
      BY <1>1, <2>1, <3>1 DEF RetrievalInv, Canonical
    <3>3. QED
      BY <3>2, GraphAssumption
  <2>2. QED
    BY <1>1, <2>1 DEF RetrievalInv, ContextInv, FactsAreStored, SeedsAreGiven, FactsAreEdges
<1>2. QED
  BY <1>1, AlwaysRetrieval, PTL

(***************************************************************************)
(* Least numbers, and counting                                             *)
(***************************************************************************)
\* A set of natural numbers has a least one: the intervals up to them are
\* finite sets, which inclusion orders well.
LEMMA LeastNumber ==
  ASSUME NEW S \in SUBSET Nat, S # {}
  PROVE  \E n \in S : \A m \in S : n <= m
<1> DEFINE T == {1..n : n \in S}
<1>1. T \subseteq FiniteSubsetsOf(Nat) /\ T # {}
  <2>1. ASSUME NEW n \in S PROVE 1..n \in FiniteSubsetsOf(Nat)
    BY FS_Interval DEF FiniteSubsetsOf
  <2>2. QED
    BY <2>1
<1>2. PICK x \in T : \A y \in T : <<y, x>> \notin StrictSubsetOrdering(Nat)
  BY <1>1, FS_StrictSubsetOrderingWellFounded, WFMin
<1>3. PICK n \in S : x = 1..n
  BY <1>2
<1>4. ASSUME NEW m \in S, ~(n <= m) PROVE FALSE
  <2>1. <<1..m, 1..n>> \notin StrictSubsetOrdering(Nat)
    BY <1>2, <1>3
  <2>2. 1..m \subseteq 1..n /\ n \in 1..n /\ n \notin 1..m /\ 1..n \subseteq Nat
    BY <1>4
  <2>3. QED
    BY <2>1, <2>2 DEF StrictSubsetOrdering
<1>5. QED
  BY <1>4

\* What holds of zero, and of the successor of what it holds of, holds of all.
LEMMA NumbersReached ==
  ASSUME NEW S \in SUBSET Nat, 0 \in S, \A n \in S : n + 1 \in S
  PROVE  S = Nat
<1> SUFFICES ASSUME Nat \ S # {} PROVE FALSE
  OBVIOUS
<1>1. PICK n \in Nat \ S : \A m \in Nat \ S : n <= m
  BY LeastNumber
<1>2. n # 0 /\ n - 1 \in Nat /\ n - 1 \in S
  BY <1>1
<1>3. QED
  BY <1>1, <1>2

\* The values of a function on a finite set are no more than the set has
\* members, and as many when the function is one to one.
LEMMA FiniteImage ==
  ASSUME NEW S, IsFiniteSet(S), NEW f, DOMAIN f = S
  PROVE  LET T == {f[x] : x \in S}
         IN  /\ IsFiniteSet(T) /\ Cardinality(T) <= Cardinality(S)
             /\ (\A x, y \in S : f[x] = f[y] => x = y) => Cardinality(T) = Cardinality(S)
<1> DEFINE T == {f[x] : x \in S}
           h == [x \in S |-> f[x]]
<1>1. h \in Surjection(S, T)
  BY DEF Surjection
<1>2. (\A x, y \in S : f[x] = f[y] => x = y) => h \in Injection(S, T)
  BY <1>1 DEF Injection, Surjection, IsInjective
<1> HIDE DEF h, T
<1>3. /\ IsFiniteSet(T) /\ Cardinality(T) <= Cardinality(S)
      /\ Cardinality(T) = Cardinality(S) <=> h \in Injection(S, T)
  BY <1>1, FS_Surjection
<1>4. QED
  BY <1>2, <1>3 DEF T

\* What a limit keeps of finitely many rows are some of them, no more than the
\* limit, and all when there are no more, or when the limit is not reached.
LEMMA LimitsHold ==
  ASSUME NEW rows, IsFiniteSet(rows), NEW limit \in Nat, NEW key, NEW kept \in Limited(rows, limit, key)
  PROVE  /\ kept \subseteq rows /\ IsFiniteSet(kept) /\ Cardinality(kept) <= limit
         /\ Cardinality(kept) \in Nat
         /\ Cardinality(rows) <= limit => kept = rows
         /\ Cardinality(kept) < limit => kept = rows
<1>1. Cardinality(rows) \in Nat
  BY FS_CardinalityType
<1>2. CASE Cardinality(rows) <= limit
  BY <1>1, <1>2 DEF Limited
<1>3. CASE ~(Cardinality(rows) <= limit)
  <2>1. kept \in SUBSET rows /\ Cardinality(kept) = limit
    BY <1>3 DEF Limited, kSubset
  <2>2. IsFiniteSet(kept)
    BY <2>1, FS_Subset
  <2>3. QED
    BY <1>3, <2>1, <2>2
<1>4. QED
  BY <1>2, <1>3

(***************************************************************************)
(* Balls and walks                                                         *)
(***************************************************************************)
\* The entities at the ends of edges that have an end among those near.
Joined(edges, near) ==
  {e \in Entities : \E edge \in edges : e \in {edge[2], edge[3]} /\ {edge[2], edge[3]} \cap near # {}}
IsBall(edges, seed, depth, ball) ==
  ball = [n \in 0..depth |->
            IF n = 0 THEN {seed}
            ELSE ball[n - 1] \cup {e \in Entities :
                   \E edge \in edges : e \in {edge[2], edge[3]}
                                        /\ {edge[2], edge[3]} \cap ball[n - 1] # {}}]

LEMMA BallStart ==
  ASSUME NEW edges, NEW seed, NEW d \in Nat, NEW ball, IsBall(edges, seed, d, ball)
  PROVE  ball[0] = {seed}
BY DEF IsBall

LEMMA BallNext ==
  ASSUME NEW edges, NEW seed, NEW d \in Nat, NEW ball, IsBall(edges, seed, d, ball),
         NEW m \in 0..d, m # 0
  PROVE  ball[m] = ball[m - 1] \cup Joined(edges, ball[m - 1])
<1>1. \A k \in 0..d : ball[k] = IF k = 0 THEN {seed} ELSE ball[k - 1] \cup Joined(edges, ball[k - 1])
  BY DEF IsBall, Joined
<1>2. QED
  BY <1>1

\* Two such functions agree as far as both go.
LEMMA BallsAgree ==
  ASSUME NEW edges, NEW seed, NEW c \in Nat, NEW d \in Nat, c <= d,
         NEW f, IsBall(edges, seed, c, f), NEW g, IsBall(edges, seed, d, g)
  PROVE  \A n \in 0..c : f[n] = g[n]
<1> DEFINE S == {n \in Nat : n <= c => f[n] = g[n]}
<1>1. 0 \in S
  <2>1. f[0] = {seed} 
    BY BallStart
  <2>2. g[0] = {seed} 
    BY BallStart
  <2>3. QED
    BY <2>1, <2>2
<1>2. ASSUME NEW n \in S PROVE n + 1 \in S
  <2> SUFFICES ASSUME n + 1 <= c PROVE f[n + 1] = g[n + 1]
    OBVIOUS
  <2> DEFINE m == n + 1
  <2>1. m \in 0..c /\ m \in 0..d /\ m # 0 /\ m - 1 = n /\ f[n] = g[n]
    OBVIOUS
  <2> HIDE DEF m
  <2>2. f[m] = f[m - 1] \cup Joined(edges, f[m - 1])
    BY <2>1, BallNext
  <2>3. g[m] = g[m - 1] \cup Joined(edges, g[m - 1])
    BY <2>1, BallNext
  <2>4. f[m] = g[m]
    BY <2>1, <2>2, <2>3
  <2>5. QED
    BY <2>4 DEF m
<1>3. S = Nat
  <2> HIDE DEF S
  <2>1. S \in SUBSET Nat
    BY DEF S
  <2>2. QED
    BY <1>1, <1>2, <2>1, NumbersReached
<1>4. QED
  BY <1>3

\* There is one for every depth.
LEMMA BallsExist ==
  ASSUME NEW edges, NEW seed, NEW d \in Nat
  PROVE  \E ball : IsBall(edges, seed, d, ball)
<1> DEFINE S == {n \in Nat : \E ball : IsBall(edges, seed, n, ball)}
<1>1. 0 \in S
  <2>1. IsBall(edges, seed, 0, [n \in 0..0 |-> {seed}])
    BY DEF IsBall
  <2>2. QED
    BY <2>1
<1>2. ASSUME NEW n \in S PROVE n + 1 \in S
  <2>1. PICK f : IsBall(edges, seed, n, f)
    OBVIOUS
  <2>2. ASSUME NEW m \in 0..n, m # 0 PROVE f[m] = f[m - 1] \cup Joined(edges, f[m - 1])
    <3> HIDE DEF S
    <3>1. n \in Nat
      BY DEF S
    <3>2. QED
      BY <2>1, <2>2, <3>1, BallNext
  <2> DEFINE g == [m \in 0 .. n + 1 |->
                     IF m = n + 1 THEN f[n] \cup Joined(edges, f[n]) ELSE f[m]]
  <2>3. f[0] = {seed}
    BY <2>1, BallStart
  <2>4. ASSUME NEW m \in 0 .. n + 1
        PROVE  g[m] = IF m = 0 THEN {seed} ELSE g[m - 1] \cup Joined(edges, g[m - 1])
    <3>1. CASE m = 0
      BY <2>3, <3>1
    <3>2. CASE m = n + 1
      BY <3>2
    <3>3. CASE m # 0 /\ m # n + 1
      <4>1. m \in 0..n /\ m # 0
        BY <3>3
      <4>2. f[m] = f[m - 1] \cup Joined(edges, f[m - 1])
        BY <2>2, <4>1
      <4>3. QED
        BY <3>3, <4>1, <4>2
    <3>4. QED
      BY <3>1, <3>2, <3>3
  <2>5. IsBall(edges, seed, n + 1, g)
    <3>1. g = [m \in 0 .. n + 1 |-> g[m]]
      OBVIOUS
    <3> HIDE DEF g
    <3>2. QED
      BY <2>4, <3>1 DEF IsBall, Joined
  <2>6. QED
    BY <2>5
<1>3. S = Nat
  <2> HIDE DEF S
  <2>1. S \in SUBSET Nat
    BY DEF S
  <2>2. QED
    BY <1>1, <1>2, <2>1, NumbersReached
<1>4. QED
  BY <1>3

LEMMA BallIs ==
  ASSUME NEW edges, NEW seed, NEW d \in Nat
  PROVE  \E ball : IsBall(edges, seed, d, ball) /\ Ball(edges, seed, d) = ball[d]
<1> DEFINE ball == CHOOSE ball : IsBall(edges, seed, d, ball)
<1>1. Ball(edges, seed, d) = ball[d]
  BY DEF Ball, IsBall
<1>2. IsBall(edges, seed, d, ball)
  BY BallsExist
<1>3. QED
  BY <1>1, <1>2

\* What is within no hop is the seed; within one hop more, what is joined to
\* what was within reach.
LEMMA BallStep ==
  ASSUME NEW edges, NEW seed
  PROVE  /\ Ball(edges, seed, 0) = {seed}
         /\ \A n \in Nat : Ball(edges, seed, n + 1)
              = Ball(edges, seed, n) \cup Joined(edges, Ball(edges, seed, n))
<1>1. Ball(edges, seed, 0) = {seed}
  BY BallIs, BallStart
<1>2. ASSUME NEW n \in Nat
      PROVE  Ball(edges, seed, n + 1)
               = Ball(edges, seed, n) \cup Joined(edges, Ball(edges, seed, n))
  <2>1. PICK f : IsBall(edges, seed, n, f) /\ Ball(edges, seed, n) = f[n]
    BY BallIs
  <2>2. PICK g : IsBall(edges, seed, n + 1, g) /\ Ball(edges, seed, n + 1) = g[n + 1]
    BY BallIs
  <2>3. f[n] = g[n]
    BY <2>1, <2>2, BallsAgree
  <2> DEFINE m == n + 1
  <2>4. m \in Nat /\ m \in 0..m /\ m # 0 /\ m - 1 = n /\ IsBall(edges, seed, m, g)
    BY <2>2
  <2> HIDE DEF m
  <2>5. g[m] = g[n] \cup Joined(edges, g[n])
    BY <2>4, BallNext
  <2>6. QED
    BY <2>1, <2>2, <2>3, <2>5 DEF m
<1>3. QED
  BY <1>1, <1>2

LEMMA BallsGrow ==
  ASSUME NEW edges, NEW seed, NEW m \in Nat, NEW n \in Nat, m <= n
  PROVE  Ball(edges, seed, m) \subseteq Ball(edges, seed, n)
<1> DEFINE S == {k \in Nat : Ball(edges, seed, m) \subseteq Ball(edges, seed, m + k)}
<1>1. 0 \in S
  OBVIOUS
<1>2. ASSUME NEW k \in S PROVE k + 1 \in S
  <2>1. m + k \in Nat /\ m + (k + 1) = (m + k) + 1
    OBVIOUS
  <2>2. Ball(edges, seed, m + k) \subseteq Ball(edges, seed, (m + k) + 1)
    BY <2>1, BallStep
  <2>3. QED
    BY <2>1, <2>2
<1>3. S = Nat
  <2> HIDE DEF S
  <2>1. S \in SUBSET Nat
    BY DEF S
  <2>2. QED
    BY <1>1, <1>2, <2>1, NumbersReached
<1>4. n - m \in Nat /\ m + (n - m) = n
  OBVIOUS
<1>5. n - m \in S
  BY <1>3, <1>4
<1>6. QED
  BY <1>4, <1>5

\* A walk that has not begun, and the walks that are longer by one relationship.
Standing(seed) == {[path |-> << >>, at |-> seed]}
Crossed(walk, edge) ==
  [path |-> Append(walk.path, edge), at |-> IF edge[2] = walk.at THEN edge[3] ELSE edge[2]]
Extended(g, types, walks) ==
  UNION {{Crossed(walk, edge) : edge \in Continuations(g, walk, types)} : walk \in walks}
IsWalks(g, seed, types, depth, walks) ==
  walks = [n \in 0..depth |->
             IF n = 0 THEN Standing(seed) ELSE Extended(g, types, walks[n - 1])]

LEMMA WalksStart ==
  ASSUME NEW g, NEW seed, NEW types, NEW d \in Nat, NEW walks, IsWalks(g, seed, types, d, walks)
  PROVE  walks[0] = Standing(seed)
BY DEF IsWalks

LEMMA WalksNext ==
  ASSUME NEW g, NEW seed, NEW types, NEW d \in Nat, NEW walks, IsWalks(g, seed, types, d, walks),
         NEW m \in 0..d, m # 0
  PROVE  walks[m] = Extended(g, types, walks[m - 1])
<1>1. \A k \in 0..d : walks[k] = IF k = 0 THEN Standing(seed) ELSE Extended(g, types, walks[k - 1])
  BY DEF IsWalks, Extended
<1>2. QED
  BY <1>1

LEMMA WalksAgree ==
  ASSUME NEW g, NEW seed, NEW types, NEW c \in Nat, NEW d \in Nat, c <= d,
         NEW f, IsWalks(g, seed, types, c, f), NEW h, IsWalks(g, seed, types, d, h)
  PROVE  \A n \in 0..c : f[n] = h[n]
<1>1. ASSUME NEW m \in 0..c, m # 0 PROVE f[m] = Extended(g, types, f[m - 1])
  BY <1>1, WalksNext
<1>2. ASSUME NEW m \in 0..d, m # 0 PROVE h[m] = Extended(g, types, h[m - 1])
  BY <1>2, WalksNext
<1> DEFINE S == {n \in Nat : n <= c => f[n] = h[n]}
<1>3. 0 \in S
  <2>1. f[0] = Standing(seed) 
    BY WalksStart
  <2>2. h[0] = Standing(seed) 
    BY WalksStart
  <2>3. QED
    BY <2>1, <2>2
<1>4. ASSUME NEW n \in S PROVE n + 1 \in S
  <2> SUFFICES ASSUME n + 1 <= c PROVE f[n + 1] = h[n + 1]
    OBVIOUS
  <2> DEFINE m == n + 1
  <2>1. m \in 0..c /\ m \in 0..d /\ m # 0 /\ m - 1 = n /\ f[n] = h[n]
    OBVIOUS
  <2> HIDE DEF m, S
  <2>2. f[m] = Extended(g, types, f[m - 1])
    BY <1>1, <2>1
  <2>3. h[m] = Extended(g, types, h[m - 1])
    BY <1>2, <2>1
  <2>4. f[m] = h[m]
    BY <2>1, <2>2, <2>3
  <2>5. QED
    BY <2>4 DEF m
<1>5. S = Nat
  <2> HIDE DEF S
  <2>1. S \in SUBSET Nat
    BY DEF S
  <2>2. QED
    BY <1>3, <1>4, <2>1, NumbersReached
<1>6. QED
  BY <1>5

LEMMA WalksExist ==
  ASSUME NEW g, NEW seed, NEW types, NEW d \in Nat
  PROVE  \E walks : IsWalks(g, seed, types, d, walks)
<1> DEFINE S == {n \in Nat : \E walks : IsWalks(g, seed, types, n, walks)}
<1>1. 0 \in S
  <2>1. IsWalks(g, seed, types, 0, [n \in 0..0 |-> Standing(seed)])
    BY DEF IsWalks
  <2>2. QED
    BY <2>1
<1>2. ASSUME NEW n \in S PROVE n + 1 \in S
  <2>1. PICK f : IsWalks(g, seed, types, n, f)
    OBVIOUS
  <2>2. ASSUME NEW m \in 0..n, m # 0 PROVE f[m] = Extended(g, types, f[m - 1])
    <3> HIDE DEF S
    <3>1. n \in Nat
      BY DEF S
    <3>2. QED
      BY <2>1, <2>2, <3>1, WalksNext
  <2> DEFINE h == [m \in 0 .. n + 1 |->
                     IF m = n + 1 THEN Extended(g, types, f[n]) ELSE f[m]]
  <2>3. f[0] = Standing(seed)
    BY <2>1, WalksStart
  <2>4. ASSUME NEW m \in 0 .. n + 1
        PROVE  h[m] = IF m = 0 THEN Standing(seed) ELSE Extended(g, types, h[m - 1])
    <3>1. CASE m = 0
      BY <2>3, <3>1
    <3>2. CASE m = n + 1
      BY <3>2
    <3>3. CASE m # 0 /\ m # n + 1
      <4>1. m \in 0..n /\ m # 0
        BY <3>3
      <4>2. f[m] = Extended(g, types, f[m - 1])
        BY <2>2, <4>1
      <4>3. QED
        BY <3>3, <4>1, <4>2
    <3>4. QED
      BY <3>1, <3>2, <3>3
  <2>5. IsWalks(g, seed, types, n + 1, h)
    <3>1. h = [m \in 0 .. n + 1 |-> h[m]]
      OBVIOUS
    <3> HIDE DEF h
    <3>2. QED
      BY <2>4, <3>1 DEF IsWalks, Extended
  <2>6. QED
    BY <2>5
<1>3. S = Nat
  <2> HIDE DEF S
  <2>1. S \in SUBSET Nat
    BY DEF S
  <2>2. QED
    BY <1>1, <1>2, <2>1, NumbersReached
<1>4. QED
  BY <1>3

LEMMA WalksAre ==
  ASSUME NEW g, NEW seed, NEW types, NEW d \in Nat
  PROVE  \E walks : IsWalks(g, seed, types, d, walks) /\ Walks(g, seed, types, d) = walks[d]
<1> DEFINE walks == CHOOSE walks : IsWalks(g, seed, types, d, walks)
<1>1. Walks(g, seed, types, d) = walks[d]
  BY DEF Walks, IsWalks, Standing, Extended, Crossed
<1>2. IsWalks(g, seed, types, d, walks)
  BY WalksExist
<1>3. QED
  BY <1>1, <1>2

\* The walks of no relationship stand at the seed; those of one more extend
\* those of one fewer.
LEMMA WalksStep ==
  ASSUME NEW g, NEW seed, NEW types
  PROVE  /\ Walks(g, seed, types, 0) = Standing(seed)
         /\ \A n \in Nat : Walks(g, seed, types, n + 1) = Extended(g, types, Walks(g, seed, types, n))
<1>1. Walks(g, seed, types, 0) = Standing(seed)
  BY WalksAre, WalksStart
<1>2. ASSUME NEW n \in Nat
      PROVE  Walks(g, seed, types, n + 1) = Extended(g, types, Walks(g, seed, types, n))
  <2>1. PICK f : IsWalks(g, seed, types, n, f) /\ Walks(g, seed, types, n) = f[n]
    BY WalksAre
  <2>2. PICK h : IsWalks(g, seed, types, n + 1, h) /\ Walks(g, seed, types, n + 1) = h[n + 1]
    BY WalksAre
  <2>3. f[n] = h[n]
    BY <2>1, <2>2, WalksAgree
  <2> DEFINE m == n + 1
  <2>4. m \in Nat /\ m \in 0..m /\ m # 0 /\ m - 1 = n /\ IsWalks(g, seed, types, m, h)
    BY <2>2
  <2> HIDE DEF m
  <2>5. h[m] = Extended(g, types, h[n])
    BY <2>4, WalksNext
  <2>6. QED
    BY <2>1, <2>2, <2>3, <2>5 DEF m
<1>3. QED
  BY <1>1, <1>2

\* Edges join entities.
JoinsEntities(g) == \A edge \in Edges(g) : {edge[2], edge[3]} \subseteq Entities

\* A walk of so many relationships: it stays within as many hops.
WalkFits(g, seed, types, n, walk) ==
  /\ walk.path \in Seq(Edges(g)) /\ Len(walk.path) = n
  /\ walk.at \in Ball(OfTypes(Edges(g), types), seed, n)
  /\ \A edge \in Range(walk.path) :
       {edge[2], edge[3]} \subseteq Ball(OfTypes(Edges(g), types), seed, n)

\* A walk that fits, and crosses one relationship more, fits one hop further.
LEMMA CrossingFits ==
  ASSUME NEW g, JoinsEntities(g), NEW seed, NEW types, NEW n \in Nat, NEW walk,
         WalkFits(g, seed, types, n, walk), NEW edge \in Continuations(g, walk, types)
  PROVE  WalkFits(g, seed, types, n + 1, Crossed(walk, edge))
<1> DEFINE E == OfTypes(Edges(g), types)
           near == Ball(E, seed, n)
           next == Crossed(walk, edge)
<1>1. /\ edge \in E /\ walk.at \in {edge[2], edge[3]} /\ edge \in Edges(g)
      /\ edge[2] \in Entities /\ edge[3] \in Entities
  BY DEF Continuations, OfTypes, JoinsEntities
<1>2. walk.path \in Seq(Edges(g)) /\ Len(walk.path) = n /\ walk.at \in near
      /\ \A e \in Range(walk.path) : {e[2], e[3]} \subseteq near
  BY DEF WalkFits
<1>3. next.path = Append(walk.path, edge) /\ next.at \in {edge[2], edge[3]}
  BY <1>1 DEF Crossed
<1>4. next.path \in Seq(Edges(g)) /\ Len(next.path) = n + 1
  BY <1>1, <1>2, <1>3
<1>5. Range(next.path) \subseteq Range(walk.path) \cup {edge}
  <2>1. \A i \in 1 .. n + 1 : next.path[i] = IF i = n + 1 THEN edge ELSE walk.path[i]
    BY <1>1, <1>2, <1>3
  <2>2. DOMAIN next.path = 1 .. n + 1 /\ DOMAIN walk.path = 1..n
    BY <1>2, <1>4
  <2> HIDE DEF next
  <2>3. ASSUME NEW i \in DOMAIN next.path PROVE next.path[i] \in Range(walk.path) \cup {edge}
    <3>1. CASE i = n + 1
      BY <2>1, <2>2, <3>1
    <3>2. CASE i # n + 1
      <4>1. i \in DOMAIN walk.path /\ next.path[i] = walk.path[i]
        BY <2>1, <2>2, <3>2
      <4>2. QED
        BY <4>1 DEF Range
    <3>3. QED
      BY <3>1, <3>2
  <2>4. QED
    BY <2>3 DEF Range
<1>6. Ball(E, seed, n + 1) = near \cup Joined(E, near)
  BY BallStep
<1>7. edge[2] \in Joined(E, near) /\ edge[3] \in Joined(E, near)
  BY <1>1, <1>2 DEF Joined
<1> HIDE DEF E, near, next
<1>8. /\ next.at \in Ball(E, seed, n + 1)
      /\ \A e \in Range(next.path) : {e[2], e[3]} \subseteq Ball(E, seed, n + 1)
  BY <1>2, <1>3, <1>5, <1>6, <1>7
<1>9. QED
  BY <1>4, <1>8 DEF WalkFits, E, next

LEMMA WalksFit ==
  ASSUME NEW g, JoinsEntities(g), NEW seed, NEW types, NEW n \in Nat
  PROVE  \A walk \in Walks(g, seed, types, n) : WalkFits(g, seed, types, n, walk)
<1> DEFINE S == {m \in Nat : \A walk \in Walks(g, seed, types, m) : WalkFits(g, seed, types, m, walk)}
<1>1. 0 \in S
  <2>1. ASSUME NEW walk \in Walks(g, seed, types, 0) PROVE WalkFits(g, seed, types, 0, walk)
    <3>1. walk.path = << >> /\ walk.at = seed
      BY WalksStep DEF Standing
    <3>2. Range(walk.path) = {} /\ walk.path \in Seq(Edges(g)) /\ Len(walk.path) = 0
      BY <3>1 DEF Range
    <3>3. seed \in Ball(OfTypes(Edges(g), types), seed, 0)
      BY BallStep
    <3>4. QED
      BY <3>1, <3>2, <3>3 DEF WalkFits
  <2>2. QED
    BY <2>1
<1>2. ASSUME NEW m \in S PROVE m + 1 \in S
  <2>1. ASSUME NEW walk \in Walks(g, seed, types, m + 1)
        PROVE  WalkFits(g, seed, types, m + 1, walk)
    <3>1. walk \in Extended(g, types, Walks(g, seed, types, m))
      BY WalksStep
    <3>2. PICK w \in Walks(g, seed, types, m) :
            \E edge \in Continuations(g, w, types) : walk = Crossed(w, edge)
      BY <3>1 DEF Extended
    <3>3. WalkFits(g, seed, types, m, w)
      OBVIOUS
    <3>4. QED
      BY <3>2, <3>3, CrossingFits
  <2>2. QED
    BY <2>1
<1>3. S = Nat
  <2> HIDE DEF S
  <2>1. S \in SUBSET Nat
    BY DEF S
  <2>2. QED
    BY <1>1, <1>2, <2>1, NumbersReached
<1>4. QED
  BY <1>3

\* Finitely many relationships make finitely many walks of a length.
LEMMA FiniteWalks ==
  ASSUME NEW g, IsFiniteSet(Edges(g)), NEW seed, NEW types, NEW n \in Nat
  PROVE  IsFiniteSet(Walks(g, seed, types, n))
<1> DEFINE S == {m \in Nat : IsFiniteSet(Walks(g, seed, types, m))}
<1>1. 0 \in S
  <2>1. Walks(g, seed, types, 0) = {[path |-> << >>, at |-> seed]}
    BY WalksStep DEF Standing
  <2>2. IsFiniteSet({[path |-> << >>, at |-> seed]})
    BY FS_Singleton
  <2>3. QED
    BY <2>1, <2>2
<1>2. ASSUME NEW m \in S PROVE m + 1 \in S
  <2> DEFINE W == Walks(g, seed, types, m)
             longer(walk) == {Crossed(walk, edge) : edge \in Continuations(g, walk, types)}
  <2>1. ASSUME NEW walk \in W PROVE IsFiniteSet(longer(walk))
    <3> DEFINE C == Continuations(g, walk, types)
               f == [edge \in C |-> Crossed(walk, edge)]
    <3>1. IsFiniteSet(C)
      BY FS_Subset DEF Continuations
    <3>2. DOMAIN f = C /\ longer(walk) = {f[edge] : edge \in C}
      OBVIOUS
    <3> HIDE DEF f, C, longer
    <3>3. QED
      BY <3>1, <3>2, FiniteImage
  <2> DEFINE h == [walk \in W |-> longer(walk)]
             T == {h[walk] : walk \in W}
  <2>2. IsFiniteSet(W) /\ DOMAIN h = W
    OBVIOUS
  <2>3. Extended(g, types, W) = UNION T
    BY DEF Extended
  <2>4. \A t \in T : IsFiniteSet(t)
    BY <2>1
  <2>5. Walks(g, seed, types, m + 1) = Extended(g, types, W)
    BY WalksStep
  <2>6. IsFiniteSet(T)
    <3> HIDE DEF h, W
    <3>1. QED
      BY <2>2, FiniteImage
  <2>7. IsFiniteSet(UNION T)
    <3> HIDE DEF T
    <3>1. QED
      BY <2>4, <2>6, FS_UNION
  <2> HIDE DEF T, W
  <2>8. IsFiniteSet(Walks(g, seed, types, m + 1))
    BY <2>3, <2>5, <2>7
  <2>9. QED
    BY <2>8
<1>3. S = Nat
  <2> HIDE DEF S
  <2>1. S \in SUBSET Nat
    BY DEF S
  <2>2. QED
    BY <1>1, <1>2, <2>1, NumbersReached
<1>4. QED
  BY <1>3

\* Within so many hops, and not within fewer.
FirstWithin(edges, seed, n, e) ==
  e \in Ball(edges, seed, n) /\ \A k \in Nat : k < n => e \notin Ball(edges, seed, k)

LEMMA SomeFirst ==
  ASSUME NEW edges, NEW seed, NEW d \in Nat, NEW e \in Ball(edges, seed, d)
  PROVE  \E n \in 0..d : FirstWithin(edges, seed, n, e)
<1> DEFINE S == {n \in Nat : e \in Ball(edges, seed, n)}
<1>1. S \in SUBSET Nat /\ d \in S
  OBVIOUS
<1>2. PICK n \in S : \A m \in S : n <= m
  <2> HIDE DEF S
  <2>1. QED
    BY <1>1, LeastNumber
<1>3. n \in 0..d /\ FirstWithin(edges, seed, n, e)
  BY <1>1, <1>2 DEF FirstWithin
<1>4. QED
  BY <1>3

\* A walk to where a nearest entity is next to goes on to it: it cannot have
\* crossed that relationship yet.
LEMMA NextIsReached ==
  ASSUME NEW g, JoinsEntities(g), NEW seed, NEW types, NEW n \in Nat, NEW e,
         FirstWithin(OfTypes(Edges(g), types), seed, n + 1, e),
         \A p : FirstWithin(OfTypes(Edges(g), types), seed, n, p)
                => \E walk \in Walks(g, seed, types, n) : walk.at = p
  PROVE  \E walk \in Walks(g, seed, types, n + 1) : walk.at = e
<1> DEFINE E == OfTypes(Edges(g), types)
           B(k) == Ball(E, seed, k)
<1>1. e \in B(n + 1) /\ e \notin B(n)
  BY DEF FirstWithin
<1>2. B(n + 1) = B(n) \cup Joined(E, B(n))
  BY BallStep
<1>3. e \in Joined(E, B(n))
  BY <1>1, <1>2
<1>4. PICK edge \in E : e \in {edge[2], edge[3]} /\ {edge[2], edge[3]} \cap B(n) # {}
  BY <1>3 DEF Joined
<1>5. PICK p \in B(n) : p \in {edge[2], edge[3]}
  BY <1>4
<1>6. p # e
  BY <1>1, <1>5
<1>7. ASSUME NEW k \in Nat, k < n, p \in B(k) PROVE FALSE
  <2>1. e \in Entities
    BY <1>3 DEF Joined
  <2>2. e \in Joined(E, B(k))
    BY <1>4, <1>5, <1>7, <2>1 DEF Joined
  <2>3. B(k + 1) = B(k) \cup Joined(E, B(k))
    BY BallStep
  <2>4. B(k + 1) \subseteq B(n)
    BY <1>7, BallsGrow
  <2>5. QED
    BY <1>1, <2>2, <2>3, <2>4
<1>8. FirstWithin(E, seed, n, p)
  BY <1>5, <1>7 DEF FirstWithin
<1>9. PICK walk \in Walks(g, seed, types, n) : walk.at = p
  BY <1>8
<1>10. WalkFits(g, seed, types, n, walk)
  BY WalksFit
<1>11. edge \notin Range(walk.path)
  BY <1>1, <1>4, <1>10 DEF WalkFits
<1>12. edge \in Continuations(g, walk, types)
  BY <1>4, <1>5, <1>9, <1>11 DEF Continuations, OfTypes
<1>13. Crossed(walk, edge) \in Walks(g, seed, types, n + 1)
  <2>1. Walks(g, seed, types, n + 1) = Extended(g, types, Walks(g, seed, types, n))
    BY WalksStep
  <2>2. QED
    BY <1>12, <2>1 DEF Extended
<1>14. Crossed(walk, edge).at = e
  BY <1>4, <1>5, <1>6, <1>9 DEF Crossed
<1>15. QED
  BY <1>13, <1>14

\* Every entity is reached by a walk of as few relationships as it is away.
LEMMA NearestAreReached ==
  ASSUME NEW g, JoinsEntities(g), NEW seed, NEW types, NEW n \in Nat, NEW e,
         FirstWithin(OfTypes(Edges(g), types), seed, n, e)
  PROVE  \E walk \in Walks(g, seed, types, n) : walk.at = e
<1> DEFINE E == OfTypes(Edges(g), types)
           S == {m \in Nat : \A p : FirstWithin(E, seed, m, p)
                               => \E walk \in Walks(g, seed, types, m) : walk.at = p}
<1>1. 0 \in S
  <2>1. ASSUME NEW p, FirstWithin(E, seed, 0, p) PROVE \E walk \in Walks(g, seed, types, 0) : walk.at = p
    <3>1. p = seed
      BY <2>1, BallStep DEF FirstWithin
    <3>2. [path |-> << >>, at |-> seed] \in Walks(g, seed, types, 0)
      BY WalksStep DEF Standing
    <3>3. QED
      BY <3>1, <3>2
  <2>2. QED
    BY <2>1
<1>2. ASSUME NEW m \in S PROVE m + 1 \in S
  <2>1. ASSUME NEW p, FirstWithin(E, seed, m + 1, p)
        PROVE  \E walk \in Walks(g, seed, types, m + 1) : walk.at = p
    BY <2>1, NextIsReached
  <2>2. QED
    BY <2>1
<1>3. S = Nat
  <2> HIDE DEF S
  <2>1. S \in SUBSET Nat
    BY DEF S
  <2>2. QED
    BY <1>1, <1>2, <2>1, NumbersReached
<1>4. QED
  BY <1>3

\* A neighbourhood that is read: no more rows than the limit, each of an entity
\* as far away as its path is long at most; and every entity in reach, unless
\* the limit is.
LEMMA NeighbourhoodsHold ==
  ASSUME NEW g, IsFiniteSet(Edges(g)), JoinsEntities(g), NEW seed, NEW depth \in Nat, NEW types,
         NEW limit \in Nat, NEW rows \in Neighbourhood(g, seed, depth, types, limit)
  PROVE  LET E == OfTypes(Edges(g), types)
         IN  /\ IsFiniteSet(rows) /\ Cardinality(rows) \in Nat /\ Cardinality(rows) <= limit
             /\ \A row \in rows : row.at \in Ball(E, seed, Len(row.path))
             /\ Cardinality(rows) < limit =>
                  Ball(E, seed, depth) \subseteq {seed} \cup {row.at : row \in rows}
<1> DEFINE E == OfTypes(Edges(g), types)
           of == [n \in 1..depth |-> Walks(g, seed, types, n)]
           T == {of[n] : n \in 1..depth}
           all == UNION {Walks(g, seed, types, n) : n \in 1..depth}
<1>1. PICK key : rows \in Limited(all, limit, key)
  BY DEF Neighbourhood
<1>2. IsFiniteSet(all)
  <2>1. all = UNION T
    OBVIOUS
  <2>2. \A t \in T : IsFiniteSet(t)
    BY FiniteWalks
  <2>3. IsFiniteSet(1..depth) /\ DOMAIN of = 1..depth
    BY FS_Interval
  <2>4. IsFiniteSet(T)
    <3> HIDE DEF of
    <3>1. QED
      BY <2>3, FiniteImage
  <2>5. IsFiniteSet(UNION T)
    <3> HIDE DEF T
    <3>1. QED
      BY <2>2, <2>4, FS_UNION
  <2>6. QED
    BY <2>1, <2>5
<1>3. /\ rows \subseteq all /\ IsFiniteSet(rows) /\ Cardinality(rows) <= limit
      /\ Cardinality(rows) \in Nat
      /\ Cardinality(rows) < limit => rows = all
  <2> HIDE DEF all
  <2>1. QED
    BY <1>1, <1>2, LimitsHold
<1>4. ASSUME NEW row \in rows PROVE row.at \in Ball(E, seed, Len(row.path))
  <2>1. PICK n \in 1..depth : row \in Walks(g, seed, types, n)
    BY <1>3
  <2>2. WalkFits(g, seed, types, n, row)
    BY <2>1, WalksFit
  <2>3. QED
    BY <2>2 DEF WalkFits
<1>5. ASSUME Cardinality(rows) < limit, NEW e \in Ball(E, seed, depth)
      PROVE  e \in {seed} \cup {row.at : row \in rows}
  <2>1. PICK n \in 0..depth : FirstWithin(E, seed, n, e)
    BY <1>5, SomeFirst
  <2>2. CASE n = 0
    BY <2>1, <2>2, BallStep DEF FirstWithin
  <2>3. CASE n # 0
    <3>1. PICK walk \in Walks(g, seed, types, n) : walk.at = e
      BY <2>1, NearestAreReached
    <3>2. n \in 1..depth
      BY <2>3
    <3>3. walk \in rows
      BY <1>3, <1>5, <3>1, <3>2
    <3>4. QED
      BY <3>1, <3>3
  <2>4. QED
    BY <2>2, <2>3
<1>6. QED
  BY <1>3, <1>4, <1>5

\* A path that is found is as short as any.
LEMMA PathsAreShortest ==
  ASSUME NEW g, JoinsEntities(g), NEW source, NEW target, source # target, NEW depth \in Nat,
         NEW walk \in ShortestPaths(g, source, target, depth)
  PROVE  LET E == OfTypes(Edges(g), DOMAIN Schema)
         IN  walk.at \in Ball(E, source, Len(walk.path)) \ Ball(E, source, Len(walk.path) - 1)
<1> DEFINE E == OfTypes(Edges(g), DOMAIN Schema)
           arriving(n) == {w \in Walks(g, source, DOMAIN Schema, n) : w.at = target}
           lengths == {n \in 1..depth : arriving(n) # {}}
           least == Min(lengths)
<1>1. lengths # {} /\ walk \in arriving(least)
  BY DEF ShortestPaths
<1>2. least \in lengths /\ \A n \in lengths : least <= n
  <2>1. lengths \in SUBSET Nat
    OBVIOUS
  <2> HIDE DEF lengths
  <2>2. \E n \in lengths : \A m \in lengths : n <= m
    BY <1>1, <2>1, LeastNumber
  <2>3. QED
    BY <2>2 DEF Min
<1> HIDE DEF least
<1>3. least \in 1..depth /\ walk \in Walks(g, source, DOMAIN Schema, least) /\ walk.at = target
  BY <1>1, <1>2
<1>4. Len(walk.path) = least /\ target \in Ball(E, source, least)
  BY <1>3, WalksFit DEF WalkFits
<1>5. ASSUME target \in Ball(E, source, least - 1) PROVE FALSE
  <2>1. PICK n \in 0 .. least - 1 : FirstWithin(E, source, n, target)
    BY <1>3, <1>5, SomeFirst
  <2>2. n # 0
    BY <2>1, BallStep DEF FirstWithin
  <2>3. \E w \in Walks(g, source, DOMAIN Schema, n) : w.at = target
    BY <2>1, NearestAreReached
  <2>4. n \in lengths
    BY <1>3, <2>2, <2>3
  <2>5. QED
    BY <1>2, <1>3, <2>4
<1>6. QED
  BY <1>3, <1>4, <1>5

(***************************************************************************)
(* Views and limits                                                        *)
(***************************************************************************)
\* The graph is finite, its edges join entities it has, and what committed
\* documents mention is in it.
GraphInv ==
  /\ IsFiniteSet(Edges(graph)) /\ graph.nodes \subseteq Entities
  /\ \A edge \in Edges(graph) : {edge[2], edge[3]} \subseteq graph.nodes
  /\ IsFiniteSet(Stored) /\ Stored \subseteq Documents
  /\ \A d \in Stored : MentionsOf[d] \subseteq graph.nodes

\* What a request has read so far, against what it may read: a seed that has
\* its turn yet to come may bring so many entities and so many facts.
CountsInv ==
  /\ pc \in Locations
  /\ IsFiniteSet(context.passages) /\ Cardinality(context.passages) <= TopK
  /\ context.asked \subseteq Entities /\ context.seeds \subseteq Entities
  /\ pc \in {"new", "search", "anchor"} =>
       context.todo = {} /\ context.reached = {} /\ context.facts = {}
  /\ IsFiniteSet(context.todo) /\ Cardinality(context.todo) <= MaxSeeds
  /\ IsFiniteSet(context.reached)
  /\ Cardinality(context.reached) + Cardinality(context.todo) * MaxNeighbours
       <= MaxSeeds * MaxNeighbours
  /\ IsFiniteSet(context.facts)
  /\ Cardinality(context.facts) + Cardinality(context.todo) * MaxNeighbours
       + (IF pc = "relate" THEN MaxNeighbours ELSE 0) <= MaxSeeds * MaxNeighbours

\* The view that is being drawn, or was.
Viewing == pc \in {"seed", "collect"} \/ answer.outcome = "view"
Reach == Ball(OfTypes(view.before, view.types), view.seed, view.depth)

ViewShape ==
  /\ view = [seed |-> view.seed, depth |-> view.depth, types |-> view.types,
             before |-> view.before, rows |-> view.rows, todo |-> view.todo,
             edges |-> view.edges]
  /\ IsFiniteSet(view.rows) /\ Cardinality(view.rows) <= NodeCap
  /\ view.todo \subseteq Shown
  /\ view.before \subseteq Edges(graph) /\ view.edges \subseteq Edges(graph)
  /\ answer.outcome = "view" => view.todo = {}

\* Rows are no further than their paths, and are all that is in reach unless
\* the cap was; the edges so far join entities shown.
RowsFitView ==
  Viewing =>
    /\ \A row \in view.rows :
         row.at \in Ball(OfTypes(view.before, view.types), view.seed, Len(row.path))
    /\ Cardinality(view.rows) < NodeCap => Reach \subseteq Shown
    /\ \A edge \in view.edges : {edge[2], edge[3]} \subseteq Shown

\* An edge is there as soon as one of its ends had its turn, unless that end
\* has more than are read.
NoneLeftOut ==
  pc = "collect" \/ answer.outcome = "view" =>
    \A edge \in view.before :
      (/\ {edge[2], edge[3]} \subseteq Shown
       /\ \E end \in {edge[2], edge[3]} :
            end \notin view.todo /\ Cardinality(EdgeRows(graph, end, "both")) <= NodeCap)
      => edge \in view.edges

PathIsShort ==
  answer.outcome = "path" =>
    \A row \in view.rows :
      row.at \in Ball(OfTypes(view.before, Types), view.seed, Len(row.path))
                 \ Ball(OfTypes(view.before, Types), view.seed, Len(row.path) - 1)

Pointing(edges, entity, direction) ==
  {edge \in edges : \/ edge[2] = entity /\ direction # "incoming"
                    \/ edge[3] = entity /\ direction # "outgoing"}
ListIsWhole ==
  answer.outcome = "relationships" /\ Cardinality(view.edges) < NodeCap =>
    view.edges = {edge \in view.before :
                    \/ edge[2] = view.seed /\ view.types # {"incoming"}
                    \/ edge[3] = view.seed /\ view.types # {"outgoing"}}

ViewInv == ViewShape /\ RowsFitView /\ NoneLeftOut /\ PathIsShort /\ ListIsWhole

\* Edges are told apart by type and ends.
AreTriples(edges) == \A edge \in edges : edge = <<edge[1], edge[2], edge[3]>>

\* A row is placed as the edge it is of, so that there are as many rows as
\* edges of an entity.
LEMMA RowsPlaced ==
  ASSUME NEW g, AreTriples(Edges(g)), NEW entity, NEW direction
  PROVE  LET pointing == Pointing(Edges(g), entity, direction)
             rows == EdgeRows(g, entity, direction)
         IN  /\ {Placed(entity, row) : row \in rows} = pointing
             /\ \A edge \in pointing : \E row \in rows :
                  /\ Placed(entity, row) = edge
                  /\ row.other = IF edge[2] = entity THEN edge[3] ELSE edge[2]
             /\ \A row \in rows : row.other \in {Placed(entity, row)[2], Placed(entity, row)[3]}
             /\ IsFiniteSet(Edges(g)) =>
                  IsFiniteSet(rows) /\ Cardinality(rows) = Cardinality(pointing)
             /\ \A r, s \in rows : Placed(entity, r) = Placed(entity, s) => r = s
<1> DEFINE pointing == Pointing(Edges(g), entity, direction)
           of(edge) == [type |-> edge[1],
                        other |-> IF edge[2] = entity THEN edge[3] ELSE edge[2],
                        is_outgoing |-> edge[2] = entity,
                        validity |-> g.edges[edge]]
           rows == EdgeRows(g, entity, direction)
<1>1. rows = {of(edge) : edge \in pointing}
  BY DEF EdgeRows, Pointing
<1>2. ASSUME NEW edge \in pointing
      PROVE  /\ Placed(entity, of(edge)) = edge
             /\ of(edge).other = (IF edge[2] = entity THEN edge[3] ELSE edge[2])
             /\ of(edge).other \in {edge[2], edge[3]}
  <2>1. edge = <<edge[1], edge[2], edge[3]>> /\ entity \in {edge[2], edge[3]}
    BY DEF Pointing, AreTriples
  <2>2. QED
    BY <2>1 DEF Placed
<1>3. IsFiniteSet(Edges(g)) => IsFiniteSet(rows) /\ Cardinality(rows) = Cardinality(pointing)
  <2> SUFFICES ASSUME IsFiniteSet(Edges(g))
               PROVE  IsFiniteSet(rows) /\ Cardinality(rows) = Cardinality(pointing)
    OBVIOUS
  <2>1. IsFiniteSet(pointing)
    BY FS_Subset DEF Pointing
  <2> DEFINE f == [edge \in pointing |-> of(edge)]
  <2>2. DOMAIN f = pointing /\ rows = {f[edge] : edge \in pointing}
    BY <1>1
  <2>3. \A x, y \in pointing : f[x] = f[y] => x = y
    <3>1. ASSUME NEW x \in pointing, NEW y \in pointing, f[x] = f[y] PROVE x = y
      <4>1. of(x) = of(y)
        BY <3>1
      <4>2. Placed(entity, of(x)) = x /\ Placed(entity, of(y)) = y
        BY <1>2
      <4> HIDE DEF of
      <4>3. QED
        BY <4>1, <4>2
    <3>2. QED
      BY <3>1
  <2> HIDE DEF f, rows, pointing
  <2>4. QED
    BY <2>1, <2>2, <2>3, FiniteImage
<1> HIDE DEF of, pointing
<1>4. QED
  BY <1>1, <1>2, <1>3 DEF pointing

\* What relationships of an entity are listed, to a limit: stored edges that
\* point the way asked for, and all of them when they are few, or the list is
\* short.
LEMMA ListsHold ==
  ASSUME NEW g, AreTriples(Edges(g)), IsFiniteSet(Edges(g)), NEW entity, NEW direction,
         NEW limit \in Nat, NEW rows \in RelationshipsOf(g, entity, direction, limit)
  PROVE  LET pointing == Pointing(Edges(g), entity, direction)
             listed == {Placed(entity, row) : row \in rows}
         IN  /\ IsFiniteSet(rows) /\ Cardinality(rows) <= limit /\ Cardinality(rows) \in Nat
             /\ rows \subseteq EdgeRows(g, entity, direction)
             /\ listed \subseteq pointing
             /\ Cardinality(EdgeRows(g, entity, direction)) <= limit =>
                  rows = EdgeRows(g, entity, direction)
             /\ Cardinality(listed) < limit => listed = pointing
<1> DEFINE all == EdgeRows(g, entity, direction)
           pointing == Pointing(Edges(g), entity, direction)
           listed == {Placed(entity, row) : row \in rows}
<1>1. PICK key : rows \in Limited(all, limit, key)
  BY DEF RelationshipsOf
<1>2. /\ {Placed(entity, row) : row \in all} = pointing
      /\ IsFiniteSet(all)
      /\ \A r, s \in all : Placed(entity, r) = Placed(entity, s) => r = s
  BY RowsPlaced
<1>3. /\ rows \subseteq all /\ IsFiniteSet(rows) /\ Cardinality(rows) <= limit
      /\ Cardinality(rows) \in Nat
      /\ Cardinality(all) <= limit => rows = all
      /\ Cardinality(rows) < limit => rows = all
  <2> HIDE DEF all
  <2>1. QED
    BY <1>1, <1>2, LimitsHold
<1>4. Cardinality(listed) = Cardinality(rows)
  <2> DEFINE f == [row \in rows |-> Placed(entity, row)]
  <2>1. DOMAIN f = rows /\ listed = {f[row] : row \in rows}
    OBVIOUS
  <2>2. \A x, y \in rows : f[x] = f[y] => x = y
    BY <1>2, <1>3
  <2> HIDE DEF f, listed
  <2>3. QED
    BY <1>3, <2>1, <2>2, FiniteImage
<1> HIDE DEF all, pointing
<1>5. listed \subseteq pointing /\ (rows = all => listed = pointing)
  BY <1>2, <1>3
<1>6. QED
  BY <1>3, <1>4, <1>5 DEF all, pointing

\* An entity has no fewer edges when there are more.
LEMMA RowsGrow ==
  ASSUME NEW g, NEW h, AreTriples(Edges(g)), AreTriples(Edges(h)), IsFiniteSet(Edges(h)),
         Edges(g) \subseteq Edges(h), NEW entity, NEW direction
  PROVE  /\ Cardinality(EdgeRows(g, entity, direction)) \in Nat
         /\ Cardinality(EdgeRows(h, entity, direction)) \in Nat
         /\ Cardinality(EdgeRows(g, entity, direction)) <= Cardinality(EdgeRows(h, entity, direction))
<1> DEFINE before == Pointing(Edges(g), entity, direction)
           after == Pointing(Edges(h), entity, direction)
<1>1. IsFiniteSet(Edges(g))
  BY FS_Subset
<1>2. /\ Cardinality(EdgeRows(g, entity, direction)) = Cardinality(before)
      /\ Cardinality(EdgeRows(h, entity, direction)) = Cardinality(after)
  BY <1>1, RowsPlaced
<1>3. before \subseteq after /\ after \subseteq Edges(h)
  BY DEF Pointing
<1>4. IsFiniteSet(after)
  <2> HIDE DEF after
  <2>1. QED
    BY <1>3, FS_Subset
<1>5. Cardinality(before) <= Cardinality(after) /\ IsFiniteSet(before)
  <2> HIDE DEF before, after
  <2>1. QED
    BY <1>3, <1>4, FS_Subset
<1>6. Cardinality(before) \in Nat /\ Cardinality(after) \in Nat
  <2> HIDE DEF before, after
  <2>1. QED
    BY <1>4, <1>5, FS_CardinalityType
<1>7. QED
  BY <1>2, <1>5, <1>6

\* Whatever is done, the databases only grow.
LEMMA DatabasesGrow ==
  ASSUME Canonical, [Next]_vars
  PROVE  /\ graph.nodes \subseteq graph'.nodes
         /\ Edges(graph) \subseteq Edges(graph')
         /\ Stored \subseteq Stored'
<1>1. CASE WriteEntity
  BY <1>1 DEF WriteEntity, UpsertEntity, Canonical, Edges, Stored
<1>2. CASE WriteRelationship
  BY <1>2 DEF WriteRelationship, UpsertRelationship, Canonical, Edges, Stored
<1>3. CASE CommitDocument
  BY <1>3 DEF CommitDocument, Edges, Stored
<1>4. CASE UNCHANGED <<graph, embedded>>
  BY <1>4 DEF Edges, Stored
<1>5. QED
  BY <1>1, <1>2, <1>3, <1>4
  DEF Next, vars, Ask, Search, Anchor, Expand, Relate, Assemble, Synthesize, Visualize, FindSeed,
      CollectEdges, ShowView, FindPath, GetEntity, ListRelationships

LEMMA InitGraph == Init => GraphInv
<1> SUFFICES ASSUME Init PROVE GraphInv
  OBVIOUS
<1>1. graph = [nodes |-> {}, edges |-> << >>] /\ embedded = << >>
  BY DEF Init, NoGraph
<1>2. Edges(graph) = {} /\ graph.nodes = {} /\ Stored = {}
  BY <1>1 DEF Edges, Stored
<1>3. QED
  BY <1>2, FS_EmptySet DEF GraphInv

LEMMA StepGraph ==
  ASSUME RetrievalInv, GraphInv, [Next]_vars
  PROVE  GraphInv'
<1>1. CASE WriteEntity
  <2>1. PICK entity \in Entities : graph' = UpsertEntity(graph, entity)
    BY <1>1 DEF WriteEntity
  <2>2. graph'.edges = graph.edges /\ graph'.nodes = graph.nodes \cup {entity}
    BY <2>1 DEF UpsertEntity, RetrievalInv, Canonical
  <2>3. UNCHANGED embedded
    BY <1>1 DEF WriteEntity
  <2>4. QED
    BY <2>2, <2>3 DEF GraphInv, Edges, Stored
<1>2. CASE WriteRelationship
  <2>1. PICK said \in Statements :
          /\ IsRelationship(said.type, said.source, said.target)
          /\ graph' =
               UpsertRelationship(graph, said.type, said.source, said.target, said.validity)
    BY <1>2 DEF WriteRelationship
  <2> DEFINE ends == CanonicalEndpoints(said.type, said.source, said.target)
             edge == <<said.type, ends[1], ends[2]>>
  <2>2. UNCHANGED embedded
    BY <1>2 DEF WriteRelationship
  <2>3. CASE {said.source, said.target} \subseteq graph.nodes
    <3>1. graph'.nodes = graph.nodes /\ Edges(graph') = Edges(graph) \cup {edge}
      BY <2>1, <2>3 DEF UpsertRelationship, RetrievalInv, Canonical, Edges
    <3>2. {edge[2], edge[3]} \subseteq graph.nodes
      BY <2>3 DEF CanonicalEndpoints
    <3> HIDE DEF edge
    <3>3. IsFiniteSet(Edges(graph'))
      BY <3>1, FS_AddElement DEF GraphInv
    <3>4. QED
      BY <2>2, <3>1, <3>2, <3>3 DEF GraphInv, Edges, Stored
  <2>4. CASE ~({said.source, said.target} \subseteq graph.nodes)
    <3>1. UNCHANGED graph
      BY <2>1, <2>4 DEF UpsertRelationship
    <3>2. QED
      BY <2>2, <3>1 DEF GraphInv, Edges, Stored
  <2>5. QED
    BY <2>3, <2>4
<1>3. CASE CommitDocument
  <2>1. PICK document \in Documents \ Stored : \E model \in EmbeddingModels \cup {None} :
          /\ MentionsOf[document] \subseteq graph.nodes
          /\ embedded' = [d \in Stored \cup {document} |->
                            IF d = document THEN model ELSE embedded[d]]
    BY <1>3 DEF CommitDocument
  <2>2. MentionsOf[document] \subseteq graph.nodes /\ Stored' = Stored \cup {document}
    BY <2>1 DEF Stored
  <2>3. IsFiniteSet(Stored')
    BY <2>2, FS_AddElement DEF GraphInv
  <2>4. UNCHANGED graph
    BY <1>3 DEF CommitDocument
  <2>5. QED
    BY <2>1, <2>2, <2>3, <2>4 DEF GraphInv, Edges
<1>4. CASE UNCHANGED <<graph, embedded>>
  BY <1>4 DEF GraphInv, Edges, Stored
<1>5. QED
  BY <1>1, <1>2, <1>3, <1>4
  DEF Next, vars, Ask, Search, Anchor, Expand, Relate, Assemble, Synthesize, Visualize, FindSeed,
      CollectEdges, ShowView, FindPath, GetEntity, ListRelationships

LEMMA GraphJoins ==
  ASSUME RetrievalInv, GraphInv
  PROVE  /\ AreTriples(Edges(graph)) /\ JoinsEntities(graph) /\ IsFiniteSet(Edges(graph))
BY DEF RetrievalInv, Canonical, GraphInv, AreTriples, JoinsEntities

(***************************************************************************)
(* Counting                                                                *)
(***************************************************************************)
\* A seed less to read leaves room for what one may bring.
LEMMA Room ==
  ASSUME NEW t \in Nat, NEW s \in Nat, t <= s, NEW n \in Nat
  PROVE  /\ t * n \in Nat /\ s * n \in Nat /\ t * n <= s * n
         /\ t # 0 => t - 1 \in Nat /\ (t - 1) * n \in Nat /\ (t - 1) * n + n = t * n
<1>1. t * n \in Nat /\ s * n \in Nat
  OBVIOUS
<1>2. t * n <= s * n
  <2>1. s - t \in Nat /\ (s - t) * n \in Nat
    OBVIOUS
  <2>2. (s - t) * n = s * n - t * n
    OBVIOUS
  <2>3. QED
    BY <1>1, <2>1, <2>2
<1>3. ASSUME t # 0 PROVE t - 1 \in Nat /\ (t - 1) * n \in Nat /\ (t - 1) * n + n = t * n
  <2>1. t - 1 \in Nat
    BY <1>3
  <2>2. (t - 1) * n \in Nat
    BY <2>1
  <2>3. (t - 1) * n + n = t * n
    OBVIOUS
  <2>4. QED
    BY <2>1, <2>2, <2>3
<1>4. QED
  BY <1>1, <1>2, <1>3

\* What a read adds to what was read.
LEMMA Gathered ==
  ASSUME NEW S, IsFiniteSet(S), NEW rows, IsFiniteSet(rows), NEW f, DOMAIN f = rows
  PROVE  LET T == S \cup {f[row] : row \in rows}
         IN  /\ IsFiniteSet(T) /\ Cardinality(T) \in Nat
             /\ Cardinality(T) <= Cardinality(S) + Cardinality(rows)
<1> DEFINE new == {f[row] : row \in rows}
<1>1. IsFiniteSet(new) /\ Cardinality(new) <= Cardinality(rows)
  BY FiniteImage
<1> HIDE DEF new
<1>2. /\ IsFiniteSet(S \cup new)
      /\ Cardinality(S \cup new) = Cardinality(S) + Cardinality(new) - Cardinality(S \cap new)
  BY <1>1, FS_Union
<1>3. IsFiniteSet(S \cap new)
  BY FS_Subset
<1>4. /\ Cardinality(S) \in Nat /\ Cardinality(new) \in Nat /\ Cardinality(S \cap new) \in Nat
      /\ Cardinality(rows) \in Nat /\ Cardinality(S \cup new) \in Nat
  BY <1>1, <1>2, <1>3, FS_CardinalityType
<1>5. QED
  BY <1>1, <1>2, <1>4 DEF new

LEMMA Limits ==
  /\ TopK \in Nat /\ MaxSeeds \in Nat /\ MaxNeighbours \in Nat /\ NodeCap \in Nat
  /\ NodeCap # 0 /\ GraphDepth \in Nat
BY RetrievalAssumption

\* What one read brings takes the room that was kept for it.
LEMMA RoomTaken ==
  ASSUME NEW more \in Nat, NEW had \in Nat, NEW got \in Nat, NEW rest \in Nat, NEW one \in Nat,
         NEW all \in Nat, more <= had + got, got <= one, had + rest + one <= all
  PROVE  more + rest <= all
OBVIOUS

LEMMA InitCounts == Init => CountsInv
<1> SUFFICES ASSUME Init PROVE CountsInv
  OBVIOUS
<1>1. /\ pc = "new" /\ context.passages = {} /\ context.asked = {} /\ context.seeds = {}
      /\ context.todo = {} /\ context.reached = {} /\ context.facts = {}
  BY DEF Init, EmptyContext
<1>2. IsFiniteSet({}) /\ Cardinality({}) = 0
  BY FS_EmptySet
<1>3. MaxSeeds * MaxNeighbours \in Nat /\ 0 * MaxNeighbours = 0
  BY Limits
<1>4. QED
  BY <1>1, <1>2, <1>3, Limits DEF CountsInv, Locations

\* A request that reads no more keeps within its limits.
LEMMA RequestKeepsCounts ==
  ASSUME CountsInv, UNCHANGED context, pc' \in Locations \ {"new", "search", "anchor", "relate"}
  PROVE  CountsInv'
<1>1. Cardinality(context.facts) \in Nat /\ Cardinality(context.todo) \in Nat
  BY FS_CardinalityType DEF CountsInv
<1>2. Cardinality(context.todo) * MaxNeighbours \in Nat /\ MaxSeeds * MaxNeighbours \in Nat
  BY <1>1, Limits
<1>3. Cardinality(context.facts) + Cardinality(context.todo) * MaxNeighbours
        <= MaxSeeds * MaxNeighbours
  BY <1>1, <1>2, Limits DEF CountsInv
<1>4. pc' # "relate" /\ pc' \notin {"new", "search", "anchor"} /\ pc' \in Locations
  OBVIOUS
<1>5. QED
  BY <1>1, <1>2, <1>3, <1>4 DEF CountsInv

LEMMA StepCounts ==
  ASSUME RetrievalInv, GraphInv, CountsInv, [Next]_vars
  PROVE  CountsInv'
<1> DEFINE N == MaxNeighbours
           todo == Cardinality(context.todo)
           reached == Cardinality(context.reached)
           facts == Cardinality(context.facts)
<1>a. /\ todo \in Nat /\ reached \in Nat /\ facts \in Nat
      /\ IsFiniteSet(context.todo) /\ IsFiniteSet(context.reached) /\ IsFiniteSet(context.facts)
  BY FS_CardinalityType DEF CountsInv
<1>b. /\ todo * N \in Nat /\ MaxSeeds * N \in Nat
      /\ todo # 0 => todo - 1 \in Nat /\ (todo - 1) * N \in Nat /\ (todo - 1) * N + N = todo * N
  <2>1. todo <= MaxSeeds
    BY DEF CountsInv
  <2> HIDE DEF todo
  <2>2. QED
    BY <1>a, <2>1, Limits, Room
<1>1. CASE UNCHANGED <<pc, context>>
  BY <1>1 DEF CountsInv
<1>2. CASE Ask
  <2>1. PICK asked \in SUBSET Entities : context' = [EmptyContext EXCEPT !.asked = asked]
    BY <1>2 DEF Ask
  <2>2. /\ context'.asked = asked /\ context'.passages = {} /\ context'.seeds = {}
        /\ context'.todo = {} /\ context'.reached = {} /\ context'.facts = {} /\ pc' = "search"
    BY <1>2, <2>1 DEF EmptyContext, Ask, GoTo
  <2>3. IsFiniteSet({}) /\ Cardinality({}) = 0
    BY FS_EmptySet
  <2>4. MaxSeeds * MaxNeighbours \in Nat /\ 0 * MaxNeighbours = 0
    BY Limits
  <2>5. QED
    BY <2>2, <2>3, <2>4, Limits DEF CountsInv, Locations
<1>3. CASE Search
  <2>1. PICK hits \in SearchSimilar :
          context' = [context EXCEPT !.passages =
                        {d \in hits : Similarity[d] >= MinimumSimilarity}]
    BY <1>3 DEF Search
  <2> DEFINE near == {d \in hits : Similarity[d] >= MinimumSimilarity}
             comparable == {d \in Stored : Comparable(d)}
  <2>2. IsFiniteSet(comparable)
    BY FS_Subset DEF GraphInv
  <2>3. PICK key : hits \in Limited(comparable, TopK, key)
    BY DEF SearchSimilar
  <2>4. /\ hits \subseteq comparable /\ IsFiniteSet(hits) /\ Cardinality(hits) <= TopK
        /\ Cardinality(hits) \in Nat
    <3> HIDE DEF comparable
    <3>1. QED
      BY <2>2, <2>3, LimitsHold, Limits
  <2>5. IsFiniteSet(near) /\ Cardinality(near) <= Cardinality(hits) /\ Cardinality(near) \in Nat
    <3>1. near \subseteq hits
      OBVIOUS
    <3> HIDE DEF near
    <3>2. QED
      BY <2>4, <3>1, FS_Subset, FS_CardinalityType
  <2>6. /\ context'.passages = near /\ context'.asked = context.asked
        /\ context'.seeds = context.seeds /\ context'.todo = context.todo
        /\ context'.reached = context.reached /\ context'.facts = context.facts
        /\ pc = "search" /\ pc' = "anchor"
    BY <1>3, <2>1 DEF Search, GoTo, RetrievalInv, ContextInv, ContextShape
  <2> HIDE DEF near
  <2>7. Cardinality(near) <= TopK
    BY <2>4, <2>5, Limits
  <2>8. QED
    BY <2>5, <2>6, <2>7 DEF CountsInv, Locations
<1>4. CASE Anchor
  <2>1. PICK chosen :
          /\ chosen \in Limited(Anchors, MaxSeeds, [a \in Anchors |-> <<0, 0>>])
          /\ context' = [context EXCEPT !.seeds = Anchors, !.todo = chosen]
    BY <1>4 DEF Anchor
  <2>2. Anchors \subseteq Entities
    BY DEF Anchors, CountsInv, GraphInv, RetrievalInv, ContextInv, PassagesCompare
  <2>3. IsFiniteSet(Anchors)
    BY <2>2, RetrievalAssumption, FS_Subset
  <2>4. /\ chosen \subseteq Anchors /\ IsFiniteSet(chosen) /\ Cardinality(chosen) <= MaxSeeds
        /\ Cardinality(chosen) \in Nat
    BY <2>1, <2>3, LimitsHold, Limits
  <2>5. /\ context'.passages = context.passages /\ context'.asked = context.asked
        /\ context'.seeds = Anchors /\ context'.todo = chosen
        /\ context'.reached = context.reached /\ context'.facts = context.facts
        /\ pc = "anchor" /\ pc' = "expand"
    BY <1>4, <2>1 DEF Anchor, GoTo, RetrievalInv, ContextInv, ContextShape
  <2>6. Cardinality(chosen) * N \in Nat /\ Cardinality(chosen) * N <= MaxSeeds * N
    BY <2>4, Limits, Room
  <2>7. context.reached = {} /\ context.facts = {} /\ Cardinality({}) = 0
    BY <2>5, FS_EmptySet DEF CountsInv
  <2>8. 0 + Cardinality(chosen) * N <= MaxSeeds * N /\ 0 + Cardinality(chosen) * N + 0 <= MaxSeeds * N
    BY <2>6
  <2>9. QED
    BY <2>2, <2>4, <2>5, <2>7, <2>8 DEF CountsInv, Locations
<1>5. CASE Expand
  <2>1. PICK seed \in context.todo :
          \E rows \in Neighbourhood(graph, seed, GraphDepth, Types, MaxNeighbours) :
            context' = [context EXCEPT !.reached = @ \cup {row.at : row \in rows},
                                       !.todo = @ \ {seed},
                                       !.seed = seed]
    BY <1>5 DEF Expand
  <2>2. PICK rows \in Neighbourhood(graph, seed, GraphDepth, Types, MaxNeighbours) :
          context' = [context EXCEPT !.reached = @ \cup {row.at : row \in rows},
                                     !.todo = @ \ {seed},
                                     !.seed = seed]
    BY <2>1
  <2> DEFINE more == context.reached \cup {row.at : row \in rows}
             rest == context.todo \ {seed}
  <2>3. /\ context'.passages = context.passages /\ context'.asked = context.asked
        /\ context'.seeds = context.seeds /\ context'.todo = rest
        /\ context'.reached = more /\ context'.facts = context.facts
        /\ pc = "expand" /\ pc' = "relate"
    BY <1>5, <2>2 DEF Expand, GoTo, RetrievalInv, ContextInv, ContextShape
  <2>4. IsFiniteSet(rows) /\ Cardinality(rows) <= N /\ Cardinality(rows) \in Nat
    BY GraphJoins, Limits, NeighbourhoodsHold
  <2>5. IsFiniteSet(more) /\ Cardinality(more) \in Nat /\ Cardinality(more) <= reached + Cardinality(rows)
    <3> DEFINE f == [row \in rows |-> row.at]
    <3>1. DOMAIN f = rows /\ more = context.reached \cup {f[row] : row \in rows}
      OBVIOUS
    <3> HIDE DEF f, more
    <3>2. QED
      BY <1>a, <2>4, <3>1, Gathered
  <2>6. IsFiniteSet(rest) /\ Cardinality(rest) = todo - 1 /\ todo # 0
    BY <1>a, FS_RemoveElement, FS_EmptySet
  <2> HIDE DEF more, rest
  <2>7. /\ Cardinality(rest) * N + N = todo * N /\ Cardinality(rest) * N \in Nat
        /\ Cardinality(rest) <= todo
    BY <1>a, <1>b, <2>6
  <2>8. reached + todo * N <= MaxSeeds * N /\ facts + todo * N <= MaxSeeds * N
    BY <1>a, <1>b, <2>3, Limits DEF CountsInv
  <2>9. /\ Cardinality(more) + Cardinality(rest) * N <= MaxSeeds * N
        /\ facts + Cardinality(rest) * N + N <= MaxSeeds * N
    <3> DEFINE r == Cardinality(rest) * N
               t == todo * N
               all == MaxSeeds * N
    <3>1. /\ r \in Nat /\ t \in Nat /\ all \in Nat /\ N \in Nat
          /\ r + N = t /\ reached + t <= all /\ facts + t <= all
      BY <1>b, <2>7, <2>8, Limits
    <3> HIDE DEF r, t, all, todo, reached, facts, N
    <3>2. reached + r + N <= all /\ facts + r + N <= all
      BY <1>a, <3>1
    <3>3. Cardinality(more) + r <= all
      BY <1>a, <2>4, <2>5, <3>1, <3>2, RoomTaken
    <3>4. QED
      BY <3>2, <3>3 DEF r, all
  <2>10. Cardinality(rest) <= MaxSeeds
    BY <1>a, <2>6, Limits DEF CountsInv
  <2>11. QED
    BY <1>a, <2>3, <2>5, <2>6, <2>9, <2>10 DEF CountsInv, Locations
<1>6. CASE Relate
  <2>1. PICK rows \in RelationshipsOf(graph, context.seed, "both", MaxNeighbours) :
          context' = [context EXCEPT !.facts = @ \cup {Fact(context.seed, row) : row \in rows}]
    BY <1>6 DEF Relate
  <2> DEFINE more == context.facts \cup {Fact(context.seed, row) : row \in rows}
  <2>2. IsFiniteSet(rows) /\ Cardinality(rows) <= N /\ Cardinality(rows) \in Nat
    BY GraphJoins, Limits, ListsHold
  <2>3. IsFiniteSet(more) /\ Cardinality(more) \in Nat /\ Cardinality(more) <= facts + Cardinality(rows)
    <3> DEFINE f == [row \in rows |-> Fact(context.seed, row)]
    <3>1. DOMAIN f = rows /\ more = context.facts \cup {f[row] : row \in rows}
      OBVIOUS
    <3> HIDE DEF f, more
    <3>2. QED
      BY <1>a, <2>2, <3>1, Gathered
  <2>4. /\ context'.passages = context.passages /\ context'.asked = context.asked
        /\ context'.seeds = context.seeds /\ context'.todo = context.todo
        /\ context'.reached = context.reached /\ context'.facts = more
        /\ pc = "relate" /\ pc' = "expand"
    BY <1>6, <2>1 DEF Relate, GoTo, RetrievalInv, ContextInv, ContextShape
  <2> HIDE DEF more
  <2>5. facts + todo * N + N <= MaxSeeds * N
    BY <2>4 DEF CountsInv
  <2>6. /\ Cardinality(more) + todo * N <= MaxSeeds * N
        /\ Cardinality(more) + todo * N + 0 <= MaxSeeds * N
    <3> DEFINE t == todo * N
               all == MaxSeeds * N
    <3>1. t \in Nat /\ all \in Nat /\ N \in Nat /\ facts + t + N <= all
      BY <1>b, <2>5, Limits
    <3> HIDE DEF t, all, todo, facts, N
    <3>2. Cardinality(more) + t <= all
      BY <1>a, <2>2, <2>3, <3>1, RoomTaken
    <3>3. Cardinality(more) + t + 0 <= all
      BY <2>3, <3>1, <3>2
    <3>4. QED
      BY <3>2, <3>3 DEF t, all
  <2>7. QED
    BY <1>a, <2>3, <2>4, <2>6 DEF CountsInv, Locations
<1>7. CASE Assemble \/ Synthesize
  BY <1>7, RequestKeepsCounts DEF Assemble, Synthesize, Answered, GoTo, Locations
<1>8. CASE Visualize \/ FindSeed
  BY <1>8, RequestKeepsCounts DEF Visualize, FindSeed, Answered, GoTo, Locations
<1>9. CASE ShowView \/ FindPath \/ GetEntity \/ ListRelationships
  BY <1>9, RequestKeepsCounts
  DEF ShowView, FindPath, GetEntity, ListRelationships, Answered, GoTo, Locations
<1>10. QED
  BY <1>1, <1>2, <1>3, <1>4, <1>5, <1>6, <1>7, <1>8, <1>9
  DEF Next, vars, WriteEntity, WriteRelationship, CommitDocument, CollectEdges

LEMMA InitView == Init => ViewInv
<1> SUFFICES ASSUME Init PROVE ViewInv
  OBVIOUS
<1>1. /\ pc = "new" /\ answer.outcome = "none"
      /\ view = [seed |-> None, depth |-> 1, types |-> {}, before |-> {}, rows |-> {}, todo |-> {},
                 edges |-> {}]
  BY DEF Init, NoAnswer, NoView
<1>2. IsFiniteSet({}) /\ Cardinality({}) = 0
  BY FS_EmptySet
<1>3. QED
  BY <1>1, <1>2, Limits
  DEF ViewInv, ViewShape, Viewing, RowsFitView, NoneLeftOut, PathIsShort, ListIsWhole, Shown

\* A write leaves a view as true as it was: what it was begun from is still
\* there, and an entity has no fewer relationships than before.
LEMMA WriteKeepsView ==
  ASSUME RetrievalInv, GraphInv, ViewInv, RetrievalInv', GraphInv',
         Edges(graph) \subseteq Edges(graph'), UNCHANGED <<pc, answer, view>>
  PROVE  ViewInv'
<1>1. ViewShape' /\ RowsFitView' /\ PathIsShort' /\ ListIsWhole'
  BY DEF ViewInv, ViewShape, RowsFitView, PathIsShort, ListIsWhole, Viewing, Reach, Shown
<1>2. AreTriples(Edges(graph)) /\ AreTriples(Edges(graph')) /\ IsFiniteSet(Edges(graph'))
  <2>1. AreTriples(Edges(graph)) /\ IsFiniteSet(Edges(graph))
    BY GraphJoins
  <2>2. \A edge \in Edges(graph') : edge = <<edge[1], edge[2], edge[3]>>
    BY DEF RetrievalInv, Canonical
  <2>3. QED
    BY <2>1, <2>2 DEF AreTriples, GraphInv
<1>3. NoneLeftOut'
  <2> SUFFICES ASSUME pc = "collect" \/ answer.outcome = "view", NEW edge \in view.before,
                      {edge[2], edge[3]} \subseteq Shown, NEW end \in {edge[2], edge[3]},
                      end \notin view.todo, Cardinality(EdgeRows(graph', end, "both")) <= NodeCap
               PROVE  edge \in view.edges
    BY DEF NoneLeftOut, Shown
  <2>1. /\ Cardinality(EdgeRows(graph, end, "both")) \in Nat
        /\ Cardinality(EdgeRows(graph', end, "both")) \in Nat
        /\ Cardinality(EdgeRows(graph, end, "both")) <= Cardinality(EdgeRows(graph', end, "both"))
    BY <1>2, RowsGrow
  <2>2. Cardinality(EdgeRows(graph, end, "both")) <= NodeCap
    BY <2>1, Limits
  <2>3. QED
    BY <2>2 DEF ViewInv, NoneLeftOut
<1>4. QED
  BY <1>1, <1>3 DEF ViewInv

\* A step that draws nothing and answers with something else.
LEMMA OtherKeepsView ==
  ASSUME ViewInv, UNCHANGED <<graph, view>>, pc' \notin {"seed", "collect"},
         answer'.outcome \notin {"view", "path", "relationships"}
  PROVE  ViewInv'
BY DEF ViewInv, ViewShape, RowsFitView, NoneLeftOut, PathIsShort, ListIsWhole, Viewing, Shown

\* A view begins with what one read of the neighbourhood gives.
LEMMA VisualizeBegins ==
  ASSUME RetrievalInv, GraphInv, Visualize
  PROVE  ViewInv'
<1>1. PICK seed \in Entities, depth \in Depths, types \in Filters :
        \E rows \in Neighbourhood(graph, seed, depth, types, NodeCap) :
          view' = [NoView EXCEPT !.seed = seed, !.depth = depth, !.types = types,
                                 !.before = Edges(graph), !.rows = rows]
  BY DEF Visualize
<1>2. PICK rows \in Neighbourhood(graph, seed, depth, types, NodeCap) :
        view' = [NoView EXCEPT !.seed = seed, !.depth = depth, !.types = types,
                               !.before = Edges(graph), !.rows = rows]
  BY <1>1
<1>3. view' = [seed |-> seed, depth |-> depth, types |-> types, before |-> Edges(graph),
               rows |-> rows, todo |-> {}, edges |-> {}]
  BY <1>2 DEF NoView
<1>4. pc = "new" /\ pc' = "seed" /\ UNCHANGED <<graph, answer>>
  BY DEF Visualize, GoTo
<1>5. answer'.outcome = "none"
  BY <1>4 DEF RetrievalInv, AnswerInv, NoAnswer
<1>6. depth \in Nat
  BY RetrievalAssumption
<1> DEFINE E == OfTypes(Edges(graph), types)
<1>7. /\ IsFiniteSet(rows) /\ Cardinality(rows) <= NodeCap
      /\ \A row \in rows : row.at \in Ball(E, seed, Len(row.path))
      /\ Cardinality(rows) < NodeCap =>
           Ball(E, seed, depth) \subseteq {seed} \cup {row.at : row \in rows}
  BY <1>6, GraphJoins, Limits, NeighbourhoodsHold
<1>8. /\ view'.seed = seed /\ view'.depth = depth /\ view'.types = types
      /\ view'.before = Edges(graph) /\ view'.rows = rows /\ view'.todo = {} /\ view'.edges = {}
  BY <1>3
<1>9. ViewShape'
  BY <1>3, <1>4, <1>5, <1>7, <1>8 DEF ViewShape, Shown
<1>10. RowsFitView'
  BY <1>7, <1>8 DEF RowsFitView, Reach, Shown
<1>11. NoneLeftOut' /\ PathIsShort' /\ ListIsWhole'
  BY <1>4, <1>5 DEF NoneLeftOut, PathIsShort, ListIsWhole
<1>12. QED
  BY <1>9, <1>10, <1>11 DEF ViewInv

LEMMA FindSeedKeepsView ==
  ASSUME RetrievalInv, ViewInv, FindSeed
  PROVE  ViewInv'
<1>1. pc = "seed" /\ answer.outcome = "none" /\ UNCHANGED graph
  <2>1. pc = "seed" /\ UNCHANGED graph
    BY DEF FindSeed
  <2>2. answer = NoAnswer
    BY <2>1 DEF RetrievalInv, AnswerInv
  <2>3. QED
    BY <2>1, <2>2 DEF NoAnswer
<1>2. CASE view' = [view EXCEPT !.todo = Shown] /\ pc' = "collect" /\ UNCHANGED answer
  <2>1. /\ view'.seed = view.seed /\ view'.depth = view.depth /\ view'.types = view.types
        /\ view'.before = view.before /\ view'.rows = view.rows /\ view'.todo = Shown
        /\ view'.edges = view.edges
        /\ view' = [seed |-> view'.seed, depth |-> view'.depth, types |-> view'.types,
                    before |-> view'.before, rows |-> view'.rows, todo |-> view'.todo,
                    edges |-> view'.edges]
    BY <1>2 DEF ViewInv, ViewShape
  <2>2. Shown' = Shown
    BY <2>1 DEF Shown
  <2>3. ViewShape'
    BY <1>1, <1>2, <2>1, <2>2 DEF ViewInv, ViewShape
  <2>4. RowsFitView'
    BY <1>1, <1>2, <2>1, <2>2 DEF ViewInv, RowsFitView, Viewing, Reach
  <2>5. NoneLeftOut' /\ PathIsShort' /\ ListIsWhole'
    BY <1>1, <1>2, <2>1, <2>2 DEF NoneLeftOut, PathIsShort, ListIsWhole
  <2>6. QED
    BY <2>3, <2>4, <2>5 DEF ViewInv
<1>3. CASE pc' = "over" /\ answer'.outcome = "not found" /\ UNCHANGED view
  BY <1>1, <1>3, OtherKeepsView
<1>4. QED
  BY <1>2, <1>3 DEF FindSeed, Answered, GoTo, Told, NoAnswer

\* The relationships of one more entity.
LEMMA CollectKeepsView ==
  ASSUME RetrievalInv, GraphInv, ViewInv, CollectEdges
  PROVE  ViewInv'
<1>1. PICK node \in view.todo : \E rows \in RelationshipsOf(graph, node, "both", NodeCap) :
        view' = [view EXCEPT
                   !.edges = @ \cup {Placed(node, row) : row \in {r \in rows : r.other \in Shown}},
                   !.todo = @ \ {node}]
  BY DEF CollectEdges
<1>2. PICK rows \in RelationshipsOf(graph, node, "both", NodeCap) :
        view' = [view EXCEPT
                   !.edges = @ \cup {Placed(node, row) : row \in {r \in rows : r.other \in Shown}},
                   !.todo = @ \ {node}]
  BY <1>1
<1>3. pc = "collect" /\ pc' = "collect" /\ answer' = answer /\ graph' = graph
      /\ answer.outcome = "none"
  BY DEF CollectEdges, RetrievalInv, AnswerInv, NoAnswer
<1> DEFINE kept == {r \in rows : r.other \in Shown}
           more == {Placed(node, row) : row \in kept}
           all == EdgeRows(graph, node, "both")
<1>4. /\ rows \subseteq all
      /\ {Placed(node, row) : row \in rows} \subseteq Pointing(Edges(graph), node, "both")
      /\ Cardinality(all) <= NodeCap => rows = all
  BY GraphJoins, Limits, ListsHold
<1>5. /\ \A row \in all : row.other \in {Placed(node, row)[2], Placed(node, row)[3]}
      /\ \A edge \in Pointing(Edges(graph), node, "both") : \E row \in all :
           /\ Placed(node, row) = edge
           /\ row.other = IF edge[2] = node THEN edge[3] ELSE edge[2]
  BY GraphJoins, RowsPlaced
<1>6. ASSUME NEW edge \in more
      PROVE  edge \in Edges(graph) /\ {edge[2], edge[3]} \subseteq Shown
  <2>1. PICK row \in rows : row.other \in Shown /\ edge = Placed(node, row)
    OBVIOUS
  <2>2. edge \in Edges(graph) /\ node \in {edge[2], edge[3]} /\ row.other \in {edge[2], edge[3]}
    BY <1>4, <1>5, <2>1 DEF Pointing
  <2>3. node \in Shown
    BY DEF ViewInv, ViewShape
  <2>4. {edge[2], edge[3]} = {node, row.other}
    <3>1. PICK r \in all : /\ Placed(node, r) = edge
                           /\ r.other = IF edge[2] = node THEN edge[3] ELSE edge[2]
      BY <1>4, <1>5, <2>1
    <3>2. r = row
      BY <1>4, <2>1, <3>1, GraphJoins, RowsPlaced
    <3>3. QED
      BY <2>2, <3>1, <3>2
  <2>5. QED
    BY <2>1, <2>2, <2>3, <2>4
<1>7. ASSUME NEW edge \in Edges(graph), node \in {edge[2], edge[3]}, Cardinality(all) <= NodeCap,
             {edge[2], edge[3]} \subseteq Shown
      PROVE  edge \in more
  <2>1. edge \in Pointing(Edges(graph), node, "both")
    BY <1>7 DEF Pointing
  <2>2. PICK row \in all : /\ Placed(node, row) = edge
                           /\ row.other = IF edge[2] = node THEN edge[3] ELSE edge[2]
    BY <1>5, <2>1
  <2>3. QED
    BY <1>4, <1>7, <2>2
<1>8. view' = [view EXCEPT !.edges = @ \cup more, !.todo = @ \ {node}]
  BY <1>2
<1> HIDE DEF more, all
<1>9. /\ view'.seed = view.seed /\ view'.depth = view.depth /\ view'.types = view.types
      /\ view'.before = view.before /\ view'.rows = view.rows
      /\ view'.todo = view.todo \ {node} /\ view'.edges = view.edges \cup more
      /\ view' = [seed |-> view'.seed, depth |-> view'.depth, types |-> view'.types,
                  before |-> view'.before, rows |-> view'.rows, todo |-> view'.todo,
                  edges |-> view'.edges]
  BY <1>8 DEF ViewInv, ViewShape
<1>10. Shown' = Shown
  BY <1>9 DEF Shown
<1>11. ViewShape'
  BY <1>3, <1>6, <1>9, <1>10 DEF ViewInv, ViewShape
<1>12. RowsFitView'
  BY <1>3, <1>6, <1>9, <1>10 DEF ViewInv, RowsFitView, Viewing, Reach
<1>13. NoneLeftOut'
  <2> SUFFICES ASSUME NEW edge \in view.before, {edge[2], edge[3]} \subseteq Shown,
                      NEW end \in {edge[2], edge[3]}, end \notin view.todo \ {node},
                      Cardinality(EdgeRows(graph, end, "both")) <= NodeCap
               PROVE  edge \in view.edges \cup more
    BY <1>3, <1>9, <1>10 DEF NoneLeftOut
  <2>1. CASE end = node
    BY <1>7, <2>1 DEF ViewInv, ViewShape, all
  <2>2. CASE end # node
    BY <1>3, <2>2 DEF ViewInv, NoneLeftOut
  <2>3. QED
    BY <2>1, <2>2
<1>14. PathIsShort' /\ ListIsWhole'
  BY <1>3 DEF PathIsShort, ListIsWhole
<1>15. QED
  BY <1>11, <1>12, <1>13, <1>14 DEF ViewInv

LEMMA ShowKeepsView ==
  ASSUME ViewInv, ShowView
  PROVE  ViewInv'
<1>1. pc = "collect" /\ view.todo = {} /\ answer'.outcome = "view" /\ UNCHANGED <<graph, view>>
  BY DEF ShowView, Answered, Told, NoAnswer
<1>2. QED
  BY <1>1
  DEF ViewInv, ViewShape, RowsFitView, NoneLeftOut, PathIsShort, ListIsWhole, Viewing, Reach, Shown

\* A path is what one read gives: among the shortest there were.
LEMMA FindPathKeepsView ==
  ASSUME RetrievalInv, GraphInv, ViewInv, FindPath
  PROVE  ViewInv'
<1>1. pc = "new" /\ pc' = "over" /\ UNCHANGED graph
  BY DEF FindPath, Answered, GoTo
<1>2. PICK source \in Entities, target \in Entities, depth \in 1..PathDepth :
        LET paths == ShortestPaths(graph, source, target, depth)
        IN  \/ source = target /\ source \in graph.nodes /\ Answered(Told("error")) /\ UNCHANGED view
            \/ /\ source # target \/ source \notin graph.nodes
               /\ paths = {} /\ Answered(Told("not found")) /\ UNCHANGED view
            \/ /\ source # target
               /\ \E walk \in paths :
                    view' = [NoView EXCEPT !.seed = source, !.before = Edges(graph), !.rows = {walk}]
               /\ Answered(Told("path"))
  BY DEF FindPath
<1>3. CASE UNCHANGED view /\ (Answered(Told("error")) \/ Answered(Told("not found")))
  <2>1. answer'.outcome \in {"error", "not found"}
    BY <1>3 DEF Answered, Told, NoAnswer
  <2>2. QED
    BY <1>1, <1>3, <2>1, OtherKeepsView
<1>4. CASE /\ source # target
           /\ \E walk \in ShortestPaths(graph, source, target, depth) :
                view' = [NoView EXCEPT !.seed = source, !.before = Edges(graph), !.rows = {walk}]
           /\ Answered(Told("path"))
  <2>1. PICK walk \in ShortestPaths(graph, source, target, depth) :
          view' = [NoView EXCEPT !.seed = source, !.before = Edges(graph), !.rows = {walk}]
    BY <1>4
  <2>2. view' = [seed |-> source, depth |-> 1, types |-> {}, before |-> Edges(graph),
                 rows |-> {walk}, todo |-> {}, edges |-> {}]
    BY <2>1 DEF NoView
  <2>3. answer'.outcome = "path"
    BY <1>4 DEF Answered, Told, NoAnswer
  <2>4. depth \in Nat
    BY RetrievalAssumption
  <2>5. walk.at \in Ball(OfTypes(Edges(graph), Types), source, Len(walk.path))
                    \ Ball(OfTypes(Edges(graph), Types), source, Len(walk.path) - 1)
    BY <1>4, <2>4, GraphJoins, PathsAreShortest DEF Types
  <2>6. IsFiniteSet({walk}) /\ Cardinality({walk}) = 1
    BY FS_Singleton
  <2>7. 1 <= NodeCap
    BY Limits
  <2>8. /\ view'.seed = source /\ view'.before = Edges(graph) /\ view'.rows = {walk}
        /\ view'.todo = {} /\ view'.edges = {}
    BY <2>2
  <2>9. ViewShape'
    BY <1>1, <2>2, <2>3, <2>6, <2>7, <2>8 DEF ViewShape, Shown
  <2>10. PathIsShort'
    BY <2>5, <2>8 DEF PathIsShort, Types
  <2>11. RowsFitView' /\ NoneLeftOut' /\ ListIsWhole'
    BY <1>1, <2>3 DEF RowsFitView, NoneLeftOut, ListIsWhole, Viewing
  <2>12. QED
    BY <2>9, <2>10, <2>11 DEF ViewInv
<1>5. QED
  BY <1>2, <1>3, <1>4

\* A list of relationships is what one read gives.
LEMMA ListKeepsView ==
  ASSUME RetrievalInv, GraphInv, ListRelationships
  PROVE  ViewInv'
<1>1. /\ pc' = "over" /\ answer'.outcome = "relationships" /\ UNCHANGED graph
  BY DEF ListRelationships, Answered, GoTo, Told, NoAnswer
<1>2. PICK seed \in Entities, direction \in {"both", "incoming", "outgoing"} :
        \E rows \in RelationshipsOf(graph, seed, direction, NodeCap) :
          view' = [NoView EXCEPT !.seed = seed, !.types = {direction}, !.before = Edges(graph),
                                 !.edges = {Placed(seed, row) : row \in rows}]
  BY DEF ListRelationships
<1>3. PICK rows \in RelationshipsOf(graph, seed, direction, NodeCap) :
        view' = [NoView EXCEPT !.seed = seed, !.types = {direction}, !.before = Edges(graph),
                               !.edges = {Placed(seed, row) : row \in rows}]
  BY <1>2
<1> DEFINE listed == {Placed(seed, row) : row \in rows}
           pointing == Pointing(Edges(graph), seed, direction)
<1>4. listed \subseteq pointing /\ (Cardinality(listed) < NodeCap => listed = pointing)
  BY GraphJoins, Limits, ListsHold
<1>5. view' = [seed |-> seed, depth |-> 1, types |-> {direction}, before |-> Edges(graph),
               rows |-> {}, todo |-> {}, edges |-> listed]
  BY <1>3 DEF NoView
<1> HIDE DEF listed
<1>6. /\ view'.seed = seed /\ view'.before = Edges(graph) /\ view'.rows = {}
      /\ view'.todo = {} /\ view'.edges = listed /\ view'.types = {direction}
  BY <1>5
<1>7. IsFiniteSet({}) /\ Cardinality({}) = 0 /\ 0 <= NodeCap
  BY FS_EmptySet, Limits
<1>8. listed \subseteq Edges(graph)
  BY <1>4 DEF Pointing
<1>9. ViewShape'
  BY <1>1, <1>5, <1>6, <1>7, <1>8 DEF ViewShape, Shown
<1>10. pointing = {edge \in view'.before :
                     \/ edge[2] = view'.seed /\ view'.types # {"incoming"}
                     \/ edge[3] = view'.seed /\ view'.types # {"outgoing"}}
  BY <1>6 DEF Pointing
<1>11. ListIsWhole'
  BY <1>4, <1>6, <1>10 DEF ListIsWhole
<1>12. RowsFitView' /\ NoneLeftOut' /\ PathIsShort'
  BY <1>1 DEF RowsFitView, NoneLeftOut, PathIsShort, Viewing
<1>13. QED
  BY <1>9, <1>11, <1>12 DEF ViewInv

LEMMA StepView ==
  ASSUME RetrievalInv, GraphInv, ViewInv, [Next]_vars
  PROVE  ViewInv'
<1>1. RetrievalInv' /\ GraphInv'
  BY StepRetrieval, StepGraph
<1>2. CASE WriteEntity \/ WriteRelationship \/ CommitDocument \/ UNCHANGED vars
  <2>1. Edges(graph) \subseteq Edges(graph')
    BY DatabasesGrow DEF RetrievalInv
  <2>2. UNCHANGED <<pc, answer, view>>
    BY <1>2 DEF WriteEntity, WriteRelationship, CommitDocument, vars
  <2>3. QED
    BY <1>1, <2>1, <2>2, WriteKeepsView
<1>3. CASE Ask \/ Search \/ Anchor \/ Expand \/ Relate
  <2>1. /\ UNCHANGED <<graph, view, answer>> /\ pc # "over"
        /\ pc' \in {"search", "anchor", "expand", "relate"}
    BY <1>3 DEF Ask, Search, Anchor, Expand, Relate, GoTo
  <2>2. answer'.outcome = "none"
    <3>1. answer = NoAnswer
      BY <2>1 DEF RetrievalInv, AnswerInv
    <3>2. QED
      BY <2>1, <3>1 DEF NoAnswer
  <2>3. QED
    BY <2>1, <2>2, OtherKeepsView
<1>4. CASE Assemble \/ Synthesize \/ GetEntity
  <2>1. /\ UNCHANGED <<graph, view>> /\ pc # "over"
        /\ \/ pc' = "synthesize" /\ UNCHANGED answer
           \/ /\ pc' = "over"
              /\ answer'.outcome \in {"context", "not found", "answer", "error", "entity"}
    BY <1>4 DEF Assemble, Synthesize, GetEntity, Answered, GoTo, Told, NoAnswer
  <2>2. answer.outcome = "none"
    <3>1. answer = NoAnswer
      BY <2>1 DEF RetrievalInv, AnswerInv
    <3>2. QED
      BY <3>1 DEF NoAnswer
  <2>3. QED
    BY <2>1, <2>2, OtherKeepsView
<1>5. QED
  BY <1>2, <1>3, <1>4, VisualizeBegins, FindSeedKeepsView, CollectKeepsView, ShowKeepsView,
     FindPathKeepsView, ListKeepsView DEF Next

LEMMA AlwaysTrue == Spec => [](RetrievalInv /\ GraphInv /\ CountsInv /\ ViewInv)
<1>1. Init => RetrievalInv /\ GraphInv /\ CountsInv /\ ViewInv
  BY InitRetrieval, InitGraph, InitCounts, InitView
<1>2. /\ RetrievalInv /\ GraphInv /\ CountsInv /\ ViewInv /\ [Next]_vars
      => RetrievalInv' /\ GraphInv' /\ CountsInv' /\ ViewInv'
  BY StepRetrieval, StepGraph, StepCounts, StepView
<1>3. QED
  BY <1>1, <1>2, PTL DEF Spec

\* Edges join entities that are in the graph, and no request reads more than
\* its limits allow, whatever is written between its reads.
THEOREM ReadsKeepLimits == Spec => []TypeOK
<1>1. ASSUME RetrievalInv, GraphInv, CountsInv, ViewInv
      PROVE  TypeOK
  <2>1. /\ Cardinality(context.todo) \in Nat /\ Cardinality(context.reached) \in Nat
        /\ Cardinality(context.facts) \in Nat
    BY <1>1, FS_CardinalityType DEF CountsInv
  <2>2. Cardinality(context.todo) * MaxNeighbours \in Nat /\ MaxSeeds * MaxNeighbours \in Nat
    BY <2>1, Limits
  <2>3. /\ Cardinality(context.reached) <= MaxSeeds * MaxNeighbours
        /\ Cardinality(context.facts) <= MaxSeeds * MaxNeighbours
    <3> DEFINE t == Cardinality(context.todo) * MaxNeighbours
               all == MaxSeeds * MaxNeighbours
    <3>1. /\ Cardinality(context.reached) + t <= all
          /\ Cardinality(context.facts) + t + (IF pc = "relate" THEN MaxNeighbours ELSE 0) <= all
      BY <1>1 DEF CountsInv
    <3>2. t \in Nat /\ all \in Nat
      BY <2>2
    <3> HIDE DEF t, all
    <3>3. Cardinality(context.reached) <= all /\ Cardinality(context.facts) <= all
      BY <2>1, <3>1, <3>2, Limits
    <3>4. QED
      BY <3>3 DEF all
  <2>4. \A edge \in Edges(graph) : IsRelationship(edge[1], edge[2], edge[3])
    BY <1>1 DEF RetrievalInv, Canonical
  <2>5. context.passages \subseteq Stored /\ context.todo \subseteq context.seeds
    BY <1>1 DEF RetrievalInv, ContextInv, PassagesCompare, ContextShape
  <2>6. QED
    BY <1>1, <2>3, <2>4, <2>5 DEF TypeOK, GraphInv, CountsInv, ViewInv, ViewShape
<1>2. QED
  BY <1>1, AlwaysTrue, PTL

\* A view shows stored edges between entities within its depth and, when it is
\* not truncated, all that was there when it was begun; a path is among the
\* shortest; a list of relationships below its limit is whole.
THEOREM ViewsStayTrue == Spec => []ViewsAreTrue
<1>1. ASSUME RetrievalInv, GraphInv, CountsInv, ViewInv
      PROVE  ViewsAreTrue
  <2>1. ASSUME answer.outcome = "view"
        PROVE  /\ \A edge \in view.edges : edge \in Edges(graph) /\ {edge[2], edge[3]} \subseteq Shown
               /\ \A row \in view.rows :
                    row.at \in Ball(OfTypes(view.before, view.types), view.seed, Len(row.path))
               /\ ~Truncated =>
                    /\ Ball(OfTypes(view.before, view.types), view.seed, view.depth) \subseteq Shown
                    /\ \A edge \in view.before :
                         (/\ {edge[2], edge[3]} \subseteq Shown
                          /\ \E end \in {edge[2], edge[3]} :
                               Cardinality(EdgeRows(graph, end, "both")) <= NodeCap)
                         => edge \in view.edges
    <3>1. /\ \A edge \in view.edges : edge \in Edges(graph) /\ {edge[2], edge[3]} \subseteq Shown
          /\ \A row \in view.rows :
               row.at \in Ball(OfTypes(view.before, view.types), view.seed, Len(row.path))
          /\ Cardinality(view.rows) < NodeCap => Reach \subseteq Shown
      BY <1>1, <2>1 DEF ViewInv, ViewShape, RowsFitView, Viewing
    <3>2. \A edge \in view.before :
            (/\ {edge[2], edge[3]} \subseteq Shown
             /\ \E end \in {edge[2], edge[3]} : Cardinality(EdgeRows(graph, end, "both")) <= NodeCap)
            => edge \in view.edges
      BY <1>1, <2>1 DEF ViewInv, ViewShape, NoneLeftOut
    <3>3. ~Truncated => Cardinality(view.rows) < NodeCap
      BY <1>1, Limits, FS_CardinalityType DEF Truncated, ViewInv, ViewShape
    <3>4. QED
      BY <3>1, <3>2, <3>3 DEF Reach
  <2>2. PathIsShort /\ ListIsWhole
    BY <1>1 DEF ViewInv
  <2>3. QED
    BY <2>1, <2>2 DEF ViewsAreTrue, PathIsShort, ListIsWhole
<1>2. QED
  BY <1>1, AlwaysTrue, PTL
=============================================================================
