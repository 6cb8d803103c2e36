--------------------------- MODULE ResolutionProofs ---------------------------
(***************************************************************************)
(* What Resolution guarantees for any names, identifiers, similarity and   *)
(* number of documents: the index never points outside itself, no node of  *)
(* the graph collects two values of one identifier type, every node is one *)
(* cluster of evidence that forgets nothing, and two nodes of one name     *)
(* have a reason to be two.                                                *)
(***************************************************************************)
EXTENDS Resolution, FiniteSetTheorems, TLAPS

(***************************************************************************)
(* Type correctness, with the shape of a document's progress.              *)
(***************************************************************************)
Progress ==
  /\ phase = "load" => resolved = <<>>
  /\ phase = "resolve" => Len(resolved) = at - 1
  /\ phase = "write" => Len(resolved) = Len(batch) /\ found = {}
  /\ phase = "idle" => resolved = <<>> /\ found = {}

TypeInv == TypeOK /\ Progress

LEMMA ExtractedType ==
  ASSUME NEW m \in Mentions
  PROVE  Extracted(m) \in Entities /\ ~Conflicting(Extracted(m), Extracted(m))
BY MentionsAssumption DEF Extracted, Entities, Conflicting

LEMMA MergedType ==
  ASSUME NEW e \in Entities, NEW o \in Entities PROVE MergedWith(e, o) \in Entities
BY DEF MergedWith, Entities

LEMMA CandidatesType ==
  ASSUME TypeOK, NEW e \in Entities PROVE Candidates(e) \subseteq Nodes
BY DEF TypeOK, Candidates, Entities

LEMMA AddType ==
  ASSUME TypeOK, NEW n \in Nodes, NEW e \in Entities, Add(n, e)
  PROVE  /\ known' \in [Nodes -> MaybeEntity]
         /\ holder' \in [Identifiers -> Nodes \cup {Absent}]
         /\ blocks' \in [{BlockOf[s] : s \in Names} -> SUBSET Nodes]
BY DEF TypeOK, Add, Register, MaybeEntity

LEMMA ReplaceType ==
  ASSUME TypeOK, NEW n \in Nodes, NEW e \in Entities, Replace(n, e)
  PROVE  /\ known' \in [Nodes -> MaybeEntity]
         /\ holder' \in [Identifiers -> Nodes \cup {Absent}]
         /\ blocks' \in [{BlockOf[s] : s \in Names} -> SUBSET Nodes]
BY DEF TypeOK, Replace, Register, MaybeEntity

LEMMA SettleType ==
  ASSUME TypeInv, Resolving, NEW n \in Nodes, NEW e \in Entities, Settle(n, e),
         known' \in [Nodes -> MaybeEntity],
         holder' \in [Identifiers -> Nodes \cup {Absent}],
         blocks' \in [{BlockOf[s] : s \in Names} -> SUBSET Nodes],
         refused' \subseteq Nodes
  PROVE  TypeInv'
<1>1. resolved' \in Seq(Nodes \X Entities) /\ Len(resolved') = Len(resolved) + 1
  BY DEF TypeInv, TypeOK, Settle
<1>2. /\ Len(batch) \in Nat /\ at \in 1..Len(batch) /\ Len(batch) <= MaxMentions
      /\ Len(resolved) = at - 1
  BY DEF TypeInv, TypeOK, Progress, Resolving
<1>3. /\ at' \in 1..Len(batch) /\ at' \in 0..MaxMentions /\ phase' \in {"resolve", "write"}
      /\ phase' = "resolve" => Len(resolved') = at' - 1
      /\ phase' = "write" => Len(resolved') = Len(batch)
  BY <1>1, <1>2, BoundAssumption DEF Settle, Resolving
<1>4. TypeOK'
  BY <1>1, <1>3 DEF TypeInv, TypeOK, Settle, Resolving
<1>5. Progress'
  BY <1>3 DEF Progress, Settle, Resolving
<1>6. QED
  BY <1>4, <1>5 DEF TypeInv

LEMMA CurrentType ==
  ASSUME TypeInv, Resolving
  PROVE  /\ batch[at] \in Mentions /\ Current \in Entities
         /\ document \in Documents /\ <<document, at>> \in Nodes
<1>1. batch[at] \in Mentions
  BY DEF TypeInv, TypeOK, Resolving
<1>2. Current \in Entities
  BY <1>1, ExtractedType DEF Current
<1>3. document \in Documents /\ <<document, at>> \in Nodes
  BY BoundAssumption DEF TypeInv, TypeOK, Resolving, Nodes
<1>4. QED
  BY <1>1, <1>2, <1>3

\* What the resolver chooses is an indexed candidate without a conflict.
LEMMA ChosenNode ==
  ASSUME TypeInv, Resolving, NEW n \in Matches(Current) \cup BestFuzzy(Current)
  PROVE  n \in Nodes /\ n \in Candidates(Current) /\ ~Conflicting(Current, known[n])
BY CurrentType, CandidatesType DEF TypeInv, Matches, BestFuzzy

LEMMA AbandonType ==
  ASSUME TypeOK, Abandon, graph' \in [Nodes -> MaybeEntity] PROVE TypeInv'
<1>1. /\ known' \in [Nodes -> MaybeEntity]
      /\ holder' \in [Identifiers -> Nodes \cup {Absent}]
      /\ blocks' \in [{BlockOf[s] : s \in Names} -> SUBSET Nodes]
  BY DEF Abandon, NoIndex, MaybeEntity
<1>2. batch' \in Seq(Mentions) /\ Len(batch') = 0 /\ resolved' \in Seq(Nodes \X Entities)
  BY DEF Abandon
<1>3. at' = 0 /\ 0 \in 0..MaxMentions /\ 0 <= MaxMentions
  BY BoundAssumption DEF Abandon
<1>4. TypeOK'
  BY <1>1, <1>2, <1>3 DEF TypeOK, Abandon
<1>5. QED
  BY <1>4 DEF TypeInv, Progress, Abandon

LEMMA UpsertedType ==
  ASSUME TypeOK, NEW n \in Nodes, NEW e \in Entities PROVE Upserted(n, e) \in Entities
<1>1. CASE graph[n] = Absent
  BY <1>1 DEF Upserted
<1>2. CASE graph[n] # Absent
  <2>1. graph[n] \in Entities
    BY <1>2 DEF TypeOK, MaybeEntity
  <2>2. QED
    BY <1>2, <2>1 DEF Upserted, Entities
<1>3. QED
  BY <1>1, <1>2

LEMMA BatchType ==
  ASSUME NEW size \in 1..MaxMentions, NEW b \in [1..size -> Mentions]
  PROVE  b \in Seq(Mentions) /\ Len(b) = size /\ b[1] \in Mentions
BY BoundAssumption

\* The index never loses an entity, so candidates never are absent.
IndexInv ==
  /\ IndexSound
  /\ found \cap Indexed = {}
  /\ \A n \in found : graph[n] # Absent
  /\ \A n \in Nodes : graph[n] # Absent \/ known[n] # Absent => n[1] \in seen
  /\ \A i \in 1..Len(resolved) : resolved[i][1][1] \in seen
  /\ phase # "idle" => document \in seen
  /\ \A i \in 1..MaxMentions :
       /\ phase \in {"load", "resolve"} => graph[<<document, i>>] = Absent
       /\ phase = "load" => known[<<document, i>>] = Absent
       /\ phase = "resolve" /\ i >= at => known[<<document, i>>] = Absent

LEMMA CandidatesIndexed ==
  ASSUME TypeOK, IndexInv, NEW e \in Entities PROVE Candidates(e) \subseteq Indexed
<1>1. e.name \in Names /\ e.identifiers \subseteq Identifiers
  BY DEF Entities
<1>2. BlockOf[e.name] \in DOMAIN blocks
  BY <1>1 DEF TypeOK
<1>3. blocks[BlockOf[e.name]] \subseteq Indexed
  BY <1>2 DEF IndexInv, IndexSound
<1>4. \A k \in Identifiers : holder[k] # Absent => holder[k] \in Indexed
  BY DEF IndexInv, IndexSound
<1>5. QED
  BY <1>1, <1>3, <1>4 DEF Candidates

LEMMA InitType == Init => TypeInv
<1> SUFFICES ASSUME Init PROVE TypeInv
  OBVIOUS
<1>1. graph \in [Nodes -> MaybeEntity] /\ known \in [Nodes -> MaybeEntity]
  BY DEF Init, MaybeEntity
<1>2. batch \in Seq(Mentions) /\ Len(batch) = 0 /\ resolved \in Seq(Nodes \X Entities)
  BY DEF Init
<1>3. TypeOK
  BY <1>1, <1>2, BoundAssumption DEF Init, TypeOK
<1>4. QED
  BY <1>3 DEF Init, TypeInv, Progress

LEMMA StepType == TypeInv /\ IndexInv /\ [Next]_vars => TypeInv'
<1> SUFFICES ASSUME TypeInv, IndexInv, [Next]_vars PROVE TypeInv'
  OBVIOUS
<1>a. ASSUME NEW d \in Documents, Begin(d) PROVE TypeInv'
  <2>1. PICK size \in 1..MaxMentions : batch' \in [1..size -> Mentions]
    BY <1>a DEF Begin
  <2>2. batch' \in Seq(Mentions) /\ Len(batch') = size /\ batch'[1] \in Mentions
    BY <2>1, BatchType
  <2>3. batch'[1].identifiers \subseteq Identifiers
    BY <2>2, MentionsAssumption
  <2>4. QED
    BY <1>a, <2>1, <2>2, <2>3, BoundAssumption DEF Begin, TypeInv, TypeOK, Progress, index
<1>b. CASE FindByIdentifier
  <2>1. found' \subseteq Nodes /\ asking' \subseteq Identifiers
    BY <1>b DEF FindByIdentifier, TypeInv, TypeOK
  <2>2. QED
    BY <1>b, <2>1 DEF FindByIdentifier, TypeInv, TypeOK, Progress, index
<1>c. CASE FindByName
  <2>1. found' \subseteq Nodes
    BY <1>c DEF FindByName, NamedInGraph
  <2>2. CASE at = Len(batch)
    BY <1>c, <2>1, <2>2, BoundAssumption DEF FindByName, TypeInv, TypeOK, Progress, index
  <2>3. CASE at # Len(batch)
    <3>1. at + 1 \in 1..Len(batch) /\ batch[at + 1] \in Mentions /\ at + 1 \in 0..MaxMentions
      BY <1>c, <2>3, BoundAssumption DEF FindByName, TypeInv, TypeOK
    <3>2. batch[at + 1].identifiers \subseteq Identifiers
      BY <3>1, MentionsAssumption
    <3>3. QED
      BY <1>c, <2>1, <2>3, <3>1, <3>2 DEF FindByName, TypeInv, TypeOK, Progress, index
  <2>4. QED
    BY <2>2, <2>3
<1>d. CASE IndexRow
  <2>1. PICK n \in found : Add(n, graph[n]) /\ found' = found \ {n}
    BY <1>d DEF IndexRow
  <2>2. QED
    BY <1>d, <2>1 DEF IndexRow, TypeInv, TypeOK, Progress, Add, Register
<1>e. ASSUME Resolving, NEW n \in Nodes, MergeInto(n), known[n] # Absent PROVE TypeInv'
  <2>1. MergedWith(known[n], Current) \in Entities
    BY <1>e, CurrentType, MergedType DEF TypeInv, TypeOK, MaybeEntity
  <2>2. QED
    BY <1>e, <2>1, ReplaceType, SettleType DEF MergeInto, TypeInv, TypeOK
<1>f. ASSUME Resolving, CreateNode, refused' \subseteq Nodes PROVE TypeInv'
  BY <1>f, CurrentType, AddType, SettleType DEF CreateNode, TypeInv, TypeOK
<1>g. CASE Write
  <2>1. at \in 1..Len(resolved) /\ resolved[at] \in Nodes \X Entities
    BY <1>g DEF Write, TypeInv, TypeOK, Progress
  <2>2. graph' \in [Nodes -> MaybeEntity]
    BY <1>g, <2>1, UpsertedType DEF Write, TypeInv, TypeOK, MaybeEntity
  <2>3. CASE at = Len(resolved)
    BY <1>g, <2>2, <2>3, AbandonType DEF Write, TypeInv
  <2>4. CASE at # Len(resolved)
    <3>1. at + 1 \in 1..Len(batch) /\ at + 1 \in 0..MaxMentions
      BY <1>g, <2>1, <2>4, BoundAssumption DEF Write, TypeInv, TypeOK, Progress
    <3>2. QED
      BY <1>g, <2>2, <2>4, <3>1 DEF Write, TypeInv, TypeOK, Progress, index
  <2>5. QED
    BY <2>3, <2>4
<1>h. CASE Fail
  BY <1>h, AbandonType DEF Fail, TypeInv, TypeOK
<1>i. CASE Quiet \/ UNCHANGED vars
  BY <1>i DEF Quiet, vars, index, TypeInv, TypeOK, Progress
<1>j. CASE Match \/ MatchFuzzy
  <2>1. PICK n \in Matches(Current) \cup BestFuzzy(Current) : MergeInto(n) /\ Resolving
    BY <1>j DEF Match, MatchFuzzy, Undecided
  <2>2. n \in Nodes /\ known[n] # Absent
    BY <2>1, ChosenNode, CandidatesIndexed, CurrentType DEF TypeInv, Indexed
  <2>3. QED
    BY <2>1, <2>2, <1>e
<1>k. CASE Refuse \/ Create
  BY <1>k, <1>f, CurrentType DEF Refuse, Create, Undecided, TypeInv, TypeOK
<1>l. QED
  BY <1>a, <1>b, <1>c, <1>d, <1>g, <1>h, <1>i, <1>j, <1>k DEF Next

(***************************************************************************)
(* The index                                                               *)
(***************************************************************************)
LEMMA InitIndex == Init => IndexInv
BY DEF Init, IndexInv, IndexSound, Indexed

\* Indexing an entity that was not there, or one that only gained identifiers.
LEMMA AddSound ==
  ASSUME TypeOK, IndexSound, NEW n \in Nodes, NEW e \in Entities, Add(n, e), known[n] = Absent
  PROVE  IndexSound'
BY EntityAssumption, AbsentAssumption DEF TypeOK, IndexSound, Indexed, Add, Register, Entities

LEMMA ReplaceSound ==
  ASSUME TypeOK, IndexSound, NEW n \in Nodes, NEW e \in Entities, Replace(n, e),
         known[n] # Absent, known[n].identifiers \subseteq e.identifiers
  PROVE  IndexSound'
BY EntityAssumption, AbsentAssumption DEF TypeOK, IndexSound, Indexed, Replace, Register, Entities

LEMMA AbandonSound ==
  ASSUME TypeInv, IndexInv, Abandon,
         \A n \in Nodes : graph'[n] # Absent => n[1] \in seen
  PROVE  IndexInv'
BY DEF TypeInv, TypeOK, IndexInv, IndexSound, Indexed, Abandon, NoIndex

LEMMA StepIndex == TypeInv /\ IndexInv /\ [Next]_vars => IndexInv'
<1> SUFFICES ASSUME TypeInv, IndexInv, [Next]_vars PROVE IndexInv'
  OBVIOUS
<1> USE EntityAssumption, AbsentAssumption, BoundAssumption
<1>a. ASSUME NEW d \in Documents, Begin(d) PROVE IndexInv'
  <2>1. \A i \in 1..MaxMentions :
          /\ <<d, i>> \in Nodes /\ graph[<<d, i>>] = Absent /\ known[<<d, i>>] = Absent
    BY <1>a DEF Begin, IndexInv, Nodes
  <2>2. found = {} /\ found' = {}
    BY <1>a DEF Begin, TypeInv, Progress
  <2>3. QED
    BY <1>a, <2>1, <2>2 DEF Begin, TypeInv, TypeOK, IndexInv, IndexSound, Indexed, index
<1>b. CASE FindByIdentifier
  BY <1>b DEF FindByIdentifier, TypeInv, TypeOK, IndexInv, IndexSound, Indexed, index
<1>c. CASE FindByName
  BY <1>c DEF FindByName, NamedInGraph, TypeInv, TypeOK, IndexInv, IndexSound, Indexed, index
<1>d. CASE IndexRow
  <2>1. PICK n \in found : Add(n, graph[n]) /\ found' = found \ {n}
    BY <1>d DEF IndexRow
  <2>2. n \in Nodes /\ known[n] = Absent /\ graph[n] \in Entities
    BY <2>1 DEF TypeInv, TypeOK, IndexInv, Indexed, MaybeEntity
  <2>3. IndexSound'
    BY <2>1, <2>2, AddSound DEF TypeInv, IndexInv
  <2>4. found' \cap Indexed' = {} /\ \A m \in found' : graph'[m] # Absent
    BY <1>d, <2>1, <2>2 DEF IndexRow, TypeInv, TypeOK, IndexInv, Indexed, Add, Register
  <2>5. \A i \in 1..MaxMentions : phase # "idle" /\ phase # "write" => n # <<document, i>>
    BY <2>1, <2>2 DEF IndexInv, TypeInv, TypeOK
  <2>6. QED
    BY <1>d, <2>1, <2>2, <2>3, <2>4, <2>5
    DEF IndexRow, TypeInv, TypeOK, IndexInv, Add, Register
<1>e. ASSUME Resolving, NEW n \in Nodes, MergeInto(n), known[n] # Absent PROVE IndexInv'
  <2>1. known[n] \in Entities /\ MergedWith(known[n], Current) \in Entities
    BY <1>e, CurrentType, MergedType DEF TypeInv, TypeOK, MaybeEntity
  <2>2. known[n].identifiers \subseteq MergedWith(known[n], Current).identifiers
    BY DEF MergedWith
  <2>3. IndexSound'
    BY <1>e, <2>1, <2>2, ReplaceSound DEF MergeInto, TypeInv, IndexInv
  <2>4. \A i \in 1..MaxMentions : i >= at => n # <<document, i>>
    BY <1>e DEF Resolving, IndexInv
  <2>5. QED
    BY <1>e, <2>1, <2>3, <2>4
    DEF Resolving, MergeInto, Replace, Register, Settle, TypeInv, TypeOK, IndexInv
<1>f. ASSUME Resolving, CreateNode PROVE IndexInv'
  <2>1. <<document, at>> \in Nodes /\ Current \in Entities /\ at \in 1..MaxMentions
    BY <1>f, CurrentType DEF Nodes
  <2>2. known[<<document, at>>] = Absent
    BY <1>f, <2>1 DEF Resolving, IndexInv
  <2>3. IndexSound'
    BY <1>f, <2>1, <2>2, AddSound DEF CreateNode, TypeInv, IndexInv
  <2>4. \A i \in 1..Len(resolved') : resolved'[i][1][1] \in seen
    <3>1. resolved' = Append(resolved, <<<<document, at>>, Current>>) /\ document \in seen
      BY <1>f DEF CreateNode, Settle, Resolving, IndexInv
    <3>2. QED
      BY <3>1 DEF TypeInv, TypeOK, IndexInv
  <2>5. QED
    BY <1>f, <2>1, <2>2, <2>3, <2>4
    DEF Resolving, CreateNode, Add, Register, Settle, TypeInv, TypeOK, IndexInv
<1>g. CASE Write
  <2>1. at \in 1..Len(resolved) /\ resolved[at] \in Nodes \X Entities
    BY <1>g DEF Write, TypeInv, TypeOK, Progress
  <2>2. \A n \in Nodes : graph'[n] # Absent => n[1] \in seen
    BY <1>g, <2>1 DEF Write, TypeInv, TypeOK, IndexInv
  <2>3. CASE at = Len(resolved)
    BY <1>g, <2>2, <2>3, AbandonSound DEF Write
  <2>4. CASE at # Len(resolved)
    <3>1. found = {} /\ found' = {} /\ phase = "write" /\ phase' = "write"
      BY <1>g, <2>4 DEF Write, TypeInv, Progress
    <3>2. IndexSound' /\ Indexed' = Indexed
      BY <1>g, <2>4 DEF Write, IndexInv, IndexSound, Indexed, index
    <3>3. UNCHANGED <<known, document, seen, resolved>>
      BY <1>g, <2>4 DEF Write, index
    <3>4. QED
      BY <2>2, <3>1, <3>2, <3>3 DEF IndexInv
  <2>5. QED
    BY <2>3, <2>4
<1>h. CASE Fail
  BY <1>h, AbandonSound DEF Fail, IndexInv
<1>i. CASE Quiet \/ UNCHANGED vars
  BY <1>i DEF Quiet, vars, index, IndexInv, IndexSound, Indexed
<1>j. CASE Match \/ MatchFuzzy
  <2>1. PICK n \in Matches(Current) \cup BestFuzzy(Current) : MergeInto(n) /\ Resolving
    BY <1>j DEF Match, MatchFuzzy, Undecided
  <2>2. n \in Nodes /\ known[n] # Absent
    BY <2>1, ChosenNode, CandidatesIndexed, CurrentType DEF TypeInv, Indexed
  <2>3. QED
    BY <2>1, <2>2, <1>e
<1>k. CASE Refuse \/ Create
  BY <1>k, <1>f DEF Refuse, Create, Undecided
<1>l. QED
  BY <1>a, <1>b, <1>c, <1>d, <1>g, <1>h, <1>i, <1>j, <1>k DEF Next

(***************************************************************************)
(* The nodes.  What the graph has of a node, and every copy of it waiting  *)
(* to be written, is part of what the index has; so the union the write    *)
(* makes of the two is no larger than an entity the resolver vouched for.  *)
(***************************************************************************)
Consistent(e) == ~Conflicting(e, e)

NodeInv ==
  /\ \A n \in Nodes : graph[n] # Absent => Consistent(graph[n])
  /\ \A n \in Nodes : known[n] # Absent => Consistent(known[n])
  /\ \A n \in Nodes : graph[n] # Absent /\ known[n] # Absent =>
       graph[n].identifiers \subseteq known[n].identifiers
  /\ \A i \in 1..Len(resolved) :
       /\ known[resolved[i][1]] # Absent
       /\ resolved[i][2].identifiers \subseteq known[resolved[i][1]].identifiers

LEMMA MergeConsistent ==
  ASSUME NEW e \in Entities, NEW o \in Entities, Consistent(e), Consistent(o), ~Conflicting(o, e)
  PROVE  Consistent(MergedWith(e, o))
BY DEF Consistent, Conflicting, MergedWith

LEMMA PartConsistent ==
  ASSUME NEW e, NEW o, Consistent(e), o.identifiers \subseteq e.identifiers PROVE Consistent(o)
BY DEF Consistent, Conflicting

LEMMA InitNode == Init => NodeInv
BY DEF Init, NodeInv

\* A step of resolve_batch that settles a mention on n, which grows to e.
LEMMA SettleKeepsNodes ==
  ASSUME TypeInv, NodeInv, NEW n \in Nodes, NEW e \in Entities, Register(n, e), Settle(n, e),
         Consistent(e), known[n] # Absent => known[n].identifiers \subseteq e.identifiers,
         known[n] = Absent => graph[n] = Absent
  PROVE  NodeInv'
<1> USE EntityAssumption
<1>1. /\ known' \in [Nodes -> MaybeEntity] /\ known'[n] = e /\ e # Absent
      /\ \A m \in Nodes \ {n} : known'[m] = known[m]
      /\ graph' = graph
  BY DEF Register, Settle, TypeInv, TypeOK, MaybeEntity
<1>2. \A i \in 1..Len(resolved') :
        /\ known'[resolved'[i][1]] # Absent
        /\ resolved'[i][2].identifiers \subseteq known'[resolved'[i][1]].identifiers
  <2>1. resolved' = Append(resolved, <<n, e>>) /\ resolved \in Seq(Nodes \X Entities)
    BY DEF Settle, TypeInv, TypeOK
  <2>2. ASSUME NEW i \in 1..Len(resolved)
        PROVE  /\ resolved'[i] = resolved[i] /\ resolved[i][1] \in Nodes
               /\ known'[resolved[i][1]] # Absent
               /\ resolved[i][2].identifiers \subseteq known'[resolved[i][1]].identifiers
    <3>1. /\ resolved'[i] = resolved[i] /\ resolved[i] \in Nodes \X Entities
          /\ known[resolved[i][1]] # Absent
          /\ resolved[i][2].identifiers \subseteq known[resolved[i][1]].identifiers
      BY <2>1, <2>2 DEF NodeInv
    <3>2. CASE resolved[i][1] = n
      BY <1>1, <3>1, <3>2
    <3>3. CASE resolved[i][1] # n
      BY <1>1, <3>1, <3>3
    <3>4. QED
      BY <3>1, <3>2, <3>3
  <2>3. Len(resolved') = Len(resolved) + 1 /\ resolved'[Len(resolved) + 1] = <<n, e>>
    BY <2>1
  <2>4. QED
    BY <1>1, <2>1, <2>2, <2>3
<1>3. QED
  BY <1>1, <1>2 DEF NodeInv

LEMMA AbandonNodes ==
  ASSUME Abandon, \A n \in Nodes : graph'[n] # Absent => Consistent(graph'[n])
  PROVE  NodeInv'
BY DEF Abandon, NoIndex, NodeInv, Consistent

LEMMA StepNode == TypeInv /\ IndexInv /\ NodeInv /\ [Next]_vars => NodeInv'
<1> SUFFICES ASSUME TypeInv, IndexInv, NodeInv, [Next]_vars PROVE NodeInv'
  OBVIOUS
<1> USE EntityAssumption
<1>a. ASSUME NEW d \in Documents, Begin(d) PROVE NodeInv'
  BY <1>a DEF Begin, NodeInv, Consistent, index
<1>b. CASE FindByIdentifier
  BY <1>b DEF FindByIdentifier, NodeInv, Consistent, index
<1>c. CASE FindByName
  BY <1>c DEF FindByName, NodeInv, Consistent, index
<1>d. CASE IndexRow
  <2>1. PICK n \in found : Add(n, graph[n]) /\ found' = found \ {n}
    BY <1>d DEF IndexRow
  <2>2. n \in Nodes /\ known[n] = Absent /\ graph[n] # Absent
    BY <2>1 DEF TypeInv, TypeOK, IndexInv, Indexed
  <2>3. UNCHANGED <<graph, resolved>> /\ known' = [known EXCEPT ![n] = graph[n]]
    BY <1>d, <2>1 DEF IndexRow, Add, Register
  <2>4. \A i \in 1..Len(resolved) : resolved[i][1] \in Nodes
    BY DEF TypeInv, TypeOK
  <2>5. QED
    BY <2>2, <2>3, <2>4 DEF NodeInv, Consistent, TypeInv, TypeOK
<1>e. ASSUME Resolving, NEW n \in Nodes, MergeInto(n), known[n] # Absent,
             ~Conflicting(Current, known[n])
      PROVE NodeInv'
  <2>1. known[n] \in Entities /\ Current \in Entities
    BY <1>e, CurrentType DEF TypeInv, TypeOK, MaybeEntity
  <2>2. MergedWith(known[n], Current) \in Entities
    BY <2>1, MergedType
  <2>3. Consistent(Current)
    BY <1>e, CurrentType, ExtractedType DEF Current, Consistent
  <2>4. Consistent(MergedWith(known[n], Current))
    BY <1>e, <2>1, <2>3, MergeConsistent DEF NodeInv
  <2>5. known[n].identifiers \subseteq MergedWith(known[n], Current).identifiers
    BY DEF MergedWith
  <2>6. QED
    BY <1>e, <2>2, <2>4, <2>5, SettleKeepsNodes DEF MergeInto, Replace
<1>f. ASSUME Resolving, CreateNode PROVE NodeInv'
  <2>1. <<document, at>> \in Nodes /\ Current \in Entities /\ at \in 1..MaxMentions
    BY <1>f, CurrentType DEF Nodes
  <2>2. known[<<document, at>>] = Absent /\ graph[<<document, at>>] = Absent
    <3>1. at >= at
      BY <2>1, BoundAssumption
    <3>2. QED
      BY <1>f, <2>1, <3>1 DEF Resolving, IndexInv
  <2>3. Consistent(Current)
    BY <1>f, CurrentType, ExtractedType DEF Current, Consistent
  <2>4. QED
    BY <1>f, <2>1, <2>2, <2>3, SettleKeepsNodes DEF CreateNode, Add
<1>g. CASE Write
  <2> DEFINE n == resolved[at][1]
             e == resolved[at][2]
  <2>1. at \in 1..Len(resolved) /\ n \in Nodes /\ e \in Entities
    BY <1>g DEF Write, TypeInv, TypeOK, Progress
  <2>2. known[n] # Absent /\ Consistent(known[n]) /\ e.identifiers \subseteq known[n].identifiers
    BY <2>1 DEF NodeInv
  <2>3. Upserted(n, e).identifiers \subseteq known[n].identifiers
    <3>1. CASE graph[n] = Absent
      BY <2>2, <3>1 DEF Upserted
    <3>2. CASE graph[n] # Absent
      <4>1. Upserted(n, e).identifiers = e.identifiers \cup graph[n].identifiers
        BY <2>1, <3>2 DEF Upserted, Entities
      <4>2. QED
        BY <2>1, <2>2, <3>2, <4>1 DEF NodeInv
    <3>3. QED
      BY <3>1, <3>2
  <2>4. Consistent(Upserted(n, e))
    BY <2>2, <2>3, PartConsistent
  <2>5. graph' = [graph EXCEPT ![n] = Upserted(n, e)]
    BY <1>g DEF Write
  <2>6. \A m \in Nodes : graph'[m] # Absent => Consistent(graph'[m])
    BY <2>1, <2>4, <2>5 DEF NodeInv, TypeInv, TypeOK
  <2>7. CASE at = Len(resolved)
    BY <1>g, <2>6, <2>7, AbandonNodes DEF Write
  <2>8. CASE at # Len(resolved)
    <3>1. UNCHANGED <<known, resolved>>
      BY <1>g, <2>8 DEF Write, index
    <3>2. QED
      BY <2>1, <2>3, <2>5, <2>6, <3>1 DEF NodeInv, Consistent, TypeInv, TypeOK
  <2>9. QED
    BY <2>7, <2>8
<1>h. CASE Fail
  BY <1>h, AbandonNodes DEF Fail, NodeInv
<1>i. CASE Quiet \/ UNCHANGED vars
  BY <1>i DEF Quiet, vars, index, NodeInv, Consistent
<1>j. CASE Match \/ MatchFuzzy
  <2>1. PICK n \in Matches(Current) \cup BestFuzzy(Current) : MergeInto(n) /\ Resolving
    BY <1>j DEF Match, MatchFuzzy, Undecided
  <2>2. n \in Nodes /\ known[n] # Absent /\ ~Conflicting(Current, known[n])
    BY <2>1, ChosenNode, CandidatesIndexed, CurrentType DEF TypeInv, Indexed
  <2>3. QED
    BY <2>1, <2>2, <1>e
<1>k. CASE Refuse \/ Create
  BY <1>k, <1>f DEF Refuse, Create, Undecided
<1>l. QED
  BY <1>a, <1>b, <1>c, <1>d, <1>g, <1>h, <1>i, <1>j, <1>k DEF Next

(***************************************************************************)
(* The theorems                                                            *)
(***************************************************************************)
ResolutionInv == TypeInv /\ IndexInv /\ NodeInv

LEMMA ResolutionInvariant == Spec => []ResolutionInv
<1>1. Init => ResolutionInv
  BY InitType, InitIndex, InitNode DEF ResolutionInv
<1>2. ResolutionInv /\ [Next]_vars => ResolutionInv'
  BY StepType, StepIndex, StepNode DEF ResolutionInv
<1>3. QED
  BY <1>1, <1>2, PTL DEF Spec

\* Every variable keeps its type.  This needs the index to be sound: merging
\* into an id that is not there would leave no entity behind.
THEOREM TypeCorrect == Spec => []TypeOK
<1>1. ResolutionInv => TypeOK
  BY DEF ResolutionInv, TypeInv
<1>2. QED
  BY <1>1, ResolutionInvariant, PTL

\* candidates() never follows an id out of the index, and an identifier leads
\* to an entity that has it.
THEOREM IndexIsSound == Spec => []IndexSound
<1>1. ResolutionInv => IndexSound
  BY DEF ResolutionInv, IndexInv
<1>2. QED
  BY <1>1, ResolutionInvariant, PTL

\* No chain of merges, within a document or through the graph, brings two
\* values of one identifier type together.
THEOREM NodesAreOneCompany == Spec => []OneCompanyPerNode
<1>1. ResolutionInv => OneCompanyPerNode
  BY DEF ResolutionInv, NodeInv, Consistent, OneCompanyPerNode
<1>2. QED
  BY <1>1, ResolutionInvariant, PTL

(***************************************************************************)
(* Evidence and memory.  An entity is founded when its names and           *)
(* identifiers are those of its mentions, and evidence connects them all.  *)
(* The copies of one node that wait to be written contain each other, in   *)
(* their order, and what the graph has: so a write loses nothing and needs *)
(* no evidence of its own.                                                 *)
(***************************************************************************)
Linked(m, o) == Evidence(m, o) \/ Evidence(o, m)

Faithful(e) ==
  /\ {e.name} \cup e.aliases = {m.name : m \in e.mentions}
  /\ e.identifiers = UNION {m.identifiers : m \in e.mentions}

Connected(S) ==
  /\ S # {}
  /\ \A part \in (SUBSET S) \ {{}, S} : \E m \in part, o \in S \ part : Linked(m, o)

Founded(e) == Faithful(e) /\ Connected(e.mentions)

\* What the graph has of an entity that the index has too.
Within(e, o) == e.name = o.name /\ e.mentions \subseteq o.mentions

\* What waits to be written for the i-th mention.
Waiting(i) ==
  LET n == resolved[i][1]  e == resolved[i][2] IN
  /\ Founded(e) /\ Within(e, known[n])
  /\ (phase = "write" => at <= i) /\ graph[n] # Absent => graph[n].mentions \subseteq e.mentions
  /\ \A j \in 1..(i - 1) : resolved[j][1] = n => resolved[j][2].mentions \subseteq e.mentions

MemoryInv ==
  /\ \A n \in Nodes : graph[n] # Absent => Founded(graph[n])
  /\ \A n \in Nodes : known[n] # Absent => Founded(known[n])
  /\ \A n \in Nodes : graph[n] # Absent /\ known[n] # Absent => Within(graph[n], known[n])
  /\ \A i \in 1..Len(resolved) : Waiting(i)

LEMMA InitMemory == Init => MemoryInv
BY DEF Init, MemoryInv

\* Two groups that hold together and are linked hold together as one.
LEMMA UnionConnected ==
  ASSUME NEW S, NEW T, Connected(S), Connected(T), NEW a \in S, NEW b \in T, Linked(a, b)
  PROVE  Connected(S \cup T)
<1>1. Linked(b, a)
  BY DEF Linked
<1>2. ASSUME NEW part \in (SUBSET (S \cup T)) \ {{}, S \cup T}
      PROVE  \E m \in part, o \in (S \cup T) \ part : Linked(m, o)
  <2>1. CASE part \cap S \notin {{}, S}
    <3>1. \E m \in part \cap S, o \in S \ (part \cap S) : Linked(m, o)
      BY <2>1 DEF Connected
    <3>2. QED
      BY <3>1
  <2>2. CASE part \cap T \notin {{}, T}
    <3>1. \E m \in part \cap T, o \in T \ (part \cap T) : Linked(m, o)
      BY <2>2 DEF Connected
    <3>2. QED
      BY <3>1
  <2>3. CASE part \cap S \in {{}, S} /\ part \cap T \in {{}, T}
    <3>1. CASE part \cap S = S
      <4>1. b \notin part
        BY <2>3, <3>1
      <4>2. QED
        BY <3>1, <4>1
    <3>2. CASE part \cap S = {}
      <4>1. part \cap T = T
        BY <2>3, <3>2
      <4>2. a \notin part /\ b \in part
        BY <3>2, <4>1
      <4>3. QED
        BY <1>1, <4>2
    <3>3. QED
      BY <2>3, <3>1, <3>2
  <2>4. QED
    BY <2>1, <2>2, <2>3
<1>3. QED
  BY <1>2 DEF Connected

LEMMA ExtractedFounded ==
  ASSUME NEW m \in Mentions PROVE Founded(Extracted(m))
<1>1. Extracted(m).mentions = {m} /\ Faithful(Extracted(m))
  BY DEF Extracted, Faithful
<1>2. Connected({m})
  BY DEF Connected
<1>3. QED
  BY <1>1, <1>2 DEF Founded

\* A merge of founded entities is faithful to both.
LEMMA MergeFounded ==
  ASSUME NEW e \in Entities, NEW o \in Entities, Founded(e), Founded(o),
         NEW a \in e.mentions, NEW b \in o.mentions, Linked(a, b)
  PROVE  Founded(MergedWith(e, o)) /\ Within(e, MergedWith(e, o))
<1> DEFINE all == MergedWith(e, o)
<1>1. /\ all.mentions = e.mentions \cup o.mentions /\ all.name = e.name
      /\ {all.name} \cup all.aliases = ({e.name} \cup e.aliases) \cup ({o.name} \cup o.aliases)
      /\ all.identifiers = e.identifiers \cup o.identifiers
  BY DEF MergedWith
<1> HIDE DEF all
<1>2. {m.name : m \in e.mentions \cup o.mentions}
        = {m.name : m \in e.mentions} \cup {m.name : m \in o.mentions}
  OBVIOUS
<1>3. UNION {m.identifiers : m \in e.mentions \cup o.mentions}
        = (UNION {m.identifiers : m \in e.mentions}) \cup (UNION {m.identifiers : m \in o.mentions})
  OBVIOUS
<1>4. Faithful(all)
  BY <1>1, <1>2, <1>3 DEF Founded, Faithful
<1>5. Connected(all.mentions)
  BY <1>1, UnionConnected DEF Founded
<1>6. QED
  BY <1>1, <1>4, <1>5 DEF Founded, Within, all

\* What the resolver merges with has a mention that speaks for it.
LEMMA ChoiceLinked ==
  ASSUME NEW m \in Mentions, NEW n \in Nodes, known[n] \in Entities, Founded(known[n]),
         \/ Shared(Extracted(m), known[n]) # {}
         \/ SameName(Extracted(m), n)
         \/ Confident(Extracted(m), n)
  PROVE  \E o \in known[n].mentions : Linked(o, m)
<1>1. /\ {known[n].name} \cup known[n].aliases = {o.name : o \in known[n].mentions}
      /\ known[n].identifiers = UNION {o.identifiers : o \in known[n].mentions}
  BY DEF Founded, Faithful
<1>2. Extracted(m).name = m.name /\ Extracted(m).identifiers = m.identifiers
  BY DEF Extracted
<1>3. CASE Shared(Extracted(m), known[n]) # {}
  <2>1. PICK k \in m.identifiers : k \in known[n].identifiers
    BY <1>2, <1>3 DEF Shared
  <2>2. PICK o \in known[n].mentions : k \in o.identifiers
    BY <1>1, <2>1
  <2>3. QED
    BY <2>1, <2>2 DEF Linked, Evidence
<1>4. CASE SameName(Extracted(m), n)
  <2>1. m.name \in {known[n].name} \cup known[n].aliases
    BY <1>2, <1>4 DEF SameName
  <2>2. PICK o \in known[n].mentions : m.name = o.name
    BY <1>1, <2>1
  <2>3. QED
    BY <2>2 DEF Linked, Evidence
<1>5. CASE Confident(Extracted(m), n)
  <2>1. PICK o \in known[n].mentions : o.name = known[n].name
    BY <1>1
  <2>2. QED
    BY <1>2, <1>5, <2>1 DEF Confident, Similar, Linked, Evidence
<1>6. QED
  BY <1>3, <1>4, <1>5

\* A mention settles on n, whose entity grows to e.
LEMMA SettleKeepsMemory ==
  ASSUME TypeInv, MemoryInv, NodeInv, Resolving, NEW n \in Nodes, NEW e \in Entities,
         Register(n, e), Settle(n, e),
         Founded(e), known[n] # Absent => Within(known[n], e),
         known[n] = Absent => graph[n] = Absent
  PROVE  MemoryInv'
<1> USE EntityAssumption
<1>1. /\ known' \in [Nodes -> MaybeEntity] /\ known'[n] = e /\ e # Absent
      /\ \A m \in Nodes \ {n} : known'[m] = known[m]
      /\ graph' = graph /\ phase = "resolve"
  BY DEF Register, Settle, TypeInv, TypeOK, MaybeEntity, Resolving
<1>2. resolved' = Append(resolved, <<n, e>>) /\ resolved \in Seq(Nodes \X Entities)
  BY DEF Settle, TypeInv, TypeOK
<1>3. Len(resolved') = Len(resolved) + 1 /\ resolved'[Len(resolved) + 1] = <<n, e>>
      /\ Len(resolved) \in Nat
      /\ \A i \in 1..Len(resolved) : resolved'[i] = resolved[i] /\ resolved[i][1] \in Nodes
  BY <1>2
<1>4. \A i \in Nat \ {0} : phase' = "write" => at' <= i
  BY <1>1 DEF Settle
<1>5. known[n] # Absent => \A i \in 1..Len(resolved) :
        resolved[i][1] = n => Within(resolved[i][2], e)
  BY DEF MemoryInv, Waiting, Within
<1>6. \A i \in 1..Len(resolved) : known[resolved[i][1]] # Absent
  BY DEF NodeInv
<1>7. \A i \in 1..Len(resolved) : resolved[i][1] = n => Within(resolved[i][2], e)
  BY <1>5, <1>6
<1>8. ASSUME NEW i \in 1..Len(resolved) PROVE Waiting(i)'
  <2>1. resolved'[i] = resolved[i] /\ \A j \in 1..(i - 1) : resolved'[j] = resolved[j]
    BY <1>3
  <2>2. Waiting(i)
    BY DEF MemoryInv
  <2>3. Within(resolved[i][2], known'[resolved[i][1]])
    BY <1>1, <1>3, <1>7, <2>2 DEF Waiting
  <2>4. graph[resolved[i][1]] # Absent =>
          graph[resolved[i][1]].mentions \subseteq resolved[i][2].mentions
    BY <1>1, <2>2 DEF Waiting
  <2>5. QED
    BY <1>1, <2>1, <2>2, <2>3, <2>4 DEF Waiting
<1>9. ASSUME NEW i, i = Len(resolved) + 1 PROVE Waiting(i)'
  <2>1. resolved'[i] = <<n, e>> /\ known'[n] = e
    BY <1>1, <1>3, <1>9
  <2>2. graph[n] # Absent => graph[n].mentions \subseteq e.mentions
    BY DEF MemoryInv, Within
  <2>3. \A j \in 1..(i - 1) :
          resolved'[j] = resolved[j] /\ (resolved[j][1] = n => Within(resolved[j][2], e))
    BY <1>3, <1>7, <1>9
  <2>4. QED
    BY <1>1, <2>1, <2>2, <2>3 DEF Waiting, Within
<1>10. \A i \in 1..Len(resolved') : Waiting(i)'
  BY <1>3, <1>8, <1>9
<1>11. \A m \in Nodes : graph'[m] # Absent /\ known'[m] # Absent => Within(graph'[m], known'[m])
  BY <1>1 DEF MemoryInv, Within
<1>12. QED
  BY <1>1, <1>10, <1>11 DEF MemoryInv

LEMMA AbandonKeepsMemory ==
  ASSUME Abandon, \A n \in Nodes : graph'[n] # Absent => Founded(graph'[n])
  PROVE  MemoryInv'
BY DEF Abandon, NoIndex, MemoryInv

\* The step is about documents to come, or about the reads of one.
LEMMA ReadingKeepsMemory ==
  ASSUME MemoryInv, UNCHANGED <<graph, known, resolved>>, phase # "write"
  PROVE  MemoryInv'
BY DEF MemoryInv, Waiting

\* A copy contains what the graph has of its node: the union is the copy's own.
LEMMA UpsertFounded ==
  ASSUME NEW n \in Nodes, NEW e \in Entities, Founded(e), graph[n] \in MaybeEntity,
         graph[n] # Absent => Founded(graph[n]) /\ Within(graph[n], e)
  PROVE  /\ Founded(Upserted(n, e)) /\ Upserted(n, e).mentions = e.mentions
         /\ Upserted(n, e).name = e.name
<1>1. CASE graph[n] = Absent
  BY <1>1 DEF Upserted
<1>2. CASE graph[n] # Absent
  <2> DEFINE g == graph[n]
             all == Upserted(n, e)
  <2>1. g \in Entities
    BY <1>2 DEF MaybeEntity
  <2>2. /\ all.name = g.name /\ all.aliases = e.aliases \cup g.aliases
        /\ all.identifiers = e.identifiers \cup g.identifiers
        /\ all.mentions = e.mentions \cup g.mentions
    BY <1>2, <2>1 DEF Upserted, Entities
  <2>3. g.name = e.name /\ g.mentions \subseteq e.mentions /\ Faithful(g) /\ Faithful(e)
    BY <1>2 DEF Within, Founded
  <2> HIDE DEF g, all
  <2>4. /\ {m.name : m \in g.mentions} \subseteq {m.name : m \in e.mentions}
        /\ UNION {m.identifiers : m \in g.mentions} \subseteq UNION {m.identifiers : m \in e.mentions}
    BY <2>3
  <2>5. all.mentions = e.mentions /\ all.name = e.name
    BY <2>2, <2>3
  <2>6. {all.name} \cup all.aliases = {e.name} \cup e.aliases /\ all.identifiers = e.identifiers
    BY <2>2, <2>3, <2>4 DEF Faithful
  <2>7. QED
    BY <2>5, <2>6 DEF Founded, Faithful, all
<1>3. QED
  BY <1>1, <1>2

LEMMA StepMemory == TypeInv /\ IndexInv /\ NodeInv /\ MemoryInv /\ [Next]_vars => MemoryInv'
<1> SUFFICES ASSUME TypeInv, IndexInv, NodeInv, MemoryInv, [Next]_vars PROVE MemoryInv'
  OBVIOUS
<1> USE EntityAssumption
<1>a. ASSUME NEW d \in Documents, Begin(d) PROVE MemoryInv'
  BY <1>a, ReadingKeepsMemory DEF Begin, index
<1>b. CASE FindByIdentifier
  BY <1>b, ReadingKeepsMemory DEF FindByIdentifier, index
<1>c. CASE FindByName
  BY <1>c, ReadingKeepsMemory DEF FindByName, index
<1>d. CASE IndexRow
  <2>1. PICK n \in found : Add(n, graph[n]) /\ found' = found \ {n}
    BY <1>d DEF IndexRow
  <2>2. n \in Nodes /\ known[n] = Absent /\ graph[n] # Absent
    BY <2>1 DEF TypeInv, TypeOK, IndexInv, Indexed
  <2>3. UNCHANGED <<graph, resolved, phase, at>> /\ known' = [known EXCEPT ![n] = graph[n]]
    BY <1>d, <2>1 DEF IndexRow, Add, Register
  <2>4. \A m \in Nodes : known'[m] = IF m = n THEN graph[n] ELSE known[m]
    BY <2>2, <2>3 DEF TypeInv, TypeOK
  <2>5. \A i \in 1..Len(resolved) : resolved[i][1] \in Nodes /\ known[resolved[i][1]] # Absent
    BY DEF TypeInv, TypeOK, NodeInv
  <2>6. \A i \in 1..Len(resolved) : Waiting(i)'
    BY <2>2, <2>3, <2>4, <2>5 DEF MemoryInv, Waiting
  <2>7. QED
    BY <2>2, <2>3, <2>4, <2>6 DEF MemoryInv, Within
<1>e. ASSUME Resolving, NEW n \in Nodes, MergeInto(n), known[n] # Absent,
             \/ Shared(Current, known[n]) # {} \/ SameName(Current, n) \/ Confident(Current, n)
      PROVE MemoryInv'
  <2>1. known[n] \in Entities /\ Current \in Entities /\ batch[at] \in Mentions
    BY <1>e, CurrentType DEF TypeInv, TypeOK, MaybeEntity
  <2>2. Founded(known[n]) /\ Founded(Current) /\ Current.mentions = {batch[at]}
    BY <1>e, <2>1, ExtractedFounded DEF MemoryInv, Current, Extracted
  <2>3. \E o \in known[n].mentions : Linked(o, batch[at])
    BY <1>e, <2>1, <2>2, ChoiceLinked DEF Current
  <2>4. Founded(MergedWith(known[n], Current)) /\ Within(known[n], MergedWith(known[n], Current))
    BY <2>1, <2>2, <2>3, MergeFounded
  <2>5. MergedWith(known[n], Current) \in Entities
    BY <2>1, MergedType
  <2>6. QED
    BY <1>e, <2>4, <2>5, SettleKeepsMemory DEF MergeInto, Replace
<1>f. ASSUME Resolving, CreateNode PROVE MemoryInv'
  <2>1. <<document, at>> \in Nodes /\ Current \in Entities /\ at \in 1..MaxMentions
    BY <1>f, CurrentType DEF Nodes
  <2>2. known[<<document, at>>] = Absent /\ graph[<<document, at>>] = Absent
    <3>1. at >= at
      BY <2>1, BoundAssumption
    <3>2. QED
      BY <1>f, <2>1, <3>1 DEF Resolving, IndexInv
  <2>3. Founded(Current)
    BY <1>f, CurrentType, ExtractedFounded DEF Current
  <2>4. QED
    BY <1>f, <2>1, <2>2, <2>3, SettleKeepsMemory DEF CreateNode, Add
<1>g. CASE Write
  <2> DEFINE n == resolved[at][1]
             e == resolved[at][2]
  <2>1. at \in 1..Len(resolved) /\ n \in Nodes /\ e \in Entities /\ graph[n] \in MaybeEntity
    BY <1>g DEF Write, TypeInv, TypeOK, Progress
  <2>2. Waiting(at) /\ known[n] # Absent /\ phase = "write"
    BY <1>g, <2>1 DEF MemoryInv, NodeInv, Write
  <2>3. at <= at
    BY <2>1
  <2>4. /\ Founded(e) /\ Within(e, known[n])
        /\ graph[n] # Absent => Founded(graph[n]) /\ Within(graph[n], e)
    BY <2>1, <2>2, <2>3 DEF MemoryInv, Waiting, Within
  <2>5. /\ Founded(Upserted(n, e)) /\ Upserted(n, e).mentions = e.mentions
        /\ Upserted(n, e).name = e.name
    BY <2>1, <2>4, UpsertFounded
  <2>6. \A m \in Nodes : graph'[m] = IF m = n THEN Upserted(n, e) ELSE graph[m]
    BY <1>g, <2>1 DEF Write, TypeInv, TypeOK
  <2>7. \A m \in Nodes : graph'[m] # Absent => Founded(graph'[m])
    BY <2>5, <2>6 DEF MemoryInv
  <2>8. CASE at = Len(resolved)
    BY <1>g, <2>7, <2>8, AbandonKeepsMemory DEF Write
  <2>9. CASE at # Len(resolved)
    <3>1. at' = at + 1 /\ UNCHANGED <<known, resolved, phase>>
      BY <1>g, <2>9 DEF Write, index
    <3>2. \A m \in Nodes : graph'[m] # Absent /\ known'[m] # Absent => Within(graph'[m], known'[m])
      BY <2>4, <2>5, <2>6, <3>1 DEF MemoryInv, Within
    <3>3. ASSUME NEW i \in 1..Len(resolved) PROVE Waiting(i)'
      <4>1. Waiting(i) /\ resolved[i][1] \in Nodes
        BY DEF MemoryInv, TypeInv, TypeOK
      <4>2. CASE resolved[i][1] # n
        BY <2>1, <2>2, <2>6, <3>1, <4>1, <4>2 DEF Waiting
      <4>3. CASE resolved[i][1] = n
        <5>1. at + 1 <= i => e.mentions \subseteq resolved[i][2].mentions
          <6>1. at + 1 <= i => at \in 1..(i - 1)
            BY <2>1
          <6>2. QED
            BY <4>1, <4>3, <6>1 DEF Waiting
        <5>2. QED
          BY <2>2, <2>5, <2>6, <3>1, <4>1, <4>3, <5>1 DEF Waiting
      <4>4. QED
        BY <4>2, <4>3
    <3>4. QED
      BY <2>7, <3>1, <3>2, <3>3 DEF MemoryInv
  <2>10. QED
    BY <2>8, <2>9
<1>h. CASE Fail
  BY <1>h, AbandonKeepsMemory DEF Fail, MemoryInv
<1>i. CASE Quiet \/ UNCHANGED vars
  BY <1>i DEF Quiet, vars, index, MemoryInv, Waiting
<1>j. CASE Match \/ MatchFuzzy
  <2>1. PICK n \in Matches(Current) \cup BestFuzzy(Current) :
          /\ MergeInto(n) /\ Resolving
          /\ Shared(Current, known[n]) # {} \/ SameName(Current, n) \/ Confident(Current, n)
    BY <1>j DEF Match, Matches, MatchFuzzy, Undecided
  <2>2. n \in Nodes /\ known[n] # Absent
    BY <2>1, ChosenNode, CandidatesIndexed, CurrentType DEF TypeInv, Indexed
  <2>3. QED
    BY <2>1, <2>2, <1>e
<1>k. CASE Refuse \/ Create
  BY <1>k, <1>f DEF Refuse, Create, Undecided
<1>l. QED
  BY <1>a, <1>b, <1>c, <1>d, <1>g, <1>h, <1>i, <1>j, <1>k DEF Next

LEMMA MemoryInvariant == Spec => []MemoryInv
<1>1. ResolutionInv => TypeInv /\ IndexInv /\ NodeInv
  BY DEF ResolutionInv
<1>2. QED
  BY <1>1, InitMemory, StepMemory, ResolutionInvariant, PTL DEF Spec

\* Every merge had evidence: the mentions of a node cannot be parted without
\* separating two that the resolver's own rules connect.
THEOREM EvidenceHoldsNodes == Spec => []MergesJustified
<1>1. MemoryInv => MergesJustified
  BY DEF MemoryInv, Founded, Connected, Linked, MergesJustified
<1>2. QED
  BY <1>1, MemoryInvariant, PTL

\* A node has the names and identifiers of its mentions and no other, whatever
\* fails between the merge in memory and the write to the graph.
THEOREM NothingIsForgotten == Spec => []NodesRemember
<1>1. MemoryInv => NodesRemember
  BY DEF MemoryInv, Founded, Faithful, NodesRemember
<1>2. QED
  BY <1>1, MemoryInvariant, PTL

(***************************************************************************)
(* Twins.  While no name has more nodes than one lookup returns, every     *)
(* node of a mention's name is in the index when the mention is resolved:  *)
(* a second node of the name is created only against an identifier of each *)
(* of the others, known by then, and what was known by then is written     *)
(* before the new node is.                                                 *)
(***************************************************************************)
Differ(these, those) == \E j \in these, k \in those : TypeOf[j] = TypeOf[k] /\ j # k

\* The identifiers that node n has once i - 1 mentions are written.
Reached(n, i) ==
  {k \in Identifiers :
     \/ graph[n] # Absent /\ k \in graph[n].identifiers
     \/ \E j \in 1..(i - 1) : resolved[j][1] = n /\ k \in resolved[j][2].identifiers}

\* The index has what was read from the graph and what was resolved since.
OriginInv ==
  /\ phase = "idle" => \A n \in Nodes : known[n] = Absent
  /\ found # {} => resolved = <<>>
  /\ \A n \in Nodes : known[n] # Absent =>
       /\ n \in blocks[BlockOf[known[n].name]]
       /\ graph[n] = Absent => n[1] = document
       /\ resolved = <<>> => known[n] = graph[n]
       /\ known[n].identifiers \subseteq Reached(n, Len(resolved) + 1)

\* A new node is named by the mention that created it, the first that is
\* resolved to it.
BirthInv ==
  \A k \in 1..MaxMentions :
    /\ phase # "idle" /\ known[<<document, k>>] # Absent =>
         k \in 1..Len(resolved) /\ resolved[k] = <<<<document, k>>, Extracted(batch[k])>>
    /\ \A i \in 1..Len(resolved) : resolved[i][1] = <<document, k>> => k <= i

\* The graph's nodes of the names looked up so far are at hand.
LoadInv ==
  phase # "idle" =>
    \A i \in 1..Len(batch) :
      \/ phase = "load" /\ at <= i
      \/ \A n \in NamedInGraph(batch[i].name) : known[n] # Absent \/ n \in found

\* The mentions behind the loop are in the graph, and the others' nodes not yet.
WriteInv ==
  phase = "write" =>
    /\ \A i \in 1..(at - 1) :
         /\ graph[resolved[i][1]] # Absent
         /\ resolved[i][2].identifiers \subseteq graph[resolved[i][1]].identifiers
    /\ \A k \in at..MaxMentions : graph[<<document, k>>] = Absent

\* Nothing but identifiers, or a refusal, keeps n and o apart.
Apart(n, these, o, those) == Differ(these, those) \/ {n, o} \cap refused # {}

Known(n, name) == known[n] # Absent /\ known[n].name = name

TwinInv ==
  /\ TwinsDisagree
  /\ \A n, o \in Nodes :
       n # o /\ known[n] # Absent /\ Known(o, known[n].name) =>
         Apart(n, known[n].identifiers, o, known[o].identifiers)
  /\ \A i \in 1..Len(resolved) : resolved[i][1] = <<document, i>> =>
       \A o \in Nodes \ ({document} \X (i..MaxMentions)) :
         Known(o, resolved[i][2].name) =>
           Apart(resolved[i][1], resolved[i][2].identifiers, o, Reached(o, i))

LEMMA DifferGrows ==
  ASSUME NEW a, NEW b, NEW c, NEW d, Differ(a, b), a \subseteq c, b \subseteq d
  PROVE  Differ(c, d) /\ Differ(d, c)
BY DEF Differ

LEMMA InitTwins == Init => OriginInv /\ BirthInv /\ LoadInv /\ WriteInv /\ TwinInv
BY DEF Init, OriginInv, BirthInv, LoadInv, WriteInv, TwinInv, TwinsDisagree

LEMMA AbandonKeepsTwins ==
  ASSUME Abandon, TwinsDisagree'
  PROVE  OriginInv' /\ BirthInv' /\ LoadInv' /\ WriteInv' /\ TwinInv'
BY DEF Abandon, NoIndex, OriginInv, BirthInv, LoadInv, WriteInv, TwinInv

\* What a step does that settles a mention on n.
LEMMA SettleStep ==
  ASSUME TypeInv, Resolving, NEW n \in Nodes, NEW e \in Entities, Register(n, e), Settle(n, e)
  PROVE  /\ known'[n] = e /\ e # Absent /\ \A m \in Nodes \ {n} : known'[m] = known[m]
         /\ UNCHANGED <<graph, document, batch, found>> /\ found = {} /\ phase = "resolve"
         /\ at \in Nat \ {0} /\ Len(resolved) = at - 1 /\ Len(resolved') = at
         /\ \A i \in 1..(at - 1) : resolved'[i] = resolved[i]
         /\ resolved'[at] = <<n, e>> /\ resolved' # <<>>
         /\ \A i : i = at => resolved'[i][1] = n /\ resolved'[i][2] = e
         /\ at \in 1..Len(batch) /\ at <= MaxMentions
         /\ phase' = "resolve" \/ (phase' = "write" /\ at' = 1)
<1>1. /\ known' \in [Nodes -> MaybeEntity] /\ known'[n] = e /\ e # Absent
      /\ \A m \in Nodes \ {n} : known'[m] = known[m]
  BY EntityAssumption DEF Register, TypeInv, TypeOK, MaybeEntity
<1>2. resolved' = Append(resolved, <<n, e>>) /\ resolved \in Seq(Nodes \X Entities)
  BY DEF Settle, TypeInv, TypeOK
<1>3. /\ at \in 1..Len(batch) /\ Len(batch) \in Nat /\ Len(batch) <= MaxMentions
      /\ Len(resolved) = at - 1
  BY DEF TypeInv, TypeOK, Progress, Resolving
<1>4. /\ Len(resolved') = at /\ resolved'[at] = <<n, e>>
      /\ \A i \in 1..(at - 1) : resolved'[i] = resolved[i]
  BY <1>2, <1>3
<1>5. resolved' # <<>>
  BY <1>3, <1>4
<1>6. QED
  BY <1>1, <1>3, <1>4, <1>5, BoundAssumption DEF Settle, Resolving

\* A settled mention only adds to what its node will have.
LEMMA ReachedSettles ==
  ASSUME TypeInv, Resolving, NEW n \in Nodes, NEW e \in Entities, Register(n, e), Settle(n, e)
  PROVE  /\ \A o, i : i \in 1..at => Reached(o, i)' = Reached(o, i)
         /\ \A i : i = at + 1 =>
              /\ \A o : Reached(o, at) \subseteq Reached(o, i)'
              /\ e.identifiers \subseteq Reached(n, i)'
<1>1. /\ \A i \in 1..(at - 1) : resolved'[i] = resolved[i]
      /\ graph' = graph /\ at \in Nat \ {0} /\ resolved'[at] = <<n, e>>
  BY SettleStep
<1>2. ASSUME NEW o, NEW i \in 1..at PROVE Reached(o, i)' = Reached(o, i)
  <2>1. \A j \in 1..(i - 1) : resolved'[j] = resolved[j]
    BY <1>1
  <2>2. QED
    BY <1>1, <2>1 DEF Reached
<1>3. ASSUME NEW i, i = at + 1, NEW o, NEW k \in Reached(o, at) PROVE k \in Reached(o, i)'
  <2>1. 1..(at - 1) \subseteq 1..(i - 1)
    BY <1>1, <1>3
  <2>2. QED
    BY <1>1, <1>3, <2>1 DEF Reached
<1>4. ASSUME NEW i, i = at + 1, NEW k \in e.identifiers PROVE k \in Reached(n, i)'
  <2>1. at \in 1..(i - 1) /\ k \in Identifiers
    BY <1>1, <1>4 DEF Entities
  <2>2. QED
    BY <1>1, <2>1 DEF Reached
<1>5. QED
  BY <1>2, <1>3, <1>4

\* What a step may settle a mention on: a node of the index, which keeps its
\* name, or a new one that nothing of its name could take in.
Settling(n, e) ==
  /\ Register(n, e) /\ Settle(n, e)
  /\ \/ /\ known[n] # Absent /\ e.name = known[n].name
        /\ e.identifiers = known[n].identifiers \cup Current.identifiers
        /\ blocks' = blocks /\ refused' = refused
     \/ /\ n = <<document, at>> /\ e = Current /\ n \in blocks'[BlockOf[e.name]]
        /\ \A b \in DOMAIN blocks : blocks[b] \subseteq blocks'[b]
        /\ refused \subseteq refused'
        /\ \A o \in Nodes : Known(o, e.name) =>
             Differ(e.identifiers, known[o].identifiers) \/ n \in refused'

LEMMA SettleKeepsOrigin ==
  ASSUME TypeInv, IndexInv, OriginInv, Resolving,
         NEW n \in Nodes, NEW e \in Entities, Settling(n, e)
  PROVE  OriginInv'
<1>1. /\ known'[n] = e /\ e # Absent /\ \A m \in Nodes \ {n} : known'[m] = known[m]
      /\ UNCHANGED <<graph, document, batch, found>> /\ found = {} /\ phase = "resolve"
      /\ at \in Nat \ {0} /\ Len(resolved) + 1 = at /\ Len(resolved') = at
      /\ resolved' # <<>> /\ phase' # "idle"
  BY SettleStep DEF Settling
<1>2. /\ \A o : Reached(o, Len(resolved) + 1) \subseteq Reached(o, Len(resolved) + 1)'
      /\ e.identifiers \subseteq Reached(n, Len(resolved) + 1)'
  <2>1. \A i : i = Len(resolved') + 1 => i = at + 1
    BY <1>1
  <2>2. QED
    BY <1>1, <2>1, ReachedSettles DEF Settling
<1>3. \A b \in DOMAIN blocks : blocks[b] \subseteq blocks'[b]
  BY DEF Settling
<1>4. ASSUME NEW m \in Nodes \ {n}, known'[m] # Absent
      PROVE  /\ m \in blocks'[BlockOf[known'[m].name]]
             /\ graph[m] = Absent => m[1] = document
             /\ known'[m].identifiers \subseteq Reached(m, Len(resolved) + 1)'
  <2>1. BlockOf[known[m].name] \in DOMAIN blocks
    BY <1>1, <1>4 DEF TypeInv, TypeOK, MaybeEntity, Entities
  <2>2. QED
    BY <1>1, <1>2, <1>3, <1>4, <2>1 DEF OriginInv
<1>5. n \in blocks'[BlockOf[e.name]] /\ (graph[n] = Absent => n[1] = document)
  BY DEF Settling, OriginInv
<1>6. QED
  BY <1>1, <1>2, <1>4, <1>5 DEF OriginInv

LEMMA SettleKeepsBirth ==
  ASSUME TypeInv, BirthInv, Resolving, NEW n \in Nodes, NEW e \in Entities, Settling(n, e)
  PROVE  BirthInv'
<1>1. /\ known'[n] = e /\ e # Absent /\ \A m \in Nodes \ {n} : known'[m] = known[m]
      /\ UNCHANGED <<graph, document, batch>> /\ phase = "resolve"
      /\ at \in Nat \ {0} /\ Len(resolved) = at - 1 /\ Len(resolved') = at
      /\ \A i \in 1..(at - 1) : resolved'[i] = resolved[i]
      /\ resolved'[at] = <<n, e>> /\ \A i : i = at => resolved'[i][1] = n
  BY SettleStep DEF Settling
<1>2. ASSUME NEW k \in 1..MaxMentions, known'[<<document, k>>] # Absent
      PROVE  k \in 1..at /\ resolved'[k] = <<<<document, k>>, Extracted(batch[k])>>
  <2>1. CASE known[<<document, k>>] # Absent
    BY <1>1, <2>1 DEF BirthInv
  <2>2. CASE known[<<document, k>>] = Absent
    <3>1. n = <<document, k>>
      <4>1. <<document, k>> \in Nodes
        BY CurrentType DEF Nodes
      <4>2. QED
        BY <1>1, <1>2, <2>2, <4>1
    <3>2. n = <<document, at>> /\ e = Current
      BY <2>2, <3>1 DEF Settling
    <3>3. QED
      BY <1>1, <3>1, <3>2 DEF Current
  <2>3. QED
    BY <2>1, <2>2
<1>3. ASSUME NEW k \in 1..MaxMentions, n = <<document, k>> PROVE k <= at
  BY <1>1, <1>3 DEF Settling, BirthInv
<1>4. ASSUME NEW i \in 1..at, NEW k \in 1..MaxMentions, resolved'[i][1] = <<document, k>>
      PROVE  k <= i
  <2>1. CASE i = at
    BY <1>1, <1>3, <1>4, <2>1
  <2>2. CASE i # at
    <3>1. i \in 1..Len(resolved) /\ resolved[i][1] = <<document, k>>
      BY <1>1, <1>4, <2>2
    <3>2. QED
      BY <3>1 DEF BirthInv
  <2>3. QED
    BY <2>1, <2>2
<1>5. QED
  BY <1>1, <1>2, <1>4 DEF BirthInv

LEMMA SettleKeepsLoad ==
  ASSUME TypeInv, LoadInv, Resolving, NEW n \in Nodes, NEW e \in Entities, Settling(n, e)
  PROVE  LoadInv'
<1>1. /\ known'[n] = e /\ e # Absent /\ \A m \in Nodes \ {n} : known'[m] = known[m]
      /\ UNCHANGED <<graph, document, batch, found>> /\ phase = "resolve"
      /\ phase' # "load"
  BY SettleStep DEF Settling
<1>2. \A s : NamedInGraph(s)' = NamedInGraph(s) /\ NamedInGraph(s) \subseteq Nodes
  BY <1>1 DEF NamedInGraph
<1>3. QED
  BY <1>1, <1>2 DEF LoadInv

LEMMA SettleKeepsWrite ==
  ASSUME TypeInv, IndexInv, Resolving, NEW n \in Nodes, NEW e \in Entities, Settling(n, e)
  PROVE  WriteInv'
<1>1. /\ UNCHANGED <<graph, document>> /\ phase = "resolve"
      /\ phase' = "resolve" \/ (phase' = "write" /\ at' = 1)
  BY SettleStep DEF Settling
<1>2. \A k \in 1..MaxMentions : graph[<<document, k>>] = Absent
  BY <1>1 DEF IndexInv
<1>3. QED
  BY <1>1, <1>2 DEF WriteInv

LEMMA SettleKeepsTwins ==
  ASSUME TypeInv, IndexInv, OriginInv, BirthInv, TwinInv, Resolving,
         NEW n \in Nodes, NEW e \in Entities, Settling(n, e)
  PROVE  TwinInv'
<1>1. /\ known'[n] = e /\ e # Absent /\ \A m \in Nodes \ {n} : known'[m] = known[m]
      /\ UNCHANGED <<graph, document, batch>> /\ phase = "resolve"
      /\ at \in Nat \ {0} /\ Len(resolved) = at - 1 /\ Len(resolved') = at
      /\ \A i \in 1..(at - 1) : resolved'[i] = resolved[i]
      /\ \A i : i = at => resolved'[i][1] = n /\ resolved'[i][2] = e
      /\ at <= MaxMentions
  BY SettleStep DEF Settling
<1>2. refused \subseteq refused'
  BY DEF Settling
<1>3. TwinsDisagree'
  BY <1>1, <1>2 DEF TwinInv, TwinsDisagree
<1>4. ASSUME NEW o \in Nodes \ {n}, Known(o, e.name)
      PROVE  \/ /\ Differ(e.identifiers, known[o].identifiers)
                /\ Differ(known[o].identifiers, e.identifiers)
             \/ {n, o} \cap refused' # {}
  <2>1. CASE /\ known[n] # Absent /\ e.name = known[n].name
             /\ known[n].identifiers \subseteq e.identifiers
    <3>1. Apart(n, known[n].identifiers, o, known[o].identifiers)
      BY <1>4, <2>1 DEF TwinInv
    <3>2. QED
      BY <1>2, <2>1, <3>1, DifferGrows DEF Apart
  <2>2. CASE Differ(e.identifiers, known[o].identifiers) \/ n \in refused'
    BY <2>2, DifferGrows
  <2>3. QED
    BY <1>4, <2>1, <2>2 DEF Settling
<1>5. \A p, o \in Nodes :
        p # o /\ known'[p] # Absent /\ known'[o] # Absent /\ known'[o].name = known'[p].name =>
          Differ(known'[p].identifiers, known'[o].identifiers) \/ {p, o} \cap refused' # {}
  BY <1>1, <1>2, <1>4 DEF TwinInv, Known, Apart
<1>6. ASSUME NEW i \in 1..(at - 1), resolved[i][1] = <<document, i>>,
             NEW o \in Nodes \ ({document} \X (i..MaxMentions)),
             known'[o] # Absent, known'[o].name = resolved[i][2].name
      PROVE  \/ Differ(resolved[i][2].identifiers, Reached(o, i)')
             \/ {<<document, i>>, o} \cap refused' # {}
  <2>1. Reached(o, i)' = Reached(o, i)
    BY <1>1, ReachedSettles DEF Settling
  <2>2. Known(o, resolved[i][2].name)
    <3>1. CASE o # n
      BY <1>1, <1>6, <3>1 DEF Known
    <3>2. CASE o = n
      <4>1. n # <<document, at>>
        BY <1>1, <1>6, <3>2
      <4>2. QED
        BY <1>1, <1>6, <3>2, <4>1 DEF Known, Settling
    <3>3. QED
      BY <3>1, <3>2
  <2>3. Apart(resolved[i][1], resolved[i][2].identifiers, o, Reached(o, i))
    <3>1. i \in 1..Len(resolved)
      BY <1>1
    <3>2. QED
      BY <1>6, <2>2, <3>1 DEF TwinInv
  <2>4. QED
    BY <1>2, <1>6, <2>1, <2>3 DEF Apart
<1>7. ASSUME n = <<document, at>>, NEW o \in Nodes \ ({document} \X (at..MaxMentions)),
             known'[o] # Absent, known'[o].name = e.name
      PROVE  Differ(e.identifiers, Reached(o, at)) \/ {n, o} \cap refused' # {}
  <2>1. o # n
    BY <1>1, <1>7
  <2>2. Known(o, e.name)
    BY <1>1, <1>7, <2>1 DEF Known
  <2>3. known[o].identifiers \subseteq Reached(o, at)
    <3>1. Len(resolved) + 1 = at
      BY <1>1
    <3>2. QED
      BY <2>2, <3>1 DEF OriginInv, Known
  <2>4. QED
    BY <1>4, <2>1, <2>2, <2>3, DifferGrows
<1>8. \A i \in 1..at : resolved'[i][1] = <<document, i>> =>
        \A o \in Nodes \ ({document} \X (i..MaxMentions)) :
          known'[o] # Absent /\ known'[o].name = resolved'[i][2].name =>
            \/ Differ(resolved'[i][2].identifiers, Reached(o, i)')
            \/ {resolved'[i][1], o} \cap refused' # {}
  <2> SUFFICES ASSUME NEW i \in 1..at, resolved'[i][1] = <<document, i>>,
             NEW o \in Nodes \ ({document} \X (i..MaxMentions)),
             known'[o] # Absent, known'[o].name = resolved'[i][2].name
      PROVE  \/ Differ(resolved'[i][2].identifiers, Reached(o, i)')
             \/ {resolved'[i][1], o} \cap refused' # {}
    OBVIOUS
  <2>1. CASE i # at
    BY <1>1, <1>6, <2>1
  <2>2. CASE i = at
    <3>1. Reached(o, i)' = Reached(o, i)
      BY <1>1, ReachedSettles DEF Settling
    <3>2. resolved'[i][1] = n /\ resolved'[i][2] = e /\ n = <<document, at>>
      BY <1>1, <2>2
    <3>3. Differ(e.identifiers, Reached(o, at)) \/ {n, o} \cap refused' # {}
      BY <1>7, <2>2, <3>2
    <3>4. QED
      BY <2>2, <3>1, <3>2, <3>3
  <2>3. QED
    BY <2>1, <2>2
<1>9. QED
  BY <1>1, <1>3, <1>5, <1>8 DEF TwinInv, Apart, Known

\* A lookup by name cannot hide a node.
NamesFit ==
  \A s \in Names : IsFiniteSet(NamedInGraph(s)) /\ Cardinality(NamedInGraph(s)) <= NameLimit

TwinsInv == OriginInv /\ BirthInv /\ LoadInv /\ WriteInv /\ TwinInv

LEMMA SettleKeepsAll ==
  ASSUME TypeInv, IndexInv, TwinsInv, Resolving,
         NEW n \in Nodes, NEW e \in Entities, Settling(n, e)
  PROVE  TwinsInv'
BY SettleKeepsOrigin, SettleKeepsBirth, SettleKeepsLoad, SettleKeepsWrite, SettleKeepsTwins
DEF TwinsInv

LEMMA BeginKeepsTwins ==
  ASSUME TypeInv, TwinsInv, NEW d \in Documents, Begin(d)
  PROVE  TwinsInv'
<1>1. /\ phase = "idle" /\ phase' = "load" /\ at' = 1 /\ resolved = <<>> /\ found = {}
      /\ UNCHANGED <<graph, known, holder, blocks, found, resolved, refused>>
  BY DEF Begin, TypeInv, Progress, index
<1>2. \A n \in Nodes : known[n] = Absent
  BY <1>1 DEF TwinsInv, OriginInv
<1>3. \A k \in 1..MaxMentions : <<d, k>> \in Nodes /\ document' = d
  BY DEF Nodes, Begin
<1>4. OriginInv' /\ WriteInv'
  BY <1>1, <1>2 DEF OriginInv, WriteInv
<1>5. BirthInv'
  <2>1. 1..Len(resolved) = {}
    BY <1>1
  <2>2. QED
    BY <1>1, <1>2, <1>3, <2>1 DEF BirthInv
<1>6. LoadInv'
  BY <1>1 DEF LoadInv
<1>7. TwinInv'
  BY <1>1, <1>2 DEF TwinsInv, TwinInv, TwinsDisagree, Known
<1>8. QED
  BY <1>4, <1>5, <1>6, <1>7 DEF TwinsInv

\* The reads: what was found is in the index, or about to be.
LEMMA FindKeepsTwins ==
  ASSUME TypeInv, TwinsInv, phase = "load", phase' \in {"load", "resolve"}, resolved = <<>>,
         UNCHANGED <<graph, known, blocks, document, batch, resolved, refused>>, LoadInv'
  PROVE  TwinsInv'
<1>1. \A n, i : Reached(n, i)' = Reached(n, i)
  BY DEF Reached
<1>2. OriginInv' /\ BirthInv' /\ WriteInv'
  BY <1>1 DEF TwinsInv, OriginInv, BirthInv, WriteInv
<1>3. TwinInv'
  BY DEF TwinsInv, TwinInv, TwinsDisagree, Known, Apart
<1>4. QED
  BY <1>2, <1>3 DEF TwinsInv

LEMMA ByIdentifierKeepsTwins ==
  ASSUME TypeInv, TwinsInv, FindByIdentifier PROVE TwinsInv'
<1>1. /\ phase = "load" /\ phase' = "load" /\ found = {} /\ resolved = <<>> /\ at' = at
      /\ UNCHANGED <<graph, known, blocks, document, batch, resolved, refused>>
  BY DEF FindByIdentifier, TypeInv, Progress, index
<1>2. LoadInv'
  BY <1>1 DEF TwinsInv, LoadInv, NamedInGraph
<1>3. QED
  BY <1>1, <1>2, FindKeepsTwins

LEMMA ByNameKeepsTwins ==
  ASSUME TypeInv, TwinsInv, NamesFit, FindByName PROVE TwinsInv'
<1> DEFINE all == NamedInGraph(batch[at].name)
<1>1. /\ phase = "load" /\ phase' \in {"load", "resolve"} /\ found = {} /\ resolved = <<>>
      /\ phase' = "load" => at' = at + 1
      /\ phase' = "resolve" => at = Len(batch)
      /\ UNCHANGED <<graph, known, blocks, document, batch, resolved, refused>>
  BY DEF FindByName, TypeInv, Progress, index
<1>2. PICK rows \in SUBSET all :
        /\ rows = all \/ Cardinality(rows) = NameLimit
        /\ found' = rows \ Indexed
  BY DEF FindByName
<1>3. at \in 1..Len(batch) /\ batch[at] \in Mentions /\ Len(batch) \in Nat
  BY <1>1 DEF TypeInv, TypeOK
<1>4. IsFiniteSet(all) /\ Cardinality(all) <= NameLimit
  BY <1>3, MentionsAssumption DEF NamesFit
<1> HIDE DEF all
<1>5. rows = all
  <2>1. CASE Cardinality(rows) = NameLimit
    <3>1. /\ Cardinality(rows) <= Cardinality(all)
          /\ Cardinality(all) = Cardinality(rows) => all = rows
      BY <1>4, FS_Subset
    <3>2. Cardinality(all) \in Nat /\ Cardinality(rows) \in Nat
      BY <1>4, FS_Subset, FS_CardinalityType
    <3>3. QED
      BY <1>4, <2>1, <3>1, <3>2
  <2>2. QED
    BY <1>2, <2>1
<1>6. \A n \in all : known[n] # Absent \/ n \in found'
  BY <1>2, <1>5 DEF Indexed, all, NamedInGraph
<1>7. LoadInv'
  <2> SUFFICES ASSUME NEW i \in 1..Len(batch), ~(phase' = "load" /\ at' <= i),
                      NEW n \in NamedInGraph(batch[i].name)
      PROVE known[n] # Absent \/ n \in found'
    BY <1>1 DEF LoadInv, NamedInGraph
  <2>1. CASE i = at
    BY <1>6, <2>1 DEF all
  <2>2. CASE i # at
    <3>1. i < at
      BY <1>1, <1>3, <2>2
    <3>2. QED
      BY <1>1, <1>3, <3>1 DEF TwinsInv, LoadInv
  <2>3. QED
    BY <2>1, <2>2
<1>8. QED
  BY <1>1, <1>7, FindKeepsTwins

\* A row joins the index as the graph has it.
LEMMA RowKeepsTwins ==
  ASSUME TypeInv, IndexInv, TwinsInv, IndexRow PROVE TwinsInv'
<1>1. PICK n \in found : Add(n, graph[n]) /\ found' = found \ {n}
  BY DEF IndexRow
<1>2. /\ n \in Nodes /\ known[n] = Absent /\ graph[n] # Absent /\ graph[n] \in Entities
      /\ resolved = <<>> /\ phase \in {"load", "resolve"}
  BY <1>1 DEF TypeInv, TypeOK, Progress, IndexInv, Indexed, MaybeEntity, TwinsInv, OriginInv
<1>3. /\ UNCHANGED <<graph, document, batch, phase, at, resolved, refused>>
      /\ \A m \in Nodes : known'[m] = IF m = n THEN graph[n] ELSE known[m]
      /\ \A b \in DOMAIN blocks : blocks[b] \subseteq blocks'[b]
      /\ n \in blocks'[BlockOf[graph[n].name]]
  <2>1. BlockOf[graph[n].name] \in DOMAIN blocks
    BY <1>2 DEF TypeInv, TypeOK, Entities
  <2>2. QED
    BY <1>1, <1>2, <2>1 DEF IndexRow, Add, Register, TypeInv, TypeOK
<1>4. \A m \in Nodes : known'[m] # Absent => known'[m] = graph[m]
  BY <1>2, <1>3 DEF TwinsInv, OriginInv
<1>5. OriginInv'
  <2>1. ASSUME NEW m \in Nodes, known'[m] # Absent
        PROVE  /\ m \in blocks'[BlockOf[known'[m].name]]
               /\ known'[m].identifiers \subseteq Reached(m, Len(resolved) + 1)'
    <3>1. graph[m] \in Entities /\ graph[m] # Absent
      BY <1>4, <2>1, EntityAssumption DEF TypeInv, TypeOK, MaybeEntity
    <3>2. known'[m].identifiers \subseteq Reached(m, Len(resolved) + 1)'
      BY <1>3, <1>4, <2>1, <3>1 DEF Reached, Entities
    <3>3. BlockOf[graph[m].name] \in DOMAIN blocks
      BY <3>1 DEF TypeInv, TypeOK, Entities
    <3>4. QED
      BY <1>3, <1>4, <2>1, <3>2, <3>3 DEF TwinsInv, OriginInv
  <2>2. QED
    BY <1>2, <1>3, <1>4, <2>1 DEF OriginInv, TwinsInv
<1>6. BirthInv'
  <2>1. \A k \in 1..MaxMentions : n # <<document, k>>
    BY <1>2 DEF IndexInv
  <2>2. \A k \in 1..MaxMentions : document \in Documents /\ <<document, k>> \in Nodes
    BY <1>2 DEF TypeInv, TypeOK, Nodes
  <2>3. QED
    BY <1>2, <1>3, <2>1, <2>2 DEF TwinsInv, BirthInv
<1>7. LoadInv' /\ WriteInv'
  BY <1>1, <1>2, <1>3 DEF TwinsInv, LoadInv, WriteInv, NamedInGraph
<1>8. TwinInv'
  <2>1. \A m, o \in Nodes :
          m # o /\ known'[m] # Absent /\ known'[o] # Absent /\ known'[o].name = known'[m].name =>
            Differ(known'[m].identifiers, known'[o].identifiers) \/ {m, o} \cap refused # {}
    BY <1>4 DEF TwinsInv, TwinInv, TwinsDisagree, Conflicting, Differ
  <2>2. QED
    BY <1>2, <1>3, <2>1 DEF TwinsInv, TwinInv, TwinsDisagree, Known, Apart
<1>9. QED
  BY <1>5, <1>6, <1>7, <1>8 DEF TwinsInv

\* A node that the graph does not have yet was created by the mention being
\* written, and everything its creation was held against is in the graph.
LEMMA WriteKeepsTwins ==
  ASSUME TypeInv, IndexInv, NodeInv, MemoryInv, TwinsInv, Write PROVE TwinsInv'
<1> DEFINE n == resolved[at][1]
           e == resolved[at][2]
<1>1. /\ phase = "write" /\ found = {} /\ at \in 1..Len(resolved) /\ Len(resolved) = Len(batch)
      /\ at \in 1..MaxMentions /\ n \in Nodes /\ e \in Entities /\ graph[n] \in MaybeEntity
      /\ document \in Documents /\ refused' = refused
  BY BoundAssumption DEF Write, TypeInv, TypeOK, Progress, Abandon
<1>2. /\ known[n] # Absent /\ Within(e, known[n])
      /\ graph[n] # Absent => graph[n].name = e.name
  <2>1. at <= at
    BY <1>1
  <2>2. QED
    BY <1>1, <2>1 DEF NodeInv, MemoryInv, Waiting, Within
<1>3. /\ \A m \in Nodes : graph'[m] = IF m = n THEN Upserted(n, e) ELSE graph[m]
      /\ Upserted(n, e) # Absent /\ Upserted(n, e).name = e.name
      /\ e.identifiers \subseteq Upserted(n, e).identifiers
      /\ graph[n] # Absent => graph[n].identifiers \subseteq Upserted(n, e).identifiers
  <2>1. \A m \in Nodes : graph'[m] = IF m = n THEN Upserted(n, e) ELSE graph[m]
    BY <1>1 DEF Write, TypeInv, TypeOK
  <2>2. Upserted(n, e) # Absent
    BY <1>1, UpsertedType, EntityAssumption DEF TypeInv
  <2>3. CASE graph[n] = Absent
    BY <2>1, <2>2, <2>3 DEF Upserted
  <2>4. CASE graph[n] # Absent
    <3>1. graph[n] \in Entities
      BY <1>1, <2>4 DEF MaybeEntity
    <3>2. Upserted(n, e).name = graph[n].name
          /\ Upserted(n, e).identifiers = e.identifiers \cup graph[n].identifiers
      BY <1>1, <2>4, <3>1 DEF Upserted, Entities
    <3>3. QED
      BY <1>2, <2>1, <2>2, <2>4, <3>2
  <2>5. QED
    BY <2>3, <2>4
<1> HIDE DEF n, e
<1>4. /\ \A i \in 1..(at - 1) :
           /\ graph[resolved[i][1]] # Absent
           /\ resolved[i][2].identifiers \subseteq graph[resolved[i][1]].identifiers
      /\ \A k \in at..MaxMentions : graph[<<document, k>>] = Absent
  BY <1>1 DEF TwinsInv, WriteInv
<1>5. \A k \in 1..MaxMentions : n = <<document, k>> => k <= at
  BY <1>1 DEF TwinsInv, BirthInv, n
<1>6. ASSUME graph[n] = Absent
      PROVE  n = <<document, at>> /\ e = Extracted(batch[at])
  <2>1. n[1] = document
    BY <1>1, <1>2, <1>6 DEF TwinsInv, OriginInv
  <2>2. PICK k \in 1..MaxMentions : n = <<document, k>>
    BY <1>1, <2>1 DEF Nodes
  <2>3. resolved[k] = <<<<document, k>>, Extracted(batch[k])>>
    BY <1>1, <1>2, <2>2 DEF TwinsInv, BirthInv
  <2>4. ~(k < at)
    <3>1. resolved[k][1] = n
      BY <2>2, <2>3
    <3>2. k < at => k \in 1..(at - 1)
      BY <1>1
    <3>3. QED
      BY <1>4, <1>6, <3>1, <3>2
  <2>5. k = at
    BY <1>1, <1>5, <2>2, <2>4
  <2>6. QED
    BY <2>2, <2>3, <2>5 DEF n, e
<1>7. ASSUME graph[n] = Absent, NEW o \in Nodes \ {n}, graph[o] # Absent, graph[o].name = e.name
      PROVE  Differ(e.identifiers, graph[o].identifiers) \/ {n, o} \cap refused # {}
  <2>1. n = <<document, at>> /\ e.name = batch[at].name
    BY <1>6, <1>7 DEF Extracted
  <2>2. o \in NamedInGraph(batch[at].name)
    BY <1>7, <2>1 DEF NamedInGraph
  <2>3. known[o] # Absent
    BY <1>1, <2>2 DEF TwinsInv, LoadInv
  <2>4. Known(o, e.name)
    BY <1>7, <2>3 DEF MemoryInv, Within, Known
  <2>5. o \notin {document} \X (at..MaxMentions)
    BY <1>4, <1>7
  <2>6. Apart(n, e.identifiers, o, Reached(o, at))
    BY <1>1, <2>1, <2>4, <2>5 DEF TwinsInv, TwinInv, n, e
  <2>7. Reached(o, at) \subseteq graph[o].identifiers
    BY <1>4, <1>7 DEF Reached
  <2>8. QED
    BY <2>6, <2>7, DifferGrows DEF Apart
<1>8. TwinsDisagree'
  <2> SUFFICES ASSUME NEW p \in Nodes, NEW o \in Nodes, p # o,
                      graph'[p] # Absent, graph'[o] # Absent, graph'[p].name = graph'[o].name
      PROVE  Differ(graph'[p].identifiers, graph'[o].identifiers) \/ {p, o} \cap refused # {}
    BY <1>1 DEF TwinsDisagree, Conflicting, Differ
  <2>1. CASE p # n /\ o # n
    BY <1>3, <2>1 DEF TwinsInv, TwinInv, TwinsDisagree, Conflicting, Differ
  <2>2. ASSUME NEW q \in Nodes \ {n}, graph[q] # Absent, graph[q].name = e.name
        PROVE  \/ /\ Differ(Upserted(n, e).identifiers, graph[q].identifiers)
                  /\ Differ(graph[q].identifiers, Upserted(n, e).identifiers)
               \/ {n, q} \cap refused # {}
    <3>1. CASE graph[n] = Absent
      BY <1>3, <1>7, <2>2, <3>1, DifferGrows
    <3>2. CASE graph[n] # Absent
      <4>1. Differ(graph[n].identifiers, graph[q].identifiers) \/ {n, q} \cap refused # {}
        BY <1>1, <1>2, <2>2, <3>2 DEF TwinsInv, TwinInv, TwinsDisagree, Conflicting, Differ
      <4>2. QED
        BY <1>3, <3>2, <4>1, DifferGrows
    <3>3. QED
      BY <3>1, <3>2
  <2>3. CASE p = n
    BY <1>3, <2>2, <2>3
  <2>4. CASE o = n
    BY <1>3, <2>2, <2>4
  <2>5. QED
    BY <2>1, <2>3, <2>4
<1>9. CASE at = Len(resolved)
  BY <1>8, <1>9, AbandonKeepsTwins DEF Write, TwinsInv
<1>10. CASE at # Len(resolved)
  <2>1. /\ at' = at + 1 /\ UNCHANGED <<known, blocks, document, batch, phase, found, resolved, refused>>
    BY <1>10 DEF Write, index
  <2>2. \A m, i : m \in Nodes => Reached(m, i) \subseteq Reached(m, i)'
    BY <1>3, <2>1 DEF Reached
  <2>3. OriginInv'
    <3>1. resolved # <<>>
      BY <1>1
    <3>2. \A m \in Nodes : graph'[m] = Absent => graph[m] = Absent
      BY <1>3
    <3>3. \A m \in Nodes : Reached(m, Len(resolved) + 1) \subseteq Reached(m, Len(resolved) + 1)'
      BY <2>1, <2>2
    <3>4. QED
      BY <1>1, <2>1, <3>1, <3>2, <3>3 DEF TwinsInv, OriginInv
  <2>4. BirthInv'
    BY <2>1 DEF TwinsInv, BirthInv
  <2>5. LoadInv'
    BY <1>1, <1>2, <1>3, <2>1 DEF TwinsInv, LoadInv, NamedInGraph
  <2>6. WriteInv'
    <3>1. \A k \in (at + 1)..MaxMentions : graph'[<<document, k>>] = Absent
      <4>1. \A k \in (at + 1)..MaxMentions :
              /\ k \in 1..MaxMentions /\ k \in at..MaxMentions /\ ~(k <= at)
              /\ <<document, k>> \in Nodes
        BY <1>1 DEF Nodes
      <4>2. QED
        BY <1>3, <1>4, <1>5, <4>1
    <3>2. ASSUME NEW i \in 1..at
          PROVE  /\ graph'[resolved[i][1]] # Absent
                 /\ resolved[i][2].identifiers \subseteq graph'[resolved[i][1]].identifiers
      <4>1. resolved[i][1] \in Nodes
        BY <1>1 DEF TypeInv, TypeOK
      <4>2. CASE i = at
        BY <1>1, <1>3, <4>2 DEF n, e
      <4>3. CASE i # at
        <5>1. i \in 1..(at - 1)
          BY <1>1, <4>3
        <5>2. QED
          BY <1>3, <1>4, <4>1, <5>1
      <4>4. QED
        BY <4>2, <4>3
    <3>3. (at + 1) - 1 = at
      BY <1>1
    <3>4. QED
      BY <1>1, <2>1, <3>1, <3>2, <3>3 DEF WriteInv
  <2>7. TwinInv'
    <3>1. \A i \in 1..Len(resolved) : resolved[i][1] = <<document, i>> =>
            \A o \in Nodes \ ({document} \X (i..MaxMentions)) :
              Known(o, resolved[i][2].name) =>
                \/ Differ(resolved[i][2].identifiers, Reached(o, i)')
                \/ {resolved[i][1], o} \cap refused # {}
      <4> SUFFICES ASSUME NEW i \in 1..Len(resolved), resolved[i][1] = <<document, i>>,
                          NEW o \in Nodes \ ({document} \X (i..MaxMentions)),
                          Known(o, resolved[i][2].name)
          PROVE  \/ Differ(resolved[i][2].identifiers, Reached(o, i)')
                 \/ {resolved[i][1], o} \cap refused # {}
        OBVIOUS
      <4>1. Apart(resolved[i][1], resolved[i][2].identifiers, o, Reached(o, i))
        BY DEF TwinsInv, TwinInv
      <4>2. Reached(o, i) \subseteq Reached(o, i)'
        BY <2>2
      <4>3. QED
        BY <4>1, <4>2, DifferGrows DEF Apart
    <3>2. QED
      BY <1>8, <2>1, <3>1 DEF TwinsInv, TwinInv, Known, Apart
  <2>8. QED
    BY <2>3, <2>4, <2>5, <2>6, <2>7 DEF TwinsInv
<1>11. QED
  BY <1>9, <1>10

\* A mention joins what it matches, and gets a node of its own only where the
\* resolver found a reason in each candidate of its name.
LEMMA ResolveKeepsTwins ==
  ASSUME TypeInv, IndexInv, TwinsInv, Match \/ MatchFuzzy \/ Refuse \/ Create
  PROVE  TwinsInv'
<1>1. Resolving
  BY DEF Match, MatchFuzzy, Refuse, Create, Undecided
<1>2. /\ batch[at] \in Mentions /\ Current \in Entities
      /\ document \in Documents /\ <<document, at>> \in Nodes
  BY <1>1, CurrentType
<1>3. ASSUME NEW n \in Matches(Current) \cup BestFuzzy(Current), MergeInto(n)
      PROVE  TwinsInv'
  <2>1. n \in Nodes /\ known[n] # Absent /\ known[n] \in Entities
    BY <1>1, <1>2, ChosenNode, CandidatesIndexed DEF TypeInv, TypeOK, Indexed, MaybeEntity
  <2>2. MergedWith(known[n], Current) \in Entities
    BY <1>2, <2>1, MergedType
  <2>3. Settling(n, MergedWith(known[n], Current))
    BY <1>3, <2>1 DEF MergeInto, Replace, Settling, MergedWith
  <2>4. QED
    BY <1>1, <2>1, <2>2, <2>3, SettleKeepsAll
<1>4. ASSUME CreateNode, refused \subseteq refused',
             Matches(Current) = {} \/ <<document, at>> \in refused'
      PROVE  TwinsInv'
  <2>1. BlockOf[Current.name] \in DOMAIN blocks
    BY <1>2 DEF TypeInv, TypeOK, Entities
  <2>2. /\ <<document, at>> \in blocks'[BlockOf[Current.name]]
        /\ \A b \in DOMAIN blocks : blocks[b] \subseteq blocks'[b]
    BY <1>4, <2>1 DEF CreateNode, Add
  <2>3. ASSUME NEW o \in Nodes, Known(o, Current.name), Matches(Current) = {}
        PROVE  Differ(Current.identifiers, known[o].identifiers)
    <3>1. o \in Candidates(Current) /\ SameName(Current, o)
      BY <2>3 DEF TwinsInv, OriginInv, Known, Candidates, SameName
    <3>2. Conflicting(Current, known[o])
      BY <2>3, <3>1 DEF Matches
    <3>3. QED
      BY <3>2 DEF Conflicting, Differ
  <2>4. Settling(<<document, at>>, Current)
    BY <1>4, <2>2, <2>3 DEF CreateNode, Add, Settling
  <2>5. QED
    BY <1>1, <1>2, <2>4, SettleKeepsAll
<1>5. CASE Match \/ MatchFuzzy
  BY <1>3, <1>5 DEF Match, MatchFuzzy
<1>6. CASE Refuse \/ Create
  BY <1>4, <1>6 DEF Refuse, Create, Undecided
<1>7. QED
  BY <1>5, <1>6

LEMMA StepTwins ==
  TypeInv /\ IndexInv /\ NodeInv /\ MemoryInv /\ TwinsInv /\ NamesFit /\ [Next]_vars => TwinsInv'
<1> SUFFICES ASSUME TypeInv, IndexInv, NodeInv, MemoryInv, TwinsInv, NamesFit, [Next]_vars
    PROVE TwinsInv'
  OBVIOUS
<1>1. CASE Fail
  <2>1. Abandon /\ UNCHANGED <<graph, refused>>
    BY <1>1 DEF Fail, Abandon
  <2>2. TwinsDisagree'
    BY <2>1 DEF TwinsInv, TwinInv, TwinsDisagree
  <2>3. QED
    BY <2>1, <2>2, AbandonKeepsTwins DEF TwinsInv
<1>2. CASE Quiet \/ UNCHANGED vars
  <2>1. UNCHANGED vars /\ \A n, i : Reached(n, i)' = Reached(n, i)
    BY <1>2 DEF Quiet, vars, index, Reached
  <2>2. OriginInv' /\ BirthInv' /\ LoadInv' /\ WriteInv'
    BY <2>1 DEF vars, index, TwinsInv, OriginInv, BirthInv, LoadInv, WriteInv, NamedInGraph
  <2>3. TwinInv'
    BY <2>1 DEF vars, index, TwinsInv, TwinInv, TwinsDisagree, Known, Apart
  <2>4. QED
    BY <2>2, <2>3 DEF TwinsInv
<1>3. QED
  BY <1>1, <1>2, BeginKeepsTwins, ByIdentifierKeepsTwins, ByNameKeepsTwins, RowKeepsTwins,
     ResolveKeepsTwins, WriteKeepsTwins
  DEF Next

\* What the graph says of companies is what documents said of them, as long as
\* a lookup by name returns every node of the name: clusters of evidence that
\* forget nothing, and no two nodes of one name that nothing tells apart.
THEOREM NodesStayJustified == Spec /\ []NamesFit => []NodesAreJustified
<1>1. ResolutionInv => TypeInv /\ IndexInv /\ NodeInv
  BY DEF ResolutionInv
<1>2. Init => TwinsInv
  BY InitTwins DEF TwinsInv
<1>3. Spec /\ []NamesFit => []TwinsInv
  BY <1>1, <1>2, StepTwins, ResolutionInvariant, MemoryInvariant, PTL DEF Spec
<1>4. TwinsInv /\ MergesJustified /\ NodesRemember => NodesAreJustified
  BY DEF TwinsInv, TwinInv, NodesAreJustified
<1>5. QED
  BY <1>3, <1>4, EvidenceHoldsNodes, NothingIsForgotten, PTL
===============================================================================
