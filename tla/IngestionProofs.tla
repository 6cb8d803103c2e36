---------------------------- MODULE IngestionProofs ----------------------------
(***************************************************************************)
(* What IngestionPipeline guarantees for any number of submissions and any *)
(* extraction: Postgres and the graph agree on what was ingested, although *)
(* they share no transaction and a request may end at any of its steps.    *)
(*                                                                         *)
(* The inductive invariant follows a request through its loops: where it   *)
(* is tells what it still has to write (Loops), what its surfaces resolved *)
(* to (Resolved), what it has written (Cited) and what it is about to      *)
(* commit (Staged); citations are only ever added, so other requests       *)
(* cannot undo it.  OverlapInv says what a request knows of the nodes of   *)
(* those that were over before it began, ContentInv why a caller is told   *)
(* what the content store it cannot see into would say.                    *)
(***************************************************************************)
EXTENDS IngestionPipeline, SequenceTheorems, WellFoundedInduction, TLAPS

Shape ==
  /\ docs \subseteq Requests /\ announced \subseteq Requests
  /\ mentions \subseteq Nodes \X Requests
  /\ sources \in [Nodes -> SUBSET Requests]
  /\ edges \subseteq Nodes \X Nodes \X Requests
  /\ pc \in [Requests -> Locations]
  /\ extracted \in [Requests -> Seq(Surfaces)] /\ todo \in [Requests -> Seq(Surfaces)]
  /\ links \in [Requests -> SUBSET Relations] /\ known \in [Requests -> SUBSET Nodes]
  /\ staged \in [Requests -> SUBSET Nodes]
  /\ answer \in [Requests -> {"none", "created", "duplicate", "error"}]
  /\ before \in [Requests -> SUBSET Requests]
  /\ target = [r \in Requests |-> target[r]]

\* The surfaces that the current loop has not reached.
Rest(r) == {todo[r][i] : i \in DOMAIN todo[r]}

\* A loop runs while there is something to do, over what was extracted.
Loops(r) ==
  /\ pc[r] \in {"load", "resolve", "write"} => extracted[r] # << >>
  /\ pc[r] \in {"load", "write"} => todo[r] # << >>
  /\ pc[r] = "write" => Rest(r) \subseteq Named(r)
  /\ links[r] \subseteq Named(r) \X Named(r)

\* A surface resolves to a node of its own canonical name.
Resolved(r) ==
  pc[r] \in {"write", "mentions", "link"} =>
    /\ target[r] \in [Named(r) -> Nodes]
    /\ \A s \in Named(r) : Alike(target[r][s][2], s)

\* The nodes behind the loop cite the document.
Cited(r) ==
  /\ pc[r] = "write" => \A s \in Named(r) : s \in Rest(r) \/ r \in sources[target[r][s]]
  /\ pc[r] \in {"mentions", "link"} => \A s \in Named(r) : r \in sources[target[r][s]]

\* What is staged is in the graph already, and at the commit it is complete.
Staged(r) ==
  /\ \A n \in staged[r] : r \in sources[n]
  /\ pc[r] \in {"link", "announce", "commit"} =>
       \A s \in Named(r) : \E n \in staged[r] : Alike(n[2], s)

Progress(r) == Loops(r) /\ Resolved(r) /\ Cited(r) /\ Staged(r)

\* Only a request near its end is announced, and only one that is over stored.
Ends ==
  /\ \A r \in announced : pc[r] \in {"commit", "over"}
  /\ \A r \in docs : pc[r] = "over"

IngestInv == Shape /\ (\A r \in Requests : Progress(r)) /\ Ends /\ StoresAgree

LEMMA InitIngest == Init => IngestInv
BY DEF Init, IngestInv, Shape, Locations, Progress, Loops, Resolved, Cited, Staged, Ends,
       StoresAgree, MentionsResolve, DocumentsFullyIndexed, EdgesGrounded, Named, Nodes

(***************************************************************************)
(* Facts about the operators                                               *)
(***************************************************************************)
LEMMA NamedAreSurfaces ==
  ASSUME Shape, NEW r \in Requests
  PROVE  Named(r) \subseteq Surfaces
BY DEF Shape, Named

\* The loop's current surface, and the rest of them.
LEMMA HeadAndRest ==
  ASSUME NEW s \in Seq(Surfaces), s # << >>
  PROVE  /\ Head(s) \in {s[i] : i \in DOMAIN s} /\ Tail(s) \in Seq(Surfaces)
         /\ Len(s) # 1 => Tail(s) # << >>
         /\ {s[i] : i \in DOMAIN s} = {Head(s)} \cup {Tail(s)[i] : i \in DOMAIN Tail(s)}
         /\ Len(s) = 1 => {s[i] : i \in DOMAIN s} = {Head(s)}
<1>1. /\ Len(s) \in Nat /\ Len(s) >= 1 /\ DOMAIN s = 1..Len(s) /\ Head(s) = s[1]
  OBVIOUS
<1>2. /\ Tail(s) \in Seq(Surfaces) /\ Len(Tail(s)) = Len(s) - 1
      /\ \A i \in 1..Len(Tail(s)) : Tail(s)[i] = s[i + 1]
  BY HeadTailProperties
<1>3. DOMAIN Tail(s) = 1..(Len(s) - 1)
  BY <1>1, <1>2
<1>4. ASSUME NEW i \in DOMAIN s PROVE s[i] \in {Head(s)} \cup {Tail(s)[j] : j \in DOMAIN Tail(s)}
  <2>1. CASE i = 1
    BY <1>1, <2>1
  <2>2. CASE i # 1
    <3>1. i - 1 \in DOMAIN Tail(s) /\ Tail(s)[i - 1] = s[i]
      BY <1>1, <1>2, <1>3, <2>2
    <3>2. QED
      BY <3>1
  <2>3. QED
    BY <2>1, <2>2
<1>5. ASSUME NEW j \in DOMAIN Tail(s) PROVE Tail(s)[j] \in {s[i] : i \in DOMAIN s}
  <2>1. j + 1 \in DOMAIN s /\ Tail(s)[j] = s[j + 1]
    BY <1>1, <1>2, <1>3
  <2>2. QED
    BY <2>1
<1>6. Head(s) \in {s[i] : i \in DOMAIN s}
  BY <1>1
<1>7. Len(s) # 1 => Tail(s) # << >>
  <2>1. Tail(s) = << >> => Len(Tail(s)) = Len(<< >>)
    BY Zenon
  <2>2. Len(<< >>) = 0
    BY EmptySeq
  <2>3. Tail(s) = << >> => Len(s) = 1
    BY <1>1, <1>2, <2>1, <2>2
  <2>4. QED
    BY <2>3
<1>8. Len(s) = 1 => DOMAIN s = {1}
  BY <1>1
<1>9. QED
  BY <1>1, <1>2, <1>4, <1>5, <1>6, <1>7, <1>8

\* Of the surfaces of one canonical name some is the first.
LEMMA FirstIsAlike ==
  ASSUME Shape, NEW r \in Requests, NEW s \in Named(r)
  PROVE  FirstAlike(r, s) \in Named(r) /\ Alike(FirstAlike(r, s), s)
<1> DEFINE Same == {i \in DOMAIN extracted[r] : Alike(extracted[r][i], s)}
           Less == OpToRel(<, Nat)
           IsFirst(i) == /\ Alike(extracted[r][i], s)
                         /\ \A j \in 1..(i - 1) : ~Alike(extracted[r][j], s)
<1>1. extracted[r] \in Seq(Surfaces)
  BY DEF Shape
<1>2. DOMAIN extracted[r] = 1..Len(extracted[r]) /\ Len(extracted[r]) \in Nat
  BY <1>1
<1>3. Same \subseteq Nat /\ Same # {}
  BY <1>2 DEF Named, Alike
<1>4. PICK i \in Same : \A j \in Same : <<j, i>> \notin Less
  BY <1>3, NatLessThanWellFounded, WFMin
<1>5. \A j \in Same : ~(j < i)
  BY <1>3, <1>4 DEF OpToRel
<1>6. i \in DOMAIN extracted[r] /\ IsFirst(i)
  BY <1>2, <1>5
<1> DEFINE first == CHOOSE k \in DOMAIN extracted[r] : IsFirst(k)
<1>7. first \in DOMAIN extracted[r] /\ IsFirst(first)
  BY <1>6
<1>8. FirstAlike(r, s) = extracted[r][first]
  BY DEF FirstAlike
<1>9. QED
  BY <1>7, <1>8 DEF Named

\* Whatever a surface may resolve to is a node of its name.
LEMMA ChoicesAreAlike ==
  ASSUME Shape, NEW r \in Requests, NEW s \in Named(r), NEW n \in Choices(r, s)
  PROVE  n \in Nodes /\ Alike(n[2], s)
<1>1. CASE Candidates(r, s) # {}
  BY <1>1 DEF Choices, Candidates, Shape
<1>2. CASE Candidates(r, s) = {}
  <2>1. n = <<r, FirstAlike(r, s)>>
    BY <1>2 DEF Choices
  <2>2. FirstAlike(r, s) \in Surfaces
    BY FirstIsAlike, NamedAreSurfaces
  <2>3. QED
    BY <2>1, <2>2, FirstIsAlike DEF Nodes
<1>3. QED
  BY <1>1, <1>2

(***************************************************************************)
(* Steps                                                                   *)
(***************************************************************************)

\* What one request does keeps what holds of the others, for nodes only gain
\* citations.
LEMMA OthersProgress ==
  ASSUME IngestInv, NEW r \in Requests,
         \A q \in Requests \ {r} :
           /\ pc'[q] = pc[q] /\ extracted'[q] = extracted[q] /\ todo'[q] = todo[q]
           /\ links'[q] = links[q] /\ target'[q] = target[q] /\ staged'[q] = staged[q],
         \A n \in Nodes : sources[n] \subseteq sources'[n],
         Progress(r)'
  PROVE  \A q \in Requests : Progress(q)'
<1> SUFFICES ASSUME NEW q \in Requests \ {r} PROVE Progress(q)'
  OBVIOUS
<1>1. Progress(q) /\ Named(q)' = Named(q) /\ Rest(q)' = Rest(q)
  BY DEF IngestInv, Named, Rest
<1>2. Loops(q)' /\ Resolved(q)'
  BY <1>1 DEF Progress, Loops, Resolved
<1>3. Cited(q)'
  <2>1. CASE pc[q] \in {"write", "mentions", "link"}
    <3>1. \A s \in Named(q) : target[q][s] \in Nodes
      BY <1>1, <2>1 DEF Progress, Resolved
    <3>2. \A s \in Named(q) : r \in Requests /\ sources[target[q][s]] \subseteq sources'[target[q][s]]
      BY <3>1
    <3>3. QED
      BY <1>1, <3>2 DEF Progress, Cited
  <2>2. CASE pc[q] \notin {"write", "mentions", "link"}
    BY <2>2 DEF Cited
  <2>3. QED
    BY <2>1, <2>2
<1>4. Staged(q)'
  BY <1>1 DEF IngestInv, Shape, Progress, Staged
<1>5. QED
  BY <1>2, <1>3, <1>4 DEF Progress

\* The stores still agree when nodes have gained citations, edges are grounded
\* and documents announced are in the graph.
LEMMA StoresStayAgreed ==
  ASSUME IngestInv, UNCHANGED <<docs, mentions>>,
         \A q \in docs \cup announced : extracted'[q] = extracted[q],
         \A n \in Nodes : sources[n] \subseteq sources'[n],
         \A e \in edges' \ edges : e[1] # e[2] /\ e[3] \in sources'[e[1]] \cap sources'[e[2]],
         \A q \in announced' \ announced : Represented(q)'
  PROVE  StoresAgree'
<1>1. MentionsResolve'
  <2>1. \A mention \in mentions : mention[1] \in Nodes
    BY DEF IngestInv, Shape
  <2>2. QED
    BY <2>1 DEF IngestInv, StoresAgree, MentionsResolve
<1>2. \A q \in docs \cup announced : Named(q)' = Named(q)
  BY DEF Named
<1>3. DocumentsFullyIndexed'
  BY <1>2 DEF IngestInv, StoresAgree, DocumentsFullyIndexed, Represented
<1>4. EdgesGrounded'
  <2>1. \A e \in edges : e[1] \in Nodes /\ e[2] \in Nodes
    BY DEF IngestInv, Shape
  <2>2. QED
    BY <2>1 DEF IngestInv, StoresAgree, EdgesGrounded
<1>5. QED
  BY <1>1, <1>3, <1>4 DEF StoresAgree

\* A request that ends without a commit leaves what it wrote to the graph.
LEMMA FinishKeepsInv ==
  ASSUME IngestInv, NEW r \in Requests, NEW verdict \in {"duplicate", "error"},
         Finish(r, verdict), UNCHANGED <<stores, extracted, before>>
  PROVE  IngestInv'
<1>1. Shape'
  <2>1. /\ docs' \subseteq Requests /\ announced' \subseteq Requests
        /\ mentions' \subseteq Nodes \X Requests /\ sources' \in [Nodes -> SUBSET Requests]
        /\ edges' \subseteq Nodes \X Nodes \X Requests
        /\ extracted' \in [Requests -> Seq(Surfaces)] /\ before' \in [Requests -> SUBSET Requests]
    BY DEF IngestInv, Shape, stores
  <2>2. /\ pc' \in [Requests -> Locations]
        /\ answer' \in [Requests -> {"none", "created", "duplicate", "error"}]
    BY DEF IngestInv, Shape, Finish, GoTo, Locations
  <2>3. << >> \in Seq(Surfaces)
    BY EmptySeq
  <2>4. todo' \in [Requests -> Seq(Surfaces)]
    BY <2>3 DEF IngestInv, Shape, Finish
  <2>5. /\ links' \in [Requests -> SUBSET Relations] /\ known' \in [Requests -> SUBSET Nodes]
        /\ staged' \in [Requests -> SUBSET Nodes] /\ target' = [q \in Requests |-> target'[q]]
    BY DEF IngestInv, Shape, Finish
  <2>6. QED
    BY <2>1, <2>2, <2>4, <2>5 DEF Shape
<1>2. Progress(r)'
  BY DEF IngestInv, Shape, Finish, GoTo, Progress, Loops, Resolved, Cited, Staged
<1>3. \A q \in Requests : Progress(q)'
  BY <1>2, OthersProgress DEF IngestInv, Shape, Finish, GoTo, stores
<1>4. Ends'
  BY DEF IngestInv, Shape, Ends, Finish, GoTo, stores
<1>5. StoresAgree'
  BY StoresStayAgreed DEF stores
<1>6. QED
  BY <1>1, <1>3, <1>4, <1>5 DEF IngestInv

\* A request goes on before it has extracted anything.
LEMMA MoveKeepsInv ==
  ASSUME IngestInv, NEW r \in Requests, pc[r] \in {"new", "flush"},
         NEW location \in {"flush", "duplicate", "extract"}, GoTo(r, location),
         UNCHANGED <<stores, extracted, work, answer>>,
         before' \in [Requests -> SUBSET Requests]
  PROVE  IngestInv'
<1>1. Shape'
  BY DEF IngestInv, Shape, GoTo, Locations, stores, work
<1>2. Progress(r)'
  <2>1. Named(r)' = Named(r) /\ UNCHANGED <<links, staged, sources>> /\ pc'[r] = location
    BY DEF GoTo, work, stores, Named, IngestInv, Shape
  <2>2. QED
    BY <2>1 DEF IngestInv, Progress, Loops, Resolved, Cited, Staged
<1>3. \A q \in Requests : Progress(q)'
  BY <1>2, OthersProgress DEF IngestInv, Shape, GoTo, stores, work
<1>4. Ends'
  BY DEF IngestInv, Shape, Ends, GoTo, stores
<1>5. StoresAgree'
  BY StoresStayAgreed DEF stores
<1>6. QED
  BY <1>1, <1>3, <1>4, <1>5 DEF IngestInv

\* The transcription is at hand, and there may be nothing in it.
LEMMA ExtractKeepsInv ==
  ASSUME IngestInv, NEW r \in Requests, Extract(r)
  PROVE  IngestInv'
<1>1. PICK entities \in Extractions :
        /\ extracted' = [extracted EXCEPT ![r] = entities]
        /\ todo' = [todo EXCEPT ![r] = entities]
        /\ pc' = [pc EXCEPT ![r] = IF entities = << >> THEN "announce" ELSE "load"]
  BY DEF Extract, GoTo
<1>2. /\ links' = [links EXCEPT ![r] = Relations \cap (Named(r)' \X Named(r)')]
      /\ pc[r] = "extract"
      /\ UNCHANGED <<stores, known, target, staged, answer, before>>
  BY DEF Extract
<1>3. entities \in Seq(Surfaces)
  BY ExtractionAssumption
<1>4. extracted'[r] = entities /\ todo'[r] = entities /\ links'[r] \subseteq Named(r)' \X Named(r)'
  BY <1>1, <1>2 DEF IngestInv, Shape
<1>5. pc'[r] = IF entities = << >> THEN "announce" ELSE "load"
  BY <1>1 DEF IngestInv, Shape
<1>6. Shape'
  <2>1. /\ extracted' \in [Requests -> Seq(Surfaces)] /\ todo' \in [Requests -> Seq(Surfaces)]
        /\ pc' \in [Requests -> Locations]
    BY <1>1, <1>3 DEF IngestInv, Shape, Locations
  <2>2. links' \in [Requests -> SUBSET Relations]
    BY <1>2 DEF IngestInv, Shape
  <2>3. QED
    BY <1>2, <2>1, <2>2 DEF IngestInv, Shape, stores
<1>7. Progress(r)'
  <2>1. Loops(r)' /\ Resolved(r)' /\ Cited(r)'
    BY <1>4, <1>5 DEF Loops, Resolved, Cited
  <2>2. entities = << >> => Named(r)' = {}
    <3>1. entities = << >> => DOMAIN entities = {}
      BY <1>3, EmptySeq
    <3>2. QED
      BY <1>4, <3>1 DEF Named
  <2>3. \A n \in staged'[r] : r \in sources'[n]
    BY <1>2 DEF IngestInv, Progress, Staged, stores
  <2>4. Staged(r)'
    BY <1>5, <2>2, <2>3 DEF Staged
  <2>5. QED
    BY <2>1, <2>4 DEF Progress
<1>8. \A q \in Requests : Progress(q)'
  BY <1>1, <1>2, <1>7, OthersProgress DEF IngestInv, Shape, stores
<1>9. r \notin docs \cup announced
  BY <1>2 DEF IngestInv, Ends
<1>10. Ends'
  BY <1>1, <1>2, <1>9 DEF IngestInv, Shape, Ends, stores
<1>11. StoresAgree'
  BY <1>1, <1>2, <1>9, StoresStayAgreed DEF IngestInv, Shape, stores
<1>12. QED
  BY <1>6, <1>8, <1>10, <1>11 DEF IngestInv

\* A loop takes its next entity.
LEMMA LoopKeepsShape ==
  ASSUME Shape, NEW r \in Requests, NEW after \in Locations, NextEntity(r, after),
         todo[r] # << >>
  PROVE  /\ todo' \in [Requests -> Seq(Surfaces)] /\ pc' \in [Requests -> Locations]
         /\ todo'[r] = Tail(todo[r])
         /\ pc'[r] = IF Len(todo[r]) = 1 THEN after ELSE pc[r]
         /\ \A q \in Requests \ {r} : todo'[q] = todo[q] /\ pc'[q] = pc[q]
<1>1. todo[r] \in Seq(Surfaces)
  BY DEF Shape
<1>2. Tail(todo[r]) \in Seq(Surfaces)
  BY <1>1, HeadAndRest
<1>3. todo' \in [Requests -> Seq(Surfaces)] /\ todo'[r] = Tail(todo[r])
  BY <1>2 DEF NextEntity, Shape
<1>4. QED
  BY <1>3 DEF NextEntity, GoTo, Shape

\* The candidates of one entity are loaded.
LEMMA LoadKeepsInv ==
  ASSUME IngestInv, NEW r \in Requests, LoadCandidates(r)
  PROVE  IngestInv'
<1>1. /\ pc[r] = "load" /\ NextEntity(r, "resolve")
      /\ known' = [known EXCEPT ![r] = @ \cup {n \in InGraph : Alike(n[2], Head(todo[r]))}]
      /\ UNCHANGED <<stores, extracted, links, target, staged, answer, before>>
  BY DEF LoadCandidates
<1>2. todo[r] # << >> /\ extracted[r] # << >>
  BY <1>1 DEF IngestInv, Progress, Loops
<1>3. "resolve" \in Locations
  BY DEF Locations
<1>4. /\ todo' \in [Requests -> Seq(Surfaces)] /\ pc' \in [Requests -> Locations]
      /\ todo'[r] = Tail(todo[r])
      /\ pc'[r] = IF Len(todo[r]) = 1 THEN "resolve" ELSE "load"
      /\ \A q \in Requests \ {r} : todo'[q] = todo[q] /\ pc'[q] = pc[q]
  BY <1>1, <1>2, <1>3, LoopKeepsShape DEF IngestInv
<1>5. known' \in [Requests -> SUBSET Nodes]
  BY <1>1 DEF IngestInv, Shape, InGraph
<1>6. Shape'
  BY <1>1, <1>4, <1>5 DEF IngestInv, Shape, stores
<1>7. Len(todo[r]) # 1 => todo'[r] # << >>
  BY <1>2, <1>4, HeadAndRest DEF IngestInv, Shape
<1>8. Progress(r)'
  <2>1. Named(r)' = Named(r)
    BY <1>1 DEF Named
  <2>2. Loops(r)'
    BY <1>1, <1>2, <1>4, <1>7, <2>1 DEF IngestInv, Progress, Loops
  <2>3. Resolved(r)' /\ Cited(r)' /\ Staged(r)'
    BY <1>1, <1>4 DEF IngestInv, Progress, Resolved, Cited, Staged, stores
  <2>4. QED
    BY <2>2, <2>3 DEF Progress
<1>9. \A q \in Requests : Progress(q)'
  BY <1>1, <1>4, <1>8, OthersProgress DEF stores
<1>10. Ends'
  BY <1>1, <1>4 DEF IngestInv, Shape, Ends, stores
<1>11. StoresAgree'
  BY <1>1, StoresStayAgreed DEF stores
<1>12. QED
  BY <1>6, <1>9, <1>10, <1>11 DEF IngestInv

\* Every surface gets a node of its name, and the loop that writes begins.
LEMMA ResolveKeepsInv ==
  ASSUME IngestInv, NEW r \in Requests, Resolve(r)
  PROVE  IngestInv'
<1>1. PICK t \in [Named(r) -> UNION {Choices(r, s) : s \in Named(r)}] :
        /\ \A s \in Named(r) : t[s] \in Choices(r, s)
        /\ target' = [target EXCEPT ![r] = t]
  BY DEF Resolve
<1>2. /\ pc[r] = "resolve" /\ known' = [known EXCEPT ![r] = {}]
      /\ todo' = [todo EXCEPT ![r] = extracted[r]] /\ pc' = [pc EXCEPT ![r] = "write"]
      /\ UNCHANGED <<stores, extracted, links, staged, answer, before>>
  BY DEF Resolve, GoTo
<1>3. \A s \in Named(r) : t[s] \in Nodes /\ Alike(t[s][2], s)
  BY <1>1, ChoicesAreAlike DEF IngestInv
<1>4. t \in [Named(r) -> Nodes]
  BY <1>1, <1>3
<1>5. /\ target'[r] = t /\ todo'[r] = extracted[r] /\ pc'[r] = "write"
      /\ Named(r)' = Named(r) /\ Rest(r)' = Named(r)
  BY <1>1, <1>2 DEF IngestInv, Shape, Named, Rest
<1>6. Shape'
  <2>1. todo' \in [Requests -> Seq(Surfaces)] /\ pc' \in [Requests -> Locations]
    BY <1>2 DEF IngestInv, Shape, Locations
  <2>2. known' \in [Requests -> SUBSET Nodes] /\ target' = [q \in Requests |-> target'[q]]
    BY <1>1, <1>2 DEF IngestInv, Shape
  <2>3. QED
    BY <1>2, <2>1, <2>2 DEF IngestInv, Shape, stores
<1>7. Progress(r)'
  <2>1. Loops(r)'
    BY <1>2, <1>5 DEF IngestInv, Progress, Loops
  <2>2. Resolved(r)' /\ Cited(r)'
    BY <1>3, <1>4, <1>5 DEF Resolved, Cited
  <2>3. Staged(r)'
    BY <1>2, <1>5 DEF IngestInv, Progress, Staged, stores
  <2>4. QED
    BY <2>1, <2>2, <2>3 DEF Progress
<1>8. \A q \in Requests : Progress(q)'
  BY <1>1, <1>2, <1>7, OthersProgress DEF IngestInv, Shape, stores
<1>9. Ends'
  BY <1>2 DEF IngestInv, Shape, Ends, stores
<1>10. StoresAgree'
  BY <1>2, StoresStayAgreed DEF stores
<1>11. QED
  BY <1>6, <1>8, <1>9, <1>10 DEF IngestInv

\* A node is created or merged into: it cites the document from now on.
LEMMA WriteKeepsInv ==
  ASSUME IngestInv, NEW r \in Requests, WriteEntity(r)
  PROVE  IngestInv'
<1> DEFINE surface == Head(todo[r])
           node == target[r][surface]
<1>1. /\ pc[r] = "write" /\ NextEntity(r, "mentions")
      /\ sources' = [sources EXCEPT ![node] = @ \cup {r}]
      /\ UNCHANGED <<docs, mentions, edges, announced, extracted, links, known, target, staged,
                     answer, before>>
  BY DEF WriteEntity
<1>2. /\ todo[r] # << >> /\ extracted[r] # << >> /\ Rest(r) \subseteq Named(r)
      /\ todo[r] \in Seq(Surfaces)
  BY <1>1 DEF IngestInv, Progress, Loops, Shape
<1>3. "mentions" \in Locations
  BY DEF Locations
<1>4. /\ todo' \in [Requests -> Seq(Surfaces)] /\ pc' \in [Requests -> Locations]
      /\ todo'[r] = Tail(todo[r])
      /\ pc'[r] = IF Len(todo[r]) = 1 THEN "mentions" ELSE "write"
      /\ \A q \in Requests \ {r} : todo'[q] = todo[q] /\ pc'[q] = pc[q]
  BY <1>1, <1>2, <1>3, LoopKeepsShape DEF IngestInv
<1>5. /\ surface \in Rest(r) /\ Rest(r) = {surface} \cup Rest(r)'
      /\ Len(todo[r]) = 1 => Rest(r) = {surface}
      /\ Len(todo[r]) # 1 => todo'[r] # << >>
  <2>1. Rest(r) = {todo[r][i] : i \in DOMAIN todo[r]}
    BY DEF Rest
  <2>2. Rest(r)' = {Tail(todo[r])[i] : i \in DOMAIN Tail(todo[r])}
    BY <1>4 DEF Rest
  <2>3. QED
    BY <1>2, <1>4, <2>1, <2>2, HeadAndRest
<1>6. /\ target[r] \in [Named(r) -> Nodes] /\ node \in Nodes
      /\ \A s \in Named(r) : Alike(target[r][s][2], s)
  BY <1>1, <1>2, <1>5 DEF IngestInv, Progress, Resolved
<1>7. /\ sources' \in [Nodes -> SUBSET Requests] /\ r \in sources'[node]
      /\ \A n \in Nodes : sources[n] \subseteq sources'[n]
  BY <1>1, <1>6 DEF IngestInv, Shape
<1>8. Shape'
  BY <1>1, <1>4, <1>7 DEF IngestInv, Shape
<1>9. Progress(r)'
  <2>1. Named(r)' = Named(r)
    BY <1>1 DEF Named
  <2>2. Loops(r)'
    BY <1>1, <1>2, <1>4, <1>5, <2>1 DEF IngestInv, Progress, Loops
  <2>3. Resolved(r)'
    BY <1>1, <1>6, <2>1 DEF Resolved
  <2>4. \A s \in Named(r) : s \in Rest(r)' \/ s = surface \/ r \in sources[target[r][s]]
    BY <1>1, <1>5 DEF IngestInv, Progress, Cited
  <2>5. \A s \in Named(r) : s \in Rest(r)' \/ r \in sources'[target[r][s]]
    BY <1>6, <1>7, <2>4
  <2>6. Len(todo[r]) = 1 => \A s \in Named(r) : r \in sources'[target[r][s]]
    <3>1. Len(todo[r]) = 1 => \A s \in Named(r) : s = surface \/ r \in sources[target[r][s]]
      BY <1>1, <1>5 DEF IngestInv, Progress, Cited
    <3>2. QED
      BY <1>6, <1>7, <3>1
  <2>7. Cited(r)'
    BY <1>1, <1>4, <2>1, <2>5, <2>6 DEF Cited
  <2>8. Staged(r)'
    <3>1. \A n \in staged[r] : n \in Nodes /\ r \in sources[n]
      BY DEF IngestInv, Shape, Progress, Staged
    <3>2. QED
      BY <1>1, <1>4, <1>7, <3>1 DEF Staged
  <2>9. QED
    BY <2>2, <2>3, <2>7, <2>8 DEF Progress
<1>10. \A q \in Requests : Progress(q)'
  BY <1>1, <1>4, <1>7, <1>9, OthersProgress
<1>11. Ends'
  <2>1. docs \subseteq Requests \ {r} /\ announced \subseteq Requests \ {r}
    BY <1>1 DEF IngestInv, Shape, Ends
  <2>2. QED
    BY <1>1, <1>4, <2>1 DEF IngestInv, Ends
<1>12. StoresAgree'
  BY <1>1, <1>7, StoresStayAgreed
<1>13. QED
  BY <1>8, <1>10, <1>11, <1>12 DEF IngestInv

\* The mention rows join the transaction: one node for each surface.
LEMMA MentionsKeepInv ==
  ASSUME IngestInv, NEW r \in Requests, RecordMentions(r)
  PROVE  IngestInv'
<1> DEFINE rows == {target[r][s] : s \in Named(r)}
<1>1. /\ pc[r] = "mentions" /\ staged' = [staged EXCEPT ![r] = rows]
      /\ pc' = [pc EXCEPT ![r] = "link"]
      /\ UNCHANGED <<stores, extracted, todo, links, known, target, answer, before>>
  BY DEF RecordMentions, GoTo
<1>2. /\ target[r] \in [Named(r) -> Nodes]
      /\ \A s \in Named(r) : Alike(target[r][s][2], s) /\ r \in sources[target[r][s]]
  BY <1>1 DEF IngestInv, Progress, Resolved, Cited
<1>3. /\ rows \subseteq Nodes /\ \A n \in rows : r \in sources[n]
      /\ \A s \in Named(r) : \E n \in rows : Alike(n[2], s)
  BY <1>2
<1> HIDE DEF rows
<1>4. Shape'
  BY <1>1, <1>3 DEF IngestInv, Shape, Locations, stores
<1>5. /\ staged'[r] = rows /\ pc'[r] = "link" /\ Named(r)' = Named(r)
      /\ UNCHANGED <<sources, links>> /\ target'[r] = target[r]
  BY <1>1 DEF IngestInv, Shape, Named, stores
<1>6. Progress(r)'
  <2>1. Loops(r)'
    BY <1>1, <1>5 DEF IngestInv, Progress, Loops
  <2>2. Resolved(r)' /\ Cited(r)'
    BY <1>2, <1>5 DEF Resolved, Cited
  <2>3. Staged(r)'
    BY <1>3, <1>5 DEF Staged
  <2>4. QED
    BY <2>1, <2>2, <2>3 DEF Progress
<1>7. \A q \in Requests : Progress(q)'
  BY <1>1, <1>6, OthersProgress DEF IngestInv, Shape, stores
<1>8. Ends'
  BY <1>1 DEF IngestInv, Shape, Ends, stores
<1>9. StoresAgree'
  BY <1>1, StoresStayAgreed DEF stores
<1>10. QED
  BY <1>4, <1>7, <1>8, <1>9 DEF IngestInv

\* An edge is written between two nodes that cite the document, or skipped.
LEMMA LinkKeepsInv ==
  ASSUME IngestInv, NEW r \in Requests, WriteEdge(r)
  PROVE  IngestInv'
<1>1. PICK link \in links[r] :
        /\ links' = [links EXCEPT ![r] = @ \ {link}]
        /\ \/ UNCHANGED edges
           \/ /\ Writable(r, link)
              /\ edges' = edges \cup {<<target[r][link[1]], target[r][link[2]], r>>}
  BY DEF WriteEdge
<1>2. /\ pc[r] = "link"
      /\ UNCHANGED <<docs, mentions, sources, announced, pc, extracted, todo, known, target,
                     staged, answer, before>>
  BY DEF WriteEdge
<1>3. link[1] \in Named(r) /\ link[2] \in Named(r)
  BY DEF IngestInv, Progress, Loops
<1>4. /\ target[r][link[1]] \in Nodes /\ target[r][link[2]] \in Nodes
      /\ r \in sources[target[r][link[1]]] \cap sources[target[r][link[2]]]
  BY <1>2, <1>3 DEF IngestInv, Progress, Resolved, Cited
<1>5. Shape'
  BY <1>1, <1>2, <1>4 DEF IngestInv, Shape
<1>6. Progress(r)'
  <2>1. links'[r] \subseteq links[r] /\ Named(r)' = Named(r) /\ Rest(r)' = Rest(r)
    BY <1>1, <1>2 DEF IngestInv, Shape, Named, Rest
  <2>2. QED
    BY <1>2, <2>1 DEF IngestInv, Progress, Loops, Resolved, Cited, Staged
<1>7. \A q \in Requests : Progress(q)'
  BY <1>1, <1>2, <1>6, OthersProgress DEF IngestInv, Shape
<1>8. Ends'
  BY <1>2 DEF IngestInv, Ends
<1>9. StoresAgree'
  BY <1>1, <1>2, <1>4, StoresStayAgreed DEF Writable
<1>10. QED
  BY <1>5, <1>7, <1>8, <1>9 DEF IngestInv

\* A request whose mentions are complete moves on, and is perhaps announced.
LEMMA EndKeepsInv ==
  ASSUME IngestInv, NEW r \in Requests, pc[r] \in {"link", "announce"},
         NEW location \in {"announce", "commit"}, GoTo(r, location),
         \/ UNCHANGED announced
         \/ location = "commit" /\ announced' = announced \cup {r},
         UNCHANGED <<docs, mentions, sources, edges, extracted, work, answer, before>>
  PROVE  IngestInv'
<1>1. /\ pc'[r] = location /\ Named(r)' = Named(r)
      /\ UNCHANGED <<links, staged, sources, todo, target, extracted>>
      /\ \A q \in Requests \ {r} : pc'[q] = pc[q]
  BY DEF GoTo, IngestInv, Shape, Named, work
<1>2. Shape'
  BY DEF IngestInv, Shape, GoTo, Locations, work
<1>3. Progress(r)'
  BY <1>1 DEF IngestInv, Progress, Loops, Resolved, Cited, Staged
<1>4. \A q \in Requests : Progress(q)'
  BY <1>1, <1>3, OthersProgress
<1>5. Represented(r)'
  <2>1. \A s \in Named(r) : \E n \in staged[r] : Alike(n[2], s) /\ n \in Nodes /\ r \in sources[n]
    BY DEF IngestInv, Shape, Progress, Staged
  <2>2. QED
    BY <1>1, <2>1 DEF Represented
<1>6. Ends'
  BY <1>1 DEF IngestInv, Shape, Ends
<1>7. StoresAgree'
  BY <1>1, <1>5, StoresStayAgreed
<1>8. QED
  BY <1>2, <1>4, <1>6, <1>7 DEF IngestInv

\* The transaction commits: what was staged becomes what others read.
LEMMA CommitKeepsInv ==
  ASSUME IngestInv, NEW r \in Requests, Commit(r)
  PROVE  IngestInv'
<1>1. /\ pc[r] = "commit" /\ docs' = docs \cup {r}
      /\ mentions' = mentions \cup (staged[r] \X {r}) /\ Finish(r, "created")
      /\ UNCHANGED <<sources, edges, announced, extracted, before>>
  BY DEF Commit
<1>2. /\ \A n \in staged[r] : n \in Nodes /\ r \in sources[n]
      /\ \A s \in Named(r) : \E n \in staged[r] : Alike(n[2], s)
  BY <1>1 DEF IngestInv, Shape, Progress, Staged
<1>3. Shape'
  <2>1. << >> \in Seq(Surfaces)
    BY EmptySeq
  <2>2. todo' \in [Requests -> Seq(Surfaces)]
    BY <1>1, <2>1 DEF IngestInv, Shape, Finish
  <2>3. /\ docs' \subseteq Requests /\ mentions' \subseteq Nodes \X Requests
        /\ pc' \in [Requests -> Locations]
        /\ answer' \in [Requests -> {"none", "created", "duplicate", "error"}]
    BY <1>1, <1>2 DEF IngestInv, Shape, Finish, GoTo, Locations
  <2>4. /\ links' \in [Requests -> SUBSET Relations] /\ known' \in [Requests -> SUBSET Nodes]
        /\ staged' \in [Requests -> SUBSET Nodes] /\ target' = [q \in Requests |-> target'[q]]
    BY <1>1 DEF IngestInv, Shape, Finish
  <2>5. QED
    BY <1>1, <2>2, <2>3, <2>4 DEF IngestInv, Shape
<1>4. Progress(r)'
  BY <1>1 DEF IngestInv, Shape, Finish, GoTo, Progress, Loops, Resolved, Cited, Staged
<1>5. \A q \in Requests : Progress(q)'
  BY <1>1, <1>4, OthersProgress DEF IngestInv, Shape, Finish, GoTo
<1>6. Ends'
  BY <1>1 DEF IngestInv, Shape, Ends, Finish, GoTo
<1>7. \A q \in Requests : Named(q)' = Named(q)
  BY <1>1 DEF Named
<1>8. MentionsResolve'
  BY <1>1, <1>2 DEF IngestInv, StoresAgree, MentionsResolve
<1>9. \A q \in docs' \cup announced' : Represented(q)'
  <2>1. Represented(r)
    BY <1>2 DEF Represented
  <2>2. \A q \in docs \cup announced : Represented(q)
    BY DEF IngestInv, StoresAgree, DocumentsFullyIndexed
  <2>3. \A q \in docs' \cup announced' : q \in Requests /\ Represented(q)
    BY <1>1, <2>1, <2>2 DEF IngestInv, Shape
  <2>4. QED
    BY <1>1, <1>7, <2>3 DEF Represented
<1>10. \A q \in docs' : \A s \in Named(q) : \E n \in Nodes : Alike(n[2], s) /\ <<n, q>> \in mentions'
  <2>1. \A s \in Named(r) : \E n \in Nodes : Alike(n[2], s) /\ <<n, r>> \in mentions'
    BY <1>1, <1>2
  <2>2. QED
    BY <1>1, <2>1 DEF IngestInv, StoresAgree, DocumentsFullyIndexed
<1>11. DocumentsFullyIndexed'
  <2>1. \A q \in docs' : Named(q)' = Named(q)
    BY <1>3, <1>7 DEF Shape
  <2>2. \A q \in docs' : \A s \in Named(q)' : \E n \in Nodes : Alike(n[2], s) /\ <<n, q>> \in mentions'
    BY <1>10, <2>1
  <2>3. QED
    BY <1>9, <2>2 DEF DocumentsFullyIndexed
<1>12. EdgesGrounded'
  BY <1>1 DEF IngestInv, StoresAgree, EdgesGrounded
<1>13. QED
  BY <1>3, <1>5, <1>6, <1>8, <1>11, <1>12 DEF IngestInv, StoresAgree

LEMMA StepIngest == IngestInv /\ [Next]_vars => IngestInv'
<1> SUFFICES ASSUME IngestInv, [Next]_vars PROVE IngestInv'
  OBVIOUS
<1>1. ASSUME NEW r \in Requests, LookUp(r) PROVE IngestInv'
  <2>1. before' \in [Requests -> SUBSET Requests]
    BY <1>1 DEF LookUp, IngestInv, Shape
  <2>2. CASE StoredTwins(r) = {}
    BY <1>1, <2>1, <2>2, MoveKeepsInv DEF LookUp
  <2>3. CASE StoredTwins(r) # {}
    BY <1>1, <2>1, <2>3, MoveKeepsInv DEF LookUp
  <2>4. QED
    BY <2>2, <2>3
<1>2. ASSUME NEW r \in Requests, AnswerDuplicate(r) PROVE IngestInv'
  BY <1>2, FinishKeepsInv DEF AnswerDuplicate
<1>3. ASSUME NEW r \in Requests, Flush(r) PROVE IngestInv'
  <2>1. CASE StoredTwins(r) = {}
    <3>1. before' \in [Requests -> SUBSET Requests]
      BY <1>3 DEF Flush, IngestInv, Shape
    <3>2. QED
      BY <1>3, <2>1, <3>1, MoveKeepsInv DEF Flush
  <2>2. CASE StoredTwins(r) # {}
    BY <1>3, <2>2, FinishKeepsInv DEF Flush
  <2>3. QED
    BY <2>1, <2>2
<1>4. ASSUME NEW r \in Requests, Extract(r) PROVE IngestInv'
  BY <1>4, ExtractKeepsInv
<1>5. ASSUME NEW r \in Requests, LoadCandidates(r) PROVE IngestInv'
  BY <1>5, LoadKeepsInv
<1>6. ASSUME NEW r \in Requests, Resolve(r) PROVE IngestInv'
  BY <1>6, ResolveKeepsInv
<1>7. ASSUME NEW r \in Requests, WriteEntity(r) PROVE IngestInv'
  BY <1>7, WriteKeepsInv
<1>8. ASSUME NEW r \in Requests, RecordMentions(r) PROVE IngestInv'
  BY <1>8, MentionsKeepInv
<1>9. ASSUME NEW r \in Requests, WriteEdge(r) PROVE IngestInv'
  BY <1>9, LinkKeepsInv
<1>10. ASSUME NEW r \in Requests, EdgesWritten(r) PROVE IngestInv'
  BY <1>10, EndKeepsInv DEF EdgesWritten, stores
<1>11. ASSUME NEW r \in Requests, Announce(r) PROVE IngestInv'
  BY <1>11, EndKeepsInv DEF Announce
<1>12. ASSUME NEW r \in Requests, Commit(r) PROVE IngestInv'
  BY <1>12, CommitKeepsInv
<1>13. ASSUME NEW r \in Requests, Fail(r) PROVE IngestInv'
  BY <1>13, FinishKeepsInv DEF Fail
<1>14. CASE UNCHANGED vars
  <2>1. \A r \in Requests : Progress(r)' = Progress(r)
    BY <1>14
    DEF vars, stores, work, Progress, Loops, Resolved, Cited, Staged, Named, Rest
  <2>2. Shape' /\ Ends'
    BY <1>14 DEF vars, stores, work, IngestInv, Shape, Ends
  <2>3. StoresAgree'
    BY <1>14, StoresStayAgreed DEF vars, stores
  <2>4. QED
    BY <2>1, <2>2, <2>3 DEF IngestInv
<1>15. QED
  BY <1>1, <1>2, <1>3, <1>4, <1>5, <1>6, <1>7, <1>8, <1>9, <1>10, <1>11, <1>12, <1>13, <1>14
  DEF Next, Advance, Quiet

LEMMA AlwaysIngest == Spec => []IngestInv
BY InitIngest, StepIngest, PTL DEF Spec

\* Every variable keeps its type, for any submissions and extractions.
THEOREM TypeCorrect == Spec => []TypeOK
<1>1. IngestInv => TypeOK
  BY DEF IngestInv, Shape, Progress, Resolved, TypeOK
<1>2. QED
  BY <1>1, AlwaysIngest, PTL

\* However requests interleave, merge into each other's nodes and fail, every
\* committed mention, document and edge leads to what it speaks of.
THEOREM TheStoresAgree == Spec => []StoresAgree
<1>1. IngestInv => StoresAgree
  BY DEF IngestInv
<1>2. QED
  BY <1>1, AlwaysIngest, PTL

(***************************************************************************)
(* The content store.  The unique index lets one open transaction hold a   *)
(* content at a time, and none while a copy is committed: what a commit    *)
(* stores is the first copy, and what a duplicate was told of stays.       *)
(***************************************************************************)
OpenIsUnanswered == \A r \in Requests : pc[r] # "over" => answer[r] = "none"

\* An open transaction is the only one with its content, stored or open.
HoldsAlone ==
  \A r \in Requests : Holds(r) =>
    /\ StoredTwins(r) = {}
    /\ \A q \in Requests \ {r} : ContentOf[q] = ContentOf[r] => ~Holds(q)

DuplicateHasTwin == \A r \in Requests : pc[r] = "duplicate" => StoredTwins(r) # {}

ContentInv == OpenIsUnanswered /\ HoldsAlone /\ DuplicateHasTwin

LEMMA InitContent == Init => ContentInv
BY DEF Init, ContentInv, OpenIsUnanswered, HoldsAlone, DuplicateHasTwin, Holds, Locations

\* An open transaction goes on; nobody else can tell.
LEMMA StayingOpen ==
  ASSUME Shape, ContentInv, NEW r \in Requests, Holds(r), UNCHANGED <<docs, answer>>,
         NEW location \in Locations \ {"new", "flush", "duplicate", "over"}, GoTo(r, location)
  PROVE  ContentInv'
<1>1. \A q \in Requests : Holds(q)' = Holds(q) /\ StoredTwins(q)' = StoredTwins(q)
  BY DEF Shape, Holds, Locations, GoTo, StoredTwins
<1>2. \A q \in Requests : q # r => pc'[q] = pc[q]
  BY DEF Shape, GoTo
<1>3. pc[r] \notin {"duplicate", "over"} /\ pc'[r] \notin {"duplicate", "over"}
  BY DEF Shape, Holds, GoTo
<1>4. QED
  BY <1>1, <1>2, <1>3 DEF ContentInv, OpenIsUnanswered, HoldsAlone, DuplicateHasTwin

\* A request that ends without a commit lets go of its content.
LEMMA EndingKeepsContent ==
  ASSUME Shape, ContentInv, NEW r \in Requests, NEW v, Finish(r, v), UNCHANGED docs
  PROVE  ContentInv'
<1>1. \A q \in Requests \ {r} : pc'[q] = pc[q] /\ answer'[q] = answer[q]
  BY DEF Shape, Finish, GoTo
<1>2. pc'[r] = "over" /\ \A q \in Requests : StoredTwins(q)' = StoredTwins(q)
  BY DEF Shape, Finish, GoTo, StoredTwins
<1>3. QED
  BY <1>1, <1>2 DEF ContentInv, OpenIsUnanswered, HoldsAlone, DuplicateHasTwin, Holds, Locations

LEMMA StepContent == Shape /\ ContentInv /\ [Next]_vars => ContentInv'
<1> SUFFICES ASSUME Shape, ContentInv, [Next]_vars PROVE ContentInv'
  OBVIOUS
<1>1. ASSUME NEW r \in Requests, LookUp(r) PROVE ContentInv'
  <2>1. /\ \A q \in Requests \ {r} : pc'[q] = pc[q]
        /\ pc'[r] = IF StoredTwins(r) = {} THEN "flush" ELSE "duplicate"
        /\ pc[r] = "new" /\ UNCHANGED <<docs, answer>>
    BY <1>1 DEF LookUp, Shape, GoTo, stores
  <2>2. \A q \in Requests : StoredTwins(q)' = StoredTwins(q)
    BY <2>1 DEF StoredTwins
  <2>3. QED
    BY <2>1, <2>2 DEF ContentInv, OpenIsUnanswered, HoldsAlone, DuplicateHasTwin, Holds, Locations
<1>2. ASSUME NEW r \in Requests, AnswerDuplicate(r) PROVE ContentInv'
  BY <1>2, EndingKeepsContent DEF AnswerDuplicate, stores
<1>3. ASSUME NEW r \in Requests, Flush(r) PROVE ContentInv'
  <2>1. CASE StoredTwins(r) = {}
    <3>1. /\ \A q \in Requests \ {r} : pc'[q] = pc[q]
          /\ \A q \in Requests \ {r} : ContentOf[q] = ContentOf[r] => ~Holds(q)
          /\ pc'[r] = "extract" /\ pc[r] = "flush" /\ UNCHANGED <<docs, answer>>
      BY <1>3, <2>1 DEF Flush, Shape, GoTo, stores
    <3>2. \A q \in Requests : StoredTwins(q)' = StoredTwins(q)
      BY <3>1 DEF StoredTwins
    <3>3. \A q \in Requests \ {r} : Holds(q)' = Holds(q)
      BY <3>1 DEF Holds
    <3>4. HoldsAlone'
      BY <2>1, <3>1, <3>2, <3>3 DEF ContentInv, HoldsAlone
    <3>5. QED
      BY <3>1, <3>2, <3>4 DEF ContentInv, OpenIsUnanswered, DuplicateHasTwin
  <2>2. CASE StoredTwins(r) # {}
    BY <1>3, <2>2, EndingKeepsContent DEF Flush, stores
  <2>3. QED
    BY <2>1, <2>2
<1>4. ASSUME NEW r \in Requests, Extract(r) PROVE ContentInv'
  <2>1. PICK location \in {"announce", "load"} : GoTo(r, location)
    BY <1>4 DEF Extract
  <2>2. QED
    BY <1>4, <2>1, StayingOpen DEF Extract, Holds, Locations, stores
<1>5. ASSUME NEW r \in Requests, LoadCandidates(r) PROVE ContentInv'
  <2>1. PICK location \in {"resolve", "load"} : GoTo(r, location)
    BY <1>5 DEF LoadCandidates, NextEntity
  <2>2. QED
    BY <1>5, <2>1, StayingOpen DEF LoadCandidates, Holds, Locations, stores
<1>6. ASSUME NEW r \in Requests, WriteEntity(r) PROVE ContentInv'
  <2>1. PICK location \in {"mentions", "write"} : GoTo(r, location)
    BY <1>6 DEF WriteEntity, NextEntity
  <2>2. QED
    BY <1>6, <2>1, StayingOpen DEF WriteEntity, Holds, Locations
<1>7. ASSUME NEW r \in Requests,
             Resolve(r) \/ RecordMentions(r) \/ EdgesWritten(r) \/ Announce(r)
      PROVE  ContentInv'
  BY <1>7, StayingOpen DEF Resolve, RecordMentions, EdgesWritten, Announce, Holds, Locations, stores
<1>8. ASSUME NEW r \in Requests, WriteEdge(r) PROVE ContentInv'
  BY <1>8 DEF WriteEdge, ContentInv, OpenIsUnanswered, HoldsAlone, DuplicateHasTwin, Holds, StoredTwins
<1>9. ASSUME NEW r \in Requests, Commit(r) PROVE ContentInv'
  <2>1. Holds(r)
    BY <1>9 DEF Commit, Holds, Locations
  <2>2. /\ \A q \in Requests \ {r} : pc'[q] = pc[q] /\ answer'[q] = answer[q]
        /\ pc'[r] = "over" /\ docs' = docs \cup {r}
    BY <1>9 DEF Commit, Shape, Finish, GoTo
  <2>3. \A q \in Requests : /\ StoredTwins(q) \subseteq StoredTwins(q)'
                            /\ ContentOf[q] # ContentOf[r] => StoredTwins(q)' = StoredTwins(q)
    BY <2>2 DEF StoredTwins
  <2>4. HoldsAlone'
    BY <2>1, <2>2, <2>3 DEF ContentInv, HoldsAlone, Holds, Locations
  <2>5. QED
    BY <2>2, <2>3, <2>4 DEF ContentInv, OpenIsUnanswered, DuplicateHasTwin
<1>10. ASSUME NEW r \in Requests, Fail(r) PROVE ContentInv'
  BY <1>10, EndingKeepsContent DEF Fail, stores
<1>11. CASE UNCHANGED vars
  BY <1>11 DEF vars, stores, ContentInv, OpenIsUnanswered, HoldsAlone, DuplicateHasTwin, Holds, StoredTwins
<1>12. QED
  BY <1>1, <1>2, <1>3, <1>4, <1>5, <1>6, <1>7, <1>8, <1>9, <1>10, <1>11 DEF Next, Advance, Quiet

LEMMA IngestShape == IngestInv => Shape
BY DEF IngestInv

LEMMA ContentInvariant == Spec => []ContentInv
BY InitContent, StepContent, AlwaysIngest, IngestShape, PTL DEF Spec

\* A request that ends with the verdict "duplicate" or "error" is answered so.
LEMMA EndingAnswers ==
  ASSUME Shape, ContentInv, NEW r \in Requests, pc[r] # "over", NEW v, Finish(r, v)
  PROVE  Store!Tell(r, v)
BY DEF ContentInv, OpenIsUnanswered, Finish, Store!Tell

LEMMA StepStore == Shape /\ ContentInv /\ [Next]_vars => [Store!Next]_Store!vars
<1> SUFFICES ASSUME Shape, ContentInv, [Next]_vars PROVE [Store!Next]_Store!vars
  OBVIOUS
<1>0. ASSUME UNCHANGED <<docs, answer>> PROVE [Store!Next]_Store!vars
  BY <1>0 DEF Store!vars
<1>1. ASSUME NEW r \in Requests, AnswerDuplicate(r) PROVE Store!Duplicate(r)
  BY <1>1, EndingAnswers
     DEF AnswerDuplicate, stores, Store!Duplicate, Store!Twin, ContentInv, DuplicateHasTwin, StoredTwins
<1>2. ASSUME NEW r \in Requests, pc[r] # "over", Finish(r, "error"), UNCHANGED stores PROVE Store!Refuse(r)
  BY <1>2, EndingAnswers DEF stores, Store!Refuse
<1>3. ASSUME NEW r \in Requests, Commit(r) PROVE Store!Create(r)
  <2>1. StoredTwins(r) = {}
    BY <1>3 DEF Commit, ContentInv, HoldsAlone, Holds, Locations
  <2>2. QED
    BY <1>3, <2>1, EndingAnswers DEF Commit, StoredTwins, Store!Create, Store!Twin
<1>4. ASSUME NEW r \in Requests, Flush(r) PROVE [Store!Next]_Store!vars
  <2>1. CASE StoredTwins(r) = {}
    BY <1>4, <2>1, <1>0 DEF Flush, stores
  <2>2. CASE StoredTwins(r) # {}
    BY <1>4, <2>2, <1>2 DEF Flush, Store!Next
  <2>3. QED
    BY <2>1, <2>2
<1>6. ASSUME NEW r \in Requests,
             \/ LookUp(r) \/ Extract(r) \/ LoadCandidates(r) \/ Resolve(r) \/ WriteEntity(r)
             \/ RecordMentions(r) \/ WriteEdge(r) \/ EdgesWritten(r) \/ Announce(r)
      PROVE  [Store!Next]_Store!vars
  BY <1>6, <1>0
  DEF LookUp, Extract, LoadCandidates, Resolve, WriteEntity, RecordMentions, WriteEdge,
      EdgesWritten, Announce, stores
<1>7. ASSUME NEW r \in Requests, Fail(r) PROVE [Store!Next]_Store!vars
  BY <1>7, <1>2 DEF Fail, Store!Next
<1>8. CASE UNCHANGED vars
  BY <1>8, <1>0 DEF vars, stores
<1>9. QED
  BY <1>1, <1>3, <1>4, <1>6, <1>7, <1>8 DEF Next, Advance, Quiet, Store!Next

\* Callers see a content store: however submissions of one content race, wait
\* for each other and fail, one is stored and told so, and a submission is told
\* of a duplicate only while there is one.
THEOREM ContentStoreImplemented == Spec => ImplementsContentStore
<1>1. Init => Store!Init
  BY DEF Init, Store!Init
<1>2. QED
  BY <1>1, StepStore, ContentInvariant, AlwaysIngest, IngestShape, PTL DEF Spec, ImplementsContentStore, Store!Spec

(***************************************************************************)
(* Duplicates.  A node is named by the submission that created it, so what *)
(* a request must not duplicate are the nodes of its elders: submissions   *)
(* that were over when it began.  They add no node any more, and the       *)
(* request loads every one it could join before it names a node of its own.*)
(***************************************************************************)
Elders(r) == {n \in InGraph : n[1] \in before[r]}

\* No elder has a node that s could have joined.
Fresh(r, s) == \A n \in Elders(r) : ~Alike(n[2], s)

\* Every elder's node that s could join is a candidate.
Knows(r, s) == \A n \in Elders(r) : Alike(n[2], s) => n \in known[r]

EldersAreOver == \A r \in Requests : \A q \in before[r] : pc[q] = "over"

Past == {"write", "mentions", "link", "announce", "commit", "over"}

\* A node was named by a request past its resolution, once for each name, and
\* by one that had nothing to join.
NodesAreFirst ==
  \A n \in InGraph :
    pc[n[1]] \in Past /\ n[2] = FirstAlike(n[1], n[2]) /\ Fresh(n[1], n[2])

\* The candidates of the entities behind the loop that loads them are at hand.
Loaded(r) ==
  /\ known[r] \subseteq InGraph
  /\ pc[r] = "load" => \A s \in Named(r) : s \in Rest(r) \/ Knows(r, s)
  /\ pc[r] = "resolve" => \A s \in Named(r) : Knows(r, s)

\* A request writes to a node that exists, or to one it had to name.
Aimed(r) ==
  pc[r] = "write" =>
    \A s \in Named(r) :
      \/ target[r][s] \in InGraph
      \/ target[r][s] = <<r, FirstAlike(r, s)>> /\ Fresh(r, s)

OverlapInv == EldersAreOver /\ NodesAreFirst /\ \A r \in Requests : Loaded(r) /\ Aimed(r)

LEMMA InitOverlap == Init => OverlapInv
BY DEF Init, OverlapInv, EldersAreOver, NodesAreFirst, Loaded, Aimed, InGraph, Nodes

\* What the first of a name is depends on the extraction and the name alone.
FirstNamed(entities, name) ==
  LET first == CHOOSE i \in DOMAIN entities :
                 /\ Canonical[entities[i]] = name
                 /\ \A j \in 1..(i - 1) : ~(Canonical[entities[j]] = name)
  IN entities[first]

LEMMA FirstIsNamed ==
  /\ \A r, s : FirstAlike(r, s) = FirstNamed(extracted[r], Canonical[s])
  /\ \A r, s : FirstAlike(r, s)' = FirstNamed(extracted'[r], Canonical[s])
BY DEF FirstAlike, FirstNamed, Alike

LEMMA AlikeShareFirst ==
  ASSUME NEW r, NEW s, NEW t, Alike(s, t)
  PROVE  FirstAlike(r, s) = FirstAlike(r, t)
BY FirstIsNamed DEF Alike

\* While elders keep their nodes, what the others know and aim at stays.
LEMMA OthersStayAimed ==
  ASSUME OverlapInv, NEW r \in Requests, Shape,
         InGraph \subseteq InGraph', \A q \in Requests \ {r} : Elders(q)' = Elders(q),
         \A q \in Requests \ {r} :
           /\ pc'[q] = pc[q] /\ extracted'[q] = extracted[q] /\ todo'[q] = todo[q]
           /\ known'[q] = known[q] /\ target'[q] = target[q]
  PROVE  \A q \in Requests \ {r} : Loaded(q)' /\ Aimed(q)'
<1> SUFFICES ASSUME NEW q \in Requests \ {r} PROVE Loaded(q)' /\ Aimed(q)'
  OBVIOUS
<1>1. Named(q)' = Named(q) /\ Rest(q)' = Rest(q)
  BY DEF Named, Rest
<1>2. \A s : FirstAlike(q, s)' = FirstAlike(q, s)
  BY FirstIsNamed
<1>3. \A s : Fresh(q, s)' = Fresh(q, s) /\ Knows(q, s)' = Knows(q, s)
  BY DEF Fresh, Knows
<1>4. Loaded(q) /\ Aimed(q)
  BY DEF OverlapInv
<1>5. Loaded(q)'
  BY <1>1, <1>3, <1>4 DEF Loaded
<1>6. Aimed(q)'
  BY <1>1, <1>2, <1>3, <1>4 DEF Aimed
<1>7. QED
  BY <1>5, <1>6

LEMMA QuietKeepsOverlap ==
  ASSUME IngestInv, OverlapInv, NEW r \in Requests, pc[r] # "over", UNCHANGED <<sources, before>>,
         pc[r] \in Past => pc'[r] \in Past /\ extracted'[r] = extracted[r],
         \A q \in Requests \ {r} :
           /\ pc'[q] = pc[q] /\ extracted'[q] = extracted[q] /\ todo'[q] = todo[q]
           /\ known'[q] = known[q] /\ target'[q] = target[q],
         Loaded(r)', Aimed(r)'
  PROVE  OverlapInv'
<1>1. InGraph' = InGraph /\ \A q : Elders(q)' = Elders(q)
  BY DEF InGraph, Elders
<1>2. \A q \in Requests : Loaded(q)' /\ Aimed(q)'
  BY <1>1, OthersStayAimed DEF IngestInv
<1>3. EldersAreOver'
  BY DEF OverlapInv, EldersAreOver, IngestInv, Shape
<1>4. NodesAreFirst'
  <2> SUFFICES ASSUME NEW n \in InGraph
      PROVE pc'[n[1]] \in Past /\ n[2] = FirstAlike(n[1], n[2])' /\ Fresh(n[1], n[2])'
    BY <1>1 DEF NodesAreFirst
  <2>1. n[1] \in Requests
    BY DEF InGraph, Nodes
  <2>2. pc[n[1]] \in Past /\ n[2] = FirstAlike(n[1], n[2]) /\ Fresh(n[1], n[2])
    BY DEF OverlapInv, NodesAreFirst
  <2>3. pc'[n[1]] \in Past /\ extracted'[n[1]] = extracted[n[1]]
    BY <2>1, <2>2
  <2>4. QED
    BY <1>1, <2>2, <2>3, FirstIsNamed DEF Fresh
<1>5. QED
  BY <1>2, <1>3, <1>4 DEF OverlapInv

LEMMA FinishKeepsOverlap ==
  ASSUME IngestInv, OverlapInv, NEW r \in Requests, NEW v, pc[r] # "over",
         Finish(r, v), UNCHANGED <<sources, extracted, before>>
  PROVE  OverlapInv'
<1>1. pc'[r] = "over" /\ known'[r] = {}
  BY DEF Finish, GoTo, IngestInv, Shape
<1>2. Loaded(r)' /\ Aimed(r)'
  BY <1>1 DEF Loaded, Aimed
<1>3. \A q \in Requests \ {r} :
           /\ pc'[q] = pc[q] /\ extracted'[q] = extracted[q] /\ todo'[q] = todo[q]
           /\ known'[q] = known[q] /\ target'[q] = target[q]
  BY DEF Finish, GoTo, IngestInv, Shape
<1>4. QED
  BY <1>1, <1>2, <1>3, QuietKeepsOverlap DEF Past

LEMMA MoveKeepsOverlap ==
  ASSUME IngestInv, OverlapInv, NEW r \in Requests, pc[r] # "over", UNCHANGED <<sources, before>>,
         NEW location \in Locations \ {"load", "resolve", "write"}, GoTo(r, location),
         pc[r] \in Past => location \in Past,
         UNCHANGED <<sources, before, extracted, todo, known, target>>
  PROVE  OverlapInv'
<1>1. pc'[r] = location /\ \A q \in Requests \ {r} : pc'[q] = pc[q]
  BY DEF GoTo, IngestInv, Shape
<1>2. known'[r] \subseteq InGraph'
  BY DEF OverlapInv, Loaded, InGraph
<1>3. Loaded(r)' /\ Aimed(r)'
  BY <1>1, <1>2 DEF Loaded, Aimed
<1>4. QED
  BY <1>1, <1>3, QuietKeepsOverlap

\* A request that begins has named nothing, and its elders are over.
LEMMA LookUpKeepsOverlap ==
  ASSUME IngestInv, OverlapInv, NEW r \in Requests, LookUp(r)
  PROVE  OverlapInv'
<1>1. /\ pc[r] = "new" /\ pc'[r] \in {"flush", "duplicate"}
      /\ \A q \in Requests \ {r} : pc'[q] = pc[q] /\ before'[q] = before[q]
      /\ before'[r] = {q \in Requests : pc[q] = "over"}
      /\ UNCHANGED <<sources, extracted, todo, known, target>>
  BY DEF LookUp, GoTo, IngestInv, Shape, stores, work
<1>2. InGraph' = InGraph /\ \A q \in Requests \ {r} : Elders(q)' = Elders(q)
  BY <1>1 DEF InGraph, Elders
<1>3. \A q \in Requests \ {r} : Loaded(q)' /\ Aimed(q)'
  BY <1>1, <1>2, OthersStayAimed DEF IngestInv
<1>4. Loaded(r)' /\ Aimed(r)'
  BY <1>1, <1>2 DEF OverlapInv, Loaded, Aimed
<1>5. EldersAreOver'
  BY <1>1 DEF OverlapInv, EldersAreOver, IngestInv, Shape
<1>6. NodesAreFirst'
  <2> SUFFICES ASSUME NEW n \in InGraph
      PROVE pc'[n[1]] \in Past /\ n[2] = FirstAlike(n[1], n[2])' /\ Fresh(n[1], n[2])'
    BY <1>2 DEF NodesAreFirst
  <2>1. n[1] \in Requests
    BY DEF InGraph, Nodes
  <2>2. pc[n[1]] \in Past /\ n[2] = FirstAlike(n[1], n[2]) /\ Fresh(n[1], n[2])
    BY DEF OverlapInv, NodesAreFirst
  <2>3. n[1] # r
    BY <1>1, <2>2 DEF Past
  <2>4. QED
    BY <1>1, <1>2, <2>1, <2>2, <2>3, FirstIsNamed DEF Fresh
<1>7. QED
  BY <1>3, <1>4, <1>5, <1>6 DEF OverlapInv

LEMMA ExtractKeepsOverlap ==
  ASSUME IngestInv, OverlapInv, NEW r \in Requests, Extract(r)
  PROVE  OverlapInv'
<1>1. /\ pc[r] = "extract" /\ UNCHANGED <<sources, known, target, before>>
      /\ extracted'[r] = todo'[r] /\ pc'[r] \in {"announce", "load"}
      /\ \A q \in Requests \ {r} :
           pc'[q] = pc[q] /\ extracted'[q] = extracted[q] /\ todo'[q] = todo[q]
  BY DEF Extract, GoTo, IngestInv, Shape, stores
<1>2. Named(r)' = Rest(r)' /\ known'[r] \subseteq InGraph'
  BY <1>1 DEF Named, Rest, OverlapInv, Loaded, InGraph
<1>3. Loaded(r)' /\ Aimed(r)'
  BY <1>1, <1>2 DEF Loaded, Aimed
<1>4. QED
  BY <1>1, <1>3, QuietKeepsOverlap DEF Past

\* The read of one entity finds every node that entity could join.
LEMMA LoadKeepsOverlap ==
  ASSUME IngestInv, OverlapInv, NEW r \in Requests, LoadCandidates(r)
  PROVE  OverlapInv'
<1> DEFINE surface == Head(todo[r])
<1>1. /\ pc[r] = "load" /\ NextEntity(r, "resolve")
      /\ known' = [known EXCEPT ![r] = @ \cup {n \in InGraph : Alike(n[2], surface)}]
      /\ UNCHANGED <<sources, extracted, target, before>>
  BY DEF LoadCandidates, stores
<1>2. todo[r] # << >> /\ todo[r] \in Seq(Surfaces) /\ "resolve" \in Locations
  BY <1>1 DEF IngestInv, Progress, Loops, Shape, Locations
<1>3. /\ todo'[r] = Tail(todo[r])
      /\ pc'[r] = IF Len(todo[r]) = 1 THEN "resolve" ELSE "load"
      /\ \A q \in Requests \ {r} : todo'[q] = todo[q] /\ pc'[q] = pc[q]
  BY <1>1, <1>2, LoopKeepsShape DEF IngestInv
<1>4. /\ Rest(r) = {surface} \cup Rest(r)'
      /\ Len(todo[r]) = 1 => Rest(r) = {surface}
  <2>1. Rest(r)' = {Tail(todo[r])[i] : i \in DOMAIN Tail(todo[r])}
    BY <1>3 DEF Rest
  <2>2. QED
    BY <1>2, <2>1, HeadAndRest DEF Rest
<1>5. /\ known'[r] = known[r] \cup {n \in InGraph : Alike(n[2], surface)}
      /\ \A q \in Requests \ {r} : known'[q] = known[q]
  BY <1>1 DEF IngestInv, Shape
<1>6. InGraph' = InGraph /\ Elders(r)' = Elders(r) /\ Elders(r) \subseteq InGraph
  BY <1>1 DEF InGraph, Elders
<1>7. \A s \in Named(r) : s \in Rest(r) \/ Knows(r, s)
  BY <1>1 DEF OverlapInv, Loaded
<1>8. \A s \in Named(r) : s \in Rest(r)' \/ s = surface \/ Knows(r, s)
  BY <1>4, <1>7
<1>9. \A s : s = surface \/ Knows(r, s) => Knows(r, s)'
  BY <1>5, <1>6 DEF Knows
<1>10. \A s \in Named(r) : s \in Rest(r)' \/ Knows(r, s)'
  BY <1>8, <1>9
<1>11. Len(todo[r]) = 1 => \A s \in Named(r) : Knows(r, s)'
  BY <1>4, <1>7, <1>9
<1>12. Named(r)' = Named(r) /\ known'[r] \subseteq InGraph'
  BY <1>1, <1>5, <1>6 DEF Named, OverlapInv, Loaded
<1>13. Loaded(r)' /\ Aimed(r)'
  BY <1>3, <1>10, <1>11, <1>12 DEF Loaded, Aimed
<1>14. QED
  BY <1>1, <1>3, <1>5, <1>13, QuietKeepsOverlap DEF Past

\* A surface without candidates is one no elder has a node for.
LEMMA ResolveKeepsOverlap ==
  ASSUME IngestInv, OverlapInv, NEW r \in Requests, Resolve(r)
  PROVE  OverlapInv'
<1>1. PICK t \in [Named(r) -> UNION {Choices(r, s) : s \in Named(r)}] :
        /\ \A s \in Named(r) : t[s] \in Choices(r, s)
        /\ target' = [target EXCEPT ![r] = t]
  BY DEF Resolve
<1>2. /\ pc[r] = "resolve" /\ pc'[r] = "write" /\ known'[r] = {} /\ target'[r] = t
      /\ UNCHANGED <<sources, extracted, before>>
      /\ \A q \in Requests \ {r} :
           /\ pc'[q] = pc[q] /\ todo'[q] = todo[q]
           /\ known'[q] = known[q] /\ target'[q] = target[q]
  BY <1>1 DEF Resolve, GoTo, IngestInv, Shape, stores
<1>3. InGraph' = InGraph /\ Elders(r)' = Elders(r)
  BY <1>2 DEF InGraph, Elders
<1>4. Named(r)' = Named(r) /\ \A s : FirstAlike(r, s)' = FirstAlike(r, s) /\ Fresh(r, s)' = Fresh(r, s)
  BY <1>2, <1>3, FirstIsNamed DEF Named, Fresh
<1>5. ASSUME NEW s \in Named(r)
      PROVE  t[s] \in InGraph \/ (t[s] = <<r, FirstAlike(r, s)>> /\ Fresh(r, s))
  <2>1. CASE Candidates(r, s) # {}
    BY <1>1, <2>1 DEF Choices, Candidates, OverlapInv, Loaded
  <2>2. CASE Candidates(r, s) = {}
    <3>1. Knows(r, s)
      BY <1>2 DEF OverlapInv, Loaded
    <3>2. QED
      BY <1>1, <2>2, <3>1 DEF Choices, Candidates, Knows, Fresh
  <2>3. QED
    BY <2>1, <2>2
<1>6. Loaded(r)' /\ Aimed(r)'
  BY <1>2, <1>3, <1>4, <1>5 DEF Loaded, Aimed
<1>7. QED
  BY <1>2, <1>6, QuietKeepsOverlap DEF Past

\* A node that appears is the request's own, and its first of the name.
LEMMA WriteKeepsOverlap ==
  ASSUME IngestInv, OverlapInv, NEW r \in Requests, WriteEntity(r)
  PROVE  OverlapInv'
<1> DEFINE surface == Head(todo[r])
           node == target[r][surface]
<1>1. /\ pc[r] = "write" /\ NextEntity(r, "mentions")
      /\ sources' = [sources EXCEPT ![node] = @ \cup {r}]
      /\ UNCHANGED <<extracted, known, target, before>>
  BY DEF WriteEntity
<1>2. /\ todo[r] # << >> /\ todo[r] \in Seq(Surfaces) /\ Rest(r) \subseteq Named(r)
      /\ "mentions" \in Locations
  BY <1>1 DEF IngestInv, Progress, Loops, Shape, Locations
<1>3. /\ todo'[r] = Tail(todo[r])
      /\ pc'[r] = IF Len(todo[r]) = 1 THEN "mentions" ELSE "write"
      /\ \A q \in Requests \ {r} : todo'[q] = todo[q] /\ pc'[q] = pc[q]
  BY <1>1, <1>2, LoopKeepsShape DEF IngestInv
<1>4. surface \in Named(r)
  BY <1>2, HeadAndRest DEF Rest
<1>5. node \in Nodes /\ Alike(node[2], surface)
  BY <1>1, <1>4 DEF IngestInv, Progress, Resolved
<1>6. InGraph' = InGraph \cup {node}
  BY <1>1, <1>5 DEF IngestInv, Shape, InGraph
<1>7. node \in InGraph \/ (node = <<r, FirstAlike(r, surface)>> /\ Fresh(r, surface))
  BY <1>1, <1>4 DEF OverlapInv, Aimed
<1>8. \A q \in Requests : Elders(q)' = Elders(q)
  <2>1. \A q \in Requests : r \notin before[q]
    BY <1>1 DEF OverlapInv, EldersAreOver
  <2>2. node \in InGraph \/ node[1] = r
    BY <1>7
  <2>3. QED
    BY <1>1, <1>6, <2>1, <2>2 DEF Elders
<1>9. Named(r)' = Named(r) /\ \A q, s : FirstAlike(q, s)' = FirstAlike(q, s)
  BY <1>1, FirstIsNamed DEF Named
<1>10. \A q \in Requests \ {r} : Loaded(q)' /\ Aimed(q)'
  BY <1>1, <1>3, <1>6, <1>8, OthersStayAimed DEF IngestInv
<1>11. Loaded(r)'
  <2>1. known'[r] \subseteq InGraph'
    BY <1>1, <1>6 DEF OverlapInv, Loaded
  <2>2. QED
    BY <1>3, <2>1 DEF Loaded
<1>12. Aimed(r)'
  BY <1>1, <1>6, <1>8, <1>9 DEF OverlapInv, Aimed, Fresh
<1>13. EldersAreOver'
  BY <1>1, <1>3 DEF OverlapInv, EldersAreOver, IngestInv, Shape
<1>14. NodesAreFirst'
  <2>1. ASSUME NEW n \in InGraph
        PROVE  pc'[n[1]] \in Past /\ n[2] = FirstAlike(n[1], n[2])' /\ Fresh(n[1], n[2])'
    <3>1. n[1] \in Requests
      BY DEF InGraph, Nodes
    <3>2. pc[n[1]] \in Past /\ n[2] = FirstAlike(n[1], n[2]) /\ Fresh(n[1], n[2])
      BY DEF OverlapInv, NodesAreFirst
    <3>3. pc'[n[1]] \in Past
      BY <1>3, <3>1, <3>2 DEF Past
    <3>4. QED
      BY <1>8, <1>9, <3>1, <3>2, <3>3 DEF Fresh
  <2>2. ASSUME NEW n, n = node, node \notin InGraph
        PROVE  pc'[n[1]] \in Past /\ n[2] = FirstAlike(n[1], n[2])' /\ Fresh(n[1], n[2])'
    <3>1. n[1] = r /\ n[2] = FirstAlike(r, surface) /\ Fresh(r, surface)
      BY <1>7, <2>2
    <3>2. Alike(n[2], surface) /\ FirstAlike(r, n[2]) = FirstAlike(r, surface)
      BY <1>5, <2>2, AlikeShareFirst
    <3>3. Fresh(r, n[2])'
      BY <1>8, <3>1, <3>2 DEF Fresh, Alike
    <3>4. QED
      BY <1>3, <1>9, <3>1, <3>2, <3>3 DEF Past
  <2>3. QED
    BY <1>6, <2>1, <2>2 DEF NodesAreFirst
<1>15. QED
  BY <1>10, <1>11, <1>12, <1>13, <1>14 DEF OverlapInv

LEMMA StepOverlap == IngestInv /\ OverlapInv /\ [Next]_vars => OverlapInv'
<1> SUFFICES ASSUME IngestInv, OverlapInv, [Next]_vars PROVE OverlapInv'
  OBVIOUS
<1>1. ASSUME NEW r \in Requests, AnswerDuplicate(r) \/ Commit(r) \/ Fail(r) PROVE OverlapInv'
  BY <1>1, FinishKeepsOverlap DEF AnswerDuplicate, Commit, Fail, stores
<1>2. ASSUME NEW r \in Requests, Flush(r) PROVE OverlapInv'
  <2>1. CASE StoredTwins(r) = {}
    BY <1>2, <2>1, MoveKeepsOverlap DEF Flush, stores, work, Past, Locations
  <2>2. CASE StoredTwins(r) # {}
    BY <1>2, <2>2, FinishKeepsOverlap DEF Flush, stores
  <2>3. QED
    BY <2>1, <2>2
<1>3. ASSUME NEW r \in Requests, RecordMentions(r) \/ EdgesWritten(r) \/ Announce(r) PROVE OverlapInv'
  BY <1>3, MoveKeepsOverlap
  DEF RecordMentions, EdgesWritten, Announce, stores, work, Past, Locations
<1>4. ASSUME NEW r \in Requests, WriteEdge(r) PROVE OverlapInv'
  <2>1. pc[r] = "link" /\ UNCHANGED <<sources, before, pc, extracted, todo, known, target>>
    BY <1>4 DEF WriteEdge
  <2>2. GoTo(r, "link")
    BY <2>1 DEF GoTo, IngestInv, Shape
  <2>3. QED
    BY <2>1, <2>2, MoveKeepsOverlap DEF Past, Locations
<1>5. CASE UNCHANGED vars
  <2>1. UNCHANGED <<sources, before, pc, extracted, todo, known, target>>
    BY <1>5 DEF vars, stores, work
  <2>2. InGraph' = InGraph /\ \A r : Named(r)' = Named(r) /\ Rest(r)' = Rest(r)
    BY <2>1 DEF InGraph, Named, Rest
  <2>3. \A r, s : FirstAlike(r, s)' = FirstAlike(r, s)
    BY <2>1, FirstIsNamed
  <2>4. \A r, s : Fresh(r, s)' = Fresh(r, s) /\ Knows(r, s)' = Knows(r, s)
    BY <2>1, <2>2 DEF Fresh, Knows, Elders
  <2>5. QED
    BY <2>1, <2>2, <2>3, <2>4 DEF OverlapInv, EldersAreOver, NodesAreFirst, Loaded, Aimed
<1>6. QED
  BY <1>1, <1>2, <1>3, <1>4, <1>5, LookUpKeepsOverlap, ExtractKeepsOverlap, LoadKeepsOverlap,
     ResolveKeepsOverlap, WriteKeepsOverlap
  DEF Next, Advance, Quiet

\* Two nodes of one name were created by requests that overlapped in time, each
\* of them having named one: for any submissions, extractions and failures.
THEOREM OnlyOverlapDuplicates == Spec => []DuplicatesNeedOverlap
<1>1. OverlapInv => DuplicatesNeedOverlap
  <2> SUFFICES ASSUME OverlapInv, NEW n \in InGraph, NEW o \in InGraph, n # o, Alike(n[2], o[2])
      PROVE  n[1] # o[1] /\ Overlapped(n[1], o[1])
    BY DEF DuplicatesNeedOverlap
  <2>1. n \in Nodes /\ o \in Nodes /\ Alike(o[2], n[2])
    BY DEF InGraph, Alike
  <2>2. /\ n[2] = FirstAlike(n[1], n[2]) /\ Fresh(n[1], n[2])
        /\ o[2] = FirstAlike(o[1], o[2]) /\ Fresh(o[1], o[2])
    BY DEF OverlapInv, NodesAreFirst
  <2>3. n[1] # o[1]
    BY <2>1, <2>2, AlikeShareFirst DEF Nodes
  <2>4. o[1] \notin before[n[1]] /\ n[1] \notin before[o[1]]
    BY <2>1, <2>2 DEF Fresh, Elders
  <2>5. QED
    BY <2>3, <2>4 DEF Overlapped
<1>2. QED
  BY <1>1, InitOverlap, StepOverlap, AlwaysIngest, PTL DEF Spec
=============================================================================
