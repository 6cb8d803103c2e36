----------------------------- MODULE ResearchProofs -----------------------------
(***************************************************************************)
(* What Research guarantees for any number of requests, any versions of    *)
(* the figures, any drafts and any chain of providers.                     *)
(*                                                                         *)
(* The inductive invariant ties a report to the version its request read:  *)
(* whatever was restated since, its verdict is the check's on that very    *)
(* evidence (Checked), and GradesInv follows a request and its row to the  *)
(* record.  That the check itself lets nothing pass but rounding is        *)
(* arithmetic on the digits that are vouched for (SupportJustifies).       *)
(***************************************************************************)
EXTENDS Research, FiniteSetTheorems, SequenceTheorems, TLAPS

Progresses ==
  [version : Versions \cup {None}, valuing : BOOLEAN, calls : Nat, tried : Nat,
   refused : BOOLEAN, drafts : Nat]
WorkShape ==
  /\ onFile \in Versions \cup {None}
  /\ pc \in [Requests -> Locations]
  /\ work \in [Requests -> Progresses]
  /\ row = [r \in Requests |-> row[r]] /\ answer = [r \in Requests |-> answer[r]]

\* A request is answered when it is over, and with success when its report is
\* on record; an outage is told only where no refusal is remembered.
Ended ==
  \A r \in Requests :
    /\ pc[r] # "over" => answer[r] = "none"
    /\ answer[r] = "created" <=> r \in committed
    /\ answer[r] = "provider error" => ~work[r].refused

\* A report carries the verdict on the evidence of the version its request
\* read, and it has one only from its draft on.
Checked ==
  \A r \in Requests : row[r] # None =>
    /\ pc[r] \in {"save", "announce", "commit", "over"}
    /\ row[r].version = work[r].version
    /\ row[r].unsupported = Unsupported(row[r].figures, Evidence(r))
    /\ row[r].numerically_grounded = (row[r].unsupported = {})
    /\ row[r].cited \subseteq SourceOf[row[r].version]

\* What was announced as published was publishable, unless it was dropped.
AnnouncedTruly ==
  \A r \in Requests : <<"published", r>> \in announced =>
    /\ pc[r] \in {"commit", "over"}
    /\ row[r] # None => IsPublishable(row[r])

ResearchInv == WorkShape /\ Ended /\ Checked /\ AnnouncedTruly

\* A field may be set to any value it may have.
LEMMA SetField ==
  ASSUME NEW w \in Progresses, NEW v \in Versions \cup {None}, NEW b \in BOOLEAN, NEW n \in Nat
  PROVE  /\ [w EXCEPT !.version = v] \in Progresses
         /\ [w EXCEPT !.valuing = b] \in Progresses
         /\ [w EXCEPT !.calls = n] \in Progresses
         /\ [w EXCEPT !.tried = n] \in Progresses
         /\ [w EXCEPT !.refused = b] \in Progresses
         /\ [w EXCEPT !.drafts = n] \in Progresses
BY DEF Progresses

LEMMA FieldTypes ==
  ASSUME NEW w \in Progresses
  PROVE  /\ w.calls + 1 \in Nat /\ w.tried + 1 \in Nat /\ w.drafts + 1 \in Nat
         /\ w.refused \in BOOLEAN
BY DEF Progresses

LEMMA InitResearch == Init => ResearchInv
BY DEF Init, ResearchInv, WorkShape, Progresses, Locations, Fresh, Ended, Checked, AnnouncedTruly

\* A failure drops the report, whatever the caller is told, provided it is
\* not success, and an outage only where no refusal is remembered.
LEMMA FailKeepsInv ==
  ASSUME ResearchInv, NEW r \in Requests, NEW error, FailWith(r, error), pc[r] # "over",
         error # "created", error = "provider error" => ~work[r].refused
  PROVE  ResearchInv'
<1>1. WorkShape'
  BY DEF ResearchInv, WorkShape, Progresses, Locations, FailWith, GoTo, Fresh
<1>2. work'[r].refused = work[r].refused
  BY DEF ResearchInv, WorkShape, Progresses, FailWith, Fresh
<1>3. Ended'
  BY <1>2 DEF ResearchInv, WorkShape, Ended, FailWith, GoTo, store
<1>4. Checked' /\ AnnouncedTruly'
  BY DEF ResearchInv, WorkShape, Checked, AnnouncedTruly, Evidence, ValuationOf, FailWith, GoTo,
         store
<1>5. QED
  BY <1>1, <1>3, <1>4 DEF ResearchInv

\* So does progress of a request that has no report yet, to where it still has
\* none.
LEMMA ProgressKeepsInv ==
  ASSUME ResearchInv, WorkShape', NEW r \in Requests,
         pc[r] \in {"new", "computed", "context", "draft"}, pc'[r] # "over",
         \A q \in Requests \ {r} : pc'[q] = pc[q] /\ work'[q] = work[q],
         UNCHANGED <<row, store, answer>>
  PROVE  ResearchInv'
<1>1. Ended'
  BY DEF ResearchInv, WorkShape, Ended, store
<1>2. Checked' /\ AnnouncedTruly'
  BY DEF ResearchInv, Checked, AnnouncedTruly, Evidence, ValuationOf, store
<1>3. QED
  BY <1>1, <1>2 DEF ResearchInv

LEMMA StepResearch == ResearchInv /\ [Next]_vars => ResearchInv'
<1> SUFFICES ASSUME ResearchInv, [Next]_vars PROVE ResearchInv'
  OBVIOUS
<1>1. ASSUME NEW r \in Requests, Load(r) PROVE ResearchInv'
  <2>1. CASE /\ onFile # None
             /\ \E asked \in BOOLEAN :
                  work' = [work EXCEPT ![r].version = onFile, ![r].valuing = asked]
             /\ GoTo(r, "computed")
             /\ UNCHANGED <<registered, onFile, row, store, answer>>
             /\ onFile \in Versions
    <3>1. PICK asked \in BOOLEAN :
            work' = [work EXCEPT ![r].version = onFile, ![r].valuing = asked]
      BY <2>1
    <3>2. work' = [work EXCEPT ![r] = work'[r]] /\ work'[r] \in Progresses
      BY <2>1, <3>1 DEF ResearchInv, WorkShape, Progresses
    <3>3. WorkShape'
      BY <2>1, <3>2 DEF ResearchInv, WorkShape, Locations, GoTo
    <3>4. QED
      BY <1>1, <2>1, <3>2, <3>3, ProgressKeepsInv DEF Load, GoTo, ResearchInv, WorkShape
  <2>2. CASE FailWith(r, "not found") \/ FailWith(r, "invalid")
    BY <1>1, <2>2, FailKeepsInv DEF Load
  <2>3. QED
    BY <1>1, <2>1, <2>2 DEF Load, ResearchInv, WorkShape
<1>2. ASSUME NEW r \in Requests, Value(r) PROVE ResearchInv'
  <2>1. CASE ValuationOf(r) = Invalid
    BY <1>2, <2>1, FailKeepsInv DEF Value
  <2>2. CASE ValuationOf(r) # Invalid
    <3>1. WorkShape'
      BY <1>2, <2>2 DEF Value, ResearchInv, WorkShape, Locations, GoTo
    <3>2. QED
      BY <1>2, <2>2, <3>1, ProgressKeepsInv DEF Value, GoTo, ResearchInv, WorkShape
  <2>3. QED
    BY <2>1, <2>2
<1>3. ASSUME NEW r \in Requests, AskMarketMind(r) PROVE ResearchInv'
  <2>1. CASE FailWith(r, "error")
    BY <1>3, <2>1, FailKeepsInv DEF AskMarketMind
  <2>2. ASSUME NEW n \in Nat, Progress(r, "calls", n), pc' = pc \/ GoTo(r, "draft"),
               UNCHANGED <<registered, onFile, row, store, answer>>
        PROVE  ResearchInv'
    <3>1. [work[r] EXCEPT !.calls = n] \in Progresses
      BY SetField DEF ResearchInv, WorkShape
    <3>2. work' = [work EXCEPT ![r] = work'[r]] /\ work'[r] \in Progresses
      BY <2>2, <3>1 DEF Progress, ResearchInv, WorkShape
    <3>3. WorkShape'
      BY <2>2, <3>2 DEF ResearchInv, WorkShape, Locations, GoTo
    <3>4. QED
      BY <1>3, <2>2, <3>2, <3>3, ProgressKeepsInv DEF AskMarketMind, GoTo, ResearchInv, WorkShape
  <2>3. work[r].calls + 1 \in Nat
    BY FieldTypes DEF ResearchInv, WorkShape
  <2>4. QED
    BY <1>3, <2>1, <2>2, <2>3 DEF AskMarketMind
<1>4. ASSUME NEW r \in Requests, RejectChain(r) PROVE ResearchInv'
  BY <1>4, FailKeepsInv DEF RejectChain
<1>5. ASSUME NEW r \in Requests, NEW refused \in BOOLEAN, Declined(r, refused),
             ~refused => ~work[r].refused
      PROVE  ResearchInv'
  <2>1. CASE IsLast(r) /\ refused
    BY <1>5, <2>1, FailKeepsInv DEF Declined, Asking
  <2>2. CASE IsLast(r) /\ ~refused
    BY <1>5, <2>2, FailKeepsInv DEF Declined, Asking
  <2>3. CASE ~IsLast(r)
    <3>1. work' = [work EXCEPT ![r].tried = @ + 1, ![r].refused = refused]
      BY <1>5, <2>3 DEF Declined
    <3>a. work[r] \in Progresses /\ work[r].tried + 1 \in Nat
      BY FieldTypes DEF ResearchInv, WorkShape
    <3>b. [[work[r] EXCEPT !.tried = @ + 1] EXCEPT !.refused = refused] \in Progresses
      BY <3>a, SetField
    <3>2. work' = [work EXCEPT ![r] = work'[r]] /\ work'[r] \in Progresses
      BY <3>1, <3>b DEF ResearchInv, WorkShape
    <3>3. WorkShape'
      BY <1>5, <2>3, <3>2 DEF Declined, ResearchInv, WorkShape
    <3>4. QED
      BY <1>5, <2>3, <3>2, <3>3, ProgressKeepsInv DEF Declined, Asking, ResearchInv, WorkShape
  <2>4. QED
    BY <2>1, <2>2, <2>3
<1>6. ASSUME NEW r \in Requests, ProviderFails(r) \/ ProviderRefuses(r) PROVE ResearchInv'
  <2>1. work[r].refused \in BOOLEAN
    BY FieldTypes DEF ResearchInv, WorkShape
  <2>2. QED
    BY <1>5, <1>6, <2>1 DEF ProviderFails, ProviderRefuses
<1>7. ASSUME NEW r \in Requests, ProviderGarbles(r) PROVE ResearchInv'
  BY <1>7, FailKeepsInv DEF ProviderGarbles, Asking
<1>8. ASSUME NEW r \in Requests, ProviderDrafts(r) PROVE ResearchInv'
  <2>1. PICK draft \in Drafts :
          IF Unsupported(draft.figures, Evidence(r)) # {} /\ work[r].drafts < MaxRegenerations
            THEN /\ work' = [work EXCEPT ![r].drafts = @ + 1, ![r].tried = 0,
                                         ![r].refused = FALSE]
                 /\ UNCHANGED <<pc, row>>
            ELSE /\ row' = [row EXCEPT ![r] = Report(r, draft)]
                 /\ work' = [work EXCEPT ![r].tried = 0, ![r].refused = FALSE]
                 /\ GoTo(r, "save")
    BY <1>8 DEF ProviderDrafts
  <2>2. pc[r] = "draft" /\ UNCHANGED <<store, answer>>
    BY <1>8 DEF ProviderDrafts, Asking
  <2>3. CASE /\ Unsupported(draft.figures, Evidence(r)) # {}
             /\ work[r].drafts < MaxRegenerations
    <3>1. /\ work' = [work EXCEPT ![r].drafts = @ + 1, ![r].tried = 0, ![r].refused = FALSE]
          /\ UNCHANGED <<pc, row>>
      BY <2>1, <2>3
    <3>a. work[r] \in Progresses /\ work[r].drafts + 1 \in Nat
      BY FieldTypes DEF ResearchInv, WorkShape
    <3>b. [[[work[r] EXCEPT !.drafts = @ + 1] EXCEPT !.tried = 0] EXCEPT !.refused = FALSE]
             \in Progresses
      <4>1. [work[r] EXCEPT !.drafts = @ + 1] \in Progresses
        BY <3>a, SetField
      <4>2. [[work[r] EXCEPT !.drafts = @ + 1] EXCEPT !.tried = 0] \in Progresses
        BY <4>1, SetField
      <4>3. QED
        BY <4>2, SetField
    <3>2. work' = [work EXCEPT ![r] = work'[r]] /\ work'[r] \in Progresses
      BY <3>1, <3>b DEF ResearchInv, WorkShape
    <3>3. WorkShape'
      BY <1>8, <2>2, <3>1, <3>2 DEF ProviderDrafts, ResearchInv, WorkShape
    <3>4. QED
      BY <2>2, <3>1, <3>2, <3>3, ProgressKeepsInv DEF ResearchInv, WorkShape
  <2>4. CASE ~(/\ Unsupported(draft.figures, Evidence(r)) # {}
               /\ work[r].drafts < MaxRegenerations)
    <3>1. /\ row' = [row EXCEPT ![r] = Report(r, draft)]
          /\ work' = [work EXCEPT ![r].tried = 0, ![r].refused = FALSE]
          /\ pc' = [pc EXCEPT ![r] = "save"]
      BY <2>1, <2>4 DEF GoTo
    <3>a. [[work[r] EXCEPT !.tried = 0] EXCEPT !.refused = FALSE] \in Progresses
      <4>1. [work[r] EXCEPT !.tried = 0] \in Progresses
        BY SetField DEF ResearchInv, WorkShape
      <4>2. QED
        BY <4>1, SetField
    <3>b. work' = [work EXCEPT ![r] = work'[r]] /\ work'[r] \in Progresses
      BY <3>1, <3>a DEF ResearchInv, WorkShape
    <3>2. WorkShape'
      BY <1>8, <2>2, <3>1, <3>b DEF ProviderDrafts, ResearchInv, WorkShape, Locations
    <3>3. Ended'
      BY <2>2, <3>1 DEF ResearchInv, WorkShape, Ended, store
    <3>4. \A q \in Requests : work'[q].version = work[q].version /\ Evidence(q)' = Evidence(q)
      BY <3>1 DEF Evidence, ValuationOf, ResearchInv, WorkShape, Progresses
    <3>5. /\ row'[r].version = work[r].version
          /\ row'[r].unsupported = Unsupported(row'[r].figures, Evidence(r))
          /\ row'[r].numerically_grounded = (row'[r].unsupported = {})
          /\ row'[r].cited \subseteq SourceOf[row'[r].version]
      <4>1. row'[r] = Report(r, draft)
        BY <3>1 DEF ResearchInv, WorkShape
      <4>2. QED
        BY <4>1 DEF Report, UnknownCitations
    <3>6. Checked'
      <4>1. \A q \in Requests \ {r} : row'[q] = row[q] /\ pc'[q] = pc[q]
        BY <3>1 DEF ResearchInv, WorkShape
      <4>2. pc'[r] = "save"
        BY <3>1 DEF ResearchInv, WorkShape
      <4>3. QED
        BY <3>4, <3>5, <4>1, <4>2 DEF ResearchInv, Checked
    <3>7. AnnouncedTruly'
      BY <2>2, <3>1 DEF ResearchInv, WorkShape, AnnouncedTruly, store
    <3>8. QED
      BY <3>2, <3>3, <3>6, <3>7 DEF ResearchInv
  <2>5. QED
    BY <2>3, <2>4
<1>9. ASSUME NEW r \in Requests, Save(r) PROVE ResearchInv'
  BY <1>9
  DEF Save, GoTo, ResearchInv, WorkShape, Locations, Ended, Checked, AnnouncedTruly, Evidence,
      ValuationOf
<1>10. ASSUME NEW r \in Requests, AnnounceReport(r) PROVE ResearchInv'
  BY <1>10
  DEF AnnounceReport, Verdict, GoTo, ResearchInv, WorkShape, Locations, Ended, Checked,
      AnnouncedTruly, Evidence, ValuationOf
<1>11. ASSUME NEW r \in Requests, Commit(r) PROVE ResearchInv'
  <2>1. WorkShape'
    BY <1>11 DEF Commit, GoTo, ResearchInv, WorkShape, Locations
  <2>2. Ended'
    BY <1>11 DEF Commit, GoTo, ResearchInv, WorkShape, Ended
  <2>3. Checked'
    BY <1>11 DEF Commit, GoTo, ResearchInv, WorkShape, Checked, Evidence, ValuationOf
  <2>4. AnnouncedTruly'
    BY <1>11 DEF Commit, GoTo, ResearchInv, WorkShape, AnnouncedTruly
  <2>5. QED
    BY <2>1, <2>2, <2>3, <2>4 DEF ResearchInv
<1>12. ASSUME NEW r \in Requests, Fail(r) PROVE ResearchInv'
  BY <1>12, FailKeepsInv DEF Fail
<1>13. CASE Restate \/ UNCHANGED vars
  <2>1. UNCHANGED <<pc, work, row, committed, announced, answer>>
    BY <1>13 DEF Restate, vars, store
  <2>2. onFile' \in Versions \cup {None}
    BY <1>13 DEF Restate, vars, ResearchInv, WorkShape
  <2>3. WorkShape' /\ Ended'
    BY <2>1, <2>2 DEF ResearchInv, WorkShape, Ended
  <2>4. Checked' /\ AnnouncedTruly'
    BY <2>1 DEF ResearchInv, Checked, AnnouncedTruly, Evidence, ValuationOf
  <2>5. QED
    BY <2>3, <2>4 DEF ResearchInv
<1>14. QED
  BY <1>1, <1>2, <1>3, <1>4, <1>6, <1>7, <1>8, <1>9, <1>10, <1>11, <1>12, <1>13
  DEF Next, Advance

LEMMA AlwaysResearch == Spec => []ResearchInv
BY InitResearch, StepResearch, PTL DEF Spec

\* Callers are told of success exactly when their report is on record, and of
\* an outage only where no provider refused this draft, however long the
\* chain and however often it starts anew.
THEOREM EndsAreTruthful == Spec => []RequestsEndTruthfully
<1>1. ResearchInv => RequestsEndTruthfully
  BY DEF ResearchInv, Ended, RequestsEndTruthfully
<1>2. QED
  BY <1>1, AlwaysResearch, PTL

\* What is announced or on record as publishable passed the check against the
\* evidence of the version it was computed from.
PublishedPassedTheCheck ==
  \A r \in Requests :
    (/\ row[r] # None
     /\ <<"published", r>> \in announced \/ (r \in committed /\ IsPublishable(row[r])))
    => /\ Unsupported(row[r].figures, AllowedValues(EvidenceFor(r))) = {}
       /\ row[r].cited \subseteq SourceOf[row[r].version]

\* No draft, no restatement and no failure in between makes a report
\* published that the check on its own evidence did not pass.
THEOREM PublishedIsChecked == Spec => []PublishedPassedTheCheck
<1>1. ResearchInv => PublishedPassedTheCheck
  BY DEF ResearchInv, Checked, AnnouncedTruly, IsPublishable, PublishedPassedTheCheck, Evidence,
         EvidenceFor, ValuationOf
<1>2. QED
  BY <1>1, AlwaysResearch, PTL

(***************************************************************************)
(* Powers of ten, lengths and zeros                                        *)
(***************************************************************************)
\* A set of natural numbers has a least one: the intervals up to them are
\* finite sets, which inclusion orders well.
LEMMA LeastNumber ==
  ASSUME NEW S \in SUBSET Nat, S # {}
  PROVE  \E n \in S : \A m \in S : n <= m
<1> DEFINE T == {1..n : n \in S}
<1>1. T \subseteq FiniteSubsetsOf(Nat) /\ T # {}
  <2>1. ASSUME NEW n \in S PROVE 1..n \in FiniteSubsetsOf(Nat)
    BY FS_Interval DEF FiniteSubsetsOf
  <2>2. QED
    BY <2>1
<1>2. PICK x \in T : \A y \in T : <<y, x>> \notin StrictSubsetOrdering(Nat)
  BY <1>1, FS_StrictSubsetOrderingWellFounded, WFMin
<1>3. PICK n \in S : x = 1..n
  BY <1>2
<1>4. ASSUME NEW m \in S, ~(n <= m) PROVE FALSE
  <2>1. <<1..m, 1..n>> \notin StrictSubsetOrdering(Nat)
    BY <1>2, <1>3
  <2>2. 1..m \subseteq 1..n /\ n \in 1..n /\ n \notin 1..m /\ 1..n \subseteq Nat
    BY <1>4
  <2>3. QED
    BY <2>1, <2>2 DEF StrictSubsetOrdering
<1>5. QED
  BY <1>4

\* What holds of zero, and of the successor of what it holds of, holds of all.
LEMMA NumbersReached ==
  ASSUME NEW S \in SUBSET Nat, 0 \in S, \A n \in S : n + 1 \in S
  PROVE  S = Nat
<1> SUFFICES ASSUME Nat \ S # {} PROVE FALSE
  OBVIOUS
<1>1. PICK n \in Nat \ S : \A m \in Nat \ S : n <= m
  BY LeastNumber
<1>2. n # 0 /\ n - 1 \in Nat /\ n - 1 \in S
  BY <1>1
<1>3. QED
  BY <1>1, <1>2

\* A function whose values are made from the value for the number before.
Iterates(f, d, A, a, step) ==
  f \in [0..d -> A] /\ \A n \in 0..d : f[n] = IF n = 0 THEN a ELSE step[n][f[n - 1]]

LEMMA IterationExists ==
  ASSUME NEW d \in Nat, NEW A, NEW a \in A, NEW step \in [Nat -> [A -> A]]
  PROVE  \E f : Iterates(f, d, A, a, step)
<1> DEFINE Fits(f, n) == \A m \in 0..n : f[m] = IF m = 0 THEN a ELSE step[m][f[m - 1]]
           S == {n \in Nat : \E f \in [0..n -> A] : Fits(f, n)}
<1>1. 0 \in S
  <2> DEFINE f == [m \in 0..0 |-> a]
  <2>1. f \in [0..0 -> A] /\ Fits(f, 0)
    OBVIOUS
  <2>2. QED
    BY <2>1
<1>2. ASSUME NEW n \in S PROVE n + 1 \in S
  <2>1. PICK f \in [0..n -> A] : Fits(f, n)
    OBVIOUS
  <2> DEFINE g == [m \in 0 .. n + 1 |-> IF m = n + 1 THEN step[n + 1][f[n]] ELSE f[m]]
  <2>2. g \in [0 .. n + 1 -> A]
    <3>1. step[n + 1][f[n]] \in A
      OBVIOUS
    <3>2. \A m \in 0 .. n + 1 : m # n + 1 => f[m] \in A
      OBVIOUS
    <3>3. QED
      BY <3>1, <3>2
  <2>3. ASSUME NEW m \in 0 .. n + 1 PROVE g[m] = IF m = 0 THEN a ELSE step[m][g[m - 1]]
    <3>1. CASE m = n + 1
      BY <3>1
    <3>2. CASE m # n + 1
      <4>1. m \in 0..n /\ (m # 0 => m - 1 \in 0 .. n + 1 /\ m - 1 # n + 1)
        BY <3>2
      <4>2. g[m] = f[m] /\ (m # 0 => g[m - 1] = f[m - 1])
        BY <3>2, <4>1
      <4>3. f[m] = IF m = 0 THEN a ELSE step[m][f[m - 1]]
        BY <2>1, <4>1
      <4> HIDE DEF g, Fits, S
      <4>4. QED
        BY <4>2, <4>3
    <3>3. QED
      BY <3>1, <3>2
  <2> HIDE DEF g
  <2>4. QED
    BY <2>2, <2>3
<1>3. S = Nat
  <2> HIDE DEF S
  <2>1. S \in SUBSET Nat
    BY DEF S
  <2>2. QED
    BY <1>1, <1>2, <2>1, NumbersReached
<1>4. QED
  BY <1>3 DEF Iterates

IsPower(n, power) == power = [m \in 0..n |-> IF m = 0 THEN 1 ELSE 10 * power[m - 1]]

LEMMA PowersAgree ==
  ASSUME NEW c \in Nat, NEW d \in Nat, c <= d, NEW f, IsPower(c, f), NEW g, IsPower(d, g)
  PROVE  \A n \in 0..c : f[n] = g[n]
<1>1. \A m \in 0..c : f[m] = IF m = 0 THEN 1 ELSE 10 * f[m - 1]
  BY DEF IsPower
<1>2. \A m \in 0..d : g[m] = IF m = 0 THEN 1 ELSE 10 * g[m - 1]
  BY DEF IsPower
<1> DEFINE S == {n \in Nat : n <= c => f[n] = g[n]}
<1>3. 0 \in S
  BY <1>1, <1>2
<1>4. ASSUME NEW n \in S PROVE n + 1 \in S
  <2> SUFFICES ASSUME n + 1 <= c PROVE f[n + 1] = g[n + 1]
    OBVIOUS
  <2> DEFINE m == n + 1
  <2>1. m \in 0..c /\ m \in 0..d /\ m # 0 /\ m - 1 = n /\ f[n] = g[n]
    OBVIOUS
  <2> HIDE DEF m
  <2>2. f[m] = 10 * f[m - 1]
    BY <1>1, <2>1
  <2>3. g[m] = 10 * g[m - 1]
    BY <1>2, <2>1
  <2>4. f[m] = g[m]
    BY <2>1, <2>2, <2>3
  <2>5. QED
    BY <2>4 DEF m
<1>5. S = Nat
  <2> HIDE DEF S
  <2>1. S \in SUBSET Nat
    BY DEF S
  <2>2. QED
    BY <1>3, <1>4, <2>1, NumbersReached
<1>6. QED
  BY <1>5

LEMMA PowersExist ==
  ASSUME NEW d \in Nat
  PROVE  \E f : IsPower(d, f)
<1> DEFINE step == [n \in Nat |-> [x \in Nat |-> 10 * x]]
<1>1. step \in [Nat -> [Nat -> Nat]] /\ \A n, x \in Nat : step[n][x] = 10 * x
  OBVIOUS
<1> HIDE DEF step
<1>2. PICK f : Iterates(f, d, Nat, 1, step)
  BY <1>1, IterationExists
<1>3. \A n \in 0..d : f[n] = IF n = 0 THEN 1 ELSE 10 * f[n - 1]
  <2>1. \A n \in 0..d : n # 0 => n \in Nat /\ f[n - 1] \in Nat
    BY <1>2 DEF Iterates
  <2>2. QED
    BY <1>1, <1>2, <2>1 DEF Iterates
<1>4. f = [n \in 0..d |-> f[n]]
  BY <1>2 DEF Iterates
<1>5. QED
  BY <1>3, <1>4 DEF IsPower

LEMMA PowerIs ==
  ASSUME NEW n \in Nat
  PROVE  \E f : IsPower(n, f) /\ TenTo(n) = f[n]
<1> DEFINE f == CHOOSE f : IsPower(n, f)
<1>1. TenTo(n) = f[n]
  BY DEF TenTo, IsPower
<1>2. IsPower(n, f)
  BY PowersExist
<1>3. QED
  BY <1>1, <1>2

\* Each power of ten is ten times the one before.
LEMMA PowerStep ==
  /\ TenTo(0) = 1
  /\ \A n \in Nat : TenTo(n + 1) = 10 * TenTo(n)
<1>1. TenTo(0) = 1
  <2>1. PICK f : IsPower(0, f) /\ TenTo(0) = f[0]
    BY PowerIs
  <2>2. QED
    BY <2>1 DEF IsPower
<1>2. ASSUME NEW n \in Nat PROVE TenTo(n + 1) = 10 * TenTo(n)
  <2>1. PICK f : IsPower(n, f) /\ TenTo(n) = f[n]
    BY PowerIs
  <2>2. PICK g : IsPower(n + 1, g) /\ TenTo(n + 1) = g[n + 1]
    BY PowerIs
  <2>3. f[n] = g[n]
    BY <2>1, <2>2, PowersAgree
  <2> DEFINE m == n + 1
  <2>4. m \in 0..m /\ m # 0 /\ m - 1 = n /\ IsPower(m, g)
    BY <2>2
  <2> HIDE DEF m
  <2>5. g[m] = 10 * g[m - 1]
    BY <2>4 DEF IsPower
  <2>6. QED
    BY <2>1, <2>2, <2>3, <2>4, <2>5 DEF m
<1>3. QED
  BY <1>1, <1>2

\* Powers of ten are positive, grow, and multiply.
LEMMA PowersArePositive == \A n \in Nat : TenTo(n) \in Nat \ {0}
<1> DEFINE S == {n \in Nat : TenTo(n) \in Nat \ {0}}
<1>1. 0 \in S /\ \A n \in S : n + 1 \in S
  BY PowerStep
<1>2. S = Nat
  <2> HIDE DEF S
  <2>1. S \in SUBSET Nat
    BY DEF S
  <2>2. QED
    BY <1>1, <2>1, NumbersReached
<1>3. QED
  BY <1>2

LEMMA PowersMultiply == \A a, b \in Nat : TenTo(a + b) = TenTo(a) * TenTo(b)
<1> SUFFICES ASSUME NEW a \in Nat PROVE \A b \in Nat : TenTo(a + b) = TenTo(a) * TenTo(b)
  OBVIOUS
<1> DEFINE S == {b \in Nat : TenTo(a + b) = TenTo(a) * TenTo(b)}
<1>1. 0 \in S
  BY PowerStep, PowersArePositive
<1>2. ASSUME NEW b \in S PROVE b + 1 \in S
  <2>1. TenTo(a + (b + 1)) = 10 * TenTo(a + b)
    <3>1. a + b \in Nat /\ (a + b) + 1 = a + (b + 1)
      OBVIOUS
    <3>2. QED
      BY <3>1, PowerStep
  <2>2. TenTo(b + 1) = 10 * TenTo(b)
    BY PowerStep
  <2>3. TenTo(a) \in Nat /\ TenTo(b) \in Nat /\ TenTo(a + b) = TenTo(a) * TenTo(b)
    BY PowersArePositive
  <2>4. TenTo(a + (b + 1)) = TenTo(a) * TenTo(b + 1)
    BY <2>1, <2>2, <2>3
  <2>5. QED
    BY <2>4
<1>3. S = Nat
  <2> HIDE DEF S
  <2>1. S \in SUBSET Nat
    BY DEF S
  <2>2. QED
    BY <1>1, <1>2, <2>1, NumbersReached
<1>4. QED
  BY <1>3

LEMMA PowersGrow ==
  ASSUME NEW a \in Nat, NEW b \in Nat
  PROVE  /\ a <= b => TenTo(a) <= TenTo(b)
         /\ a < b => 10 * TenTo(a) <= TenTo(b)
<1>1. ASSUME NEW c \in Nat, NEW d \in Nat, c <= d PROVE TenTo(c) <= TenTo(d)
  <2>1. d - c \in Nat /\ c + (d - c) = d
    BY <1>1
  <2>2. TenTo(d) = TenTo(c) * TenTo(d - c)
    BY <2>1, PowersMultiply
  <2>3. TenTo(c) \in Nat /\ TenTo(d - c) \in Nat /\ TenTo(d - c) >= 1
    BY <2>1, PowersArePositive
  <2>4. QED
    BY <2>2, <2>3
<1>2. ASSUME a < b PROVE 10 * TenTo(a) <= TenTo(b)
  <2>1. a + 1 <= b /\ TenTo(a + 1) = 10 * TenTo(a)
    BY <1>2, PowerStep
  <2>2. TenTo(a + 1) <= TenTo(b)
    BY <1>1, <2>1
  <2>3. QED
    BY <2>1, <2>2
<1>3. QED
  BY <1>1, <1>2

IsLength(n, length) ==
  length = [m \in 0..n |-> IF m < 10 THEN 1 ELSE 1 + length[m \div 10]]

\* A tenth, rounded down.
LEMMA Tenth ==
  ASSUME NEW m \in Nat
  PROVE  /\ m \div 10 \in 0..m /\ 10 * (m \div 10) <= m /\ m < 10 * (m \div 10) + 10
         /\ m # 0 => m \div 10 < m
         /\ m >= 10 => m \div 10 # 0
         /\ m % 10 = 0 => m = 10 * (m \div 10)
OBVIOUS

LEMMA LengthsExist ==
  ASSUME NEW d \in Nat
  PROVE  \E f : IsLength(d, f)
<1> DEFINE S == {n \in Nat : \E f : IsLength(n, f)}
<1>1. 0 \in S
  <2>1. IsLength(0, [n \in 0..0 |-> 1])
    BY DEF IsLength
  <2>2. QED
    BY <2>1
<1>2. ASSUME NEW n \in S PROVE n + 1 \in S
  <2>1. PICK f : IsLength(n, f)
    OBVIOUS
  <2>2. \A m \in 0..n : f[m] = IF m < 10 THEN 1 ELSE 1 + f[m \div 10]
    BY <2>1 DEF IsLength
  <2> DEFINE next == n + 1
             g == [m \in 0..next |->
                     IF m = next THEN IF next < 10 THEN 1 ELSE 1 + f[next \div 10] ELSE f[m]]
  <2>3. ASSUME NEW m \in 0..next PROVE g[m] = IF m < 10 THEN 1 ELSE 1 + g[m \div 10]
    <3>1. m \in Nat /\ m \div 10 \in 0..next /\ (m >= 10 => m \div 10 # next)
      BY Tenth
    <3>2. m >= 10 => g[m \div 10] = f[m \div 10]
      BY <3>1
    <3>3. g[m] = IF m = next THEN IF next < 10 THEN 1 ELSE 1 + f[next \div 10] ELSE f[m]
      OBVIOUS
    <3> HIDE DEF g
    <3>4. CASE m = next
      BY <3>1, <3>2, <3>3, <3>4
    <3>5. CASE m # next
      <4>1. m \in 0..n
        BY <3>5
      <4>2. QED
        BY <2>2, <3>1, <3>2, <3>3, <3>5, <4>1
    <3>6. QED
      BY <3>4, <3>5
  <2>4. IsLength(n + 1, g)
    <3>1. g = [m \in 0..next |-> g[m]]
      OBVIOUS
    <3> HIDE DEF g
    <3>2. QED
      BY <2>3, <3>1 DEF IsLength
  <2>5. QED
    BY <2>4
<1>3. S = Nat
  <2> HIDE DEF S
  <2>1. S \in SUBSET Nat
    BY DEF S
  <2>2. QED
    BY <1>1, <1>2, <2>1, NumbersReached
<1>4. QED
  BY <1>3

\* So many digits put a number between two powers of ten.
Spans(n, digits) ==
  /\ digits \in Nat \ {0} /\ n < TenTo(digits)
  /\ n # 0 => TenTo(digits - 1) <= n

LEMMA LengthsSpan ==
  ASSUME NEW n \in Nat
  PROVE  Spans(n, Length(n))
<1> DEFINE f == CHOOSE f : IsLength(n, f)
<1>1. Length(n) = f[n]
  BY DEF Length, IsLength
<1>2. IsLength(n, f)
  BY LengthsExist
<1> HIDE DEF f
<1>3. \A m \in 0..n : f[m] = IF m < 10 THEN 1 ELSE 1 + f[m \div 10]
  BY <1>2 DEF IsLength
<1> DEFINE S == {b \in Nat : \A m \in 0..n : m <= b => Spans(m, f[m])}
<1>4. ASSUME NEW m \in 0..n, \A k \in 0..n : k < m => Spans(k, f[k])
      PROVE  Spans(m, f[m])
  <2>1. CASE m < 10
    <3>1. f[m] = 1 /\ TenTo(0) = 1 /\ TenTo(0 + 1) = 10 * TenTo(0)
      BY <1>3, <2>1, PowerStep
    <3>2. QED
      BY <2>1, <3>1 DEF Spans
  <2>2. CASE ~(m < 10)
    <3> DEFINE q == m \div 10
               d == f[q]
    <3>1. q \in 0..n /\ q < m /\ q # 0 /\ 10 * q <= m /\ m < 10 * q + 10
      BY <2>2, Tenth
    <3>2. f[m] = 1 + d
      BY <1>3, <2>2
    <3>3. Spans(q, d)
      BY <1>4, <3>1
    <3> HIDE DEF q, d
    <3>4. d \in Nat \ {0} /\ q < TenTo(d) /\ TenTo(d - 1) <= q
      BY <3>1, <3>3 DEF Spans
    <3>5. TenTo(d + 1) = 10 * TenTo(d) /\ TenTo((d - 1) + 1) = 10 * TenTo(d - 1) /\ (d - 1) + 1 = d
      BY <3>4, PowerStep
    <3>6. TenTo(d) \in Nat /\ TenTo(d - 1) \in Nat
      BY <3>4, PowersArePositive
    <3>7. m < TenTo(1 + d) /\ TenTo((1 + d) - 1) <= m /\ 1 + d \in Nat \ {0}
      <4>1. 1 + d = d + 1 /\ (1 + d) - 1 = d /\ 1 + d \in Nat \ {0}
        BY <3>4
      <4>2. m < 10 * TenTo(d) /\ 10 * TenTo(d - 1) <= m
        BY <3>1, <3>4, <3>6
      <4>3. QED
        BY <3>5, <4>1, <4>2
    <3>8. QED
      BY <3>2, <3>7 DEF Spans
  <2>3. QED
    BY <2>1, <2>2
<1>5. 0 \in S
  BY <1>4
<1>6. ASSUME NEW b \in S PROVE b + 1 \in S
  <2>1. ASSUME NEW m \in 0..n, m <= b + 1 PROVE Spans(m, f[m])
    <3>1. \A k \in 0..n : k < m => Spans(k, f[k])
      <4>1. \A k \in 0..n : k <= b => Spans(k, f[k])
        OBVIOUS
      <4>2. \A k \in 0..n : k < m => k <= b
        BY <2>1
      <4>3. QED
        BY <4>1, <4>2
    <3>2. QED
      BY <1>4, <3>1
  <2>2. QED
    BY <2>1
<1>7. S = Nat
  <2> HIDE DEF S
  <2>1. S \in SUBSET Nat
    BY DEF S
  <2>2. QED
    BY <1>5, <1>6, <2>1, NumbersReached
<1>8. Spans(n, f[n])
  BY <1>7
<1>9. QED
  BY <1>1, <1>8

\* ... and only so many do.
LEMMA SpansAreUnique ==
  ASSUME NEW n \in Nat \ {0}, NEW c, Spans(n, c), NEW d, Spans(n, d)
  PROVE  c = d
<1>1. ASSUME NEW a, Spans(n, a), NEW b, Spans(n, b), a < b PROVE FALSE
  <2>1. /\ a \in Nat /\ b - 1 \in Nat /\ a <= b - 1 /\ n < TenTo(a) /\ TenTo(b - 1) <= n
    BY <1>1 DEF Spans
  <2>2. TenTo(a) <= TenTo(b - 1) /\ TenTo(a) \in Nat /\ TenTo(b - 1) \in Nat
    BY <2>1, PowersGrow, PowersArePositive
  <2>3. QED
    BY <2>1, <2>2
<1>2. ~(c < d) /\ ~(d < c) /\ c \in Nat /\ d \in Nat
  BY <1>1 DEF Spans
<1>3. QED
  BY <1>2

IsZeros(n, zeros) ==
  zeros = [m \in 0..n |-> IF m = 0 \/ m % 10 # 0 THEN 0 ELSE 1 + zeros[m \div 10]]

LEMMA ZerosExist ==
  ASSUME NEW d \in Nat
  PROVE  \E f : IsZeros(d, f)
<1> DEFINE S == {n \in Nat : \E f : IsZeros(n, f)}
<1>1. 0 \in S
  <2>1. IsZeros(0, [n \in 0..0 |-> 0])
    BY DEF IsZeros
  <2>2. QED
    BY <2>1
<1>2. ASSUME NEW n \in S PROVE n + 1 \in S
  <2>1. PICK f : IsZeros(n, f)
    OBVIOUS
  <2>2. \A m \in 0..n : f[m] = IF m = 0 \/ m % 10 # 0 THEN 0 ELSE 1 + f[m \div 10]
    BY <2>1 DEF IsZeros
  <2> DEFINE next == n + 1
             g == [m \in 0..next |->
                     IF m = next THEN IF next % 10 # 0 THEN 0 ELSE 1 + f[next \div 10] ELSE f[m]]
  <2>3. ASSUME NEW m \in 0..next
        PROVE  g[m] = IF m = 0 \/ m % 10 # 0 THEN 0 ELSE 1 + g[m \div 10]
    <3>1. m \in Nat /\ m \div 10 \in 0..next /\ (m # 0 => m \div 10 # next)
      BY Tenth
    <3>2. m # 0 => g[m \div 10] = f[m \div 10]
      BY <3>1
    <3>3. g[m] = IF m = next THEN IF next % 10 # 0 THEN 0 ELSE 1 + f[next \div 10] ELSE f[m]
      OBVIOUS
    <3> HIDE DEF g
    <3>4. CASE m = next
      <4>1. m # 0
        BY <3>4
      <4>2. QED
        BY <3>2, <3>3, <3>4, <4>1
    <3>5. CASE m # next
      <4>1. m \in 0..n
        BY <3>5
      <4>2. QED
        BY <2>2, <3>2, <3>3, <3>5, <4>1
    <3>6. QED
      BY <3>4, <3>5
  <2>4. IsZeros(n + 1, g)
    <3>1. g = [m \in 0..next |-> g[m]]
      OBVIOUS
    <3> HIDE DEF g
    <3>2. QED
      BY <2>3, <3>1 DEF IsZeros
  <2>5. QED
    BY <2>4
<1>3. S = Nat
  <2> HIDE DEF S
  <2>1. S \in SUBSET Nat
    BY DEF S
  <2>2. QED
    BY <1>1, <1>2, <2>1, NumbersReached
<1>4. QED
  BY <1>3

\* Without its zeros at the end a number is so many powers of ten less.
LEMMA ZerosDivide ==
  ASSUME NEW n \in Nat
  PROVE  TrailingZeros(n) \in Nat /\ \E q \in Nat : n = q * TenTo(TrailingZeros(n))
<1> DEFINE f == CHOOSE f : IsZeros(n, f)
           P(m) == f[m] \in Nat /\ \E q \in Nat : m = q * TenTo(f[m])
<1>1. TrailingZeros(n) = f[n]
  BY DEF TrailingZeros, IsZeros
<1>2. IsZeros(n, f)
  BY ZerosExist
<1> HIDE DEF f
<1>3. \A m \in 0..n : f[m] = IF m = 0 \/ m % 10 # 0 THEN 0 ELSE 1 + f[m \div 10]
  BY <1>2 DEF IsZeros
<1>4. ASSUME NEW m \in 0..n, \A k \in 0..n : k < m => P(k)
      PROVE  P(m)
  <2>1. CASE m = 0 \/ m % 10 # 0
    <3>1. f[m] = 0 /\ TenTo(0) = 1 /\ m \in Nat
      BY <1>3, <2>1, PowerStep
    <3>2. m = m * TenTo(f[m])
      BY <3>1
    <3>3. QED
      BY <3>1, <3>2
  <2>2. CASE m # 0 /\ m % 10 = 0
    <3> DEFINE t == m \div 10
               z == f[t]
    <3>1. t \in 0..n /\ t < m /\ m = 10 * t
      BY <2>2, Tenth
    <3>2. f[m] = 1 + z
      BY <1>3, <2>2
    <3>3. z \in Nat /\ \E q \in Nat : t = q * TenTo(z)
      BY <1>4, <3>1
    <3> HIDE DEF t, z
    <3>4. PICK q \in Nat : t = q * TenTo(z)
      BY <3>3
    <3>5. TenTo(1 + z) = 10 * TenTo(z) /\ TenTo(z) \in Nat
      <4>1. 1 + z = z + 1
        BY <3>3
      <4>2. QED
        BY <3>3, <4>1, PowerStep, PowersArePositive
    <3>6. m = q * TenTo(1 + z)
      BY <3>1, <3>4, <3>5
    <3>7. QED
      BY <3>2, <3>3, <3>6
  <2>3. QED
    BY <2>1, <2>2
<1> DEFINE S == {b \in Nat : \A m \in 0..n : m <= b => P(m)}
<1> HIDE DEF P
<1>5. 0 \in S
  BY <1>4
<1>6. ASSUME NEW b \in S PROVE b + 1 \in S
  <2>1. ASSUME NEW m \in 0..n, m <= b + 1 PROVE P(m)
    <3>1. \A k \in 0..n : k < m => P(k)
      <4>1. \A k \in 0..n : k <= b => P(k)
        OBVIOUS
      <4>2. \A k \in 0..n : k < m => k <= b
        BY <2>1
      <4>3. QED
        BY <4>1, <4>2
    <3>2. QED
      BY <1>4, <3>1
  <2>2. QED
    BY <2>1
<1>7. S = Nat
  <2> HIDE DEF S
  <2>1. S \in SUBSET Nat
    BY DEF S
  <2>2. QED
    BY <1>5, <1>6, <2>1, NumbersReached
<1>8. P(n)
  BY <1>7
<1>9. QED
  BY <1>1, <1>8 DEF P

(***************************************************************************)
(* Rounding                                                                *)
(***************************************************************************)
LEMMA MultiplesCompare ==
  ASSUME NEW a \in Nat, NEW b \in Nat, NEW c \in Nat \ {0}
  PROVE  /\ a * c \in Nat /\ b * c \in Nat
         /\ a <= b => a * c <= b * c
         /\ a < b => a * c + c <= b * c
<1>1. a * c \in Nat /\ b * c \in Nat
  OBVIOUS
<1>2. ASSUME a <= b PROVE a * c <= b * c
  <2>1. b - a \in Nat /\ (b - a) * c \in Nat /\ (b - a) * c = b * c - a * c
    BY <1>2
  <2>2. QED
    BY <1>1, <2>1
<1>3. ASSUME a < b PROVE a * c + c <= b * c
  <2>1. b - (a + 1) \in Nat
    BY <1>3
  <2>2. (b - (a + 1)) * c \in Nat
    BY <2>1
  <2>3. (b - (a + 1)) * c = b * c - (a * c + c)
    OBVIOUS
  <2>4. QED
    BY <1>1, <2>2, <2>3
<1>4. QED
  BY <1>1, <1>2, <1>3

\* The nearest multiple of a unit, half up.
LEMMA NearestMultiple ==
  ASSUME NEW v \in Nat, NEW unit \in Nat \ {0}
  PROVE  LET m == (2 * v + unit) \div (2 * unit)
         IN  /\ m \in Nat /\ m * unit \in Nat
             /\ 2 * (m * unit) <= 2 * v + unit
             /\ 2 * v + unit < 2 * (m * unit) + 2 * unit
<1> DEFINE n == 2 * v + unit
           b == 2 * unit
           m == n \div b
<1>1. n \in Nat /\ b \in Nat \ {0}
  OBVIOUS
<1>2. m \in Nat /\ m * b <= n /\ m * b + b > n
  <2> HIDE DEF n, b
  <2>1. n \div b \in Nat /\ (n \div b) * b <= n /\ (n \div b) * b + b > n
    BY <1>1
  <2>2. QED
    BY <2>1
<1>3. m * b = 2 * (m * unit) /\ m * unit \in Nat
  <2> HIDE DEF m
  <2>1. QED
    BY <1>2
<1> HIDE DEF m
<1>4. 2 * (m * unit) <= n /\ n < 2 * (m * unit) + b
  BY <1>1, <1>2, <1>3
<1>5. QED
  BY <1>2, <1>3, <1>4 DEF m

\* A number of more digits than are kept becomes the nearest multiple of the
\* place of the last one kept.
LEMMA RoundingIs ==
  ASSUME NEW v \in Nat, NEW s \in Nat \ {0}, s < Length(v)
  PROVE  LET unit == TenTo(Length(v) - s)
         IN  /\ unit \in Nat \ {0}
             /\ \E m \in Nat : /\ RoundToSignificant(v, s) = m * unit
                               /\ m * unit \in Nat
                               /\ 2 * (m * unit) <= 2 * v + unit
                               /\ 2 * v + unit < 2 * (m * unit) + 2 * unit
<1> DEFINE unit == TenTo(Length(v) - s)
           m == (2 * v + unit) \div (2 * unit)
<1>1. Length(v) \in Nat /\ Length(v) - s \in Nat
  BY LengthsSpan DEF Spans
<1>2. unit \in Nat \ {0}
  BY <1>1, PowersArePositive
<1>3. RoundToSignificant(v, s) = m * unit
  BY <1>1 DEF RoundToSignificant
<1> HIDE DEF unit
<1>4. /\ m \in Nat /\ m * unit \in Nat
      /\ 2 * (m * unit) <= 2 * v + unit
      /\ 2 * v + unit < 2 * (m * unit) + 2 * unit
  BY <1>2, NearestMultiple
<1>5. QED
  BY <1>2, <1>3, <1>4 DEF unit

\* One of so many leading digits, with zeros for the rest.
Written(g, s, u, q) ==
  /\ s \in Nat \ {0} /\ u \in Nat /\ q \in Nat
  /\ TenTo(s - 1) <= q /\ q < TenTo(s) /\ g = q * TenTo(u)

\* How a written figure lies between the powers of ten.
LEMMA WrittenLies ==
  ASSUME NEW g, NEW s, NEW u, NEW q, Written(g, s, u, q)
  PROVE  LET unit == TenTo(u)
             power == TenTo((s + u) - 1)
         IN  /\ g \in Nat /\ unit \in Nat \ {0} /\ power \in Nat /\ TenTo(s + u) \in Nat
             /\ power = TenTo(s - 1) * unit
             /\ unit <= power /\ power <= g /\ g + unit <= TenTo(s + u)
             /\ g = power \/ power + unit <= g
             /\ Length(g) = s + u
<1> DEFINE unit == TenTo(u)
           power == TenTo((s + u) - 1)
           lead == TenTo(s - 1)
<1>1. /\ s \in Nat \ {0} /\ u \in Nat /\ q \in Nat /\ s - 1 \in Nat /\ (s + u) - 1 \in Nat
      /\ s + u \in Nat \ {0} /\ (s - 1) + u = (s + u) - 1 /\ lead <= q /\ q < TenTo(s)
      /\ g = q * unit
  BY DEF Written
<1>2. /\ unit \in Nat \ {0} /\ lead \in Nat \ {0} /\ TenTo(s) \in Nat
      /\ power \in Nat /\ TenTo(s + u) \in Nat
  BY <1>1, PowersArePositive
<1>3. power = lead * unit /\ TenTo(s + u) = TenTo(s) * unit
  <2>1. TenTo((s - 1) + u) = TenTo(s - 1) * TenTo(u)
    BY <1>1, PowersMultiply
  <2>2. TenTo(s + u) = TenTo(s) * TenTo(u)
    BY <1>1, PowersMultiply
  <2>3. QED
    BY <1>1, <2>1, <2>2
<1> DEFINE top == TenTo(s)
<1> HIDE DEF unit, power, lead, top
<1>4. /\ g \in Nat /\ lead * unit <= q * unit /\ q * unit + unit <= top * unit
  BY <1>1, <1>2, MultiplesCompare DEF top
<1>5. 1 * unit <= lead * unit
  BY <1>2, MultiplesCompare
<1>6. unit <= power
  BY <1>2, <1>3, <1>5
<1>7. q = lead \/ lead * unit + unit <= q * unit
  BY <1>1, <1>2, MultiplesCompare
<1>8. g = power \/ power + unit <= g
  BY <1>1, <1>3, <1>7
<1>9. power <= g /\ g + unit <= TenTo(s + u)
  BY <1>1, <1>3, <1>4 DEF top
<1>10. Length(g) = s + u
  <2> DEFINE above == TenTo(s + u)
  <2>a. above \in Nat /\ g + unit <= above
    BY <1>2, <1>9
  <2> HIDE DEF above
  <2>b. g # 0 /\ g < above
    BY <1>2, <1>4, <1>6, <1>9, <2>a
  <2>c. TenTo((s + u) - 1) <= g
    BY <1>9 DEF power
  <2>1. g # 0 /\ g < TenTo(s + u) /\ TenTo((s + u) - 1) <= g
    BY <2>b, <2>c DEF above
  <2>2. Spans(g, s + u)
    BY <1>1, <2>1 DEF Spans
  <2>3. QED
    BY <1>4, <2>1, <2>2, LengthsSpan, SpansAreUnique
<1>11. QED
  BY <1>2, <1>3, <1>4, <1>6, <1>8, <1>9, <1>10 DEF unit, power, lead

\* ... and rounds to itself.
LEMMA WrittenIsRound ==
  ASSUME NEW g, NEW s, NEW u, NEW q, Written(g, s, u, q)
  PROVE  RoundToSignificant(g, s) = g
<1>1. Length(g) = s + u /\ s \in Nat \ {0} /\ u \in Nat /\ q \in Nat /\ g \in Nat
  <2>1. Length(g) = s + u /\ g \in Nat
    BY WrittenLies
  <2>2. QED
    BY <2>1 DEF Written
<1>2. CASE u = 0
  BY <1>1, <1>2 DEF RoundToSignificant
<1>3. CASE u # 0
  <2>1. s < Length(g) /\ Length(g) - s = u
    BY <1>1, <1>3
  <2> DEFINE unit == TenTo(u)
  <2>2. PICK m \in Nat : /\ RoundToSignificant(g, s) = m * unit
                         /\ m * unit \in Nat
                         /\ 2 * (m * unit) <= 2 * g + unit
                         /\ 2 * g + unit < 2 * (m * unit) + 2 * unit
    BY <1>1, <2>1, RoundingIs
  <2>3. unit \in Nat \ {0} /\ g = q * unit
    BY <1>1, PowersArePositive DEF Written
  <2> HIDE DEF unit
  <2>4. CASE m < q
    <3>1. m * unit + unit <= q * unit
      BY <1>1, <2>3, <2>4, MultiplesCompare
    <3>2. QED
      BY <1>1, <2>2, <2>3, <3>1
  <2>5. CASE q < m
    <3>1. q * unit + unit <= m * unit
      BY <1>1, <2>3, <2>5, MultiplesCompare
    <3>2. QED
      BY <1>1, <2>2, <2>3, <3>1
  <2>6. CASE m = q
    BY <2>2, <2>3, <2>6
  <2>7. QED
    BY <1>1, <2>4, <2>5, <2>6
<1>4. QED
  BY <1>2, <1>3

\* No further from a written figure than half of its last place, which is ten
\* times finer just below a power of ten.
Close(v, g, unit, power) ==
  \/ v = g
  \/ v >= g /\ 2 * (v - g) < unit
  \/ v > 0 /\ v <= g /\ (IF g = power THEN 20 ELSE 2) * (g - v) <= unit

\* Rounding to the digits that are written gives the written figure exactly
\* for the numbers that are close to it.
LEMMA RoundingIsClose ==
  ASSUME NEW g, NEW s, NEW u, NEW q, Written(g, s, u, q), NEW v \in Nat \ {0}
  PROVE  RoundToSignificant(v, s) = g <=> Close(v, g, TenTo(u), TenTo((s + u) - 1))
<1> DEFINE unit == TenTo(u)
           power == TenTo((s + u) - 1)
           above == TenTo(s + u)
           digits == Length(v)
           rounded == RoundToSignificant(v, s)
<1>1. s \in Nat \ {0} /\ u \in Nat /\ q \in Nat /\ TenTo(s - 1) <= q /\ q < TenTo(s) /\ g = q * unit
  BY DEF Written
<1>2. /\ g \in Nat /\ unit \in Nat \ {0} /\ power \in Nat /\ above \in Nat
      /\ power = TenTo(s - 1) * unit
      /\ unit <= power /\ power <= g /\ g + unit <= above
      /\ g = power \/ power + unit <= g
  BY WrittenLies
<1>3. digits \in Nat \ {0} /\ v < TenTo(digits) /\ TenTo(digits - 1) <= v
  BY LengthsSpan DEF Spans
<1>4. digits <= s => rounded = v
  BY <1>1, <1>3 DEF RoundToSignificant
<1>5. CASE digits = s + u
  <2>1. power <= v
    BY <1>3, <1>5
  <2>2. CASE u = 0
    <3>1. rounded = v /\ unit = 1
      BY <1>1, <1>4, <1>5, <2>2, PowerStep
    <3> HIDE DEF unit, power, above, rounded
    <3>2. Close(v, g, unit, power) <=> v = g
      BY <1>2, <3>1 DEF Close
    <3>3. QED
      BY <3>1, <3>2 DEF rounded, unit, power
  <2>3. CASE u # 0
    <3>1. s < digits /\ digits - s = u
      BY <1>1, <1>5, <2>3
    <3>2. PICK m \in Nat : /\ rounded = m * unit
                           /\ m * unit \in Nat
                           /\ 2 * (m * unit) <= 2 * v + unit
                           /\ 2 * v + unit < 2 * (m * unit) + 2 * unit
      BY <1>1, <3>1, RoundingIs
    <3> HIDE DEF unit, power, above, rounded
    <3>3. /\ m < q => m * unit + unit <= q * unit
          /\ q < m => q * unit + unit <= m * unit
      BY <1>1, <1>2, MultiplesCompare
    <3>4. rounded = g <=> 2 * g <= 2 * v + unit /\ 2 * v + unit < 2 * g + 2 * unit
      <4>1. CASE m = q
        BY <1>1, <3>2, <4>1
      <4>2. CASE m < q
        BY <1>1, <1>2, <3>2, <3>3, <4>2
      <4>3. CASE q < m
        BY <1>1, <1>2, <3>2, <3>3, <4>3
      <4>4. QED
        BY <1>1, <4>1, <4>2, <4>3
    <3>5. Close(v, g, unit, power) <=> 2 * g <= 2 * v + unit /\ 2 * v + unit < 2 * g + 2 * unit
      <4>1. CASE v >= g
        BY <1>2, <4>1 DEF Close
      <4>2. CASE v < g
        <5>1. g # power
          BY <1>2, <2>1, <4>2
        <5>2. QED
          BY <1>2, <4>2, <5>1 DEF Close
      <4>3. QED
        BY <1>2, <4>1, <4>2
    <3>6. QED
      BY <3>4, <3>5 DEF rounded, unit, power
  <2>4. QED
    BY <2>2, <2>3
<1>6. CASE s + u < digits
  <2>1. s < digits /\ digits - s \in Nat /\ digits - 1 \in Nat /\ s - 1 \in Nat
        /\ s + u <= digits - 1 /\ (s - 1) + (digits - s) = digits - 1
    BY <1>1, <1>3, <1>6
  <2> DEFINE place == TenTo(digits - s)
             first == TenTo(digits - 1)
             lead == TenTo(s - 1)
  <2>2. PICK m \in Nat : /\ rounded = m * place
                         /\ m * place \in Nat
                         /\ 2 * (m * place) <= 2 * v + place
                         /\ 2 * v + place < 2 * (m * place) + 2 * place
    BY <1>1, <2>1, RoundingIs
  <2>3. above <= first /\ first <= v /\ first = lead * place
    <3>1. above <= first
      BY <1>1, <2>1, PowersGrow
    <3>2. TenTo((s - 1) + (digits - s)) = lead * place
      BY <2>1, PowersMultiply
    <3>3. QED
      BY <1>3, <2>1, <3>1, <3>2
  <2>4. place \in Nat \ {0} /\ lead \in Nat /\ first \in Nat
    BY <2>1, PowersArePositive
  <2> HIDE DEF unit, power, above, rounded, place, first, lead
  <2>5. m < lead => m * place + place <= lead * place
    BY <2>4, MultiplesCompare
  <2>6. lead <= m => lead * place <= m * place
    BY <2>4, MultiplesCompare
  <2>7. ~(m < lead)
    BY <2>2, <2>3, <2>4, <2>5
  <2>8. first <= rounded /\ rounded \in Nat
    BY <2>2, <2>3, <2>4, <2>6, <2>7
  <2>9. rounded # g
    BY <1>2, <2>3, <2>4, <2>8
  <2>10. ~Close(v, g, unit, power)
    BY <1>2, <2>3, <2>4 DEF Close
  <2>11. QED
    BY <2>9, <2>10 DEF rounded, unit, power
<1>7. CASE digits < s + u
  <2> DEFINE bound == TenTo(digits)
  <2>1. bound <= power /\ bound \in Nat
    <3>1. digits <= (s + u) - 1 /\ (s + u) - 1 \in Nat
      BY <1>1, <1>3, <1>7
    <3>2. QED
      BY <1>3, <3>1, PowersGrow, PowersArePositive
  <2>2. v < power
    <3> HIDE DEF bound, power
    <3>1. QED
      BY <1>2, <1>3, <2>1 DEF bound
  <2>3. ASSUME g # power PROVE ~Close(v, g, unit, power)
    <3> HIDE DEF bound, power, unit, above
    <3>1. power + unit <= g /\ v < g
      BY <1>2, <2>2, <2>3
    <3>2. QED
      BY <1>2, <2>2, <2>3, <3>1 DEF Close
  <2>4. CASE digits < (s + u) - 1
    <3>1. 10 * bound <= power
      BY <1>1, <1>3, <2>4, PowersGrow
    <3>2. rounded \in Nat /\ rounded <= bound
      <4>1. CASE digits <= s
        BY <1>3, <1>4, <2>1, <4>1
      <4>2. CASE ~(digits <= s)
        <5> DEFINE place == TenTo(digits - s)
                   top == TenTo(s)
        <5>1. s < digits /\ digits - s \in Nat /\ s + (digits - s) = digits
          BY <1>1, <1>3, <4>2
        <5>2. PICK m \in Nat : /\ rounded = m * place
                               /\ m * place \in Nat
                               /\ 2 * (m * place) <= 2 * v + place
                               /\ 2 * v + place < 2 * (m * place) + 2 * place
          BY <1>1, <5>1, RoundingIs
        <5>3. TenTo(s + (digits - s)) = top * place
          BY <1>1, <5>1, PowersMultiply
        <5>4. bound = top * place
          BY <5>1, <5>3
        <5>5. place \in Nat \ {0} /\ top \in Nat
          BY <1>1, <5>1, PowersArePositive
        <5>6. v < bound
          BY <1>3
        <5> HIDE DEF place, top, bound, rounded
        <5>7. /\ m <= top => m * place <= top * place
              /\ top < m => top * place + place <= m * place
          BY <5>5, MultiplesCompare
        <5>8. ~(top < m)
          BY <2>1, <5>2, <5>4, <5>5, <5>6, <5>7
        <5>9. QED
          BY <5>2, <5>4, <5>5, <5>7, <5>8
      <4>3. QED
        BY <4>1, <4>2
    <3>3. v < bound
      BY <1>3
    <3> HIDE DEF bound, power, unit, above, rounded
    <3>4. rounded # g
      BY <1>2, <2>1, <3>1, <3>2, <3>3
    <3>5. ASSUME g = power PROVE ~Close(v, g, unit, power)
      <4>1. 20 * (g - v) > 18 * unit /\ v < g
        BY <1>2, <2>1, <3>1, <3>3, <3>5
      <4>2. QED
        BY <1>2, <3>5, <4>1 DEF Close
    <3>6. QED
      BY <2>3, <3>4, <3>5 DEF rounded, unit, power
  <2>5. CASE digits = (s + u) - 1 /\ digits <= s
    <3>1. rounded = v
      BY <1>4, <2>5
    <3>2. u = 0 \/ u = 1
      BY <1>1, <2>5
    <3>3. unit = 1 \/ unit = 10
      <4>1. TenTo(0) = 1 /\ TenTo(0 + 1) = 10 * TenTo(0)
        BY PowerStep
      <4>2. QED
        BY <3>2, <4>1
    <3> HIDE DEF bound, power, unit, above, rounded
    <3>4. v < g
      BY <1>2, <2>2
    <3>5. ASSUME g = power PROVE ~Close(v, g, unit, power)
      BY <1>2, <3>3, <3>4, <3>5 DEF Close
    <3>6. QED
      BY <1>2, <2>3, <3>1, <3>4, <3>5 DEF rounded, unit, power
  <2>6. CASE digits = (s + u) - 1 /\ ~(digits <= s)
    <3> DEFINE place == TenTo(digits - s)
               top == TenTo(s)
    <3>1. s < digits /\ digits - s \in Nat /\ s + (digits - s) = digits /\ (digits - s) + 1 = u
      BY <1>1, <1>3, <2>6
    <3>2. PICK m \in Nat : /\ rounded = m * place
                           /\ m * place \in Nat
                           /\ 2 * (m * place) <= 2 * v + place
                           /\ 2 * v + place < 2 * (m * place) + 2 * place
      BY <1>1, <3>1, RoundingIs
    <3>3. TenTo(s + (digits - s)) = top * place
      BY <1>1, <3>1, PowersMultiply
    <3>4. power = top * place
      BY <2>6, <3>1, <3>3
    <3>5. TenTo((digits - s) + 1) = 10 * place
      BY <3>1, PowerStep
    <3>6. unit = 10 * place
      BY <3>1, <3>5
    <3>7. place \in Nat \ {0} /\ top \in Nat
      BY <1>1, <3>1, PowersArePositive
    <3> HIDE DEF bound, power, unit, above, rounded, place, top
    <3>8. /\ m < top => m * place + place <= top * place
          /\ top < m => top * place + place <= m * place
      BY <3>7, MultiplesCompare
    <3>9. ~(top < m)
      BY <1>2, <2>2, <3>2, <3>4, <3>7, <3>8
    <3>10. rounded \in Nat /\ rounded <= power
      BY <3>2, <3>4, <3>7, <3>8, <3>9
    <3>11. CASE g # power
      BY <1>2, <2>3, <3>10, <3>11 DEF rounded, unit, power
    <3>12. CASE g = power
      <4>1. rounded = g <=> 2 * g <= 2 * v + place
        <5>1. CASE m = top
          BY <3>2, <3>4, <3>12, <5>1
        <5>2. CASE m < top
          BY <1>2, <3>2, <3>4, <3>7, <3>8, <3>12, <5>2
        <5>3. QED
          BY <3>7, <3>9, <5>1, <5>2
      <4>2. v < g
        BY <1>2, <2>2
      <4>3. Close(v, g, unit, power) <=> 20 * (g - v) <= unit
        BY <1>2, <3>12, <4>2 DEF Close
      <4>4. QED
        BY <1>2, <3>6, <3>7, <4>1, <4>2, <4>3 DEF rounded, unit, power
    <3>13. QED
      BY <3>11, <3>12
  <2>7. QED
    BY <1>1, <1>3, <1>7, <2>4, <2>5, <2>6
<1>8. QED
  BY <1>1, <1>3, <1>5, <1>6, <1>7

\* A figure as it may be written, see GrainsAssumption.
IsFigure(w) == w.digits \in Nat /\ w.places \in 0 .. GrainPlaces + Power(w)

LEMMA FigurePlaces ==
  ASSUME NEW w, IsFigure(w)
  PROVE  GrainPlaces + Power(w) - w.places \in Nat
<1>1. GrainPlaces \in Nat /\ Power(w) \in Nat
  BY GroundingAssumption DEF Power
<1>2. QED
  BY <1>1 DEF IsFigure

LEMMA ZeroHasNoZeros == TrailingZeros(0) = 0
<1> DEFINE f == CHOOSE f : IsZeros(0, f)
<1>1. TrailingZeros(0) = f[0]
  BY DEF TrailingZeros, IsZeros
<1>2. IsZeros(0, f)
  BY ZerosExist
<1> HIDE DEF f
<1>3. QED
  BY <1>1, <1>2 DEF IsZeros

\* Nothing but zero rounds to zero.
LEMMA ZeroRounds ==
  ASSUME NEW v \in Nat, NEW s \in Nat \ {0}
  PROVE  RoundToSignificant(v, s) = 0 <=> v = 0
<1>1. Length(v) \in Nat \ {0} /\ (v # 0 => TenTo(Length(v) - 1) <= v)
  BY LengthsSpan DEF Spans
<1>2. CASE Length(v) <= s
  BY <1>2 DEF RoundToSignificant
<1>3. CASE s < Length(v)
  <2> DEFINE unit == TenTo(Length(v) - s)
  <2>1. unit \in Nat \ {0}
        /\ \E m \in Nat : /\ RoundToSignificant(v, s) = m * unit
                          /\ m * unit \in Nat
                          /\ 2 * (m * unit) <= 2 * v + unit
                          /\ 2 * v + unit < 2 * (m * unit) + 2 * unit
    BY <1>3, RoundingIs
  <2>2. v # 0 => unit <= v
    <3>1. /\ Length(v) - s \in Nat /\ Length(v) - 1 \in Nat /\ Length(v) - s <= Length(v) - 1
      BY <1>1, <1>3
    <3> DEFINE first == TenTo(Length(v) - 1)
    <3>2. unit <= first /\ first \in Nat
      BY <3>1, PowersGrow, PowersArePositive
    <3>3. v # 0 => first <= v
      BY <1>1
    <3> HIDE DEF unit, first
    <3>4. QED
      BY <2>1, <3>2, <3>3
  <2> HIDE DEF unit
  <2>3. PICK m \in Nat : /\ RoundToSignificant(v, s) = m * unit
                         /\ m * unit \in Nat
                         /\ 2 * (m * unit) <= 2 * v + unit
                         /\ 2 * v + unit < 2 * (m * unit) + 2 * unit
    BY <2>1
  <2> DEFINE rounded == m * unit
  <2>4. /\ rounded \in Nat /\ 2 * rounded <= 2 * v + unit /\ 2 * v + unit < 2 * rounded + 2 * unit
    BY <2>3
  <2> HIDE DEF rounded
  <2>5. v # 0 => rounded # 0
    BY <2>1, <2>2, <2>4
  <2>6. v = 0 => rounded = 0
    <3>1. CASE m = 0
      BY <2>1, <3>1 DEF rounded
    <3>2. CASE m # 0
      <4>1. 1 * unit <= m * unit
        BY <2>1, <3>2, MultiplesCompare
      <4>2. QED
        BY <2>1, <2>4, <4>1 DEF rounded
    <3>3. QED
      BY <3>1, <3>2
  <2>7. QED
    BY <2>3, <2>5, <2>6 DEF rounded
<1>4. QED
  BY <1>1, <1>2, <1>3

\* A figure but zero is its significant digits, with zeros for the places
\* below the last one its author vouches for.
LEMMA FigureIsWritten ==
  ASSUME NEW w, IsFigure(w), w.digits # 0
  PROVE  \E u, q : /\ Written(Grains(w), SignificantDigits(w), u, q)
                   /\ LastPlace(w) = TenTo(u)
<1> DEFINE k == GrainPlaces + Power(w) - w.places
           n == w.digits
           length == Length(n)
           zeros == TrailingZeros(n)
<1>1. k \in Nat /\ n \in Nat \ {0} /\ w.places \in Nat
  <2>1. GrainPlaces + Power(w) \in Int
    BY GroundingAssumption DEF Power
  <2>2. QED
    BY <2>1, FigurePlaces DEF IsFigure
<1>2. length \in Nat \ {0} /\ n < TenTo(length) /\ TenTo(length - 1) <= n
  BY <1>1, LengthsSpan DEF Spans
<1>3. Grains(w) = n * TenTo(k)
  BY DEF Grains
<1>4. CASE w.places > 0
  <2>1. SignificantDigits(w) = length /\ LastPlace(w) = TenTo(k + 0) /\ k + 0 = k
    BY <1>1, <1>4 DEF SignificantDigits, LastPlace
  <2>2. Written(Grains(w), length, k, n)
    <3> HIDE DEF k, length, n
    <3>1. QED
      BY <1>1, <1>2, <1>3 DEF Written
  <2>3. QED
    BY <2>1, <2>2
<1>5. CASE ~(w.places > 0)
  <2>1. zeros \in Nat
    BY <1>1, ZerosDivide
  <2>2. PICK q \in Nat : n = q * TenTo(zeros)
    BY <1>1, ZerosDivide
  <2>3. SignificantDigits(w) = length - zeros /\ LastPlace(w) = TenTo(k + zeros)
    BY <1>5 DEF SignificantDigits, LastPlace
  <2> DEFINE unit == TenTo(zeros)
  <2>4. unit \in Nat \ {0} /\ q # 0
    <3>1. unit \in Nat \ {0}
      BY <2>1, PowersArePositive
    <3> HIDE DEF unit, n
    <3>2. q = 0 => q * unit = 0
      BY <3>1
    <3>3. n = q * unit
      BY <2>2 DEF unit, n
    <3>4. QED
      BY <1>1, <3>1, <3>2, <3>3
  <2>5. unit <= n
    <3> HIDE DEF unit, n
    <3>1. 1 * unit <= q * unit
      BY <2>4, MultiplesCompare
    <3>2. n = q * unit
      BY <2>2 DEF unit, n
    <3>3. QED
      BY <1>1, <2>4, <3>1, <3>2
  <2>6. zeros < length
    <3>1. SUFFICES ASSUME length <= zeros PROVE FALSE
      BY <1>2, <2>1
    <3> DEFINE top == TenTo(length)
    <3>2. top <= unit /\ top \in Nat
      BY <1>2, <2>1, <3>1, PowersGrow, PowersArePositive
    <3>3. n < top
      BY <1>2
    <3> HIDE DEF unit, n, top
    <3>4. QED
      BY <1>1, <2>4, <2>5, <3>2, <3>3
  <2> DEFINE s == length - zeros
  <2>7. s \in Nat \ {0} /\ s + zeros = length /\ s - 1 \in Nat /\ (s - 1) + zeros = length - 1
    <3> HIDE DEF length, zeros
    <3>1. QED
      BY <1>2, <2>1, <2>6
  <2>8. TenTo(length) = TenTo(s) * unit /\ TenTo(length - 1) = TenTo(s - 1) * unit
    <3> HIDE DEF s
    <3>1. TenTo(s + zeros) = TenTo(s) * TenTo(zeros)
      BY <2>1, <2>7, PowersMultiply
    <3>2. TenTo((s - 1) + zeros) = TenTo(s - 1) * TenTo(zeros)
      BY <2>1, <2>7, PowersMultiply
    <3>3. QED
      BY <2>7, <3>1, <3>2
  <2>9. TenTo(s) \in Nat /\ TenTo(s - 1) \in Nat
    <3> HIDE DEF s
    <3>1. QED
      BY <2>7, PowersArePositive
  <2>10. q < TenTo(s) /\ TenTo(s - 1) <= q
    <3> DEFINE top == TenTo(s)
               lead == TenTo(s - 1)
    <3>1. n = q * unit /\ n < top * unit /\ lead * unit <= n
      BY <1>2, <2>2, <2>8
    <3>2. top \in Nat /\ lead \in Nat
      BY <2>9
    <3> HIDE DEF unit, n, top, lead
    <3>3. /\ top <= q => top * unit <= q * unit
          /\ q < lead => q * unit + unit <= lead * unit
      BY <2>4, <3>2, MultiplesCompare
    <3>4. q * unit \in Nat /\ lead * unit \in Nat /\ top * unit \in Nat
      BY <2>4, <3>2, MultiplesCompare
    <3>5. q < top /\ lead <= q
      BY <2>4, <3>1, <3>2, <3>3, <3>4
    <3>6. QED
      BY <3>5 DEF top, lead
  <2>11. Grains(w) = q * TenTo(k + zeros)
    <3>1. TenTo(k + zeros) = TenTo(k) * TenTo(zeros)
      <4> HIDE DEF k, zeros
      <4>1. QED
        BY <1>1, <2>1, PowersMultiply
    <3> DEFINE scale == TenTo(k)
    <3>2. scale \in Nat
      <4> HIDE DEF k
      <4>1. QED
        BY <1>1, PowersArePositive
    <3>3. Grains(w) = (q * unit) * scale /\ TenTo(k + zeros) = scale * unit
      BY <1>3, <2>2, <3>1
    <3> HIDE DEF scale, unit
    <3>4. (q * unit) * scale = q * (scale * unit)
      BY <2>4, <3>2
    <3>5. QED
      BY <3>3, <3>4
  <2>12. Written(Grains(w), s, k + zeros, q)
    <3>1. k + zeros \in Nat
      <4> HIDE DEF k, zeros
      <4>1. QED
        BY <1>1, <2>1
    <3> HIDE DEF s, k, zeros
    <3>2. QED
      BY <2>7, <2>10, <2>11, <3>1 DEF Written
  <2>13. QED
    BY <2>3, <2>12
<1>6. QED
  BY <1>4, <1>5

\* What rounds to what is written is what the written figure justifies.
LEMMA RoundingJustifies ==
  ASSUME NEW w, IsFigure(w), NEW v \in Nat
  PROVE  /\ Grains(w) \in Nat
         /\ RoundToSignificant(v, SignificantDigits(w))
              = RoundToSignificant(Grains(w), SignificantDigits(w))
            <=> Justifies(v, w)
<1> DEFINE g == Grains(w)
           s == SignificantDigits(w)
<1>1. CASE w.digits = 0
  <2>1. g = 0
    <3> DEFINE scale == TenTo(GrainPlaces + Power(w) - w.places)
    <3>1. scale \in Nat
      BY FigurePlaces, PowersArePositive
    <3>2. g = 0 * scale
      BY <1>1 DEF Grains
    <3> HIDE DEF scale
    <3>3. QED
      BY <3>1, <3>2
  <2>2. s \in Nat \ {0}
    <3>1. Length(0) \in Nat \ {0}
      BY LengthsSpan DEF Spans
    <3>2. QED
      BY <1>1, <3>1, ZeroHasNoZeros DEF SignificantDigits
  <2>3. RoundToSignificant(g, s) = 0 /\ (RoundToSignificant(v, s) = 0 <=> v = 0)
    BY <2>1, <2>2, ZeroRounds
  <2>4. Justifies(v, w) <=> v = 0
    BY <2>1 DEF Justifies
  <2>5. QED
    BY <2>1, <2>3, <2>4
<1>2. CASE w.digits # 0
  <2>1. PICK u, q : Written(g, s, u, q) /\ LastPlace(w) = TenTo(u)
    BY <1>2, FigureIsWritten
  <2> HIDE DEF g, s
  <2> DEFINE unit == TenTo(u)
             power == TenTo((s + u) - 1)
  <2>2. /\ g \in Nat /\ unit \in Nat \ {0} /\ power \in Nat
        /\ power = TenTo(s - 1) * unit /\ unit <= power /\ power <= g
    BY <2>1, WrittenLies
  <2>3. RoundToSignificant(g, s) = g /\ s \in Nat \ {0}
    BY <2>1, WrittenIsRound DEF Written
  <2>4. Justifies(v, w) <=> \/ v = g
                            \/ g > 0 /\ v >= g /\ 2 * (v - g) < unit
                            \/ v > 0 /\ v <= g
                               /\ (IF g = power THEN 20 ELSE 2) * (g - v) <= unit
    BY <2>1, <2>2 DEF Justifies, g, s
  <2>5. g > 0
    <3> HIDE DEF unit, power
    <3>1. QED
      BY <2>2
  <2>6. Justifies(v, w) <=> Close(v, g, unit, power)
    <3> HIDE DEF unit, power
    <3>1. QED
      BY <2>4, <2>5 DEF Close
  <2>7. CASE v = 0
    <3>1. ~Close(v, g, unit, power)
      <4> HIDE DEF unit, power
      <4>1. QED
        BY <2>2, <2>5, <2>7 DEF Close
    <3>2. RoundToSignificant(v, s) = 0
      BY <2>3, <2>7, ZeroRounds
    <3>3. QED
      BY <2>2, <2>3, <2>5, <2>6, <3>1, <3>2 DEF g, s
  <2>8. CASE v # 0
    <3>1. RoundToSignificant(v, s) = g <=> Close(v, g, unit, power)
      BY <2>1, <2>8, RoundingIsClose
    <3>2. QED
      BY <2>2, <2>3, <2>6, <3>1 DEF g, s
  <2>9. QED
    BY <2>7, <2>8
<1>3. QED
  BY <1>1, <1>2

LEMMA Sizes ==
  ASSUME NEW v \in Int
  PROVE  Size(v) \in Nat /\ -v \in Int /\ Size(-v) = Size(v) /\ 100 * Size(v) \in Nat
BY DEF Size

\* The check lets a figure pass exactly when some value, of either sign,
\* justifies it.
LEMMA SupportJustifies ==
  ASSUME NEW w, IsFigure(w), NEW V \in SUBSET Int
  PROVE  IsSupported(w, AllowedValues(V)) <=> Justified(w, V)
<1> DEFINE Fits(v) == \/ Justifies(Size(v), w)
                      \/ w.suffix = "%" /\ Justifies(100 * Size(v), w)
<1>1. ASSUME NEW v \in Int
      PROVE  (LET rounded(x) == RoundToSignificant(x, SignificantDigits(w))
              IN  \/ Size(v) = Grains(w)
                  \/ rounded(Size(v)) = rounded(Grains(w))
                  \/ w.suffix = "%" /\ rounded(100 * Size(v)) = rounded(Grains(w)))
             <=> Fits(v)
  <2>1. Size(v) \in Nat /\ 100 * Size(v) \in Nat
    BY Sizes
  <2>2. RoundToSignificant(Size(v), SignificantDigits(w))
          = RoundToSignificant(Grains(w), SignificantDigits(w)) <=> Justifies(Size(v), w)
    BY <2>1, RoundingJustifies
  <2>3. RoundToSignificant(100 * Size(v), SignificantDigits(w))
          = RoundToSignificant(Grains(w), SignificantDigits(w)) <=> Justifies(100 * Size(v), w)
    BY <2>1, RoundingJustifies
  <2>4. Size(v) = Grains(w) => Justifies(Size(v), w)
    BY DEF Justifies
  <2>5. QED
    BY <2>2, <2>3, <2>4
<1>2. AllowedValues(V) \in SUBSET Int
  BY Sizes DEF AllowedValues
<1>3. IsSupported(w, AllowedValues(V)) <=> \E v \in AllowedValues(V) : Fits(v)
  BY <1>1, <1>2 DEF IsSupported
<1>4. \A v \in V : Fits(-v) <=> Fits(v)
  BY Sizes
<1>5. Justified(w, V) <=> \E v \in V : Fits(v)
  BY DEF Justified
<1> HIDE DEF Fits
<1>6. (\E v \in AllowedValues(V) : Fits(v)) <=> \E v \in V : Fits(v)
  BY <1>4 DEF AllowedValues
<1>7. QED
  BY <1>3, <1>5, <1>6

(***************************************************************************)
(* The chain of providers and the list of reports                          *)
(***************************************************************************)
Providers == {Default} \cup Optional
Chains == {chain \in Seq(Providers) : Len(chain) \in Nat \ {0}}
IsChain(chain) ==
  chain = [n \in 0 .. Len(Fallbacks) |->
            IF n = 0 THEN <<Default>>
            ELSE IF Fallbacks[n] \in ToSet(chain[n - 1]) THEN chain[n - 1]
            ELSE Append(chain[n - 1], Fallbacks[n])]

LEMMA ChainGrows ==
  ASSUME NEW chain \in Chains, NEW p \in Providers
  PROVE  Append(chain, p) \in Chains
BY DEF Chains

\* There is always a provider to ask.
LEMMA ChainIsLong == Chain \in Chains
<1> DEFINE last == Len(Fallbacks)
           Grown(n, x) == IF n \notin 1..last \/ Fallbacks[n] \in ToSet(x) THEN x
                          ELSE Append(x, Fallbacks[n])
           step == [n \in Nat |-> [x \in Chains |-> Grown(n, x)]]
<1>1. last \in Nat /\ \A n \in 1..last : Fallbacks[n] \in Providers
  BY ResearchAssumption DEF Providers
<1>2. <<Default>> \in Chains
  BY DEF Chains, Providers
<1>3. step \in [Nat -> [Chains -> Chains]]
      /\ \A n \in Nat : \A x \in Chains : step[n][x] = Grown(n, x)
  BY <1>1, ChainGrows
<1>4. \E f : IsChain(f)
  <2> HIDE DEF step
  <2>1. PICK f : Iterates(f, last, Chains, <<Default>>, step)
    BY <1>1, <1>2, <1>3, IterationExists
  <2>2. \A n \in 0..last : n # 0 => n \in Nat /\ n \in 1..last /\ f[n - 1] \in Chains
    BY <1>1, <2>1 DEF Iterates
  <2>3. \A n \in 0..last : f[n] = IF n = 0 THEN <<Default>>
                                  ELSE IF Fallbacks[n] \in ToSet(f[n - 1]) THEN f[n - 1]
                                  ELSE Append(f[n - 1], Fallbacks[n])
    BY <1>3, <2>1, <2>2 DEF Iterates
  <2>4. f = [n \in 0..last |-> f[n]]
    BY <2>1 DEF Iterates
  <2>5. QED
    BY <2>3, <2>4 DEF IsChain
<1> DEFINE f == CHOOSE f : IsChain(f)
<1>5. Chain = f[last]
  BY DEF Chain, IsChain
<1>6. IsChain(f)
  BY <1>4
<1> HIDE DEF f, step
<1>7. \A n \in 0..last : f[n] = IF n = 0 THEN <<Default>>
                                ELSE IF Fallbacks[n] \in ToSet(f[n - 1]) THEN f[n - 1]
                                ELSE Append(f[n - 1], Fallbacks[n])
  BY <1>6 DEF IsChain
<1> DEFINE S == {n \in Nat : n <= last => f[n] \in Chains}
<1>8. 0 \in S
  BY <1>1, <1>2, <1>7
<1>9. ASSUME NEW n \in S PROVE n + 1 \in S
  <2> SUFFICES ASSUME n + 1 <= last PROVE f[n + 1] \in Chains
    OBVIOUS
  <2> DEFINE m == n + 1
  <2>1. m \in 0..last /\ m \in 1..last /\ m # 0 /\ m - 1 = n /\ f[n] \in Chains
    BY <1>1
  <2> HIDE DEF m
  <2>2. f[m] \in Chains
    BY <1>1, <1>7, <2>1, ChainGrows
  <2>3. QED
    BY <2>2 DEF m
<1>10. S = Nat
  <2> HIDE DEF S
  <2>1. S \in SUBSET Nat
    BY DEF S
  <2>2. QED
    BY <1>8, <1>9, <2>1, NumbersReached
<1>11. QED
  BY <1>1, <1>5, <1>10

\* A list shows only reports on record, and only publishable ones when asked
\* for those.
LEMMA ListedAreShown ==
  ASSUME flushed \in Seq(Requests), NEW only, NEW r \in ToSet(Listed(only))
  PROVE  r \in committed /\ (only => IsPublishable(row[r]))
<1> DEFINE last == Len(flushed)
           Shown(q) == q \in committed /\ (only => IsPublishable(row[q]))
           All == {q \in Requests : Shown(q)}
           More(n, x) == IF n \in 1..last /\ Shown(flushed[n]) THEN <<flushed[n]>> \o x ELSE x
           step == [n \in Nat |-> [x \in Seq(All) |-> More(n, x)]]
           IsList(f) == f = [n \in 0..last |->
                              IF n = 0 THEN << >>
                              ELSE IF Shown(flushed[n]) THEN <<flushed[n]>> \o f[n - 1]
                              ELSE f[n - 1]]
<1> HIDE DEF Shown
<1>1. last \in Nat /\ \A n \in 1..last : flushed[n] \in Requests
  OBVIOUS
<1>2. ASSUME NEW q \in All, NEW x \in Seq(All) PROVE <<q>> \o x \in Seq(All)
  OBVIOUS
<1>3. ASSUME NEW n \in Nat, NEW x \in Seq(All) PROVE More(n, x) \in Seq(All)
  <2>1. CASE n \in 1..last /\ Shown(flushed[n])
    <3>1. flushed[n] \in All
      BY <1>1, <2>1
    <3> HIDE DEF All
    <3>2. QED
      BY <1>2, <2>1, <3>1
  <2>2. CASE ~(n \in 1..last /\ Shown(flushed[n]))
    BY <2>2
  <2>3. QED
    BY <2>1, <2>2
<1> HIDE DEF All, More
<1>4. step \in [Nat -> [Seq(All) -> Seq(All)]]
      /\ \A n \in Nat : \A x \in Seq(All) : step[n][x] = More(n, x)
  BY <1>3
<1>5. << >> \in Seq(All)
  OBVIOUS
<1>6. \E f : IsList(f)
  <2> HIDE DEF step
  <2>1. PICK f : Iterates(f, last, Seq(All), << >>, step)
    BY <1>1, <1>4, <1>5, IterationExists
  <2>2. \A n \in 0..last : n # 0 => n \in Nat /\ n \in 1..last /\ f[n - 1] \in Seq(All)
    BY <1>1, <2>1 DEF Iterates
  <2>3. \A n \in 0..last : n # 0 => f[n] = More(n, f[n - 1])
    BY <1>4, <2>1, <2>2 DEF Iterates
  <2>4. \A n \in 0..last : f[n] = IF n = 0 THEN << >>
                                  ELSE IF Shown(flushed[n]) THEN <<flushed[n]>> \o f[n - 1]
                                  ELSE f[n - 1]
    BY <2>1, <2>2, <2>3 DEF More, Iterates
  <2>5. f = [n \in 0..last |-> f[n]]
    BY <2>1 DEF Iterates
  <2>6. QED
    BY <2>4, <2>5
<1> DEFINE f == CHOOSE f : IsList(f)
           found == f[last]
           end == IF Len(found) < PageLimit THEN Len(found) ELSE PageLimit
<1>7. Listed(only) = SubSeq(found, 1, end)
  BY DEF Listed, Shown
<1>8. IsList(f)
  BY <1>6
<1> HIDE DEF f, step
<1>9. \A n \in 0..last : f[n] = IF n = 0 THEN << >>
                                ELSE IF Shown(flushed[n]) THEN <<flushed[n]>> \o f[n - 1]
                                ELSE f[n - 1]
  BY <1>8
<1> HIDE DEF IsList
<1> DEFINE S == {n \in Nat : n <= last => f[n] \in Seq(All)}
<1>10. 0 \in S
  <2>0. 0 \in 0..last
    BY <1>1
  <2>1. f[0] = << >>
    BY <1>9, <2>0
  <2>2. QED
    BY <1>5, <2>1
<1>11. ASSUME NEW n \in S PROVE n + 1 \in S
  <2> SUFFICES ASSUME n + 1 <= last PROVE f[n + 1] \in Seq(All)
    OBVIOUS
  <2> DEFINE m == n + 1
  <2>1. m \in Nat /\ m \in 0..last /\ m \in 1..last /\ m # 0 /\ m - 1 = n /\ f[n] \in Seq(All)
    BY <1>1
  <2> HIDE DEF m
  <2>2. f[m] = More(m, f[n])
    BY <1>9, <2>1 DEF More
  <2>3. f[m] \in Seq(All)
    BY <1>3, <2>1, <2>2
  <2>4. QED
    BY <2>3 DEF m
<1>12. S = Nat
  <2> HIDE DEF S
  <2>1. S \in SUBSET Nat
    BY DEF S
  <2>2. QED
    BY <1>10, <1>11, <2>1, NumbersReached
<1>13. found \in Seq(All)
  BY <1>1, <1>12
<1> HIDE DEF found
<1>14. Listed(only) \in Seq(All)
  <2>1. end \in Int /\ \A i \in 1..end : found[i] \in All
    BY <1>13, ResearchAssumption
  <2> HIDE DEF end
  <2>2. SubSeq(found, 1, end) \in Seq(All)
    BY <2>1, SubSeqProperties
  <2>3. QED
    BY <1>7, <2>2
<1>15. r \in All
  BY <1>14 DEF ToSet
<1>16. QED
  BY <1>15 DEF All, Shown

(***************************************************************************)
(* Reports and their grades                                                *)
(***************************************************************************)
HasReport(r) ==
  row[r] # None \/ pc[r] \in {"save", "announce", "commit"} \/ r \in committed

\* The client, the chain and the drafting loop stop in time.
Bounded(r) ==
  /\ work[r].calls \in 0..(MaxAttempts - 1)
  /\ work[r].tried \in 0..(Len(Chain) - 1)
  /\ work[r].drafts \in 0..MaxRegenerations

\* A request works on a version that was read, and drafts only where it could
\* be valued.
Evidenced(r) ==
  /\ pc[r] \notin {"new", "over"} \/ HasReport(r) => work[r].version \in Versions
  /\ pc[r] \notin {"new", "computed", "over"} \/ HasReport(r) => ValuationOf(r) # Invalid

\* A report is some draft with the faults that the evidence leaves in it, and
\* has any only when no further draft was allowed.
Graded(r) ==
  HasReport(r) =>
    /\ pc[r] \in {"save", "announce", "commit", "over"}
    /\ \E draft \in Drafts : row[r].figures = draft.figures
    /\ row[r].version = work[r].version
    /\ row[r].unsupported = Unsupported(row[r].figures, Evidence(r))
    /\ row[r].unsupported # {} => row[r].regenerations = MaxRegenerations

\* A report on record was written, and was announced as withheld only if it is.
Stored(r) ==
  /\ pc[r] \in {"announce", "commit"} \/ r \in committed => r \in ToSet(flushed)
  /\ r \in committed => pc[r] = "over"
  /\ <<"withheld", r>> \in announced =>
       pc[r] \in {"commit", "over"} /\ (HasReport(r) => ~IsPublishable(row[r]))

Handled(r) == Bounded(r) /\ Evidenced(r) /\ Graded(r) /\ Stored(r)

GradesInv ==
  /\ registered \subseteq {Default} \cup Optional /\ Default \in registered
  /\ flushed \in Seq(Requests) /\ committed \subseteq Requests
  /\ \A r \in Requests : Handled(r)

LEMMA InitGrades == Init => GradesInv
<1> SUFFICES ASSUME Init PROVE GradesInv
  OBVIOUS
<1>1. registered \subseteq {Default} \cup Optional /\ Default \in registered
  BY DEF Init, BuildRegistry
<1>2. flushed \in Seq(Requests) /\ committed \subseteq Requests
  BY DEF Init
<1>3. ASSUME NEW r \in Requests PROVE Handled(r)
  <2>1. work[r] = Fresh /\ pc[r] = "new" /\ row[r] = None /\ r \notin committed /\ announced = {}
    BY DEF Init
  <2>2. Len(Chain) \in Nat \ {0}
    BY ChainIsLong DEF Chains
  <2>3. Bounded(r)
    BY <2>1, <2>2, ResearchAssumption DEF Bounded, Fresh
  <2>4. ~HasReport(r)
    BY <2>1 DEF HasReport
  <2>5. QED
    BY <2>1, <2>3, <2>4 DEF Handled, Evidenced, Graded, Stored
<1>4. QED
  BY <1>1, <1>2, <1>3 DEF GradesInv

\* What a request has is untouched by the steps of the others.
LEMMA OthersAreHandled ==
  ASSUME NEW q \in Requests, Handled(q),
         pc'[q] = pc[q], work'[q] = work[q], row'[q] = row[q],
         q \in committed' <=> q \in committed, ToSet(flushed) \subseteq ToSet(flushed)',
         <<"withheld", q>> \in announced' => <<"withheld", q>> \in announced
  PROVE  Handled(q)'
<1>1. Bounded(q)' /\ (HasReport(q)' <=> HasReport(q)) /\ Evidence(q)' = Evidence(q)
      /\ ValuationOf(q)' = ValuationOf(q)
  BY DEF Handled, Bounded, HasReport, Evidence, ValuationOf
<1>2. Evidenced(q)' /\ Graded(q)' /\ Stored(q)'
  BY <1>1 DEF Handled, Evidenced, Graded, Stored
<1>3. QED
  BY <1>1, <1>2 DEF Handled

\* So a step of one request is sound when it leaves that one sound.
LEMMA OneIsHandled ==
  ASSUME GradesInv, NEW r \in Requests, Handled(r)', UNCHANGED registered,
         flushed' \in Seq(Requests), ToSet(flushed) \subseteq ToSet(flushed)',
         committed' \subseteq committed \cup {r}, committed \subseteq committed',
         \A q \in Requests \ {r} : /\ pc'[q] = pc[q] /\ work'[q] = work[q] /\ row'[q] = row[q]
                                   /\ <<"withheld", q>> \in announced'
                                        => <<"withheld", q>> \in announced
  PROVE  GradesInv'
<1>1. ASSUME NEW q \in Requests \ {r} PROVE Handled(q)'
  BY OthersAreHandled DEF GradesInv
<1>2. QED
  BY <1>1 DEF GradesInv

\* A failure leaves no report.
LEMMA FailKeepsGrades ==
  ASSUME ResearchInv, GradesInv, NEW r \in Requests, NEW error, FailWith(r, error),
         pc[r] # "over"
  PROVE  GradesInv'
<1>1. /\ pc'[r] = "over" /\ row'[r] = None
      /\ work'[r] = [Fresh EXCEPT !.refused = work[r].refused]
      /\ UNCHANGED <<registered, flushed, committed, announced>>
      /\ \A q \in Requests \ {r} : pc'[q] = pc[q] /\ work'[q] = work[q] /\ row'[q] = row[q]
  BY DEF FailWith, GoTo, store, ResearchInv, WorkShape
<1>2. r \notin committed
  BY DEF GradesInv, Handled, Stored
<1>3. ~HasReport(r)'
  BY <1>1, <1>2 DEF HasReport
<1>4. Bounded(r)'
  <2>1. Len(Chain) \in Nat \ {0} /\ Chain' = Chain
    BY ChainIsLong DEF Chains, Chain
  <2>2. work'[r].calls = 0 /\ work'[r].tried = 0 /\ work'[r].drafts = 0
    BY <1>1 DEF Fresh
  <2>3. QED
    BY <2>1, <2>2, ResearchAssumption DEF Bounded
<1>5. Handled(r)'
  BY <1>1, <1>2, <1>3, <1>4 DEF Handled, Evidenced, Graded, Stored
<1>6. QED
  BY <1>1, <1>5, OneIsHandled DEF GradesInv

LEMMA StepGrades ==
  ResearchInv /\ ResearchInv' /\ GradesInv /\ [Next]_vars => GradesInv'
<1> SUFFICES ASSUME ResearchInv, ResearchInv', GradesInv, [Next]_vars PROVE GradesInv'
  OBVIOUS
<1>a. Len(Chain) \in Nat \ {0} /\ Chain' = Chain /\ MaxAttempts \in Nat \ {0}
      /\ MaxRegenerations \in Nat
  BY ChainIsLong, ResearchAssumption DEF Chains, Chain
<1>b. ASSUME NEW r \in Requests
      PROVE  /\ Bounded(r) /\ Evidenced(r) /\ Graded(r) /\ Stored(r)
             /\ work[r].calls \in 0..(MaxAttempts - 1) /\ work[r].tried \in 0..(Len(Chain) - 1)
             /\ work[r].drafts \in 0..MaxRegenerations
             /\ r \in committed => pc[r] = "over"
             /\ row[r] # None => pc[r] \in {"save", "announce", "commit", "over"}
             /\ <<"withheld", r>> \in announced => pc[r] \in {"commit", "over"}
  BY DEF GradesInv, Handled, Bounded, Stored, Graded, HasReport
<1>c. /\ flushed \in Seq(Requests) /\ pc \in [Requests -> Locations]
      /\ work \in [Requests -> Progresses] /\ row = [r \in Requests |-> row[r]]
      /\ onFile \in Versions \cup {None}
  BY DEF GradesInv, ResearchInv, WorkShape
\* Before it has a report a request need only stay in bounds.
<1>d. ASSUME NEW r \in Requests, pc[r] \in {"new", "computed", "context", "draft"},
             pc'[r] \in {"new", "computed", "context", "draft"}, Bounded(r)',
             pc'[r] # "new" => work'[r].version \in Versions,
             pc'[r] \in {"context", "draft"} => ValuationOf(r)' # Invalid,
             \A q \in Requests \ {r} : pc'[q] = pc[q] /\ work'[q] = work[q],
             UNCHANGED <<registered, row, store>>
      PROVE  GradesInv'
  <2>1. ~HasReport(r)' /\ r \notin committed /\ <<"withheld", r>> \notin announced
    BY <1>b, <1>d DEF HasReport, store
  <2>2. Handled(r)'
    BY <1>d, <2>1 DEF Handled, Evidenced, Graded, Stored, store
  <2>3. QED
    BY <1>c, <1>d, <2>2, OneIsHandled DEF store
<1>1. ASSUME NEW r \in Requests, Load(r) PROVE GradesInv'
  <2>1. CASE FailWith(r, "not found") \/ FailWith(r, "invalid")
    BY <1>1, <1>b, <2>1, FailKeepsGrades DEF Load
  <2>2. ASSUME onFile # None, NEW asked \in BOOLEAN,
               work' = [work EXCEPT ![r].version = onFile, ![r].valuing = asked],
               GoTo(r, "computed"), UNCHANGED <<registered, onFile, row, store, answer>>
        PROVE  GradesInv'
    <3>1. /\ work'[r].version = onFile /\ work'[r].calls = work[r].calls
          /\ work'[r].tried = work[r].tried /\ work'[r].drafts = work[r].drafts
      BY <1>c, <2>2 DEF Progresses
    <3>2. Bounded(r)'
      BY <1>a, <1>b, <3>1 DEF Bounded
    <3>3. QED
      BY <1>1, <1>c, <1>d, <2>2, <3>1, <3>2 DEF Load, GoTo
  <2>3. QED
    BY <1>1, <2>1, <2>2 DEF Load
<1>2. ASSUME NEW r \in Requests, Value(r) PROVE GradesInv'
  <2>1. CASE ValuationOf(r) = Invalid
    BY <1>2, <1>b, <2>1, FailKeepsGrades DEF Value
  <2>2. CASE ValuationOf(r) # Invalid
    <3>1. Bounded(r)' /\ ValuationOf(r)' # Invalid /\ work'[r].version \in Versions
      BY <1>2, <1>a, <1>b, <2>2 DEF Value, Bounded, ValuationOf, Evidenced
    <3>2. QED
      BY <1>2, <1>c, <1>d, <2>2, <3>1 DEF Value, GoTo
  <2>3. QED
    BY <2>1, <2>2
<1>3. ASSUME NEW r \in Requests, AskMarketMind(r) PROVE GradesInv'
  <2>1. CASE FailWith(r, "error")
    BY <1>3, <1>b, <2>1, FailKeepsGrades DEF AskMarketMind
  <2>2. ASSUME NEW n \in 0..(MaxAttempts - 1), Progress(r, "calls", n),
               pc' = pc \/ GoTo(r, "draft"), UNCHANGED <<registered, onFile, row, store, answer>>
        PROVE  GradesInv'
    <3>1. /\ work'[r].calls = n /\ work'[r].tried = work[r].tried
          /\ work'[r].drafts = work[r].drafts /\ work'[r].version = work[r].version
          /\ work'[r].valuing = work[r].valuing
          /\ \A q \in Requests \ {r} : work'[q] = work[q]
      BY <1>c, <2>2 DEF Progress, Progresses
    <3>2. Bounded(r)' /\ ValuationOf(r)' = ValuationOf(r)
      BY <1>a, <1>b, <3>1 DEF Bounded, ValuationOf
    <3>3. work[r].version \in Versions /\ ValuationOf(r) # Invalid /\ pc[r] = "context"
      BY <1>3, <1>b DEF Evidenced, AskMarketMind
    <3>4. pc'[r] \in {"context", "draft"} /\ \A q \in Requests \ {r} : pc'[q] = pc[q]
      BY <1>c, <2>2, <3>3 DEF GoTo
    <3>5. QED
      BY <1>d, <2>2, <3>1, <3>2, <3>3, <3>4
  <2>3. 0 \in 0..(MaxAttempts - 1)
    BY <1>a
  <2>4. work[r].calls + 1 < MaxAttempts => work[r].calls + 1 \in 0..(MaxAttempts - 1)
    <3>1. work[r].calls \in 0..(MaxAttempts - 1)
      BY <1>b
    <3>2. QED
      BY <1>a, <3>1
  <2>5. QED
    BY <1>3, <2>1, <2>2, <2>3, <2>4 DEF AskMarketMind
<1>4. ASSUME NEW r \in Requests, RejectChain(r) \/ ProviderGarbles(r) PROVE GradesInv'
  BY <1>4, <1>b, FailKeepsGrades DEF RejectChain, ProviderGarbles, Asking
<1>5. ASSUME NEW r \in Requests, NEW refused \in BOOLEAN, Declined(r, refused)
      PROVE  GradesInv'
  <2>1. pc[r] = "draft"
    BY <1>5 DEF Declined, Asking
  <2>2. CASE IsLast(r)
    BY <1>5, <1>b, <2>1, <2>2, FailKeepsGrades DEF Declined
  <2>3. CASE ~IsLast(r)
    <3>1. work' = [work EXCEPT ![r].tried = @ + 1, ![r].refused = refused]
          /\ UNCHANGED <<registered, onFile, pc, row, store, answer>>
      BY <1>5, <2>3 DEF Declined
    <3>2. /\ work'[r].calls = work[r].calls /\ work'[r].tried = work[r].tried + 1
          /\ work'[r].drafts = work[r].drafts /\ work'[r].version = work[r].version
          /\ work'[r].valuing = work[r].valuing
          /\ \A q \in Requests \ {r} : work'[q] = work[q]
      BY <1>c, <3>1 DEF Progresses
    <3>a. work[r].tried \in 0..(Len(Chain) - 1) /\ work[r].tried + 1 # Len(Chain)
      BY <1>b, <2>3 DEF IsLast
    <3>b. work[r].tried + 1 \in 0..(Len(Chain) - 1)
      BY <1>a, <3>a
    <3>3. Bounded(r)' /\ ValuationOf(r)' = ValuationOf(r)
      BY <1>a, <1>b, <3>2, <3>b DEF Bounded, ValuationOf
    <3>4. work[r].version \in Versions /\ ValuationOf(r) # Invalid
      BY <1>b, <2>1 DEF Evidenced
    <3>5. QED
      BY <1>d, <2>1, <3>1, <3>2, <3>3, <3>4
  <2>4. QED
    BY <2>2, <2>3
<1>6. ASSUME NEW r \in Requests, ProviderFails(r) \/ ProviderRefuses(r) PROVE GradesInv'
  <2>1. work[r].refused \in BOOLEAN
    BY <1>c, FieldTypes
  <2>2. QED
    BY <1>5, <1>6, <2>1 DEF ProviderFails, ProviderRefuses
<1>7. ASSUME NEW r \in Requests, ProviderDrafts(r) PROVE GradesInv'
  <2>1. PICK draft \in Drafts :
          IF Unsupported(draft.figures, Evidence(r)) # {} /\ work[r].drafts < MaxRegenerations
            THEN /\ work' = [work EXCEPT ![r].drafts = @ + 1, ![r].tried = 0,
                                         ![r].refused = FALSE]
                 /\ UNCHANGED <<pc, row>>
            ELSE /\ row' = [row EXCEPT ![r] = Report(r, draft)]
                 /\ work' = [work EXCEPT ![r].tried = 0, ![r].refused = FALSE]
                 /\ GoTo(r, "save")
    BY <1>7 DEF ProviderDrafts
  <2>2. pc[r] = "draft" /\ UNCHANGED <<registered, store>>
    BY <1>7 DEF ProviderDrafts, Asking
  <2>3. work[r].version \in Versions /\ ValuationOf(r) # Invalid
    BY <1>b, <2>2 DEF Evidenced
  <2>4. ASSUME /\ work'[r].calls = work[r].calls /\ work'[r].tried = 0
               /\ work'[r].version = work[r].version /\ work'[r].valuing = work[r].valuing
               /\ work'[r].drafts \in 0..MaxRegenerations
        PROVE  Bounded(r)' /\ ValuationOf(r)' = ValuationOf(r) /\ Evidence(r)' = Evidence(r)
    <3>1. 0 \in 0..(Len(Chain) - 1)
      BY <1>a
    <3>2. Bounded(r)'
      BY <1>a, <1>b, <2>4, <3>1 DEF Bounded
    <3>3. QED
      BY <2>4, <3>2 DEF ValuationOf, Evidence
  <2>5. CASE /\ Unsupported(draft.figures, Evidence(r)) # {}
             /\ work[r].drafts < MaxRegenerations
    <3>1. /\ work' = [work EXCEPT ![r].drafts = @ + 1, ![r].tried = 0, ![r].refused = FALSE]
          /\ UNCHANGED <<pc, row>>
      BY <2>1, <2>5
    <3>2. /\ work'[r].calls = work[r].calls /\ work'[r].tried = 0
          /\ work'[r].drafts = work[r].drafts + 1 /\ work'[r].version = work[r].version
          /\ work'[r].valuing = work[r].valuing
          /\ \A q \in Requests \ {r} : work'[q] = work[q]
      BY <1>c, <3>1 DEF Progresses
    <3>3. work'[r].drafts \in 0..MaxRegenerations
      <4>1. work[r].drafts \in 0..MaxRegenerations
        BY <1>b
      <4>2. work[r].drafts + 1 \in 0..MaxRegenerations
        BY <1>a, <2>5, <4>1
      <4>3. QED
        BY <3>2, <4>2
    <3>4. QED
      BY <1>d, <2>2, <2>3, <2>4, <3>1, <3>2, <3>3
  <2>6. CASE ~(/\ Unsupported(draft.figures, Evidence(r)) # {}
               /\ work[r].drafts < MaxRegenerations)
    <3>1. /\ row' = [row EXCEPT ![r] = Report(r, draft)]
          /\ work' = [work EXCEPT ![r].tried = 0, ![r].refused = FALSE]
          /\ pc' = [pc EXCEPT ![r] = "save"]
      BY <2>1, <2>6 DEF GoTo
    <3>2. /\ work'[r].calls = work[r].calls /\ work'[r].tried = 0
          /\ work'[r].drafts = work[r].drafts /\ work'[r].version = work[r].version
          /\ work'[r].valuing = work[r].valuing
          /\ \A q \in Requests \ {r} : work'[q] = work[q]
      BY <1>c, <3>1 DEF Progresses
    <3>3. Bounded(r)' /\ ValuationOf(r)' = ValuationOf(r) /\ Evidence(r)' = Evidence(r)
      BY <1>b, <2>4, <3>2 DEF Bounded
    <3>4. /\ row'[r] = Report(r, draft) /\ pc'[r] = "save"
          /\ \A q \in Requests \ {r} : row'[q] = row[q] /\ pc'[q] = pc[q]
      BY <1>c, <3>1
    <3>5. Graded(r)'
      <4>1. /\ row'[r].figures = draft.figures /\ row'[r].version = work'[r].version
            /\ row'[r].unsupported = Unsupported(draft.figures, Evidence(r))
            /\ row'[r].regenerations = work[r].drafts
        BY <3>2, <3>4 DEF Report
      <4>2. row'[r].unsupported # {} => work[r].drafts = MaxRegenerations
        <5>1. work[r].drafts \in 0..MaxRegenerations
          BY <1>b
        <5>2. row'[r].unsupported # {} => ~(work[r].drafts < MaxRegenerations)
          BY <2>6, <4>1
        <5>3. QED
          BY <1>a, <5>1, <5>2
      <4>3. QED
        BY <3>3, <3>4, <4>1, <4>2 DEF Graded
    <3>6. Evidenced(r)'
      BY <2>3, <3>2, <3>3 DEF Evidenced
    <3>7. Stored(r)'
      BY <1>b, <2>2, <3>4 DEF Stored, store
    <3>8. QED
      BY <1>c, <2>2, <3>2, <3>3, <3>4, <3>5, <3>6, <3>7, OneIsHandled DEF Handled, store
  <2>7. QED
    BY <2>5, <2>6
\* With a report it need only reach the store and be told of truly.
<1>e. ASSUME NEW r \in Requests, pc[r] \in {"save", "announce", "commit"},
             pc'[r] \in {"announce", "commit", "over"},
             \A q \in Requests \ {r} : /\ pc'[q] = pc[q]
                                       /\ <<"withheld", q>> \in announced'
                                            => <<"withheld", q>> \in announced,
             UNCHANGED <<registered, work, row>>, Stored(r)',
             flushed' \in Seq(Requests), ToSet(flushed) \subseteq ToSet(flushed)',
             committed' \subseteq committed \cup {r}, committed \subseteq committed'
      PROVE  GradesInv'
  <2>1. HasReport(r) /\ Evidence(r)' = Evidence(r) /\ ValuationOf(r)' = ValuationOf(r)
    BY <1>e DEF HasReport, Evidence, ValuationOf
  <2>2. Bounded(r)' /\ Evidenced(r)' /\ Graded(r)'
    BY <1>a, <1>b, <1>e, <2>1 DEF Bounded, Evidenced, Graded
  <2>3. QED
    BY <1>e, <2>2, OneIsHandled DEF Handled
<1>8. ASSUME NEW r \in Requests, Save(r) PROVE GradesInv'
  <2>1. /\ pc[r] = "save" /\ flushed' = Append(flushed, r) /\ pc' = [pc EXCEPT ![r] = "announce"]
        /\ UNCHANGED <<registered, work, row, committed, announced>>
    BY <1>8 DEF Save, GoTo
  <2>2. flushed' \in Seq(Requests) /\ ToSet(flushed)' = ToSet(flushed) \cup {r}
    <3>1. Len(flushed') = Len(flushed) + 1 /\ flushed'[Len(flushed) + 1] = r
          /\ \A i \in 1..Len(flushed) : flushed'[i] = flushed[i]
      BY <1>c, <2>1
    <3>2. flushed' \in Seq(Requests)
      BY <1>c, <2>1
    <3>3. QED
      BY <1>c, <3>1, <3>2 DEF ToSet
  <2>3. pc'[r] = "announce" /\ \A q \in Requests \ {r} : pc'[q] = pc[q]
    BY <1>c, <2>1
  <2>4. Stored(r)'
    BY <1>b, <2>1, <2>2, <2>3 DEF Stored
  <2>5. QED
    BY <1>e, <2>1, <2>2, <2>3, <2>4
<1>9. ASSUME NEW r \in Requests, AnnounceReport(r) PROVE GradesInv'
  <2>1. /\ pc[r] = "announce" /\ pc' = [pc EXCEPT ![r] = "commit"]
        /\ announced' \in {announced, announced \cup {<<Verdict(r), r>>}}
        /\ UNCHANGED <<registered, work, row, flushed, committed>>
    BY <1>9 DEF AnnounceReport, GoTo
  <2>2. pc'[r] = "commit" /\ \A q \in Requests \ {r} : pc'[q] = pc[q]
    BY <1>c, <2>1
  <2>3. \A q \in Requests : <<"withheld", q>> \in announced' =>
          <<"withheld", q>> \in announced \/ (q = r /\ Verdict(r) = "withheld")
    BY <2>1
  <2>4. Stored(r)'
    BY <1>b, <2>1, <2>2, <2>3 DEF Stored, Verdict
  <2>5. QED
    BY <1>c, <1>e, <2>1, <2>2, <2>3, <2>4
<1>10. ASSUME NEW r \in Requests, Commit(r) PROVE GradesInv'
  <2>1. /\ pc[r] = "commit" /\ pc' = [pc EXCEPT ![r] = "over"] /\ committed' = committed \cup {r}
        /\ UNCHANGED <<registered, work, row, flushed, announced>>
    BY <1>10 DEF Commit, GoTo
  <2>2. pc'[r] = "over" /\ \A q \in Requests \ {r} : pc'[q] = pc[q]
    BY <1>c, <2>1
  <2>3. Stored(r)'
    BY <1>b, <2>1, <2>2 DEF Stored, HasReport
  <2>4. QED
    BY <1>c, <1>e, <2>1, <2>2, <2>3
<1>11. ASSUME NEW r \in Requests, Fail(r) PROVE GradesInv'
  BY <1>11, <1>b, FailKeepsGrades DEF Fail
<1>12. CASE Restate \/ UNCHANGED vars
  <2>1. UNCHANGED <<registered, pc, work, row, flushed, committed, announced>>
    BY <1>12 DEF Restate, vars, store
  <2>2. ASSUME NEW q \in Requests PROVE Handled(q)'
    BY <2>1, OthersAreHandled DEF GradesInv
  <2>3. QED
    BY <2>1, <2>2 DEF GradesInv
<1>13. QED
  BY <1>1, <1>2, <1>3, <1>4, <1>6, <1>7, <1>8, <1>9, <1>10, <1>11, <1>12 DEF Next, Advance

LEMMA AlwaysGraded == Spec => []GradesInv
BY AlwaysResearch, InitGrades, StepGrades, PTL DEF Spec

\* The client stops after its attempts, the chain at its last provider and
\* the drafting after its last correction; what is on record was written.
THEOREM RequestsKeepBounds == Spec => []TypeOK
<1>1. ResearchInv /\ GradesInv => TypeOK
  <2> SUFFICES ASSUME ResearchInv, GradesInv PROVE TypeOK
    OBVIOUS
  <2>1. ASSUME NEW r \in Requests
        PROVE  /\ work[r].version \in Versions \cup {None}
               /\ work[r].calls \in 0..(MaxAttempts - 1)
               /\ work[r].tried \in 0..(Len(Chain) - 1)
               /\ work[r].drafts \in 0..MaxRegenerations
               /\ row[r] # None => row[r].version \in Versions
    <3>1. work[r] \in Progresses /\ Handled(r)
      BY DEF ResearchInv, WorkShape, GradesInv
    <3>2. work[r].version \in Versions \cup {None}
      BY <3>1 DEF Progresses
    <3>3. QED
      BY <3>1, <3>2 DEF Handled, Bounded, Evidenced, Graded, HasReport
  <2>2. ToSet(flushed) \subseteq Requests /\ committed \subseteq ToSet(flushed)
    <3>1. flushed \in Seq(Requests) /\ committed \subseteq Requests
          /\ \A r \in committed : r \in ToSet(flushed)
      BY DEF GradesInv, Handled, Stored
    <3>2. ToSet(flushed) \subseteq Requests
      BY <3>1 DEF ToSet
    <3>3. QED
      BY <3>1, <3>2
  <2>3. QED
    BY <2>1, <2>2 DEF TypeOK, GradesInv, ResearchInv, WorkShape
<1>2. QED
  BY <1>1, AlwaysResearch, AlwaysGraded, PTL

\* The faults of a report are the figures its evidence does not justify.
LEMMA FaultsAreUnjustified ==
  ASSUME ResearchInv, GradesInv, NEW r \in Requests, HasReport(r)
  PROVE  row[r].unsupported = {w \in Claims(row[r].figures) : ~Justified(w, EvidenceFor(r))}
<1>1. /\ work[r] \in Progresses /\ work[r].version \in Versions /\ ValuationOf(r) # Invalid
      /\ row[r].version = work[r].version
      /\ row[r].unsupported = Unsupported(row[r].figures, Evidence(r))
      /\ \E draft \in Drafts : row[r].figures = draft.figures
  BY DEF ResearchInv, WorkShape, GradesInv, Handled, Evidenced, Graded
<1>2. Evidence(r) = AllowedValues(EvidenceFor(r))
  BY <1>1 DEF Evidence, EvidenceFor, ValuationOf
<1>3. EvidenceFor(r) \in SUBSET Int
  BY <1>1, GrainsAssumption DEF EvidenceFor, ValuationOf
<1>4. \A w \in row[r].figures : IsFigure(w)
  BY <1>1, GrainsAssumption DEF IsFigure
<1>5. \A w \in Claims(row[r].figures) :
        IsSupported(w, Evidence(r)) <=> Justified(w, EvidenceFor(r))
  BY <1>2, <1>3, <1>4, SupportJustifies DEF Claims
<1>6. QED
  BY <1>1, <1>5 DEF Unsupported

\* Nothing but rounding separates a published report from the figures it was
\* computed from, whatever was restated, refused or redrafted meanwhile.
THEOREM PublishedIsGrounded == Spec => []PublishableIsGrounded
<1>1. ResearchInv /\ GradesInv => PublishableIsGrounded
  <2> SUFFICES ASSUME ResearchInv, GradesInv, NEW r \in Requests, row[r] # None,
                      <<"published", r>> \in announced \/ r \in ToSet(Listed(TRUE))
               PROVE  /\ \A w \in Claims(row[r].figures) : Justified(w, EvidenceFor(r))
                      /\ row[r].cited \subseteq SourceOf[row[r].version]
                      /\ row[r].unsupported = {}
    BY DEF PublishableIsGrounded
  <2>1. IsPublishable(row[r])
    <3>1. CASE <<"published", r>> \in announced
      BY <3>1 DEF ResearchInv, AnnouncedTruly
    <3>2. CASE r \in ToSet(Listed(TRUE))
      <4>1. TRUE => IsPublishable(row[r])
        BY <3>2, ListedAreShown DEF GradesInv
      <4>2. QED
        BY <4>1
    <3>3. QED
      BY <3>1, <3>2
  <2>2. row[r].unsupported = {} /\ row[r].cited \subseteq SourceOf[row[r].version]
    BY <2>1 DEF ResearchInv, Checked, IsPublishable
  <2>3. row[r].unsupported = {w \in Claims(row[r].figures) : ~Justified(w, EvidenceFor(r))}
    BY FaultsAreUnjustified DEF HasReport
  <2>4. QED
    BY <2>2, <2>3
<1>2. QED
  BY <1>1, AlwaysResearch, AlwaysGraded, PTL

\* A report on record names each fault its evidence leaves and no other, has
\* one only after the last correction, and was not announced as withheld when
\* it is publishable.
THEOREM NamesItsFaults == Spec => []FaultsAreNamed
<1>1. ResearchInv /\ GradesInv => FaultsAreNamed
  <2> SUFFICES ASSUME ResearchInv, GradesInv, NEW r \in committed
               PROVE  /\ row[r].unsupported =
                           {w \in Claims(row[r].figures) : ~Justified(w, EvidenceFor(r))}
                      /\ row[r].unsupported # {} => row[r].regenerations = MaxRegenerations
                      /\ IsPublishable(row[r]) => <<"withheld", r>> \notin announced
    BY DEF FaultsAreNamed
  <2>1. r \in Requests /\ HasReport(r) /\ Handled(r)
    BY DEF GradesInv, HasReport
  <2>2. QED
    BY <2>1, FaultsAreUnjustified DEF Handled, Graded, Stored
<1>2. QED
  BY <1>1, AlwaysResearch, AlwaysGraded, PTL
=============================================================================
