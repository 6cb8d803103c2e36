----------------------------- MODULE FilingProofs -----------------------------
(***************************************************************************)
(* What FilingPipeline guarantees for any number of submissions, contents  *)
(* and periods.                                                            *)
(*                                                                         *)
(* The inductive invariant says what an open transaction may rely on: its  *)
(* insert was admitted only when the committed sets of its period were the *)
(* ones it deleted, and no other transaction of the period holds a key.    *)
(* ContentInv says the same of contents: no two transactions that have     *)
(* inserted a filing hold one hash.                                        *)
(***************************************************************************)
EXTENDS FilingPipeline, TLAPS

\* A transaction that inserted its set is at its commit, and the sets of its
\* period that are still committed are those it deleted.
InsertAdmitted ==
  \A r \in Requests :
    /\ inserted[r] => pc[r] = "commit" /\ Clashes(r) = {}
    /\ \A q \in Requests : inserted[r] /\ inserted[q] /\ PeriodOf[r] = PeriodOf[q] => r = q

\* A transaction deletes only the set it read, which was of its own period,
\* and reaches its commit only with a set to put in its place.
DeletesWhatItRead ==
  \A r \in Requests :
    /\ deleted[r] \subseteq {existing[r]}
    /\ existing[r] # None => PeriodOf[existing[r]] = PeriodOf[r]
    /\ deleted[r] # {} => pc[r] \in {"insert", "commit"}
    /\ pc[r] = "delete" => existing[r] # None
    /\ pc[r] = "commit" /\ deleted[r] # {} => inserted[r]

\* Only a request that is over has left something in the store.
StoredAreOver == \A r \in filings : pc[r] = "over"

SaveInv ==
  TypeOK /\ InsertAdmitted /\ DeletesWhatItRead /\ StoredAreOver
    /\ OneSetPerPeriod /\ SetsCiteStoredFilings

LEMMA InitSave == Init => SaveInv
BY RequestsAssumption
   DEF Init, SaveInv, TypeOK, Locations, InsertAdmitted, DeletesWhatItRead, StoredAreOver,
       OneSetPerPeriod, SetsCiteStoredFilings, SetsOf, Clashes

\* Ending a request without a commit drops its locks and changes no store.
LEMMA FinishKeepsInv ==
  ASSUME SaveInv, NEW r \in Requests, NEW v \in {"duplicate", "unavailable", "error"}, Finish(r, v),
         UNCHANGED stores
  PROVE SaveInv'
<1> USE RequestsAssumption
<1>1. TypeOK'
  BY DEF SaveInv, TypeOK, Locations, Finish, GoTo, stores
<1>2. InsertAdmitted' /\ DeletesWhatItRead'
  BY DEF SaveInv, TypeOK, InsertAdmitted, DeletesWhatItRead, SetsOf, Clashes, Finish, GoTo, stores
<1>3. StoredAreOver' /\ OneSetPerPeriod' /\ SetsCiteStoredFilings'
  BY DEF SaveInv, TypeOK, StoredAreOver, OneSetPerPeriod, SetsCiteStoredFilings, Finish, GoTo,
         stores
<1>4. QED
  BY <1>1, <1>2, <1>3 DEF SaveInv

\* So does a step of a request that has not deleted or inserted anything yet,
\* to a location where it still has not.
LEMMA MoveKeepsInv ==
  ASSUME SaveInv, NEW r \in Requests, NEW location \in Locations \ {"delete", "over"},
         pc[r] \in {"new", "flush", "ingested", "extract"}, GoTo(r, location),
         UNCHANGED <<filings, sets, save, answer>>, announced' \subseteq Requests
  PROVE SaveInv'
<1>1. TypeOK'
  BY DEF SaveInv, TypeOK, Locations, GoTo, save
<1>2. InsertAdmitted' /\ DeletesWhatItRead'
  BY DEF SaveInv, TypeOK, InsertAdmitted, DeletesWhatItRead, SetsOf, Clashes, GoTo, save
<1>3. StoredAreOver' /\ OneSetPerPeriod' /\ SetsCiteStoredFilings'
  BY DEF SaveInv, TypeOK, StoredAreOver, OneSetPerPeriod, SetsCiteStoredFilings, GoTo
<1>4. QED
  BY <1>1, <1>2, <1>3 DEF SaveInv

LEMMA StepSave == SaveInv /\ [Next]_vars => SaveInv'
<1> SUFFICES ASSUME SaveInv, [Next]_vars PROVE SaveInv'
  OBVIOUS
<1> USE RequestsAssumption
<1>a. ASSUME NEW r \in Requests, LookUp(r) PROVE SaveInv'
  <2>1. CASE pc' = [pc EXCEPT ![r] = "flush"]
    BY <1>a, <2>1, MoveKeepsInv DEF LookUp, GoTo, stores, SaveInv, TypeOK, Locations
  <2>2. CASE pc' = [pc EXCEPT ![r] = "duplicate"]
    BY <1>a, <2>2, MoveKeepsInv DEF LookUp, GoTo, stores, SaveInv, TypeOK, Locations
  <2>3. QED
    BY <1>a, <2>1, <2>2 DEF LookUp, GoTo
<1>b. ASSUME NEW r \in Requests, AnswerDuplicate(r) PROVE SaveInv'
  BY <1>b, FinishKeepsInv DEF AnswerDuplicate
<1>c. ASSUME NEW r \in Requests, Flush(r) PROVE SaveInv'
  <2>1. CASE StoredTwins(r) = {}
    BY <1>c, <2>1, MoveKeepsInv DEF Flush, stores, SaveInv, TypeOK, Locations
  <2>2. CASE StoredTwins(r) # {}
    BY <1>c, <2>2, FinishKeepsInv DEF Flush
  <2>3. QED
    BY <2>1, <2>2
<1>d. ASSUME NEW r \in Requests, Announce(r) PROVE SaveInv'
  BY <1>d, MoveKeepsInv DEF Announce, SaveInv, TypeOK, Locations
<1>e. ASSUME NEW r \in Requests, Extract(r) PROVE SaveInv'
  BY <1>e, MoveKeepsInv DEF Extract, stores, SaveInv, TypeOK, Locations
<1>f. ASSUME NEW r \in Requests, Outage(r) PROVE SaveInv'
  BY <1>f, FinishKeepsInv DEF Outage
<1>1. ASSUME NEW r \in Requests, Fail(r) PROVE SaveInv'
  BY <1>1, FinishKeepsInv DEF Fail
<1>2. ASSUME NEW r \in Requests, SelectSet(r) PROVE SaveInv'
  BY <1>2
  DEF SaveInv, TypeOK, Locations, InsertAdmitted, DeletesWhatItRead, StoredAreOver,
      OneSetPerPeriod, SetsCiteStoredFilings, SetsOf, Clashes, SelectSet, GoTo, stores
<1>3. ASSUME NEW r \in Requests, DeleteSet(r) PROVE SaveInv'
  BY <1>3
  DEF SaveInv, TypeOK, Locations, InsertAdmitted, DeletesWhatItRead, StoredAreOver,
      OneSetPerPeriod, SetsCiteStoredFilings, SetsOf, Clashes, Found, DeleteSet, GoTo, stores
<1>4. ASSUME NEW r \in Requests, InsertSet(r) PROVE SaveInv'
  <2>1. CASE Clashes(r) # {}
    BY <1>4, <2>1, FinishKeepsInv DEF InsertSet
  <2>2. CASE Clashes(r) = {}
    <3>1. /\ pc' = [pc EXCEPT ![r] = "commit"] /\ inserted' = [inserted EXCEPT ![r] = TRUE]
          /\ UNCHANGED <<filings, sets, announced, existing, deleted, answer>>
      BY <1>4, <2>2 DEF InsertSet, GoTo, stores
    <3>2. \A q \in Requests \ {r} : PeriodOf[q] = PeriodOf[r] => ~inserted[q]
      BY <1>4 DEF InsertSet
    <3>3. pc[r] = "insert"
      BY <1>4 DEF InsertSet
    <3>4. TypeOK'
      BY <3>1 DEF SaveInv, TypeOK, Locations
    <3>5. \A q \in Requests : Clashes(q)' = Clashes(q)
      BY <3>1 DEF Clashes, SetsOf
    <3>6. InsertAdmitted'
      BY <2>2, <3>1, <3>2, <3>5 DEF SaveInv, TypeOK, InsertAdmitted
    <3>7. DeletesWhatItRead'
      BY <3>1, <3>3 DEF SaveInv, TypeOK, DeletesWhatItRead
    <3>8. StoredAreOver' /\ OneSetPerPeriod' /\ SetsCiteStoredFilings'
      BY <3>1, <3>3
      DEF SaveInv, TypeOK, StoredAreOver, OneSetPerPeriod, SetsCiteStoredFilings
    <3>9. QED
      BY <3>4, <3>6, <3>7, <3>8 DEF SaveInv
  <2>3. QED
    BY <2>1, <2>2
<1>5. ASSUME NEW r \in Requests, Commit(r) PROVE SaveInv'
  BY <1>5
  DEF SaveInv, TypeOK, Locations, InsertAdmitted, DeletesWhatItRead, StoredAreOver,
      OneSetPerPeriod, SetsCiteStoredFilings, SetsOf, Clashes, Commit, GoTo, Finish
<1>6. CASE UNCHANGED vars
  BY <1>6
  DEF SaveInv, TypeOK, InsertAdmitted, DeletesWhatItRead, StoredAreOver, OneSetPerPeriod,
      SetsCiteStoredFilings, SetsOf, Clashes, vars, stores, save
<1>7. QED
  BY <1>a, <1>b, <1>c, <1>d, <1>e, <1>f, <1>1, <1>2, <1>3, <1>4, <1>5, <1>6 DEF Next, Advance, Quiet

LEMMA SaveInvariant == Spec => []SaveInv
BY InitSave, StepSave, PTL DEF Spec

\* Every variable keeps its type, and an open transaction deletes at most the
\* statement set its SELECT found.
THEOREM TypeCorrect == Spec => []TypeOK
<1>1. SaveInv => TypeOK
  BY DEF SaveInv
<1>2. QED
  BY <1>1, SaveInvariant, PTL

\* However many filings of one company and period are ingested at once, the
\* period has at most one statement set.
THEOREM OneVersionOfAPeriod == Spec => []OneSetPerPeriod
<1>1. SaveInv => OneSetPerPeriod
  BY DEF SaveInv
<1>2. QED
  BY <1>1, SaveInvariant, PTL

\* Every committed statement set belongs to a committed filing.
THEOREM SetsAreCitable == Spec => []SetsCiteStoredFilings
<1>1. SaveInv => SetsCiteStoredFilings
  BY DEF SaveInv
<1>2. QED
  BY <1>1, SaveInvariant, PTL

\* Only a commit changes the statement sets: it removes what its request read
\* and deleted, and then adds a set that was not there.
LEMMA ReplacementStep ==
  ASSUME SaveInv, [Next]_vars
  PROVE \/ sets' = sets
        \/ \E r \in Requests : /\ sets' = (sets \ deleted[r]) \cup {r}
                               /\ r \notin sets /\ deleted[r] \subseteq {existing[r]}
                               /\ existing[r] # None => PeriodOf[existing[r]] = PeriodOf[r]
<1>1. CASE \E r \in Requests : Commit(r)
  <2>1. PICK r \in Requests : Commit(r)
    BY <1>1
  <2>2. r \notin sets
    BY <2>1 DEF Commit, SaveInv, StoredAreOver, SetsCiteStoredFilings
  <2>3. CASE inserted[r]
    BY <2>1, <2>2, <2>3 DEF Commit, SaveInv, DeletesWhatItRead
  <2>4. CASE ~inserted[r]
    BY <2>1, <2>4 DEF Commit, SaveInv, DeletesWhatItRead
  <2>5. QED
    BY <2>3, <2>4
<1>2. CASE ~ \E r \in Requests : Commit(r)
  BY <1>2 DEF Next, Advance, Quiet, vars, stores, LookUp, AnswerDuplicate, Flush, Announce,
              Extract, Outage, SelectSet, DeleteSet, InsertSet, Fail
<1>3. QED
  BY <1>1, <1>2

\* Once a period has figures, no step leaves it without any.
THEOREM FiguresArePermanent == Spec => PeriodKeepsFigures
<1>1. SaveInv /\ [Next]_vars => [\A s \in sets : \E t \in sets' : PeriodOf[t] = PeriodOf[s]]_vars
  <2> SUFFICES ASSUME SaveInv, [Next]_vars, NEW s \in sets
               PROVE \E t \in sets' : PeriodOf[t] = PeriodOf[s]
    OBVIOUS
  <2>1. s # None
    BY RequestsAssumption DEF SaveInv, TypeOK
  <2>2. QED
    BY <2>1, ReplacementStep
<1>2. QED
  BY <1>1, SaveInvariant, PTL DEF Spec, PeriodKeepsFigures

\* A statement set disappears only in favour of a request that had read it.
THEOREM ReplacementsAreInformed == Spec => NoBlindReplacement
<1>1. SaveInv /\ [Next]_vars
        => [\A s \in sets \ sets' : \E r \in sets' \ sets : existing[r] = s]_vars
  BY ReplacementStep
<1>2. QED
  BY <1>1, SaveInvariant, PTL DEF Spec, NoBlindReplacement

(***************************************************************************)
(* The content store.  The unique index lets one open transaction hold a   *)
(* content at a time, and none while a copy is committed: what a commit    *)
(* stores is the first copy, and what a duplicate was told of stays.       *)
(***************************************************************************)
OpenIsUnanswered == \A r \in Requests : pc[r] # "over" => answer[r] = "none"

\* An open transaction is the only one with its content, stored or open.
HoldsAlone ==
  \A r \in Requests : Holds(r) =>
    /\ StoredTwins(r) = {}
    /\ \A q \in Requests \ {r} : ContentOf[q] = ContentOf[r] => ~Holds(q)

DuplicateHasTwin == \A r \in Requests : pc[r] = "duplicate" => StoredTwins(r) # {}

ContentInv == OpenIsUnanswered /\ HoldsAlone /\ DuplicateHasTwin

LEMMA InitContent == Init => ContentInv
BY DEF Init, ContentInv, OpenIsUnanswered, HoldsAlone, DuplicateHasTwin, Holds, Locations

\* An open transaction goes on; nobody else can tell.
LEMMA StayingOpen ==
  ASSUME TypeOK, ContentInv, NEW r \in Requests, Holds(r), UNCHANGED <<filings, answer>>,
         NEW location \in Locations \ {"new", "flush", "duplicate", "over"}, GoTo(r, location)
  PROVE  ContentInv'
<1>1. \A q \in Requests : Holds(q)' = Holds(q) /\ StoredTwins(q)' = StoredTwins(q)
  BY DEF TypeOK, Holds, GoTo, StoredTwins
<1>2. \A q \in Requests : q # r => pc'[q] = pc[q]
  BY DEF TypeOK, GoTo
<1>3. pc[r] \notin {"duplicate", "over"} /\ pc'[r] \notin {"duplicate", "over"}
  BY DEF TypeOK, Holds, GoTo
<1>4. QED
  BY <1>1, <1>2, <1>3 DEF ContentInv, OpenIsUnanswered, HoldsAlone, DuplicateHasTwin

\* A request that ends without a commit lets go of its content.
LEMMA EndingKeepsContent ==
  ASSUME TypeOK, ContentInv, NEW r \in Requests, NEW v, Finish(r, v), UNCHANGED filings
  PROVE  ContentInv'
<1>1. \A q \in Requests \ {r} : pc'[q] = pc[q] /\ answer'[q] = answer[q]
  BY DEF TypeOK, Finish, GoTo
<1>2. pc'[r] = "over" /\ \A q \in Requests : StoredTwins(q)' = StoredTwins(q)
  BY DEF TypeOK, Finish, GoTo, StoredTwins
<1>3. QED
  BY <1>1, <1>2 DEF ContentInv, OpenIsUnanswered, HoldsAlone, DuplicateHasTwin, Holds, Locations

LEMMA StepContent == TypeOK /\ ContentInv /\ [Next]_vars => ContentInv'
<1> SUFFICES ASSUME TypeOK, ContentInv, [Next]_vars PROVE ContentInv'
  OBVIOUS
<1>1. ASSUME NEW r \in Requests, LookUp(r) PROVE ContentInv'
  <2>1. /\ \A q \in Requests \ {r} : pc'[q] = pc[q]
        /\ pc'[r] = IF StoredTwins(r) = {} THEN "flush" ELSE "duplicate"
        /\ pc[r] = "new" /\ UNCHANGED <<filings, answer>>
    BY <1>1 DEF LookUp, TypeOK, GoTo, stores
  <2>2. \A q \in Requests : StoredTwins(q)' = StoredTwins(q)
    BY <2>1 DEF StoredTwins
  <2>3. QED
    BY <2>1, <2>2 DEF ContentInv, OpenIsUnanswered, HoldsAlone, DuplicateHasTwin, Holds, Locations
<1>2. ASSUME NEW r \in Requests, AnswerDuplicate(r) PROVE ContentInv'
  BY <1>2, EndingKeepsContent DEF AnswerDuplicate, stores
<1>3. ASSUME NEW r \in Requests, Flush(r) PROVE ContentInv'
  <2>1. CASE StoredTwins(r) = {}
    <3>1. /\ \A q \in Requests \ {r} : pc'[q] = pc[q]
          /\ \A q \in Requests \ {r} : ContentOf[q] = ContentOf[r] => ~Holds(q)
          /\ pc'[r] = "ingested" /\ pc[r] = "flush" /\ UNCHANGED <<filings, answer>>
      BY <1>3, <2>1 DEF Flush, TypeOK, GoTo, stores
    <3>2. \A q \in Requests : StoredTwins(q)' = StoredTwins(q)
      BY <3>1 DEF StoredTwins
    <3>3. \A q \in Requests \ {r} : Holds(q)' = Holds(q)
      BY <3>1 DEF Holds
    <3>4. HoldsAlone'
      BY <2>1, <3>1, <3>2, <3>3 DEF ContentInv, HoldsAlone
    <3>5. QED
      BY <3>1, <3>2, <3>4 DEF ContentInv, OpenIsUnanswered, DuplicateHasTwin
  <2>2. CASE StoredTwins(r) # {}
    BY <1>3, <2>2, EndingKeepsContent DEF Flush, stores
  <2>3. QED
    BY <2>1, <2>2
<1>4. ASSUME NEW r \in Requests, Announce(r) PROVE ContentInv'
  BY <1>4, StayingOpen DEF Announce, Holds, Locations
<1>5. ASSUME NEW r \in Requests, Extract(r) PROVE ContentInv'
  <2>1. Holds(r) /\ UNCHANGED <<filings, answer>>
    BY <1>5 DEF Extract, Holds, Locations, stores
  <2>2. QED
    BY <1>5, <2>1, StayingOpen DEF Extract, Locations
<1>6. ASSUME NEW r \in Requests, SelectSet(r) PROVE ContentInv'
  <2>1. Holds(r) /\ UNCHANGED <<filings, answer>>
    BY <1>6 DEF SelectSet, Holds, Locations, stores
  <2>2. QED
    BY <1>6, <2>1, StayingOpen DEF SelectSet, Locations
<1>7. ASSUME NEW r \in Requests, DeleteSet(r) PROVE ContentInv'
  BY <1>7, StayingOpen DEF DeleteSet, Holds, Locations, stores
<1>8. ASSUME NEW r \in Requests, InsertSet(r) PROVE ContentInv'
  <2>1. CASE Clashes(r) = {}
    BY <1>8, <2>1, StayingOpen DEF InsertSet, Holds, Locations, stores
  <2>2. CASE Clashes(r) # {}
    BY <1>8, <2>2, EndingKeepsContent DEF InsertSet, stores
  <2>3. QED
    BY <2>1, <2>2
<1>9. ASSUME NEW r \in Requests, Commit(r) PROVE ContentInv'
  <2>1. Holds(r)
    BY <1>9 DEF Commit, Holds, Locations
  <2>2. /\ \A q \in Requests \ {r} : pc'[q] = pc[q] /\ answer'[q] = answer[q]
        /\ pc'[r] = "over" /\ filings' = filings \cup {r}
    BY <1>9 DEF Commit, TypeOK, Finish, GoTo
  <2>3. \A q \in Requests : /\ StoredTwins(q) \subseteq StoredTwins(q)'
                            /\ ContentOf[q] # ContentOf[r] => StoredTwins(q)' = StoredTwins(q)
    BY <2>2 DEF StoredTwins
  <2>4. HoldsAlone'
    BY <2>1, <2>2, <2>3 DEF ContentInv, HoldsAlone, Holds, Locations
  <2>5. QED
    BY <2>2, <2>3, <2>4 DEF ContentInv, OpenIsUnanswered, DuplicateHasTwin
<1>10. ASSUME NEW r \in Requests, Fail(r) \/ Outage(r) PROVE ContentInv'
  BY <1>10, EndingKeepsContent DEF Fail, Outage, stores
<1>11. CASE UNCHANGED vars
  BY <1>11 DEF vars, stores, ContentInv, OpenIsUnanswered, HoldsAlone, DuplicateHasTwin, Holds, StoredTwins
<1>12. QED
  BY <1>1, <1>2, <1>3, <1>4, <1>5, <1>6, <1>7, <1>8, <1>9, <1>10, <1>11 DEF Next, Advance, Quiet

LEMMA ContentInvariant == Spec => []ContentInv
BY InitContent, StepContent, TypeCorrect, PTL DEF Spec

\* A request that ends is answered with its verdict.
LEMMA EndingAnswers ==
  ASSUME TypeOK, ContentInv, NEW r \in Requests, pc[r] # "over", NEW v, Finish(r, v)
  PROVE  Store!Tell(r, v)
BY DEF ContentInv, OpenIsUnanswered, Finish, Store!Tell

LEMMA StepStore == TypeOK /\ ContentInv /\ [Next]_vars => [Store!Next]_Store!vars
<1> SUFFICES ASSUME TypeOK, ContentInv, [Next]_vars PROVE [Store!Next]_Store!vars
  OBVIOUS
<1>0. ASSUME UNCHANGED <<filings, answer>> PROVE [Store!Next]_Store!vars
  BY <1>0 DEF Store!vars
<1>1. ASSUME NEW r \in Requests, AnswerDuplicate(r) PROVE Store!Duplicate(r)
  BY <1>1, EndingAnswers
     DEF AnswerDuplicate, stores, Store!Duplicate, Store!Twin, ContentInv, DuplicateHasTwin, StoredTwins
<1>2. ASSUME NEW r \in Requests, pc[r] # "over", Finish(r, "error"), UNCHANGED stores PROVE Store!Refuse(r)
  BY <1>2, EndingAnswers DEF stores, Store!Refuse
<1>3. ASSUME NEW r \in Requests, Commit(r) PROVE Store!Create(r)
  <2>1. StoredTwins(r) = {}
    BY <1>3 DEF Commit, ContentInv, HoldsAlone, Holds, Locations
  <2>2. QED
    BY <1>3, <2>1, EndingAnswers DEF Commit, StoredTwins, Store!Create, Store!Twin
<1>4. ASSUME NEW r \in Requests, Flush(r) PROVE [Store!Next]_Store!vars
  <2>1. CASE StoredTwins(r) = {}
    BY <1>4, <2>1, <1>0 DEF Flush, stores
  <2>2. CASE StoredTwins(r) # {}
    BY <1>4, <2>2, <1>2 DEF Flush, Store!Next
  <2>3. QED
    BY <2>1, <2>2
<1>5. ASSUME NEW r \in Requests, InsertSet(r) PROVE [Store!Next]_Store!vars
  <2>1. CASE Clashes(r) = {}
    BY <1>5, <2>1, <1>0 DEF InsertSet, stores
  <2>2. CASE Clashes(r) # {}
    BY <1>5, <2>2, <1>2 DEF InsertSet, Store!Next
  <2>3. QED
    BY <2>1, <2>2
<1>6. ASSUME NEW r \in Requests,
             LookUp(r) \/ Announce(r) \/ Extract(r) \/ SelectSet(r) \/ DeleteSet(r)
      PROVE  [Store!Next]_Store!vars
  BY <1>6, <1>0 DEF LookUp, Announce, Extract, SelectSet, DeleteSet, stores
<1>7. ASSUME NEW r \in Requests, Fail(r) PROVE [Store!Next]_Store!vars
  BY <1>7, <1>2 DEF Fail, Store!Next
<1>8. ASSUME NEW r \in Requests, Outage(r) PROVE Store!Withdraw(r)
  BY <1>8, EndingAnswers DEF Outage, stores, Store!Withdraw
<1>9. CASE UNCHANGED vars
  BY <1>9, <1>0 DEF vars, stores
<1>10. QED
  BY <1>1, <1>3, <1>4, <1>5, <1>6, <1>7, <1>8, <1>9 DEF Next, Advance, Quiet, Store!Next

\* Callers see a content store: however submissions of one content race, wait
\* for each other and fail, one is stored and told so, a submission is told of a
\* duplicate only while there is one, and an outage costs it the filing.
THEOREM ContentStoreImplemented == Spec => ImplementsContentStore
<1>1. Init => Store!Init
  BY DEF Init, Store!Init
<1>2. QED
  BY <1>1, StepStore, ContentInvariant, TypeCorrect, PTL DEF Spec, ImplementsContentStore, Store!Spec
=============================================================================
