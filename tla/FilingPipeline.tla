---------------------------- MODULE FilingPipeline ----------------------------
(***************************************************************************)
(* atlas.filings: concurrent ingest requests that store a filing,          *)
(* transcribe its statements and replace the statement set of its company  *)
(* and period, each in one PostgreSQL transaction.                         *)
(*                                                                         *)
(* Read committed isolation: a SELECT sees committed rows only, a DELETE   *)
(* waits for the transaction that holds the row, an INSERT waits for one   *)
(* that holds a conflicting unique key.  A submission is its filing, and a *)
(* statement set is named after the filing that produced it.               *)
(***************************************************************************)
EXTENDS Naturals, FiniteSets

CONSTANTS
  Requests,    \* submissions of a filing
  ContentOf,   \* the content (content_hash) of each submission
  PeriodOf,    \* the company and fiscal period (entity_id, period_key) of each
  None         \* no statement set

ASSUME RequestsAssumption == IsFiniteSet(Requests) /\ None \notin Requests

VARIABLES
  filings,    \* committed filings
  sets,       \* committed statement sets
  announced,  \* filings whose FILING_INGESTED reached the bus
  pc,         \* where each request is
  existing,   \* the statement set its SELECT found
  deleted,    \* sets its open transaction deleted
  inserted,   \* its open transaction holds its (entity_id, period_key)
  answer      \* what the caller was told

stores == <<filings, sets, announced>>
save   == <<existing, deleted, inserted>>
vars   == <<stores, pc, save, answer>>

Locations ==
  {"new", "flush", "duplicate", "ingested", "extract", "select", "delete", "insert", "commit",
   "over"}

\* A plausible mistake. Holds: a failed request leaves its transaction open.
MutHolds(r) ==
  answer[r] = "error" \/ pc[r] \in Locations \ {"new", "flush", "duplicate", "over"}

\* The transaction of r holds the unique index entry of its content.
Holds(r) == pc[r] \in Locations \ {"new", "flush", "duplicate", "over"}

GoTo(r, location) == pc' = [pc EXCEPT ![r] = location]

\* The request ends, and with it its transaction.
Finish(r, verdict) ==
  /\ GoTo(r, "over")
  /\ answer' = [answer EXCEPT ![r] = verdict]
  /\ existing' = [existing EXCEPT ![r] = None]
  /\ deleted' = [deleted EXCEPT ![r] = {}]
  /\ inserted' = [inserted EXCEPT ![r] = FALSE]

\* A plausible mistake. StoredTwins: the lookup is not made.
MutStoredTwins(r) == {}

StoredTwins(r) == {q \in filings : ContentOf[q] = ContentOf[r]}
SetsOf(r) == {s \in sets : PeriodOf[s] = PeriodOf[r]}

(***************************************************************************)
(* Plausible mistakes, which no behaviour of the specification makes; each *)
(* stands in for the definition it names when the sensitivity of a         *)
(* property is measured.                                                   *)
(***************************************************************************)

\* Clashes: the constraint covers a nullable column and never bites.
MutClashes(r) == {}

\* Found: the rows of the period are deleted, not the row that was read.
MutFound(r) == IF existing[r] = None THEN {} ELSE SetsOf(r)

\* InsertSet: the set is written by a session of its own.
MutInsertSet(r) ==
  /\ pc[r] = "insert"
  /\ sets' = (sets \ SetsOf(r)) \cup {r}
  /\ inserted' = [inserted EXCEPT ![r] = TRUE]
  /\ GoTo(r, "commit")
  /\ UNCHANGED <<filings, announced, existing, deleted, answer>>

\* DeleteSet: the deletion is committed at once.
MutDeleteSet(r) ==
  /\ pc[r] = "delete"
  /\ sets' = sets \ {existing[r]}
  /\ GoTo(r, "insert")
  /\ UNCHANGED <<filings, announced, save, answer>>

\* Found: every set goes.
MutFoundAll(r) == sets

Init ==
  /\ filings = {} /\ sets = {} /\ announced = {}
  /\ pc = [r \in Requests |-> "new"]
  /\ existing = [r \in Requests |-> None]
  /\ deleted = [r \in Requests |-> {}]
  /\ inserted = [r \in Requests |-> FALSE]
  /\ answer = [r \in Requests |-> "none"]

(***************************************************************************)
(* The filing                                                              *)
(***************************************************************************)
LookUp(r) ==
  /\ pc[r] = "new"
  /\ GoTo(r, IF StoredTwins(r) = {} THEN "flush" ELSE "duplicate")
  /\ UNCHANGED <<stores, save, answer>>

AnswerDuplicate(r) ==
  /\ pc[r] = "duplicate"
  /\ Finish(r, "duplicate")
  /\ UNCHANGED stores

\* INSERT waits for an open transaction with the same content hash, and the
\* unique constraint refuses it if that transaction committed.
Flush(r) ==
  /\ pc[r] = "flush"
  /\ \A q \in Requests \ {r} : ContentOf[q] = ContentOf[r] => ~Holds(q)
  /\ IF StoredTwins(r) = {} THEN GoTo(r, "ingested") /\ UNCHANGED <<save, answer>>
                            ELSE Finish(r, "error")
  /\ UNCHANGED stores

\* Publishing is best effort: the event may not reach the bus.  The other
\* events of a request are published the same way, one after each outcome.
Announce(r) ==
  /\ pc[r] = "ingested"
  /\ announced' \in {announced, announced \cup {r}}
  /\ GoTo(r, "extract")
  /\ UNCHANGED <<filings, sets, save, answer>>

\* The model refuses or answers out of schema, finds nothing or contradicts
\* itself (the filing is committed without figures), or makes a valid set.
Extract(r) ==
  /\ pc[r] = "extract"
  /\ GoTo(r, "commit") \/ GoTo(r, "select")
  /\ UNCHANGED <<stores, save, answer>>

\* No provider can be reached.  Only AIProviderResponseError is caught, so the
\* request fails, and the filing it stored first is rolled back with it.
Outage(r) ==
  /\ pc[r] = "extract"
  /\ Finish(r, "unavailable")
  /\ UNCHANGED stores

(***************************************************************************)
(* StatementRepository.save                                                *)
(***************************************************************************)
SelectSet(r) ==
  /\ pc[r] = "select"
  /\ \/ SetsOf(r) = {} /\ GoTo(r, "insert") /\ UNCHANGED existing
     \/ /\ \E s \in SetsOf(r) : existing' = [existing EXCEPT ![r] = s]
        /\ GoTo(r, "delete")
  /\ UNCHANGED <<stores, deleted, inserted, answer>>

\* The row a delete is about.
Found(r) == {existing[r]}

\* DELETE by id: a row deleted and committed by another request since the
\* SELECT matches nothing, which is not an error.
DeleteSet(r) ==
  /\ pc[r] = "delete"
  /\ \A q \in Requests \ {r} : existing[r] \notin deleted[q]
  /\ deleted' = [deleted EXCEPT ![r] = Found(r) \cap sets]
  /\ GoTo(r, "insert")
  /\ UNCHANGED <<stores, existing, inserted, answer>>

\* Committed rows that refuse the insert.
Clashes(r) == SetsOf(r) \ deleted[r]

\* INSERT waits for an open transaction that inserted or deleted a row of the
\* same company and period.
InsertSet(r) ==
  /\ pc[r] = "insert"
  /\ \A q \in Requests \ {r} : PeriodOf[q] = PeriodOf[r] => ~inserted[q] /\ deleted[q] = {}
  /\ IF Clashes(r) = {}
       THEN /\ inserted' = [inserted EXCEPT ![r] = TRUE]
            /\ GoTo(r, "commit")
            /\ UNCHANGED <<existing, deleted, answer>>
       ELSE Finish(r, "error")
  /\ UNCHANGED stores

(***************************************************************************)
(* The end of the transaction                                              *)
(***************************************************************************)
Commit(r) ==
  /\ pc[r] = "commit"
  /\ filings' = filings \cup {r}
  /\ sets' = (sets \ deleted[r]) \cup (IF inserted[r] THEN {r} ELSE {})
  /\ Finish(r, "created")
  /\ UNCHANGED announced

\* The database fails, a statement times out or the process dies: the
\* transaction rolls back.
Fail(r) ==
  /\ pc[r] \notin {"new", "over"}
  /\ Finish(r, "error")
  /\ UNCHANGED stores

Advance(r) ==
  \/ AnswerDuplicate(r) \/ Flush(r) \/ Announce(r) \/ Extract(r)
  \/ SelectSet(r) \/ DeleteSet(r) \/ InsertSet(r) \/ Commit(r)

\* Every submission has been answered.
Quiet == (\A r \in Requests : pc[r] = "over") /\ UNCHANGED vars

Next == (\E r \in Requests : LookUp(r) \/ Advance(r) \/ Outage(r) \/ Fail(r)) \/ Quiet

Spec == Init /\ [][Next]_vars

\* Every call a request waits for returns or times out.
FairSpec == Spec /\ \A r \in Requests : WF_vars(Advance(r))

(***************************************************************************)
(* Types                                                                   *)
(***************************************************************************)
\* Every variable has its type, and an open transaction deletes at most the
\* one set its SELECT found.
TypeOK ==
  /\ filings \subseteq Requests /\ sets \subseteq Requests /\ announced \subseteq Requests
  /\ pc \in [Requests -> Locations]
  /\ existing \in [Requests -> Requests \cup {None}]
  /\ deleted \in [Requests -> SUBSET Requests] /\ inserted \in [Requests -> BOOLEAN]
  /\ answer \in [Requests -> {"none", "created", "duplicate", "unavailable", "error"}]
  /\ \A r \in Requests : deleted[r] \subseteq {existing[r]}

(***************************************************************************)
(* Safety                                                                  *)
(***************************************************************************)

\* "A company has one set of figures for a fiscal quarter": concurrent saves
\* never leave two versions of a period.
OneSetPerPeriod == \A s, t \in sets : PeriodOf[s] = PeriodOf[t] => s = t

\* Every statement set cites a filing that is on record.
SetsCiteStoredFilings == sets \subseteq filings

\* A period that has figures keeps some: a replacement that fails between its
\* delete and its insert loses nothing.
PeriodKeepsFigures ==
  [][\A s \in sets : \E t \in sets' : PeriodOf[t] = PeriodOf[s]]_vars

\* A set is superseded only by a request that had read it: figures committed
\* behind the back of a save are refused, never overwritten unseen.
NoBlindReplacement ==
  [][\A s \in sets \ sets' : \E r \in sets' \ sets : existing[r] = s]_vars

(***************************************************************************)
(* Liveness and refinement                                                 *)
(***************************************************************************)

\* Every submission that arrives is answered: waiting for another submission's
\* content key, set row or period key never closes a cycle.
EveryFilingAnswered == \A r \in Requests : pc[r] # "new" ~> answer[r] # "none"

\* Callers see a content store that keeps what it answered for, and in which an
\* outage of the AI providers costs them the filing they submitted, against what
\* the module docstring of pipeline.py says of a transcription that fails.
Store == INSTANCE ContentStore WITH stored <- filings
ImplementsContentStore == Store!Spec
=============================================================================
