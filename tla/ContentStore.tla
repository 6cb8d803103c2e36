----------------------------- MODULE ContentStore -----------------------------
(***************************************************************************)
(* What callers of both ingestion pipelines can rely on, whatever happens  *)
(* between the request and the answer: one stored copy of each content,    *)
(* "created" only for the copy that is stored, "duplicate" only while such *)
(* a copy exists, and nothing left behind by a request that failed.        *)
(***************************************************************************)
CONSTANTS
  Requests,   \* ingestion requests; each submission has an id of its own
  ContentOf   \* the content each request carries

VARIABLES
  stored,     \* requests whose document is stored
  answer      \* what each caller was told

vars == <<stored, answer>>

Init == stored = {} /\ answer = [r \in Requests |-> "none"]

Twin(r) == {q \in stored : ContentOf[q] = ContentOf[r]}

Tell(r, verdict) ==
  /\ answer[r] = "none"
  /\ answer' = [answer EXCEPT ![r] = verdict]

Create(r) == Twin(r) = {} /\ stored' = stored \cup {r} /\ Tell(r, "created")

Duplicate(r) == Twin(r) # {} /\ UNCHANGED stored /\ Tell(r, "duplicate")

Refuse(r) == UNCHANGED stored /\ Tell(r, "error")

\* The AI providers are out of reach.  The docstring of filings/pipeline.py
\* promises more, that the filing stays on record; the pipeline does not do it.
Withdraw(r) == UNCHANGED stored /\ Tell(r, "unavailable")

Next == \E r \in Requests : Create(r) \/ Duplicate(r) \/ Refuse(r) \/ Withdraw(r)

Spec == Init /\ [][Next]_vars
=============================================================================
