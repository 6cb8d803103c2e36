-------------------------------- MODULE Research --------------------------------
(***************************************************************************)
(* atlas.research: requests for a research report run side by side.  Each  *)
(* loads the figures on file, computes, may value, asks MarketMind for     *)
(* context (clients.marketmind), has a report drafted by a chain of AI     *)
(* providers (fie_ai.registry) until its figures are grounded, and stores  *)
(* it with the verdict.  Meanwhile the figures on file may be restated.    *)
(*                                                                         *)
(* The prompt shows a draft's author its evidence and binds it to nothing: *)
(* any draft may come back.  A report is named after its request.  Of the  *)
(* events only those on the report are kept: the ones on the analysis and  *)
(* the valuation are as best effort, and nothing is claimed of them.       *)
(***************************************************************************)
EXTENDS Grounding, Sequences, SequencesExt

CONSTANTS
  Requests,        \* for reports on one company
  None,
  Versions,        \* of the statement set on file
  Computed,        \* the available metrics of a version
  Reported,        \* its lines of money
  Worth,           \* the figures of its valuation, {} where it has none
  Invalid,         \* ... or what valuing it ends in, the assumptions refused
  SourceOf,        \* the source ids of a version
  Drafts,          \* what a model may write: [figures, cited]
  Default,         \* settings.default_provider
  Fallbacks,       \* settings.fallback_providers, in order, as configured
  Optional,        \* the providers enabled besides the default
  MaxRegenerations,
  MaxAttempts,     \* of the MarketMind client
  PageLimit        \* of a list of reports

ASSUME ResearchAssumption ==
  /\ MaxRegenerations \in Nat /\ MaxAttempts \in Nat \ {0} /\ PageLimit \in Nat \ {0}
  /\ Default \notin Optional /\ Fallbacks \in Seq({Default} \cup Optional)
  /\ None \notin Versions

\* What is computed are whole grains, and so are the figures that are written.
ASSUME GrainsAssumption ==
  /\ \A v \in Versions :
       Computed[v] \cup Reported[v] \subseteq Int /\ (Worth[v] = Invalid \/ Worth[v] \subseteq Int)
  /\ \A draft \in Drafts : \A w \in draft.figures :
       w.digits \in Nat /\ w.places \in 0 .. GrainPlaces + Power(w)

VARIABLES
  registered,      \* the providers the registry could construct
  onFile,          \* the newest statement set, or None
  pc,              \* where each request is
  work,            \* its progress: [version, valuing, calls, tried, refused, drafts]
  row,             \* the report it wrote
  flushed,         \* reports by created_at
  committed,       \* reports other transactions see
  announced,       \* events that reached the bus
  answer           \* what each request was told

vars == <<registered, onFile, pc, work, row, flushed, committed, announced, answer>>
store == <<flushed, committed, announced>>

Locations == {"new", "computed", "context", "draft", "save", "announce", "commit", "over"}
Fresh ==
  [version |-> None, valuing |-> FALSE, calls |-> 0, tried |-> 0, refused |-> FALSE, drafts |-> 0]

\* A provider that cannot be constructed is skipped, unless it is the default.
BuildRegistry(misconfigured) == {Default} \cup (Optional \ misconfigured)

Init ==
  /\ \E misconfigured \in SUBSET Optional : registered = BuildRegistry(misconfigured)
  /\ onFile \in Versions \cup {None}
  /\ pc = [r \in Requests |-> "new"]
  /\ work = [r \in Requests |-> Fresh]
  /\ row = [r \in Requests |-> None]
  /\ flushed = << >> /\ committed = {} /\ announced = {}
  /\ answer = [r \in Requests |-> "none"]

GoTo(r, location) == pc' = [pc EXCEPT ![r] = location]
Progress(r, field, value) == work' = [work EXCEPT ![r][field] = value]

\* The request fails: its transaction rolls back, its report is dropped.
FailWith(r, error) ==
  /\ GoTo(r, "over")
  /\ answer' = [answer EXCEPT ![r] = error]
  /\ work' = [work EXCEPT ![r] = [Fresh EXCEPT !.refused = work[r].refused]]
  /\ row' = [row EXCEPT ![r] = None]
  /\ UNCHANGED <<registered, onFile, store>>

(***************************************************************************)
(* Evidence                                                                *)
(***************************************************************************)
ValuationOf(r) == IF work[r].valuing THEN Worth[work[r].version] ELSE {}

\* Plausible mistake. Evidence: of the figures that are on file by now.
MutEvidence(r) == AllowedValues(Computed[onFile] \cup Reported[onFile] \cup ValuationOf(r))

\* What the prose of a request's report may quote.
Evidence(r) ==
  LET version == work[r].version
  IN  AllowedValues(Computed[version] \cup Reported[version] \cup ValuationOf(r))

\* New figures replace those on file, at any moment.
Restate ==
  /\ \E version \in Versions \ {onFile} : onFile' = version
  /\ UNCHANGED <<registered, pc, work, row, store, answer>>

\* The statements are read once; with no figure computed there is no report.
Load(r) ==
  /\ pc[r] = "new"
  /\ \/ onFile = None /\ FailWith(r, "not found")
     \/ onFile # None /\ Computed[onFile] = {} /\ FailWith(r, "invalid")
     \/ /\ onFile # None /\ Computed[onFile] # {}
        /\ \E asked \in BOOLEAN :
             work' = [work EXCEPT ![r].version = onFile, ![r].valuing = asked]
        /\ GoTo(r, "computed")
        /\ UNCHANGED <<registered, onFile, row, store, answer>>

\* The valuation is made, if it was asked for.
Value(r) ==
  /\ pc[r] = "computed"
  /\ IF ValuationOf(r) = Invalid
       THEN FailWith(r, "invalid")
       ELSE GoTo(r, "context") /\ UNCHANGED <<registered, onFile, work, row, store, answer>>

(***************************************************************************)
(* MarketMind                                                              *)
(***************************************************************************)

\* Facts, no facts (a 404 and any other 4xx are final), a transport failure
\* or a 5xx, which is repeated and at last no facts either, or a body that is
\* no JSON, which is raised.
\* A request that wants no context goes the way of one that gets none.
AskMarketMind(r) ==
  /\ pc[r] = "context"
  /\ \/ /\ Progress(r, "calls", 0)
        /\ GoTo(r, "draft")
        /\ UNCHANGED <<registered, onFile, row, store, answer>>
     \/ /\ work[r].calls + 1 < MaxAttempts
        /\ Progress(r, "calls", work[r].calls + 1)
        /\ UNCHANGED <<registered, onFile, pc, row, store, answer>>
     \/ FailWith(r, "error")

(***************************************************************************)
(* Drafting                                                                *)
(***************************************************************************)
\* The default and the fallbacks after it, nobody twice.
Chain ==
  LET chain[n \in 0 .. Len(Fallbacks)] ==
        IF n = 0 THEN <<Default>>
        ELSE IF Fallbacks[n] \in ToSet(chain[n - 1]) THEN chain[n - 1]
        ELSE Append(chain[n - 1], Fallbacks[n])
  IN  chain[Len(Fallbacks)]
Unregistered == ToSet(Chain) \ registered

\* The chain is looked up before any provider is called.
RejectChain(r) == pc[r] = "draft" /\ Unregistered # {} /\ FailWith(r, "misconfigured")

Asking(r) == pc[r] = "draft" /\ Unregistered = {}

\* Plausible mistake. IsLast: one provider more than there is.
MutIsLast(r) == work[r].tried + 1 > Len(Chain)

IsLast(r) == work[r].tried + 1 = Len(Chain)

\* A refusal is remembered, a failure is not; either way the next provider is
\* asked.  After the last one a refusal is what the caller hears.
Declined(r, refused) ==
  /\ Asking(r)
  /\ IF IsLast(r)
       THEN FailWith(r, IF refused THEN "refused" ELSE "provider error")
       ELSE /\ work' = [work EXCEPT ![r].tried = @ + 1, ![r].refused = refused]
            /\ UNCHANGED <<registered, onFile, pc, row, store, answer>>

\* Plausible mistake. ProviderFails: an outage hides an earlier refusal.
MutProviderFails(r) == Declined(r, FALSE)

ProviderFails(r) == Declined(r, work[r].refused)
ProviderRefuses(r) == Declined(r, TRUE)

\* Truncated, no JSON, or not of the schema: the first provider that answers
\* decides, and the request fails.
ProviderGarbles(r) == Asking(r) /\ FailWith(r, "bad response")

CitationsGrounded(r, draft) == UnknownCitations(draft.cited, SourceOf[work[r].version]) = {}

Report(r, draft) ==
  LET unsupported == Unsupported(draft.figures, Evidence(r))
      supplied == SourceOf[work[r].version]
  IN  [version |-> work[r].version,
       figures |-> draft.figures,
       cited |-> draft.cited \ UnknownCitations(draft.cited, supplied),
       numerically_grounded |-> unsupported = {},
       unsupported |-> unsupported,
       citations_grounded |-> CitationsGrounded(r, draft),
       regenerations |-> work[r].drafts]
IsPublishable(report) == report.numerically_grounded /\ report.citations_grounded

\* A draft with figures of its own goes back once, with those figures named.
ProviderDrafts(r) ==
  /\ Asking(r)
  /\ \E draft \in Drafts :
       IF Unsupported(draft.figures, Evidence(r)) # {} /\ work[r].drafts < MaxRegenerations
         THEN /\ work' = [work EXCEPT ![r].drafts = @ + 1, ![r].tried = 0, ![r].refused = FALSE]
              /\ UNCHANGED <<pc, row>>
         ELSE /\ row' = [row EXCEPT ![r] = Report(r, draft)]
              /\ work' = [work EXCEPT ![r].tried = 0, ![r].refused = FALSE]
              /\ GoTo(r, "save")
  /\ UNCHANGED <<registered, onFile, store, answer>>

(***************************************************************************)
(* Storing and serving                                                     *)
(***************************************************************************)
Save(r) ==
  /\ pc[r] = "save"
  /\ flushed' = Append(flushed, r)
  /\ GoTo(r, "announce")
  /\ UNCHANGED <<registered, onFile, work, row, committed, announced, answer>>

Verdict(r) == IF IsPublishable(row[r]) THEN "published" ELSE "withheld"

\* Publishing is best effort: the event may not reach the bus.
AnnounceReport(r) ==
  /\ pc[r] = "announce"
  /\ announced' \in {announced, announced \cup {<<Verdict(r), r>>}}
  /\ GoTo(r, "commit")
  /\ UNCHANGED <<registered, onFile, work, row, flushed, committed, answer>>

Commit(r) ==
  /\ pc[r] = "commit"
  /\ committed' = committed \cup {r}
  /\ answer' = [answer EXCEPT ![r] = "created"]
  /\ GoTo(r, "over")
  /\ UNCHANGED <<registered, onFile, work, row, flushed, announced>>

\* A fault of the database, a crash, or a cancelled request.
Fail(r) == pc[r] # "over" /\ FailWith(r, "error")

\* A page of the reports by created_at, newest first.
Listed(only) ==
  LET shown(r) == r \in committed /\ (only => IsPublishable(row[r]))
      listed[n \in 0 .. Len(flushed)] ==
        IF n = 0 THEN << >>
        ELSE IF shown(flushed[n]) THEN <<flushed[n]>> \o listed[n - 1] ELSE listed[n - 1]
      found == listed[Len(flushed)]
  IN  SubSeq(found, 1, IF Len(found) < PageLimit THEN Len(found) ELSE PageLimit)

Advance(r) ==
  \/ Load(r) \/ Value(r) \/ AskMarketMind(r)
  \/ RejectChain(r) \/ ProviderFails(r) \/ ProviderRefuses(r) \/ ProviderGarbles(r)
  \/ ProviderDrafts(r) \/ Save(r) \/ AnnounceReport(r) \/ Commit(r)

Next == (\E r \in Requests : Advance(r) \/ Fail(r)) \/ Restate

Spec == Init /\ [][Next]_vars

(***************************************************************************)
(* Properties                                                              *)
(***************************************************************************)

\* Every variable has its type; the chain, the client and the drafting loop
\* stay within their bounds.
TypeOK ==
  /\ registered \subseteq {Default} \cup Optional /\ Default \in registered
  /\ onFile \in Versions \cup {None}
  /\ pc \in [Requests -> Locations]
  /\ \A r \in Requests :
       /\ work[r].version \in Versions \cup {None}
       /\ work[r].calls \in 0..(MaxAttempts - 1)
       /\ work[r].tried \in 0..(Len(Chain) - 1)
       /\ work[r].drafts \in 0..MaxRegenerations
       /\ row[r] # None => row[r].version \in Versions
  /\ ToSet(flushed) \subseteq Requests /\ committed \subseteq ToSet(flushed)

\* What the report of a request may rest on.
EvidenceFor(r) ==
  LET version == row[r].version
  IN  Computed[version] \cup Reported[version] \cup (IF work[r].valuing THEN Worth[version] ELSE {})

\* A report served or announced as publishable quotes, of the very figures it
\* was computed from, no more than their rounding, and cites only what it was
\* given, however often the figures on file were restated while it was written.
PublishableIsGrounded ==
  \A r \in Requests :
    (/\ row[r] # None
     /\ <<"published", r>> \in announced \/ r \in ToSet(Listed(TRUE)))
    => /\ \A w \in Claims(row[r].figures) : Justified(w, EvidenceFor(r))
       /\ row[r].cited \subseteq SourceOf[row[r].version]
       /\ row[r].unsupported = {}

\* A report that is held back says why: the figures it names are exactly those
\* its evidence does not justify, and they outlived every corrective draft.
FaultsAreNamed ==
  \A r \in committed :
    /\ row[r].unsupported =
         {w \in Claims(row[r].figures) : ~Justified(w, EvidenceFor(r))}
    /\ row[r].unsupported # {} => row[r].regenerations = MaxRegenerations
    /\ IsPublishable(row[r]) => <<"withheld", r>> \notin announced

\* What a caller is told is true: a report that was created is on record and
\* no other is, and an outage of the last provider never hides that another
\* one would not write this draft.
RequestsEndTruthfully ==
  \A r \in Requests : /\ answer[r] = "created" <=> r \in committed
                      /\ answer[r] = "provider error" => ~work[r].refused

\* "A bare four-digit integer with no unit is a year, not a quantity": no
\* report is held back for one.
YearsAreExempt ==
  \A r \in committed : \A w \in row[r].unsupported :
    ~(/\ w.digits \in YearRange /\ w.places = 0 /\ w.suffix = "" /\ ~w.currency
      /\ w.word \notin Magnitudes)
=============================================================================
