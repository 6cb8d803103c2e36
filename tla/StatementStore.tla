----------------------------- MODULE StatementStore -----------------------------
(***************************************************************************)
(* One company's figures in Atlas, from a filing's text to the API: a      *)
(* filing is transcribed and validated (filings.extraction), its statement *)
(* set replaces that of the period (storage.repository, storage.models),   *)
(* and requests read the set back, analyse it and value it (api.routers).  *)
(*                                                                         *)
(* A request is one step here; FilingPipeline interleaves them.  A row     *)
(* keeps its statements as one record, although each has a table.          *)
(***************************************************************************)
EXTENDS Analysis, FiniteSets

CONSTANTS
  Garbled,         \* a printed figure that is no number
  Filings,         \* the documents that may be submitted
  Text,            \* what a filing says: [period, full, scale, printed]
  AskedInputs,     \* valuation inputs: [rate, terminal, forecast, years]
  AskedYears,      \* fiscal years a valuation may be asked for
  HistoryLimit     \* sets a lookup by fiscal year reads

PartNames == {"income", "balance", "cash_flow"}
ASSUME StoreAssumption ==
  /\ \A f \in Filings : /\ DOMAIN Text[f] = {"period", "full", "scale", "printed"}
                        /\ DOMAIN Text[f].printed = PartNames
                        /\ Text[f].period.end \in Int
                        /\ Text[f].period.quarter \in {Absent} \cup 1..4
  /\ HistoryLimit \in Nat \ {0}

VARIABLES
  filings,         \* the filings on record, known by their content
  rows,            \* statement_sets: period key -> [set, filing, rejected]
  answer           \* what the last request returned
vars == <<filings, rows, answer>>

Init == filings = {} /\ rows = << >> /\ answer = [kind |-> "none"]

(***************************************************************************)
(* Transcription and validation                                            *)
(***************************************************************************)
\* Plausible mistake. Amount: a blank is a zero.
MutAmount(printed, scale) == IF printed \in {Absent, Garbled} THEN 0 ELSE printed * scale

\* The money parser: Atlas applies the scale, to a figure that can be read.
Amount(printed, scale) == IF printed \in {Absent, Garbled} THEN Absent ELSE printed * scale
\* A share count is not scaled, and one that is unusable is left out.
ShareCount(printed) ==
  IF printed \in {Absent, Garbled} THEN Absent ELSE IF printed > 0 THEN printed ELSE Absent
Figure(item, printed, scale) ==
  IF item = "diluted_shares" THEN ShareCount(printed) ELSE Amount(printed, scale)

Required == [income |-> {"revenue", "net_income"},
             balance |-> {"total_assets", "total_liabilities", "shareholders_equity"},
             cash_flow |-> {"operating_cash_flow"}]
Complete(f, part) ==
  \A item \in Required[part] : Amount(Text[f].printed[part][item], Text[f].scale) # Absent

\* The statement a part of a filing would be, before it is validated.
Transcribed(f, part) ==
  LET printed == Text[f].printed[part]
      period == IF part = "balance" THEN Instant(Text[f].period.year, Text[f].period.end)
                ELSE Text[f].period
  IN  [item \in DOMAIN printed \cup {"period", "sources"} |->
         IF item \in DOMAIN printed THEN Figure(item, printed[item], Text[f].scale)
         ELSE IF item = "period" THEN period ELSE {f}]

\* What the constructor of a statement accepts.
IsValid(part, statement) ==
  CASE part = "income" -> ValidIncome(statement)
    [] part = "balance" -> ValidBalance(statement)
    [] part = "cash_flow" -> ValidCashFlow(statement)

Build(f, part) ==
  IF Text[f].printed[part] = Absent \/ ~Complete(f, part) THEN Absent
  ELSE LET statement == Transcribed(f, part)
       IN  IF IsValid(part, statement) THEN statement ELSE Absent

\* The statements that a filing's text comes to.
SetOf(f) ==
  [period |-> Text[f].period, income |-> Build(f, "income"),
   balance |-> Build(f, "balance"), cash_flow |-> Build(f, "cash_flow")]
ASSUME AbsentAssumption == \A f \in Filings : SetOf(f) # Absent

\* The statement set of a filing, or Absent when no statement survived.
Extracted == [f \in Filings |-> IF ValidSet(SetOf(f)) THEN SetOf(f) ELSE Absent]

\* Complete as printed, and refused by the identities.
Contradicts(f, part) ==
  Text[f].printed[part] # Absent /\ Complete(f, part) /\ Build(f, part) = Absent
FailedValidation == [f \in Filings |-> \E part \in PartNames : Contradicts(f, part)]

\* What was refused.  An incomplete statement is not read any further.
Reasons(f) ==
  LET parts == {p \in PartNames : Text[f].printed[p] # Absent}
      read(p) == IF Complete(f, p) THEN DOMAIN Text[f].printed[p] ELSE Required[p]
      unusable(p, i) == /\ Text[f].printed[p][i] # Absent
                        /\ Figure(i, Text[f].printed[p][i], Text[f].scale) = Absent
  IN  (UNION {{<<p, i>> : i \in {i \in read(p) : unusable(p, i)}} : p \in parts})
        \cup {<<p, "incomplete">> : p \in {p \in parts : ~Complete(f, p)}}
        \cup {<<p, "inconsistent">> : p \in {p \in parts : Contradicts(f, p)}}

\* A form that should carry statements and has none is reported as well.
Rejected ==
  [f \in Filings |->
     IF Reasons(f) = {} /\ Extracted[f] = Absent /\ Text[f].full
       THEN {<<"filing", "no statements">>} ELSE Reasons(f)]

(***************************************************************************)
(* The tables                                                              *)
(***************************************************************************)
IncomeColumns ==
  {"revenue", "cost_of_revenue", "gross_profit", "operating_expenses", "operating_income",
   "interest_expense", "pretax_income", "income_tax_expense", "net_income", "diluted_shares"}
BalanceColumns ==
  {"total_assets", "current_assets", "cash_and_equivalents", "inventory", "total_liabilities",
   "current_liabilities", "total_debt", "shareholders_equity"}
CashFlowColumns ==
  {"operating_cash_flow", "capital_expenditures", "investing_cash_flow",
   "financing_cash_flow", "net_change_in_cash"}

Columns == [income |-> IncomeColumns, balance |-> BalanceColumns, cash_flow |-> CashFlowColumns]

\* A statement that is printed has its lines: figures, blanks and illegible ones.
ASSUME PrintedAssumption ==
  /\ Garbled \notin Int
  /\ \A f \in Filings : /\ Text[f].scale \in Nat \ {0}
                        /\ \A p \in PartNames :
                             \/ Text[f].printed[p] = Absent
                             \/ Text[f].printed[p] \in [Columns[p] -> Int \cup {Absent, Garbled}]

\* NUMERIC(28, 4), or NULL for what is not disclosed.
MoneyColumn(figure) == IF figure = Absent THEN Absent ELSE ToMultipleOf(ColumnUnit, figure)

\* A statement's row: its period, its provenance and a column for each figure.
Row(statement, columns) ==
  IF statement = Absent THEN Absent
  ELSE [c \in columns \cup {"period", "sources"} |->
          IF c \in columns THEN MoneyColumn(statement[c]) ELSE statement[c]]

RowOf(f) ==
  LET set == Extracted[f]
  IN  [set |-> [period |-> set.period, income |-> Row(set.income, IncomeColumns),
                balance |-> Row(set.balance, BalanceColumns),
                cash_flow |-> Row(set.cash_flow, CashFlowColumns)],
       filing |-> f, rejected |-> Rejected[f]]

\* Plausible mistake. Save: under the date of the balance sheet.
MutSave(f) ==
  LET key == PeriodKey("instant", Text[f].period.year, Absent)
  IN  rows' = [k \in DOMAIN rows \cup {key} |-> IF k = key THEN RowOf(f) ELSE rows[k]]

\* The set replaces whatever the period had.
Save(f) ==
  LET key == KeyOf(Text[f].period)
  IN  rows' = [k \in DOMAIN rows \cup {key} |-> IF k = key THEN RowOf(f) ELSE rows[k]]

\* Reading rebuilds the domain models, so every identity is checked again.
Loads(row) == Constructs(row.set)

\* ORDER BY period_end DESC: any of those that end last.
Newest(keys) ==
  {k \in keys : \A other \in keys : rows[other].set.period.end <= rows[k].set.period.end}

\* The rows a history of at most HistoryLimit periods may consist of.
Histories ==
  LET size == IF Cardinality(DOMAIN rows) < HistoryLimit THEN Cardinality(DOMAIN rows)
              ELSE HistoryLimit
  IN  {keys \in SUBSET DOMAIN rows :
         /\ Cardinality(keys) = size
         /\ \A k \in keys : \A other \in DOMAIN rows \ keys :
              rows[other].set.period.end <= rows[k].set.period.end}

(***************************************************************************)
(* Requests                                                                *)
(***************************************************************************)
Reply(kind) == answer' = [kind |-> kind]
\* NotFoundError: the reply to a question about a period, a year or the latest set.
NotFound(about, asked) == answer' = [kind |-> "not_found", about |-> about, asked |-> asked]

\* What an ingestion returns: what was stored, and all that was refused.
IngestFilingResponse(f, created, parts, rejected, failed) ==
  [kind |-> "ingested", filing |-> f, created |-> created, parts |-> parts,
   rejected |-> rejected, failed |-> failed]

\* The statements as filed, with the filings they cite; null stays null.
StatementSetView(set) ==
  [p \in PartNames |-> set[p]] @@ [period |-> set.period, source_ids |-> SourceIds(set)]

\* What could be computed and what could not are listed apart.
AnalysisResponse(set) ==
  LET analysis == Analyze(set)
  IN  [metrics |-> [m \in Available(analysis) |-> analysis[m]],
       unavailable |-> DOMAIN analysis \ Available(analysis)]

\* POST /filings with a period the domain refuses.
RefusePeriod(f) ==
  /\ ~ValidPeriod(Text[f].period)
  /\ Reply("unprocessable")
  /\ UNCHANGED <<filings, rows>>

\* A redelivered filing is not transcribed again.
SubmitAgain(f) ==
  /\ f \in filings
  /\ answer' = IngestFilingResponse(f, FALSE, {}, {}, FALSE)
  /\ UNCHANGED <<filings, rows>>

\* The filing is on record and the provider's answer could not be used.
SubmitUnread(f) ==
  /\ f \notin filings /\ ValidPeriod(Text[f].period)
  /\ filings' = filings \cup {f}
  /\ answer' = IngestFilingResponse(f, TRUE, {}, {<<"filing", "transcription failed">>}, FALSE)
  /\ UNCHANGED rows

\* The filing is on record and has been transcribed.
Submit(f) ==
  /\ f \notin filings /\ ValidPeriod(Text[f].period)
  /\ filings' = filings \cup {f}
  /\ answer' = IngestFilingResponse(f, TRUE,
                  IF Extracted[f] = Absent THEN {}
                  ELSE {p \in PartNames : Extracted[f][p] # Absent},
                  Rejected[f], FailedValidation[f])
  /\ IF Extracted[f] = Absent THEN UNCHANGED rows ELSE Save(f)

\* The rows a request for a period, or (asked = Absent) for the latest one, may be
\* served from.
Lookup(asked) ==
  IF asked = Absent THEN Newest(DOMAIN rows)
  ELSE {PeriodKey(asked.kind, asked.year, asked.quarter)} \cap DOMAIN rows

\* GET /entities/{id}/statements and GET /entities/{id}/analysis.
Read(kind, asked) ==
  /\ IF Lookup(asked) = {} THEN NotFound(kind, asked)
     ELSE \E k \in Lookup(asked) :
            IF ~Loads(rows[k]) THEN Reply("error")
            ELSE answer' = [kind |-> kind, asked |-> asked, key |-> k,
                            shown |-> IF kind = "analysis" THEN AnalysisResponse(rows[k].set)
                                      ELSE StatementSetView(rows[k].set)]
  /\ UNCHANGED <<filings, rows>>
GetStatements(asked) == Read("statements", asked)
GetAnalysis(asked) == Read("analysis", asked)

\* What is valued: free cash flow, grown at the rate the caller gave.
Flows(set, inputs) == ProjectCashFlows(FreeCashFlow(set), inputs.forecast, inputs.years)
Valued(set, inputs) ==
  DcfValue(inputs.rate, inputs.terminal, Flows(set, inputs), NetDebt(set.balance),
           Line(set.income, "diluted_shares"))
\* DCFAssumptions.as_dict: the assumptions that come back with a valuation.
Stated(inputs) == [rate |-> inputs.rate, terminal |-> inputs.terminal, years |-> inputs.years]

\* Rates count 1 / RateUnit.
ASSUME InputsAssumption ==
  /\ AskedInputs \subseteq [rate : Int, terminal : Int, forecast : Int, years : Int]
  /\ AskedYears \subseteq Int

\* ValuationRequest: a rate is a fraction, the horizon is bounded.
Requestable(inputs) ==
  /\ \A r \in {inputs.rate, inputs.terminal, inputs.forecast} : -RateUnit < r /\ r < RateUnit
  /\ inputs.years \in 1 .. MaxYears

\* asked is the fiscal year that was asked for, or Absent for the latest set.
ValuationResponse(k, inputs, asked) ==
  LET value == Valued(rows[k].set, inputs)
  IN  [kind |-> "valuation", asked |-> asked, key |-> k, inputs |-> inputs,
       stated |-> Stated(inputs), value |-> value,
       terminal_dominated |-> IsTerminalDominated(value)]

\* A valuation is refused without a positive free cash flow or a sound spread.
ValuationOf(k, inputs, asked) ==
  LET base == FreeCashFlow(rows[k].set)
  IN  IF \/ base = Absent
         \/ base # Absent /\ base <= 0
         \/ ~AssumptionsHold(inputs.rate, inputs.terminal, inputs.years)
      THEN Reply("unprocessable")
      ELSE answer' = ValuationResponse(k, inputs, asked)

RefuseInputs(inputs) ==
  /\ ~Requestable(inputs)
  /\ Reply("unprocessable")
  /\ UNCHANGED <<filings, rows>>

\* POST /valuation/dcf for the latest period.
ValueLatest(inputs) ==
  /\ Requestable(inputs)
  /\ IF DOMAIN rows = {} THEN NotFound("valuation", Absent)
     ELSE \E k \in Newest(DOMAIN rows) :
            IF Loads(rows[k]) THEN ValuationOf(k, inputs, Absent) ELSE Reply("error")
  /\ UNCHANGED <<filings, rows>>

\* Plausible mistake. ValueYear: the newest of the history, whatever its year.
MutValueYear(year, inputs) ==
  /\ Requestable(inputs)
  /\ \E history \in Histories :
       IF \E k \in history : ~Loads(rows[k]) THEN Reply("error")
       ELSE IF history = {} THEN NotFound("valuation", year)
       ELSE \E k \in Newest(history) : ValuationOf(k, inputs, year)
  /\ UNCHANGED <<filings, rows>>

\* POST /valuation/dcf for a fiscal year: the newest of that year in the history.
ValueYear(year, inputs) ==
  /\ Requestable(inputs)
  /\ \E history \in Histories :
       LET ofYear == {k \in history : rows[k].set.period.year = year}
       IN  IF \E k \in history : ~Loads(rows[k]) THEN Reply("error")
           ELSE IF ofYear = {} THEN NotFound("valuation", year)
           ELSE \E k \in Newest(ofYear) : ValuationOf(k, inputs, year)
  /\ UNCHANGED <<filings, rows>>

Asked == {Absent} \cup {[kind |-> Text[f].period.kind, year |-> Text[f].period.year,
                            quarter |-> Text[f].period.quarter] : f \in Filings}
Next ==
  \/ \E f \in Filings : RefusePeriod(f) \/ SubmitAgain(f) \/ SubmitUnread(f) \/ Submit(f)
  \/ \E asked \in Asked : GetStatements(asked) \/ GetAnalysis(asked)
  \/ \E inputs \in AskedInputs :
       \/ RefuseInputs(inputs) \/ ValueLatest(inputs)
       \/ \E year \in AskedYears : ValueYear(year, inputs)

Spec == Init /\ [][Next]_vars

(***************************************************************************)
(* Properties                                                              *)
(***************************************************************************)
\* The shape of the tables: a filing is on record before its figures are, and
\* a row is the extraction of one, under the key of its period.
TypeOK ==
  /\ filings \subseteq Filings
  /\ IsFiniteSet(DOMAIN rows)
  /\ \A k \in DOMAIN rows : /\ rows[k].filing \in filings
                            /\ k = KeyOf(rows[k].set.period)
                            /\ rows[k].set.period = Text[rows[k].filing].period
  /\ answer.kind \in {"none", "ingested", "statements", "analysis", "valuation", "not_found",
                      "unprocessable", "error"}

\* What a filing printed under a statement, in grains: the shares as they stand,
\* the money in its scale.
PrintedGrains(f, part, item) ==
  Text[f].printed[part][item] * IF item = "diluted_shares" THEN 1 ELSE Text[f].scale

\* StoredAsPrinted: through the money parser, the row writers, the columns and the
\* row readers, every figure of a stored set is the one its filing prints, in
\* its scale and to the last place of a column; a line the filing does not
\* disclose, or prints illegibly, stays undisclosed and never becomes a zero.
StoredAsPrinted ==
  \A k \in DOMAIN rows : \A part \in {p \in PartNames : rows[k].set[p] # Absent} :
    LET f == rows[k].filing
        stored == rows[k].set[part]
    IN  \A item \in DOMAIN Text[f].printed[part] :
          IF \/ Text[f].printed[part][item] \in {Absent, Garbled}
             \/ item = "diluted_shares" /\ PrintedGrains(f, part, item) <= 0
          THEN stored[item] = Absent
          ELSE /\ stored[item] # Absent
               /\ 2 * Magnitude(stored[item] - PrintedGrains(f, part, item)) <= ColumnUnit

\* NothingDroppedSilently: whatever a newly ingested filing prints and its stored
\* set lacks is among the rejections of the reply, which the row keeps; a
\* form that should carry statements never yields none without a reason.
NothingDroppedSilently ==
  (answer.kind = "ingested" /\ answer.created /\ <<"filing", "transcription failed">> \notin answer.rejected)
  => LET f == answer.filing
         printed == {p \in PartNames : Text[f].printed[p] # Absent}
         row == rows[KeyOf(Text[f].period)]
     IN  /\ \A p \in printed \ answer.parts : \E reason \in answer.rejected : reason[1] = p
         /\ \A p \in answer.parts : \A item \in DOMAIN Text[f].printed[p] :
              (Text[f].printed[p][item] # Absent /\ row.set[p][item] = Absent)
              => <<p, item>> \in answer.rejected
         /\ answer.parts # {} => row.filing = f /\ row.rejected = answer.rejected
         /\ (answer.parts = {} /\ Text[f].full) => answer.rejected # {}

\* FiguresAsFiled: what a filing prints is stored as printed or refused aloud.
FiguresAsFiled == StoredAsPrinted /\ NothingDroppedSilently

\* PeriodServed: a set is served for the period that was asked for, and as the
\* latest only when none on file ends later.
PeriodServed ==
  answer.kind \in {"statements", "analysis"} =>
    LET period == rows[answer.key].set.period
    IN  IF answer.asked = Absent
        THEN \A k \in DOMAIN rows : rows[k].set.period.end <= period.end
        ELSE /\ answer.asked.kind = period.kind /\ answer.asked.year = period.year
             /\ answer.asked.quarter = period.quarter

\* YearValued: a valuation for a year is of a set of that year, the newest that
\* it has; when no year was asked for, it is of the newest set on file.
YearValued ==
  answer.kind = "valuation" =>
    LET valued == rows[answer.key].set.period
    IN  /\ answer.asked \in {Absent, valued.year}
        /\ \A k \in DOMAIN rows : answer.asked \in {Absent, rows[k].set.period.year}
                                  => rows[k].set.period.end <= valued.end

\* The other sets that a list from the newest may put before one.
NoEarlier(k) ==
  {other \in DOMAIN rows \ {k} : rows[k].set.period.end <= rows[other].set.period.end}

\* NothingMissed: a period or the latest set is not found only when it is not on
\* file, and a fiscal year only when every set that it has comes after as many
\* others as a lookup by year reads.
NothingMissed ==
  answer.kind = "not_found" =>
    IF answer.asked = Absent THEN DOMAIN rows = {}
    ELSE IF answer.about = "valuation"
    THEN \A k \in DOMAIN rows : rows[k].set.period.year = answer.asked
                                => Cardinality(NoEarlier(k)) >= HistoryLimit
    ELSE \A k \in DOMAIN rows :
           LET period == rows[k].set.period
           IN  \/ period.kind # answer.asked.kind \/ period.year # answer.asked.year
               \/ period.quarter # answer.asked.quarter

\* AnswersFitTheQuestion: whatever was filed, restated or refused before, an answer
\* is about the period that was asked for, and so is the lack of one.
AnswersFitTheQuestion == PeriodServed /\ YearValued /\ NothingMissed

\* The metrics that are plain quotients of two lines: numerator over denominator,
\* times a factor.
Quotients ==
  [operating_margin |-> <<"income", "operating_income", "income", "revenue", 100>>,
   net_margin |-> <<"income", "net_income", "income", "revenue", 100>>,
   diluted_eps |-> <<"income", "net_income", "income", "diluted_shares", 1>>,
   current_ratio |-> <<"balance", "current_assets", "balance", "current_liabilities", 1>>,
   debt_to_equity |-> <<"balance", "total_debt", "balance", "shareholders_equity", 1>>,
   return_on_equity |-> <<"income", "net_income", "balance", "shareholders_equity", 100>>,
   return_on_assets |-> <<"income", "net_income", "balance", "total_assets", 100>>]

\* QuotientsFollowFigures: an analysis reports a quotient exactly when the filing
\* discloses both of its lines and does not divide by zero, and the value is
\* the nearest the precision allows to the exact one, whatever the signs.
QuotientsFollowFigures ==
  answer.kind = "analysis" =>
    \A m \in DOMAIN Quotients :
      LET q == Quotients[m]
          n == Line(rows[answer.key].set[q[1]], q[2])
          d == Line(rows[answer.key].set[q[3]], q[4])
      IN  IF n = Absent \/ d \in {Absent, 0} THEN m \in answer.shown.unavailable
          ELSE /\ m \in DOMAIN answer.shown.metrics \ answer.shown.unavailable
               /\ 2 * Magnitude(answer.shown.metrics[m] * d - n * RatioScale * q[5])
                    <= q[5] * Magnitude(d)

\* ValuationsAddUp: the parts of a valuation are those of its total to the cent
\* they are rounded to, equity is what net debt leaves of it, only a positive
\* free cash flow under a sound spread is valued, and capital that costs
\* more never makes the same flows worth more.
ValuationsAddUp ==
  answer.kind = "valuation" =>
    LET v == answer.value
        set == rows[answer.key].set
        debt == NetDebt(set.balance)
        dearer == [answer.inputs EXCEPT !.rate = @ + 1]
    IN  /\ Magnitude(v.forecast + v.pv_terminal - v.enterprise) <= Cent
        /\ v.pv_terminal <= v.terminal
        /\ IF debt = Absent THEN v.equity = Absent
           ELSE 2 * Magnitude(v.equity + debt - v.enterprise) <= 2 * Cent
        /\ v.per_share # Absent => set.income # Absent /\ v.equity # Absent
        /\ FreeCashFlow(set) > 0 /\ answer.inputs.rate - answer.inputs.terminal >= MinimumSpread
        /\ Valued(set, dearer).enterprise <= v.enterprise

\* Two sets of figures that growth may be asked of, and the multiple of earnings
\* a market pays for one of them at a price per share.
Lines(item) == {k \in DOMAIN rows : Line(rows[k].set.income, item) # Absent}
PriceToEarnings(k, price) ==
  MarketMultiple(MarketCapitalisation(price, rows[k].set.income.diluted_shares),
                 rows[k].set.income.net_income)

\* GrowthIsLikeForLike: growth is reported in one direction only, between whole
\* years or the same quarter of two years, over a positive base, and is the
\* nearest to the exact change.
GrowthIsLikeForLike ==
  \A new, old \in Lines("revenue") :
    LET g == IncomeGrowth("revenue", rows[new].set, rows[old].set)
        a == rows[new].set.income.revenue
        b == rows[old].set.income.revenue
        p == rows[new].set.period
        q == rows[old].set.period
    IN  g # Absent =>
          /\ p.kind = q.kind /\ p.end > q.end /\ b > 0
          /\ p.kind = "quarterly" => p.quarter = q.quarter
          /\ 2 * Magnitude(g * b - 100 * RatioScale * (a - b)) <= 100 * b
          /\ IncomeGrowth("revenue", rows[old].set, rows[new].set) = Absent

\* GrowthsAgree: compound growth over one year is growth, but for a half in the
\* last place of a decline, which goes up in the one and away from zero in the
\* other; and so is the trend of a series of two, in whichever order it is given.
GrowthsAgree ==
  \A new, old \in Lines("revenue") :
    LET g == IncomeGrowth("revenue", rows[new].set, rows[old].set)
        entry(k) == [period |-> rows[k].set.period, amount |-> rows[k].set.income.revenue]
        a == entry(new).amount
        b == entry(old).amount
        compound == CompoundGrowth(b, a, 1)
    IN  g # Absent =>
          /\ IF a <= 0 THEN compound = Absent
             ELSE compound = g \/ (a < b /\ compound = g + 100)
          /\ Trend(<<entry(new), entry(old)>>) = <<g>> /\ Trend(<<entry(old), entry(new)>>) = <<g>>

\* RatiosFollowFigures: quotients and growth are those of the figures on file.
RatiosFollowFigures == QuotientsFollowFigures /\ GrowthIsLikeForLike /\ GrowthsAgree

\* Sets that are served, and the inputs they may be valued with.
Served == {k \in DOMAIN rows : Loads(rows[k])}
Admitted == {inputs \in AskedInputs : Requestable(inputs)}

\* PeersImplyTheirMean: what a pair of peers implies is the company's earnings at
\* the mean of their two multiples, to a half in its last place and to the cent.
PeersImplyTheirMean ==
  \A k \in Served :
    LET income == rows[k].set.income
        shares == Line(income, "diluted_shares")
        net == Line(income, "net_income")
        low == PriceToEarnings(k, 20)
        high == PriceToEarnings(k, 31)
        pair == <<[name |-> "a", basis |-> "pe", multiple |-> high],
                  [name |-> "b", basis |-> "pe", multiple |-> low]>>
        worth == ValueFromPeers(pair, net, "pe", shares, Absent)
    IN  (Absent \notin {shares, net} /\ net > 0) =>
          /\ 2 * worth.median \in {low + high, low + high + 1}
          /\ 2 * Magnitude(worth.implied * FactorScale - net * worth.median) <= Cent * FactorScale

\* OwnMultipleIsOwnPrice: a company valued at the enterprise multiple it trades at
\* is worth its own price, to the rounding of the multiple and of a share.
OwnMultipleIsOwnPrice ==
  \A k \in Served :
    LET shares == Line(rows[k].set.income, "diluted_shares")
        revenue == Line(rows[k].set.income, "revenue")
        debt == NetDebt(rows[k].set.balance)
        own == [name |-> "own", basis |-> "ps",
                multiple |-> MarketMultiple(EnterpriseValue(20, shares, debt), revenue)]
        worth == ValueFromPeers(<<own>>, revenue, "ps", shares, debt)
    IN  (Absent \notin {shares, debt, revenue} /\ revenue > 0) =>
          FactorScale * shares * (Magnitude(worth.per_share - 20) - ColumnUnit) <= revenue * Whole

\* GridsFall: a grid of valuations falls along the discount rate and rises along
\* terminal growth, with a gap exactly where the one does not clear the other.
GridsFall ==
  \A k \in Served, inputs \in Admitted :
    LET set == rows[k].set
        rates == {i.rate : i \in Admitted}
        growths == {i.terminal : i \in Admitted}
        grid == SensitivityGrid(Flows(set, inputs), rates, growths, NetDebt(set.balance),
                                Line(set.income, "diluted_shares"))
    IN  (FreeCashFlow(set) # Absent /\ FreeCashFlow(set) > 0) =>
          \A r \in rates, g \in growths :
            /\ (grid[r][g] # Absent) = (r > 0 /\ r - g >= MinimumSpread)
            /\ grid[r][g] # Absent => \A s \in rates, h \in growths :
                 (r <= s /\ h <= g) => grid[s][h] # Absent /\ grid[s][h] <= grid[r][g]

\* CapitalCostsBetween: capital costs no less than the cheaper and no more than the
\* dearer of equity and of debt after tax, to the precision of the weights.
CapitalCostsBetween ==
  \A k \in Served :
    LET equity == Line(rows[k].set.balance, "shareholders_equity")
        debt == Line(rows[k].set.balance, "total_debt")
        costs == {i.rate : i \in Admitted}
        taxes == {i.terminal : i \in Admitted}
    IN  (Absent \notin {equity, debt} /\ equity >= 0 /\ debt >= 0 /\ equity + debt > 0) =>
          \A ke, kd \in costs, tax \in taxes :
            LET dear == ke * RateUnit
                taxed == kd * (RateUnit - tax)
                square == RateUnit * RateUnit
                cost == CostOfCapital(equity, debt, ke, kd, tax)
            IN  (ke >= 0 /\ kd >= 0) =>
                  /\ \E c \in {dear, taxed} : 2 * c * (RatioScale - 1) - square <= 2 * (cost * square)
                  /\ \E c \in {dear, taxed} : 2 * (cost * square) <= 2 * c * (RatioScale + 1) + square

\* ValuesLieBetween: what is inferred from several inputs stays among them.
ValuesLieBetween ==
  PeersImplyTheirMean /\ OwnMultipleIsOwnPrice /\ GridsFall /\ CapitalCostsBetween

\* ValuationsAreCoherent: a valuation and what it is inferred from fit together.
ValuationsAreCoherent == ValuationsAddUp /\ ValuesLieBetween

\* AnnualFlowsAreAnnual: the flows a valuation discounts year by year are those of
\* years.  "cash_flows: Projected free cash flow per year" (analysis/dcf.py).
AnnualFlowsAreAnnual ==
  answer.kind = "valuation" => rows[answer.key].set.period.kind = "annual"
=============================================================================
