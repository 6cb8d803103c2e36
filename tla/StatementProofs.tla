---------------------------- MODULE StatementProofs ----------------------------
(***************************************************************************)
(* What StatementStore guarantees for any filings, periods, figures and    *)
(* valuation inputs: rows are extractions of filings on record, and every  *)
(* answer is about the period that was asked for.                          *)
(*                                                                         *)
(* The invariant is the shape of the tables and of the figures in them     *)
(* (RowsInv); an answer is new with every request, so its property holds   *)
(* whenever the tables have their shape.  The rest is arithmetic: rounding *)
(* is monotone and moves a value by a half at most, powers grow, discounts *)
(* fall, and a power of any exponent is reached by induction, from the     *)
(* least number that would fail.                                           *)
(***************************************************************************)
EXTENDS StatementStore, FiniteSetTheorems, TLAPS

LEMMA InitStore == Init => TypeOK /\ AnswersFitTheQuestion
<1> SUFFICES ASSUME Init PROVE TypeOK /\ AnswersFitTheQuestion
  OBVIOUS
<1>1. DOMAIN rows = {} /\ IsFiniteSet(DOMAIN rows)
  BY FS_EmptySet DEF Init
<1>2. QED
  BY <1>1 DEF Init, TypeOK, AnswersFitTheQuestion, PeriodServed, YearValued, NothingMissed

\* Sets end at integers.
LEMMA EndsAreIntegers ==
  ASSUME TypeOK, NEW k \in DOMAIN rows
  PROVE  rows[k].set.period.end \in Int
BY StoreAssumption DEF TypeOK

\* A row whose key is that of a question is of the question's period.
LEMMA KeysAreUnique ==
  ASSUME TypeOK, NEW k \in DOMAIN rows, NEW asked \in Asked \ {Absent},
         k = PeriodKey(asked.kind, asked.year, asked.quarter)
  PROVE  /\ asked.kind = rows[k].set.period.kind /\ asked.year = rows[k].set.period.year
         /\ asked.quarter = rows[k].set.period.quarter
<1>1. PICK f \in Filings :
        /\ asked.kind = Text[f].period.kind /\ asked.year = Text[f].period.year
        /\ asked.quarter = Text[f].period.quarter
  BY DEF Asked
<1>2. asked.quarter \in {Absent} \cup 1..4 /\ rows[k].set.period.quarter \in {Absent} \cup 1..4
  BY <1>1, StoreAssumption DEF TypeOK
<1>3. Absent # 0
  BY FiguresAssumption
<1>4. k = KeyOf(rows[k].set.period)
  BY DEF TypeOK
<1>5. QED
  BY <1>2, <1>3, <1>4 DEF KeyOf, PeriodKey

\* The sets that a history of bounded length holds of a year are the newest
\* that the year has.
LEMMA HistoriesReachTheNewest ==
  ASSUME TypeOK, NEW history \in Histories, NEW year,
         NEW k \in Newest({h \in history : rows[h].set.period.year = year}),
         NEW other \in DOMAIN rows, rows[other].set.period.year = year
  PROVE  /\ k \in DOMAIN rows /\ rows[k].set.period.year = year
         /\ rows[other].set.period.end <= rows[k].set.period.end
<1>1. history \subseteq DOMAIN rows
  BY DEF Histories
<1>2. k \in history /\ rows[k].set.period.year = year
  BY DEF Newest
<1>3. CASE other \in history
  BY <1>1, <1>2, <1>3 DEF Newest
<1>4. CASE other \notin history
  BY <1>1, <1>2, <1>4 DEF Histories
<1>5. QED
  BY <1>1, <1>2, <1>3, <1>4

\* Among sets on file there is one that ends last: the sets that end after it
\* are fewest.
LEMMA NewestExists ==
  ASSUME TypeOK, DOMAIN rows # {}
  PROVE  Newest(DOMAIN rows) # {}
<1> DEFINE after(k) == {other \in DOMAIN rows : rows[other].set.period.end > rows[k].set.period.end}
           T == {after(k) : k \in DOMAIN rows}
<1>1. T \subseteq FiniteSubsetsOf(DOMAIN rows) /\ T # {}
  <2>1. ASSUME NEW k \in DOMAIN rows PROVE after(k) \in FiniteSubsetsOf(DOMAIN rows)
    <3>1. after(k) \subseteq DOMAIN rows /\ IsFiniteSet(DOMAIN rows)
      BY DEF TypeOK
    <3>2. IsFiniteSet(after(k))
      BY <3>1, FS_Subset
    <3>3. QED
      BY <3>1, <3>2 DEF FiniteSubsetsOf
  <2>2. QED
    BY <2>1
<1>2. PICK x \in T : \A y \in T : <<y, x>> \notin StrictSubsetOrdering(DOMAIN rows)
  BY <1>1, FS_StrictSubsetOrderingWellFounded, WFMin
<1>3. PICK k \in DOMAIN rows : x = after(k)
  BY <1>2
<1>4. ASSUME NEW other \in DOMAIN rows, ~(rows[other].set.period.end <= rows[k].set.period.end)
      PROVE  FALSE
  <2>1. rows[other].set.period.end \in Int /\ rows[k].set.period.end \in Int
    BY EndsAreIntegers
  <2>2. other \in after(k) /\ other \notin after(other)
    BY <1>4, <2>1
  <2>3. after(other) \subseteq after(k)
    <3>1. \A o \in DOMAIN rows : rows[o].set.period.end \in Int
      BY EndsAreIntegers
    <3>2. QED
      BY <1>4, <2>1, <3>1
  <2>4. after(other) \in T /\ after(k) \subseteq DOMAIN rows
    OBVIOUS
  <2> HIDE DEF after, T
  <2>5. <<after(other), after(k)>> \notin StrictSubsetOrdering(DOMAIN rows)
    BY <1>2, <1>3, <2>4
  <2>6. QED
    BY <2>2, <2>3, <2>4, <2>5 DEF StrictSubsetOrdering
<1>5. k \in Newest(DOMAIN rows)
  BY <1>4 DEF Newest
<1>6. QED
  BY <1>5

\* A set that a history leaves out comes after as many others as it reads.
LEMMA HistoriesMissTheOldest ==
  ASSUME TypeOK, NEW history \in Histories, NEW k \in DOMAIN rows \ history
  PROVE  Cardinality(NoEarlier(k)) >= HistoryLimit
<1>1. history \subseteq DOMAIN rows /\ IsFiniteSet(DOMAIN rows)
  BY DEF TypeOK, Histories
<1>2. /\ Cardinality(history) = Cardinality(DOMAIN rows) => history = DOMAIN rows
      /\ Cardinality(DOMAIN rows) \in Nat
  BY <1>1, FS_Subset, FS_CardinalityType
<1>3. Cardinality(history) = HistoryLimit
  BY <1>2 DEF Histories
<1>4. history \subseteq NoEarlier(k)
  BY <1>1 DEF Histories, NoEarlier
<1>5. IsFiniteSet(NoEarlier(k))
  BY <1>1, FS_Subset DEF NoEarlier
<1>6. Cardinality(history) <= Cardinality(NoEarlier(k))
  BY <1>4, <1>5, FS_Subset
<1>7. QED
  BY <1>3, <1>6

\* A request that reads changes no table, and what it answers has a kind.
LEMMA ReadersKeepTypes ==
  ASSUME TypeOK, UNCHANGED <<filings, rows>>,
         answer'.kind \in {"none", "ingested", "statements", "analysis", "valuation", "not_found",
                           "unprocessable", "error"}
  PROVE  TypeOK'
BY DEF TypeOK

\* Nothing is said of the reply to a request that is refused or that fails.
LEMMA OthersFit ==
  ASSUME answer'.kind \in {"none", "ingested", "unprocessable", "error"}
  PROVE  AnswersFitTheQuestion'
BY DEF AnswersFitTheQuestion, PeriodServed, YearValued, NothingMissed

\* Of what is not found there is nothing to find.
LEMMA MissesFit ==
  ASSUME TypeOK, UNCHANGED <<filings, rows>>, NEW about \in {"statements", "analysis", "valuation"},
         NEW asked, NotFound(about, asked), asked = Absent => DOMAIN rows = {},
         asked # Absent =>
           IF about = "valuation"
           THEN \A k \in DOMAIN rows : rows[k].set.period.year = asked
                                       => Cardinality(NoEarlier(k)) >= HistoryLimit
           ELSE \A k \in DOMAIN rows :
                  LET period == rows[k].set.period
                  IN  \/ period.kind # asked.kind \/ period.year # asked.year
                      \/ period.quarter # asked.quarter
  PROVE  TypeOK' /\ AnswersFitTheQuestion'
<1>1. answer'.kind = "not_found" /\ answer'.about = about /\ answer'.asked = asked
  BY DEF NotFound
<1>2. \A k : NoEarlier(k)' = NoEarlier(k)
  BY DEF NoEarlier
<1>3. NothingMissed'
  BY <1>1, <1>2 DEF NothingMissed
<1>4. PeriodServed' /\ YearValued'
  BY <1>1 DEF PeriodServed, YearValued
<1>5. QED
  BY <1>1, <1>3, <1>4, ReadersKeepTypes DEF AnswersFitTheQuestion

\* A valuation of the newest of the sets that were asked for fits, and a refusal
\* does.
LEMMA ValuationsFit ==
  ASSUME TypeOK, UNCHANGED <<filings, rows>>, NEW k \in DOMAIN rows, NEW inputs, NEW asked,
         ValuationOf(k, inputs, asked), asked \in {Absent, rows[k].set.period.year},
         \A other \in DOMAIN rows : asked \in {Absent, rows[other].set.period.year}
                                    => rows[other].set.period.end <= rows[k].set.period.end
  PROVE  TypeOK' /\ AnswersFitTheQuestion'
<1>1. CASE Reply("unprocessable")
  BY <1>1, ReadersKeepTypes, OthersFit DEF Reply
<1>2. CASE answer' = ValuationResponse(k, inputs, asked)
  <2>1. answer'.kind = "valuation" /\ answer'.key = k /\ answer'.asked = asked
    BY <1>2 DEF ValuationResponse
  <2>2. TypeOK'
    BY <2>1, ReadersKeepTypes
  <2>3. YearValued'
    BY <2>1 DEF YearValued
  <2>4. PeriodServed' /\ NothingMissed'
    BY <2>1 DEF PeriodServed, NothingMissed
  <2>5. QED
    BY <2>2, <2>3, <2>4 DEF AnswersFitTheQuestion
<1>3. QED
  BY <1>1, <1>2 DEF ValuationOf

\* A transcribed filing leaves a row under its own key, and no other changes.
LEMMA SubmissionsKeepTypes ==
  ASSUME TypeOK, NEW f \in Filings, Submit(f)
  PROVE  TypeOK' /\ AnswersFitTheQuestion'
<1>1. answer'.kind = "ingested" /\ filings' = filings \cup {f}
  BY DEF Submit, IngestFilingResponse
<1>2. CASE Extracted[f] = Absent
  <2>1. UNCHANGED rows
    BY <1>2 DEF Submit
  <2>2. QED
    BY <1>1, <2>1, OthersFit DEF TypeOK
<1>3. CASE Extracted[f] # Absent
  <2>1. Extracted[f].period = Text[f].period
    BY <1>3 DEF Extracted, SetOf
  <2>2. RowOf(f).filing = f /\ RowOf(f).set.period = Text[f].period
    BY <2>1 DEF RowOf
  <2> DEFINE key == KeyOf(Text[f].period)
  <2>3. /\ DOMAIN rows' = DOMAIN rows \cup {key} /\ rows'[key] = RowOf(f)
        /\ \A k \in DOMAIN rows \ {key} : rows'[k] = rows[k]
    BY <1>3 DEF Submit, Save
  <2>4. IsFiniteSet(DOMAIN rows')
    BY <2>3, FS_AddElement DEF TypeOK
  <2>5. TypeOK'
    BY <1>1, <2>2, <2>3, <2>4 DEF TypeOK
  <2>6. QED
    BY <1>1, <2>5, OthersFit
<1>4. QED
  BY <1>2, <1>3

LEMMA StepStore ==
  TypeOK /\ AnswersFitTheQuestion /\ [Next]_vars => TypeOK' /\ AnswersFitTheQuestion'
<1> SUFFICES ASSUME TypeOK, AnswersFitTheQuestion, [Next]_vars
             PROVE  TypeOK' /\ AnswersFitTheQuestion'
  OBVIOUS
<1>1. ASSUME NEW f \in Filings, RefusePeriod(f) \/ SubmitAgain(f)
      PROVE  TypeOK' /\ AnswersFitTheQuestion'
  BY <1>1, ReadersKeepTypes, OthersFit DEF RefusePeriod, SubmitAgain, Reply, IngestFilingResponse
<1>2. ASSUME NEW f \in Filings, SubmitUnread(f) PROVE TypeOK' /\ AnswersFitTheQuestion'
  BY <1>2, OthersFit DEF SubmitUnread, IngestFilingResponse, TypeOK
<1>3. ASSUME NEW f \in Filings, Submit(f) PROVE TypeOK' /\ AnswersFitTheQuestion'
  BY <1>3, SubmissionsKeepTypes
<1>4. ASSUME NEW asked \in Asked, NEW kind \in {"statements", "analysis"}, Read(kind, asked)
      PROVE  TypeOK' /\ AnswersFitTheQuestion'
  <2>1. UNCHANGED <<filings, rows>>
    BY <1>4 DEF Read
  <2>2. CASE Reply("error")
    BY <2>1, <2>2, ReadersKeepTypes, OthersFit DEF Reply
  <2>3. CASE Lookup(asked) = {} /\ NotFound(kind, asked)
    <3>1. asked = Absent => DOMAIN rows = {}
      BY <2>3, NewestExists DEF Lookup
    <3>2. ASSUME asked # Absent, NEW k \in DOMAIN rows, rows[k].set.period.kind = asked.kind,
                 rows[k].set.period.year = asked.year, rows[k].set.period.quarter = asked.quarter
          PROVE  FALSE
      <4>1. k = PeriodKey(asked.kind, asked.year, asked.quarter)
        BY <3>2 DEF TypeOK, KeyOf
      <4>2. QED
        BY <2>3, <3>2, <4>1 DEF Lookup
    <3>3. QED
      BY <2>1, <2>3, <3>1, <3>2, MissesFit
  <2>4. ASSUME NEW k \in Lookup(asked), NEW shown,
               answer' = [kind |-> kind, asked |-> asked, key |-> k, shown |-> shown]
        PROVE  TypeOK' /\ AnswersFitTheQuestion'
    <3>1. answer'.kind = kind /\ answer'.asked = asked /\ answer'.key = k
      BY <2>4
    <3>2. TypeOK'
      BY <2>1, <3>1, ReadersKeepTypes
    <3>3. k \in DOMAIN rows
      BY <2>4 DEF Lookup, Newest
    <3>4. asked = Absent =>
            \A other \in DOMAIN rows : rows[other].set.period.end <= rows[k].set.period.end
      BY <2>4 DEF Lookup, Newest
    <3>5. asked # Absent =>
            /\ asked.kind = rows[k].set.period.kind /\ asked.year = rows[k].set.period.year
            /\ asked.quarter = rows[k].set.period.quarter
      BY <2>4, <3>3, KeysAreUnique DEF Lookup
    <3>6. PeriodServed'
      BY <2>1, <3>1, <3>4, <3>5 DEF PeriodServed
    <3>7. YearValued' /\ NothingMissed'
      BY <3>1 DEF YearValued, NothingMissed
    <3>8. QED
      BY <3>2, <3>6, <3>7 DEF AnswersFitTheQuestion
  <2>5. QED
    BY <1>4, <2>2, <2>3, <2>4 DEF Read
<1>5. ASSUME NEW inputs \in AskedInputs, RefuseInputs(inputs)
      PROVE  TypeOK' /\ AnswersFitTheQuestion'
  BY <1>5, ReadersKeepTypes, OthersFit DEF RefuseInputs, Reply
<1>6. ASSUME NEW inputs \in AskedInputs, ValueLatest(inputs)
      PROVE  TypeOK' /\ AnswersFitTheQuestion'
  <2>1. UNCHANGED <<filings, rows>>
    BY <1>6 DEF ValueLatest
  <2>2. CASE Reply("error")
    BY <2>1, <2>2, ReadersKeepTypes, OthersFit DEF Reply
  <2>3. CASE DOMAIN rows = {} /\ NotFound("valuation", Absent)
    BY <2>1, <2>3, MissesFit
  <2>4. ASSUME NEW k \in Newest(DOMAIN rows), ValuationOf(k, inputs, Absent)
        PROVE  TypeOK' /\ AnswersFitTheQuestion'
    BY <2>1, <2>4, ValuationsFit DEF Newest
  <2>5. QED
    BY <1>6, <2>2, <2>3, <2>4 DEF ValueLatest
<1>7. ASSUME NEW inputs \in AskedInputs, NEW year \in AskedYears, ValueYear(year, inputs)
      PROVE  TypeOK' /\ AnswersFitTheQuestion'
  <2>1. UNCHANGED <<filings, rows>> /\ year # Absent
    BY <1>7, InputsAssumption, FiguresAssumption DEF ValueYear
  <2>2. CASE Reply("error")
    BY <2>1, <2>2, ReadersKeepTypes, OthersFit DEF Reply
  <2>3. ASSUME NEW history \in Histories, {h \in history : rows[h].set.period.year = year} = {},
               NotFound("valuation", year)
        PROVE  TypeOK' /\ AnswersFitTheQuestion'
    <3>1. \A k \in DOMAIN rows : rows[k].set.period.year = year
                                 => Cardinality(NoEarlier(k)) >= HistoryLimit
      BY <2>3, HistoriesMissTheOldest
    <3>2. QED
      BY <2>1, <2>3, <3>1, MissesFit
  <2>4. ASSUME NEW history \in Histories,
               NEW k \in Newest({h \in history : rows[h].set.period.year = year}),
               ValuationOf(k, inputs, year)
        PROVE  TypeOK' /\ AnswersFitTheQuestion'
    <3>1. k \in DOMAIN rows /\ rows[k].set.period.year = year
      BY <2>4 DEF Histories, Newest
    <3>2. \A other \in DOMAIN rows : rows[other].set.period.year = year
            => rows[other].set.period.end <= rows[k].set.period.end
      BY <2>4, HistoriesReachTheNewest
    <3>3. QED
      BY <2>1, <2>4, <3>1, <3>2, ValuationsFit
  <2>5. QED
    BY <1>7, <2>2, <2>3, <2>4 DEF ValueYear
<1>8. CASE UNCHANGED vars
  BY <1>8 DEF vars, TypeOK, AnswersFitTheQuestion, PeriodServed, YearValued, NothingMissed, NoEarlier
<1>9. QED
  BY <1>1, <1>2, <1>3, <1>4, <1>5, <1>6, <1>7, <1>8 DEF Next, GetStatements, GetAnalysis

\* Every stored set is the extraction of a filing on record, under the key of
\* the period that the filing states.
THEOREM TypeCorrect == Spec => []TypeOK
BY InitStore, StepStore, PTL DEF Spec

\* Whatever was filed before, statements and analyses are of the period that
\* was asked for or of one that none on file ends after; a valuation is of the
\* newest set of the fiscal year that was asked for, or of all; and a question is
\* left without an answer only when the period is not on file or every set of
\* the year comes after as many others as a lookup by year reads.
THEOREM AnswersFit == Spec => []AnswersFitTheQuestion
BY InitStore, StepStore, PTL DEF Spec

(***************************************************************************)
(* Rounding                                                                *)
(***************************************************************************)
\* A quotient rounded half away from zero is at most half a unit off.
LEMMA HalfUpIsNearest ==
  ASSUME NEW n \in Int, NEW d \in Int, d # 0
  PROVE  /\ HalfUp(n, d) \in Int
         /\ 2 * Magnitude(HalfUp(n, d) * d - n) <= Magnitude(d)
<1> DEFINE a == Magnitude(n)
           b == Magnitude(d)
           q == (2 * a + b) \div (2 * b)
<1>1. a \in Nat /\ b \in Nat /\ b > 0
  BY DEF Magnitude
<1>2. q \in Int /\ q * (2 * b) <= 2 * a + b /\ q * (2 * b) + 2 * b > 2 * a + b
  <2> DEFINE m == 2 * a + b
             w == 2 * b
  <2>1. m \in Int /\ w \in Int /\ w > 0
    BY <1>1
  <2> HIDE DEF m, w
  <2>2. m \div w \in Int /\ (m \div w) * w <= m /\ (m \div w) * w + w > m
    BY <2>1
  <2>3. QED
    BY <2>2 DEF m, w
<1>3. q * (2 * b) = 2 * (q * b)
  BY <1>1, <1>2
<1>4. HalfUp(n, d) = IF (n < 0) = (d < 0) THEN q ELSE -q
  BY DEF HalfUp
<1> HIDE DEF q
<1> DEFINE p == q * b
<1>5. p \in Int /\ 2 * p <= 2 * a + b /\ 2 * p + 2 * b > 2 * a + b
  BY <1>1, <1>2, <1>3
<1>6. HalfUp(n, d) \in Int /\ HalfUp(n, d) * d = IF n < 0 THEN -p ELSE p
  <2>1. CASE d > 0 /\ n >= 0
    BY <1>2, <1>4, <2>1 DEF Magnitude
  <2>2. CASE d > 0 /\ n < 0
    BY <1>2, <1>4, <2>2 DEF Magnitude
  <2>3. CASE d < 0 /\ n >= 0
    BY <1>2, <1>4, <2>3 DEF Magnitude
  <2>4. CASE d < 0 /\ n < 0
    BY <1>2, <1>4, <2>4 DEF Magnitude
  <2>5. QED
    BY <2>1, <2>2, <2>3, <2>4
<1> HIDE DEF p
<1>7. QED
  BY <1>1, <1>5, <1>6 DEF Magnitude

\* What a column keeps of a figure is at most half its last place off.
LEMMA ColumnsKeepFigures ==
  ASSUME NEW x \in Int
  PROVE  /\ MoneyColumn(x) \in Int
         /\ 2 * Magnitude(MoneyColumn(x) - x) <= ColumnUnit
<1>1. ColumnUnit \in Int /\ ColumnUnit > 0 /\ x # Absent
  BY FiguresAssumption
<1>2. MoneyColumn(x) = HalfUp(x, ColumnUnit) * ColumnUnit
  BY <1>1 DEF MoneyColumn, ToMultipleOf
<1>3. HalfUp(x, ColumnUnit) \in Int
  BY <1>1, HalfUpIsNearest
<1>4. 2 * Magnitude(HalfUp(x, ColumnUnit) * ColumnUnit - x) <= Magnitude(ColumnUnit)
  BY <1>1, HalfUpIsNearest
<1>5. Magnitude(ColumnUnit) = ColumnUnit
  BY <1>1 DEF Magnitude
<1>6. QED
  BY <1>1, <1>2, <1>3, <1>4, <1>5

(***************************************************************************)
(* Figures as filed                                                        *)
(***************************************************************************)
\* What a filing prints under a statement has the columns of that statement.
LEMMA PrintedLines ==
  ASSUME NEW f \in Filings, NEW p \in PartNames, Text[f].printed[p] # Absent
  PROVE  /\ Text[f].printed[p] \in [Columns[p] -> Int \cup {Absent, Garbled}]
         /\ DOMAIN Text[f].printed[p] = Columns[p]
         /\ "period" \notin Columns[p] /\ "sources" \notin Columns[p]
<1>1. Text[f].printed[p] \in [Columns[p] -> Int \cup {Absent, Garbled}]
  BY PrintedAssumption
<1>2. "period" \notin Columns[p] /\ "sources" \notin Columns[p]
  BY DEF PartNames, Columns, IncomeColumns, BalanceColumns, CashFlowColumns
<1>3. QED
  BY <1>1, <1>2

\* A transcribed figure is absent exactly where none can be read, and is
\* otherwise the one printed.
LEMMA FiguresAreRead ==
  ASSUME NEW f \in Filings, NEW p \in PartNames, Text[f].printed[p] # Absent,
         NEW item \in Columns[p]
  PROVE  LET printed == Text[f].printed[p][item]
             figure == Figure(item, printed, Text[f].scale)
             illegible == \/ printed \in {Absent, Garbled}
                          \/ item = "diluted_shares" /\ PrintedGrains(f, p, item) <= 0
         IN  IF illegible THEN figure = Absent
             ELSE figure = PrintedGrains(f, p, item) /\ figure \in Int
<1> DEFINE printed == Text[f].printed[p][item]
<1>1. printed \in Int \cup {Absent, Garbled} /\ Text[f].scale \in Int
  BY PrintedLines, PrintedAssumption
<1>2. PrintedGrains(f, p, item) = printed * IF item = "diluted_shares" THEN 1 ELSE Text[f].scale
  BY DEF PrintedGrains
<1> HIDE DEF printed
<1>3. CASE printed \in {Absent, Garbled}
  BY <1>3 DEF Figure, ShareCount, Amount, printed
<1>4. CASE printed \in Int /\ printed \notin {Absent, Garbled} /\ item = "diluted_shares"
  BY <1>2, <1>4 DEF Figure, ShareCount, printed
<1>5. CASE printed \in Int /\ printed \notin {Absent, Garbled} /\ item # "diluted_shares"
  <2>1. printed * Text[f].scale \in Int
    BY <1>1, <1>5
  <2>2. QED
    BY <1>2, <1>5, <2>1 DEF Figure, Amount, printed
<1>6. QED
  BY <1>1, <1>3, <1>4, <1>5

\* A statement that is built is the one transcribed: its lines are read, and
\* its period is valid and ends when the filing's does.
LEMMA BuiltStatements ==
  ASSUME NEW f \in Filings, NEW p \in PartNames, Build(f, p) # Absent
  PROVE  /\ Text[f].printed[p] # Absent /\ Complete(f, p)
         /\ \A item \in Columns[p] :
              Build(f, p)[item] = Figure(item, Text[f].printed[p][item], Text[f].scale)
         /\ Build(f, p).period = IF p = "balance" THEN Instant(Text[f].period.year, Text[f].period.end)
                                 ELSE Text[f].period
         /\ Build(f, p).sources = {f}
<1>1. Text[f].printed[p] # Absent /\ Complete(f, p) /\ Build(f, p) = Transcribed(f, p)
  BY DEF Build
<1>2. /\ DOMAIN Text[f].printed[p] = Columns[p]
      /\ "period" \notin Columns[p] /\ "sources" \notin Columns[p]
  BY <1>1, PrintedLines
<1> HIDE DEF Columns
<1>3. QED
  BY <1>1, <1>2 DEF Transcribed

\* The parts of a filing's set are its built statements.
LEMMA PartsAreBuilt ==
  ASSUME NEW f \in Filings, NEW p \in PartNames
  PROVE  SetOf(f)[p] = Build(f, p) /\ SetOf(f).period = Text[f].period
BY DEF SetOf, PartNames

\* Of a filing with a valid period no set is made only when no statement is.
LEMMA NoSetNoStatement ==
  ASSUME NEW f \in Filings, ValidPeriod(Text[f].period), Extracted[f] = Absent, NEW p \in PartNames
  PROVE  Build(f, p) = Absent
<1> SUFFICES ASSUME Build(f, p) # Absent PROVE FALSE
  OBVIOUS
<1>1. ~ValidSet(SetOf(f))
  BY AbsentAssumption DEF Extracted
<1>2. Parts(SetOf(f)) # {}
  <2>1. p \in {"income", "balance", "cash_flow"} /\ SetOf(f)[p] = Build(f, p)
    BY PartsAreBuilt DEF PartNames
  <2>2. QED
    BY <2>1 DEF Parts
<1>3. PICK s \in Parts(SetOf(f)) : ~(ValidPeriod(s.period) /\ s.period.end = Text[f].period.end)
  BY <1>1, <1>2, PartsAreBuilt DEF ValidSet
<1>4. PICK part \in PartNames : s = Build(f, part) /\ s # Absent
  BY <1>3 DEF Parts, SetOf, PartNames
<1>5. s.period \in {Instant(Text[f].period.year, Text[f].period.end), Text[f].period}
  BY <1>4, BuiltStatements
<1>6. s.period = Instant(Text[f].period.year, Text[f].period.end)
  BY <1>3, <1>5
<1>7. QED
  BY <1>3, <1>6 DEF Instant, ValidPeriod

\* What the row of a filing's set holds of a statement.
LEMMA RowsHoldFigures ==
  ASSUME NEW f \in Filings, Extracted[f] # Absent, NEW p \in PartNames,
         RowOf(f).set[p] # Absent
  PROVE  /\ Extracted[f][p] # Absent /\ Build(f, p) # Absent
         /\ \A item \in Columns[p] :
              RowOf(f).set[p][item] = MoneyColumn(Build(f, p)[item])
<1>1. Extracted[f][p] = Build(f, p)
  BY PartsAreBuilt DEF Extracted
<1>2. RowOf(f).set[p] = Row(Build(f, p), Columns[p])
  BY <1>1 DEF RowOf, PartNames, Columns
<1>3. QED
  BY <1>1, <1>2 DEF Row

\* Every row is what a filing on record comes to.
RowsInv ==
  \A k \in DOMAIN rows : LET f == rows[k].filing
                         IN  f \in Filings /\ Extracted[f] # Absent /\ rows[k] = RowOf(f)

\* Figures are stored as printed, because rows are made of printed figures.
LEMMA RowsAreAsPrinted == RowsInv => StoredAsPrinted
<1> SUFFICES ASSUME RowsInv, NEW k \in DOMAIN rows, NEW p \in PartNames, rows[k].set[p] # Absent,
                    NEW item \in DOMAIN Text[rows[k].filing].printed[p]
             PROVE  LET f == rows[k].filing
                        stored == rows[k].set[p]
                    IN  IF \/ Text[f].printed[p][item] \in {Absent, Garbled}
                           \/ item = "diluted_shares" /\ PrintedGrains(f, p, item) <= 0
                        THEN stored[item] = Absent
                        ELSE /\ stored[item] # Absent
                             /\ 2 * Magnitude(stored[item] - PrintedGrains(f, p, item)) <= ColumnUnit
  BY DEF StoredAsPrinted
<1> DEFINE f == rows[k].filing
           grains == PrintedGrains(f, p, item)
           stored == rows[k].set[p][item]
<1>1. f \in Filings /\ Extracted[f] # Absent /\ rows[k] = RowOf(f)
  BY DEF RowsInv
<1>2. /\ Build(f, p) # Absent
      /\ \A i \in Columns[p] : rows[k].set[p][i] = MoneyColumn(Build(f, p)[i])
  BY <1>1, RowsHoldFigures
<1>3. /\ Text[f].printed[p] # Absent
      /\ \A i \in Columns[p] : Build(f, p)[i] = Figure(i, Text[f].printed[p][i], Text[f].scale)
  BY <1>1, <1>2, BuiltStatements
<1>4. item \in Columns[p]
  BY <1>1, <1>3, PrintedLines
<1>5. stored = MoneyColumn(Figure(item, Text[f].printed[p][item], Text[f].scale))
  BY <1>2, <1>3, <1>4
<1> DEFINE illegible == \/ Text[f].printed[p][item] \in {Absent, Garbled}
                        \/ item = "diluted_shares" /\ grains <= 0
<1>6. IF illegible THEN stored = MoneyColumn(Absent) ELSE stored = MoneyColumn(grains) /\ grains \in Int
  BY <1>1, <1>3, <1>4, <1>5, FiguresAreRead
<1>7. MoneyColumn(Absent) = Absent
  BY DEF MoneyColumn
<1> HIDE DEF grains, stored, illegible
<1>8. IF illegible THEN stored = Absent
      ELSE stored # Absent /\ 2 * Magnitude(stored - grains) <= ColumnUnit
  BY <1>6, <1>7, ColumnsKeepFigures, FiguresAssumption
<1>9. QED
  BY <1>8 DEF grains, stored, illegible

\* A statement that is printed and not built is among the reasons.
LEMMA MissingStatementsHaveReasons ==
  ASSUME NEW f \in Filings, NEW p \in PartNames, Text[f].printed[p] # Absent, Build(f, p) = Absent
  PROVE  \E reason \in Reasons(f) : reason[1] = p
<1>1. CASE ~Complete(f, p)
  <2>1. <<p, "incomplete">> \in Reasons(f)
    BY <1>1 DEF Reasons
  <2>2. QED
    BY <2>1
<1>2. CASE Complete(f, p)
  <2>1. <<p, "inconsistent">> \in Reasons(f)
    BY <1>2 DEF Reasons, Contradicts
  <2>2. QED
    BY <2>1
<1>3. QED
  BY <1>1, <1>2

\* A line that is printed in a complete statement and cannot be used is one.
LEMMA MissingLinesHaveReasons ==
  ASSUME NEW f \in Filings, NEW p \in PartNames, Text[f].printed[p] # Absent, Complete(f, p),
         NEW item \in Columns[p], Text[f].printed[p][item] # Absent,
         Figure(item, Text[f].printed[p][item], Text[f].scale) = Absent
  PROVE  <<p, item>> \in Reasons(f)
<1>1. item \in DOMAIN Text[f].printed[p]
  BY PrintedLines
<1>2. QED
  BY <1>1 DEF Reasons

\* A reply and a row name every reason.
LEMMA ReasonsAreKept ==
  ASSUME NEW f \in Filings
  PROVE  /\ Reasons(f) \subseteq Rejected[f]
         /\ Extracted[f] = Absent /\ Text[f].full => Rejected[f] # {}
BY DEF Rejected

\* What a submission stores is what its filing prints, and it says what it lacks.
LEMMA SubmissionsAccount ==
  ASSUME NEW f \in Filings, RowsInv, Submit(f)
  PROVE  RowsInv' /\ NothingDroppedSilently'
<1> DEFINE key == KeyOf(Text[f].period)
           made == IF Extracted[f] = Absent THEN {} ELSE {p \in PartNames : Extracted[f][p] # Absent}
<1>1. /\ answer'.kind = "ingested" /\ answer'.filing = f
      /\ answer'.parts = made /\ answer'.rejected = Rejected[f]
  BY DEF Submit, IngestFilingResponse
<1>2. IF Extracted[f] = Absent THEN UNCHANGED rows
      ELSE rows' = [k \in DOMAIN rows \cup {key} |-> IF k = key THEN RowOf(f) ELSE rows[k]]
  BY DEF Submit, Save
<1>3. RowOf(f).filing = f /\ RowOf(f).rejected = Rejected[f]
  BY DEF RowOf
<1>4. RowsInv'
  BY <1>2, <1>3 DEF RowsInv
<1>5. \A p \in PartNames : p \in made <=> Extracted[f] # Absent /\ Build(f, p) # Absent
  BY PartsAreBuilt DEF Extracted
<1>6. \A p \in PartNames \ made : Build(f, p) = Absent
  BY <1>5, NoSetNoStatement DEF Submit
<1>7. ASSUME NEW p \in PartNames \ made, Text[f].printed[p] # Absent
      PROVE  \E reason \in Rejected[f] : reason[1] = p
  BY <1>6, <1>7, MissingStatementsHaveReasons, ReasonsAreKept
<1>8. made # {} => Extracted[f] # Absent /\ rows'[key] = RowOf(f)
  BY <1>2
<1>9. ASSUME NEW p \in made, NEW item \in DOMAIN Text[f].printed[p],
             Text[f].printed[p][item] # Absent, rows'[key].set[p][item] = Absent
      PROVE  <<p, item>> \in Rejected[f]
  <2>1. p \in PartNames /\ Build(f, p) # Absent
    BY <1>5, <1>9
  <2>2. /\ Text[f].printed[p] # Absent /\ Complete(f, p) /\ item \in Columns[p]
        /\ Build(f, p)[item] = Figure(item, Text[f].printed[p][item], Text[f].scale)
    BY <1>9, <2>1, BuiltStatements, PrintedLines
  <2>3. RowOf(f).set[p] = Row(Build(f, p), Columns[p])
    BY <1>5, <1>9, <2>1, PartsAreBuilt DEF RowOf, PartNames, Columns, Extracted
  <2>4. MoneyColumn(Build(f, p)[item]) = Absent
    BY <1>8, <1>9, <2>1, <2>2, <2>3 DEF Row
  <2>5. Build(f, p)[item] = Absent
    BY <2>1, <2>2, <2>4, FiguresAreRead, ColumnsKeepFigures, FiguresAssumption
  <2>6. QED
    BY <1>9, <2>1, <2>2, <2>5, MissingLinesHaveReasons, ReasonsAreKept
<1>10. made = {} => Extracted[f] = Absent
  <2>1. SUFFICES ASSUME Extracted[f] # Absent PROVE made # {}
    OBVIOUS
  <2>2. PICK s : s \in Parts(SetOf(f))
    BY <2>1 DEF Extracted, ValidSet
  <2>3. \E p \in PartNames : s = Build(f, p) /\ s # Absent
    BY <2>2 DEF Parts, SetOf, PartNames
  <2>4. QED
    BY <1>5, <2>1, <2>3
<1>11. made = {} /\ Text[f].full => Rejected[f] # {}
  BY <1>10, ReasonsAreKept
<1> HIDE DEF made
<1>12. NothingDroppedSilently'
  BY <1>1, <1>3, <1>7, <1>8, <1>9, <1>11 DEF NothingDroppedSilently
<1>13. QED
  BY <1>4, <1>12

\* A request that stores nothing new leaves the rows as they are, and a reply
\* that is about no transcription drops nothing.
LEMMA ReadersKeepFigures ==
  ASSUME RowsInv, UNCHANGED rows,
         answer'.kind = "ingested" =>
           ~answer'.created \/ <<"filing", "transcription failed">> \in answer'.rejected
  PROVE  RowsInv' /\ NothingDroppedSilently'
BY DEF RowsInv, NothingDroppedSilently

LEMMA StepFigures == RowsInv /\ NothingDroppedSilently /\ [Next]_vars => RowsInv' /\ NothingDroppedSilently'
<1> SUFFICES ASSUME RowsInv, NothingDroppedSilently, [Next]_vars
             PROVE  RowsInv' /\ NothingDroppedSilently'
  OBVIOUS
<1>1. ASSUME NEW f \in Filings, RefusePeriod(f) \/ SubmitAgain(f) \/ SubmitUnread(f)
      PROVE  RowsInv' /\ NothingDroppedSilently'
  <2>1. UNCHANGED rows
    BY <1>1 DEF RefusePeriod, SubmitAgain, SubmitUnread
  <2>2. answer'.kind = "ingested" =>
          ~answer'.created \/ <<"filing", "transcription failed">> \in answer'.rejected
    <3>1. CASE RefusePeriod(f)
      BY <3>1 DEF RefusePeriod, Reply
    <3>2. CASE SubmitAgain(f)
      BY <3>2 DEF SubmitAgain, IngestFilingResponse
    <3>3. CASE SubmitUnread(f)
      BY <3>3 DEF SubmitUnread, IngestFilingResponse
    <3>4. QED
      BY <1>1, <3>1, <3>2, <3>3
  <2>3. QED
    BY <2>1, <2>2, ReadersKeepFigures
<1>2. ASSUME NEW f \in Filings, Submit(f) PROVE RowsInv' /\ NothingDroppedSilently'
  BY <1>2, SubmissionsAccount
<1>3. ASSUME NEW asked \in Asked, NEW kind \in {"statements", "analysis"}, Read(kind, asked)
      PROVE  RowsInv' /\ NothingDroppedSilently'
  <2>1. UNCHANGED rows /\ answer'.kind # "ingested"
    BY <1>3 DEF Read, Reply, NotFound
  <2>2. QED
    BY <2>1, ReadersKeepFigures
<1>4. ASSUME NEW k, NEW inputs, NEW asked, ValuationOf(k, inputs, asked)
      PROVE  answer'.kind # "ingested"
  BY <1>4 DEF ValuationOf, Reply, ValuationResponse
<1>5. ASSUME NEW inputs \in AskedInputs,
             RefuseInputs(inputs) \/ ValueLatest(inputs) \/ \E y \in AskedYears : ValueYear(y, inputs)
      PROVE  RowsInv' /\ NothingDroppedSilently'
  <2>1. UNCHANGED rows
    BY <1>5 DEF RefuseInputs, ValueLatest, ValueYear
  <2>2. \/ (\E k, asked : ValuationOf(k, inputs, asked)) \/ (\E asked : NotFound("valuation", asked))
        \/ Reply("unprocessable") \/ Reply("error")
    BY <1>5 DEF RefuseInputs, ValueLatest, ValueYear
  <2>3. answer'.kind # "ingested"
    BY <1>4, <2>2 DEF Reply, NotFound
  <2>4. QED
    BY <2>1, <2>3, ReadersKeepFigures
<1>6. CASE UNCHANGED vars
  BY <1>6 DEF vars, RowsInv, NothingDroppedSilently
<1>7. QED
  BY <1>1, <1>2, <1>3, <1>5, <1>6 DEF Next, GetStatements, GetAnalysis

\* For any filings, texts, scales and column widths: every stored figure is the
\* printed one to the last place of its column, a line that is undisclosed or
\* illegible is stored as such, and what a new filing prints and its set lacks
\* is among the rejections that the reply and the row carry.
THEOREM FiguresAreAsFiled == Spec => []FiguresAsFiled
<1>1. Init => RowsInv /\ NothingDroppedSilently
  BY DEF Init, RowsInv, NothingDroppedSilently
<1>2. RowsInv /\ NothingDroppedSilently => FiguresAsFiled
  BY RowsAreAsPrinted DEF FiguresAsFiled
<1>3. QED
  BY <1>1, <1>2, StepFigures, PTL DEF Spec

(***************************************************************************)
(* Ratios and growth                                                       *)
(***************************************************************************)
\* Every line of a stored set is an integer or undisclosed.
LEMMA LinesAreFigures ==
  ASSUME RowsInv, NEW k \in DOMAIN rows, NEW p \in PartNames, NEW item \in Columns[p]
  PROVE  Line(rows[k].set[p], item) \in Int \cup {Absent}
<1> DEFINE f == rows[k].filing
<1>1. f \in Filings /\ Extracted[f] # Absent /\ rows[k] = RowOf(f)
  BY DEF RowsInv
<1>2. CASE rows[k].set[p] = Absent
  BY <1>2 DEF Line
<1>3. CASE rows[k].set[p] # Absent
  <2>1. Build(f, p) # Absent /\ rows[k].set[p][item] = MoneyColumn(Build(f, p)[item])
    BY <1>1, <1>3, RowsHoldFigures
  <2>2. Text[f].printed[p] # Absent
        /\ Build(f, p)[item] = Figure(item, Text[f].printed[p][item], Text[f].scale)
    BY <1>1, <2>1, BuiltStatements
  <2>3. Build(f, p)[item] \in Int \cup {Absent}
    BY <1>1, <2>2, FiguresAreRead
  <2>4. rows[k].set[p][item] \in Int \cup {Absent}
    BY <2>1, <2>3, ColumnsKeepFigures DEF MoneyColumn
  <2>5. QED
    BY <2>4 DEF Line
<1>4. QED
  BY <1>2, <1>3

\* A ratio, and a percentage, of two lines is there when both are and the second
\* is not zero, and is then the nearest to the exact one.
LEMMA RatiosAreNearest ==
  ASSUME NEW n \in Int \cup {Absent}, NEW d \in Int \cup {Absent}
  PROVE  IF n = Absent \/ d \in {Absent, 0}
         THEN RatioMetric(n, d) = Absent /\ PercentMetric(n, d) = Absent
         ELSE /\ RatioMetric(n, d) # Absent /\ PercentMetric(n, d) # Absent
              /\ 2 * Magnitude(RatioMetric(n, d) * d - n * RatioScale * 1) <= 1 * Magnitude(d)
              /\ 2 * Magnitude(PercentMetric(n, d) * d - n * RatioScale * 100) <= 100 * Magnitude(d)
<1>1. CASE n = Absent \/ d \in {Absent, 0}
  BY <1>1 DEF RatioMetric, PercentMetric
<1>2. CASE ~(n = Absent \/ d \in {Absent, 0})
  <2> DEFINE r == HalfUp(n * RatioScale, d)
             e == r * d
             x == n * RatioScale
             z == Magnitude(d)
  <2>1. n \in Int /\ d \in Int /\ d # 0 /\ RatioScale \in Int /\ x \in Int
    BY <1>2, FiguresAssumption
  <2>2. r \in Int /\ 2 * Magnitude(e - x) <= z
    BY <2>1, HalfUpIsNearest
  <2>3. r # Absent /\ 100 * r # Absent
    BY <2>2, FiguresAssumption
  <2>4. RatioMetric(n, d) = r /\ PercentMetric(n, d) = 100 * r
    BY <1>2, <2>3 DEF RatioMetric, PercentMetric, Ratio
  <2>5. e \in Int /\ z \in Int /\ (100 * r) * d = 100 * e
    BY <2>1, <2>2 DEF Magnitude
  <2> HIDE DEF r, e, x, z
  <2>6. 2 * Magnitude(100 * e - x * 100) <= 100 * z /\ 2 * Magnitude(e - x * 1) <= 1 * z
    BY <2>1, <2>2, <2>5 DEF Magnitude
  <2>7. QED
    BY <1>2, <2>3, <2>4, <2>5, <2>6 DEF e, x, z
<1>3. QED
  BY <1>1, <1>2

\* Every quotient is the ratio or the percentage of its two lines.
LEMMA QuotientsAreMetrics ==
  ASSUME NEW set, NEW m \in DOMAIN Quotients
  PROVE  LET q == Quotients[m]
             n == Line(set[q[1]], q[2])
             d == Line(set[q[3]], q[4])
         IN  /\ q[1] \in PartNames /\ q[2] \in Columns[q[1]]
             /\ q[3] \in PartNames /\ q[4] \in Columns[q[3]]
             /\ m \in DOMAIN Analyze(set)
             /\ \/ q[5] = 1 /\ Analyze(set)[m] = RatioMetric(n, d)
                \/ q[5] = 100 /\ Analyze(set)[m] = PercentMetric(n, d)
<1> USE DEF Quotients, PartNames, Columns, IncomeColumns, BalanceColumns, CashFlowColumns, Analyze
<1>1. CASE m = "operating_margin"
  BY <1>1 DEF OperatingMargin
<1>2. CASE m = "net_margin"
  BY <1>2 DEF NetMargin
<1>3. CASE m = "diluted_eps"
  BY <1>3 DEF DilutedEps
<1>4. CASE m = "current_ratio"
  BY <1>4 DEF CurrentRatio
<1>5. CASE m = "debt_to_equity"
  BY <1>5 DEF DebtToEquity
<1>6. CASE m = "return_on_equity"
  BY <1>6 DEF ReturnOnEquity
<1>7. CASE m = "return_on_assets"
  BY <1>7 DEF ReturnOnAssets
<1>8. QED
  BY <1>1, <1>2, <1>3, <1>4, <1>5, <1>6, <1>7

\* The analysis of a stored set reports its quotients.
LEMMA AnalysesFollow ==
  ASSUME RowsInv, NEW k \in DOMAIN rows, NEW m \in DOMAIN Quotients
  PROVE  LET shown == AnalysisResponse(rows[k].set)
             q == Quotients[m]
             n == Line(rows[k].set[q[1]], q[2])
             d == Line(rows[k].set[q[3]], q[4])
         IN  IF n = Absent \/ d \in {Absent, 0} THEN m \in shown.unavailable
             ELSE /\ m \in DOMAIN shown.metrics \ shown.unavailable
                  /\ 2 * Magnitude(shown.metrics[m] * d - n * RatioScale * q[5]) <= q[5] * Magnitude(d)
<1> DEFINE set == rows[k].set
           q == Quotients[m]
           n == Line(set[q[1]], q[2])
           d == Line(set[q[3]], q[4])
           value == Analyze(set)[m]
           shown == AnalysisResponse(set)
<1>1. /\ m \in DOMAIN Analyze(set)
      /\ \/ q[5] = 1 /\ value = RatioMetric(n, d)
         \/ q[5] = 100 /\ value = PercentMetric(n, d)
  BY QuotientsAreMetrics
<1>2. n \in Int \cup {Absent} /\ d \in Int \cup {Absent}
  BY QuotientsAreMetrics, LinesAreFigures
<1>3. /\ shown.metrics = [x \in Available(Analyze(set)) |-> Analyze(set)[x]]
      /\ shown.unavailable = DOMAIN Analyze(set) \ Available(Analyze(set))
  BY DEF AnalysisResponse
<1> HIDE DEF n, d, shown, q
<1>4. m \in Available(Analyze(set)) <=> value # Absent
  BY <1>1 DEF Available
<1>5. CASE n = Absent \/ d \in {Absent, 0}
  <2>1. value = Absent
    BY <1>1, <1>2, <1>5, RatiosAreNearest
  <2>2. m \in shown.unavailable
    BY <1>1, <1>3, <1>4, <2>1
  <2>3. QED
    BY <1>5, <2>2 DEF n, d, shown, q
<1>6. CASE ~(n = Absent \/ d \in {Absent, 0})
  <2>1. value # Absent /\ 2 * Magnitude(value * d - n * RatioScale * q[5]) <= q[5] * Magnitude(d)
    <3>1. CASE q[5] = 1 /\ value = RatioMetric(n, d)
      BY <1>2, <1>6, <3>1, RatiosAreNearest
    <3>2. CASE q[5] = 100 /\ value = PercentMetric(n, d)
      BY <1>2, <1>6, <3>2, RatiosAreNearest
    <3>3. QED
      BY <1>1, <3>1, <3>2
  <2>2. m \in DOMAIN shown.metrics \ shown.unavailable /\ shown.metrics[m] = value
    BY <1>3, <1>4, <2>1
  <2>3. QED
    BY <1>6, <2>1, <2>2 DEF n, d, shown, q
<1>7. QED
  BY <1>5, <1>6

\* Growth is nearest, of comparable periods, forward, and over a positive base.
LEMMA GrowthsFollow == RowsInv => GrowthIsLikeForLike
<1> SUFFICES ASSUME RowsInv, NEW new \in Lines("revenue"), NEW old \in Lines("revenue"),
                    IncomeGrowth("revenue", rows[new].set, rows[old].set) # Absent
             PROVE  LET g == IncomeGrowth("revenue", rows[new].set, rows[old].set)
                        a == rows[new].set.income.revenue
                        b == rows[old].set.income.revenue
                        p == rows[new].set.period
                        q == rows[old].set.period
                    IN  /\ p.kind = q.kind /\ p.end > q.end /\ b > 0
                        /\ p.kind = "quarterly" => p.quarter = q.quarter
                        /\ 2 * Magnitude(g * b - 100 * RatioScale * (a - b)) <= 100 * b
                        /\ IncomeGrowth("revenue", rows[old].set, rows[new].set) = Absent
  BY DEF GrowthIsLikeForLike
<1> DEFINE g == IncomeGrowth("revenue", rows[new].set, rows[old].set)
           a == rows[new].set.income.revenue
           b == rows[old].set.income.revenue
           p == rows[new].set.period
           q == rows[old].set.period
           r == HalfUp((a - b) * RatioScale, b)
           e == r * b
           x == (a - b) * RatioScale
<1>1. a \in Int /\ b \in Int /\ RatioScale \in Int
  <2>1. \A k \in Lines("revenue") : rows[k].set.income.revenue \in Int
    <3>1. SUFFICES ASSUME NEW k \in Lines("revenue") PROVE rows[k].set.income.revenue \in Int
      OBVIOUS
    <3>2. k \in DOMAIN rows /\ Line(rows[k].set.income, "revenue") # Absent
      BY DEF Lines
    <3>3. "income" \in PartNames /\ "revenue" \in Columns["income"]
      BY DEF PartNames, Columns, IncomeColumns
    <3>4. Line(rows[k].set["income"], "revenue") \in Int \cup {Absent}
      BY <3>2, <3>3, LinesAreFigures
    <3>5. QED
      BY <3>2, <3>4 DEF Line
  <2>2. QED
    BY <2>1, FiguresAssumption
<1>2. p.end \in Int /\ q.end \in Int
  <2>1. ASSUME NEW k \in DOMAIN rows PROVE rows[k].set.period.end \in Int
    <3>1. PICK f \in Filings : Extracted[f] # Absent /\ rows[k] = RowOf(f)
      BY DEF RowsInv
    <3>2. rows[k].set.period = Text[f].period
      BY <3>1, PartsAreBuilt DEF RowOf, Extracted, SetOf
    <3>3. QED
      BY <3>2, StoreAssumption
  <2>2. QED
    BY <2>1 DEF Lines
<1>3. /\ IsComparableTo(p, q) /\ p.end > q.end /\ b > 0
      /\ g = 100 * r
  BY DEF IncomeGrowth, Growth, Ratio
<1>4. p.kind = q.kind /\ (p.kind = "quarterly" => p.quarter = q.quarter)
  BY <1>3 DEF IsComparableTo
<1>5. IncomeGrowth("revenue", rows[old].set, rows[new].set) = Absent
  BY <1>2, <1>3 DEF IncomeGrowth, Growth
<1>6. x \in Int /\ r \in Int /\ 2 * Magnitude(e - x) <= Magnitude(b)
  <2>1. x \in Int /\ b # 0
    BY <1>1, <1>3
  <2>2. QED
    BY <1>1, <2>1, HalfUpIsNearest
<1>7. e \in Int /\ g * b = 100 * e /\ 100 * RatioScale * (a - b) = 100 * x
  BY <1>1, <1>3, <1>6
<1> HIDE DEF a, b, e, x, r, g
<1>8. 2 * Magnitude(100 * e - 100 * x) <= 100 * b
  BY <1>1, <1>3, <1>6, <1>7 DEF Magnitude
<1>9. QED
  BY <1>3, <1>4, <1>5, <1>7, <1>8 DEF a, b, g

\* What an analysis shows is said of the set it is served from.
LEMMA StepQuotients ==
  RowsInv /\ QuotientsFollowFigures /\ [Next]_vars => QuotientsFollowFigures'
<1> SUFFICES ASSUME RowsInv, QuotientsFollowFigures, [Next]_vars
             PROVE  QuotientsFollowFigures'
  OBVIOUS
<1>1. ASSUME NEW f \in Filings, RefusePeriod(f) \/ SubmitAgain(f) \/ SubmitUnread(f) \/ Submit(f)
      PROVE  answer'.kind # "analysis"
  <2>1. CASE RefusePeriod(f)
    BY <2>1 DEF RefusePeriod, Reply
  <2>2. CASE SubmitAgain(f)
    BY <2>2 DEF SubmitAgain, IngestFilingResponse
  <2>3. CASE SubmitUnread(f)
    BY <2>3 DEF SubmitUnread, IngestFilingResponse
  <2>4. CASE Submit(f)
    <3>1. answer'.kind = "ingested"
      BY <2>4 DEF Submit, IngestFilingResponse
    <3>2. QED
      BY <3>1
  <2>5. QED
    BY <1>1, <2>1, <2>2, <2>3, <2>4
<1>2. ASSUME NEW asked \in Asked, NEW kind \in {"statements", "analysis"}, Read(kind, asked)
      PROVE  QuotientsFollowFigures'
  <2>1. UNCHANGED rows
    BY <1>2 DEF Read
  <2>2. CASE answer'.kind # "analysis"
    BY <2>2 DEF QuotientsFollowFigures
  <2>3. CASE answer'.kind = "analysis"
    <3>1. \E k \in Lookup(asked) :
            answer' = [kind |-> kind, asked |-> asked, key |-> k,
                       shown |-> IF kind = "analysis" THEN AnalysisResponse(rows[k].set)
                                 ELSE StatementSetView(rows[k].set)]
      BY <1>2, <2>3 DEF Read, Reply, NotFound
    <3>2. PICK k \in Lookup(asked) :
            answer'.key = k /\ answer'.kind = kind
            /\ answer'.shown = IF kind = "analysis" THEN AnalysisResponse(rows[k].set)
                                 ELSE StatementSetView(rows[k].set)
      BY <3>1
    <3>3. answer'.key \in DOMAIN rows
      BY <3>2 DEF Lookup, Newest
    <3>4. answer'.shown = AnalysisResponse(rows[answer'.key].set)
      BY <2>3, <3>2
    <3>5. QED
      BY <2>1, <3>3, <3>4, AnalysesFollow DEF QuotientsFollowFigures
  <2>4. QED
    BY <2>2, <2>3
<1>3. ASSUME NEW k, NEW inputs, NEW asked, ValuationOf(k, inputs, asked)
      PROVE  answer'.kind # "analysis"
  BY <1>3 DEF ValuationOf, Reply, ValuationResponse
<1>4. ASSUME NEW inputs \in AskedInputs,
             RefuseInputs(inputs) \/ ValueLatest(inputs) \/ \E y \in AskedYears : ValueYear(y, inputs)
      PROVE  answer'.kind # "analysis"
  <2>1. \/ (\E k, asked : ValuationOf(k, inputs, asked)) \/ (\E asked : NotFound("valuation", asked))
        \/ Reply("unprocessable") \/ Reply("error")
    BY <1>4 DEF RefuseInputs, ValueLatest, ValueYear
  <2>2. QED
    BY <1>3, <2>1 DEF Reply, NotFound
<1>5. CASE UNCHANGED vars
  BY <1>5 DEF vars, QuotientsFollowFigures
<1>6. QED
  BY <1>1, <1>2, <1>4, <1>5 DEF Next, GetStatements, GetAnalysis, QuotientsFollowFigures

(***************************************************************************)
(* Induction, powers and rounding                                          *)
(***************************************************************************)
\* A set of natural numbers has a least one: the intervals up to them are
\* finite sets, which inclusion orders well.
LEMMA LeastNumber ==
  ASSUME NEW S \in SUBSET Nat, S # {}
  PROVE  \E n \in S : \A m \in S : n <= m
<1> DEFINE T == {1..n : n \in S}
<1>1. T \subseteq FiniteSubsetsOf(Nat) /\ T # {}
  <2>1. ASSUME NEW n \in S PROVE 1..n \in FiniteSubsetsOf(Nat)
    BY FS_Interval DEF FiniteSubsetsOf
  <2>2. QED
    BY <2>1
<1>2. PICK x \in T : \A y \in T : <<y, x>> \notin StrictSubsetOrdering(Nat)
  BY <1>1, FS_StrictSubsetOrderingWellFounded, WFMin
<1>3. PICK n \in S : x = 1..n
  BY <1>2
<1>4. ASSUME NEW m \in S, ~(n <= m) PROVE FALSE
  <2>1. <<1..m, 1..n>> \notin StrictSubsetOrdering(Nat)
    BY <1>2, <1>3
  <2>2. 1..m \subseteq 1..n /\ n \in 1..n /\ n \notin 1..m /\ 1..n \subseteq Nat
    BY <1>4
  <2>3. QED
    BY <2>1, <2>2 DEF StrictSubsetOrdering
<1>5. QED
  BY <1>4

\* What holds of zero, and of the successor of what it holds of, holds of all.
LEMMA NumbersReached ==
  ASSUME NEW S \in SUBSET Nat, 0 \in S, \A n \in S : n + 1 \in S
  PROVE  S = Nat
<1> SUFFICES ASSUME Nat \ S # {} PROVE FALSE
  OBVIOUS
<1>1. PICK n \in Nat \ S : \A m \in Nat \ S : n <= m
  BY LeastNumber
<1>2. n # 0 /\ n - 1 \in Nat /\ n - 1 \in S
  BY <1>1
<1>3. QED
  BY <1>1, <1>2

\* A function whose values are made from the value for the number before.
Iterates(f, d, A, a, step) ==
  f \in [0..d -> A] /\ \A n \in 0..d : f[n] = IF n = 0 THEN a ELSE step[n][f[n - 1]]

LEMMA IterationExists ==
  ASSUME NEW d \in Nat, NEW A, NEW a \in A, NEW step \in [Nat -> [A -> A]]
  PROVE  \E f : Iterates(f, d, A, a, step)
<1> DEFINE Fits(f, n) == \A m \in 0..n : f[m] = IF m = 0 THEN a ELSE step[m][f[m - 1]]
           S == {n \in Nat : \E f \in [0..n -> A] : Fits(f, n)}
<1>1. 0 \in S
  <2> DEFINE f == [m \in 0..0 |-> a]
  <2>1. f \in [0..0 -> A] /\ Fits(f, 0)
    OBVIOUS
  <2>2. QED
    BY <2>1
<1>2. ASSUME NEW n \in S PROVE n + 1 \in S
  <2>1. PICK f \in [0..n -> A] : Fits(f, n)
    OBVIOUS
  <2> DEFINE g == [m \in 0 .. n + 1 |-> IF m = n + 1 THEN step[n + 1][f[n]] ELSE f[m]]
  <2>2. g \in [0 .. n + 1 -> A]
    <3>1. step[n + 1][f[n]] \in A
      OBVIOUS
    <3>2. \A m \in 0 .. n + 1 : m # n + 1 => f[m] \in A
      OBVIOUS
    <3>3. QED
      BY <3>1, <3>2
  <2>3. ASSUME NEW m \in 0 .. n + 1 PROVE g[m] = IF m = 0 THEN a ELSE step[m][g[m - 1]]
    <3>1. CASE m = n + 1
      BY <3>1
    <3>2. CASE m # n + 1
      <4>1. m \in 0..n /\ (m # 0 => m - 1 \in 0 .. n + 1 /\ m - 1 # n + 1)
        BY <3>2
      <4>2. g[m] = f[m] /\ (m # 0 => g[m - 1] = f[m - 1])
        BY <3>2, <4>1
      <4>3. f[m] = IF m = 0 THEN a ELSE step[m][f[m - 1]]
        BY <2>1, <4>1
      <4> HIDE DEF g, Fits, S
      <4>4. QED
        BY <4>2, <4>3
    <3>3. QED
      BY <3>1, <3>2
  <2> HIDE DEF g
  <2>4. QED
    BY <2>2, <2>3
<1>3. S = Nat
  <2> HIDE DEF S
  <2>1. S \in SUBSET Nat
    BY DEF S
  <2>2. QED
    BY <1>1, <1>2, <2>1, NumbersReached
<1>4. QED
  BY <1>3 DEF Iterates

IsRaised(x, n, power) == power = [m \in 0..n |-> IF m = 0 THEN 1 ELSE x * power[m - 1]]

LEMMA RaisedIs ==
  ASSUME NEW x \in Int, NEW n \in Nat
  PROVE  \E f : IsRaised(x, n, f) /\ Raised(x, n) = f[n]
<1> DEFINE step == [k \in Nat |-> [y \in Int |-> x * y]]
<1>1. step \in [Nat -> [Int -> Int]] /\ \A k \in Nat, y \in Int : step[k][y] = x * y
  OBVIOUS
<1>2. \E g : IsRaised(x, n, g)
  <2> HIDE DEF step
  <2>0. 1 \in Int /\ n \in Nat
    OBVIOUS
  <2>1. PICK g : Iterates(g, n, Int, 1, step)
    BY <1>1, <2>0, IterationExists
  <2>2. \A m \in 0..n : g[m] = IF m = 0 THEN 1 ELSE x * g[m - 1]
    <3>1. \A m \in 0..n : m # 0 => m \in Nat /\ g[m - 1] \in Int
      BY <2>1 DEF Iterates
    <3>2. QED
      BY <1>1, <2>1, <3>1 DEF Iterates
  <2>3. g = [m \in 0..n |-> g[m]]
    BY <2>1 DEF Iterates
  <2>4. QED
    BY <2>2, <2>3 DEF IsRaised
<1> DEFINE f == CHOOSE f : IsRaised(x, n, f)
<1>3. Raised(x, n) = f[n]
  BY DEF Raised, IsRaised
<1>4. QED
  BY <1>2, <1>3

LEMMA RaisedAgree ==
  ASSUME NEW x \in Int, NEW c \in Nat, NEW d \in Nat, c <= d,
         NEW f, IsRaised(x, c, f), NEW g, IsRaised(x, d, g)
  PROVE  f[c] = g[c]
<1>1. \A m \in 0..c : f[m] = IF m = 0 THEN 1 ELSE x * f[m - 1]
  BY DEF IsRaised
<1>2. \A m \in 0..d : g[m] = IF m = 0 THEN 1 ELSE x * g[m - 1]
  BY DEF IsRaised
<1> DEFINE S == {n \in Nat : n <= c => f[n] = g[n]}
<1>3. 0 \in S
  BY <1>1, <1>2
<1>4. ASSUME NEW n \in S PROVE n + 1 \in S
  <2> SUFFICES ASSUME n + 1 <= c PROVE f[n + 1] = g[n + 1]
    OBVIOUS
  <2> DEFINE m == n + 1
  <2>1. m \in 0..c /\ m \in 0..d /\ m # 0 /\ m - 1 = n /\ f[n] = g[n]
    OBVIOUS
  <2> HIDE DEF m
  <2>2. f[m] = x * f[m - 1]
    BY <1>1, <2>1
  <2>3. g[m] = x * g[m - 1]
    BY <1>2, <2>1
  <2>4. f[m] = g[m]
    BY <2>1, <2>2, <2>3
  <2>5. QED
    BY <2>4 DEF m
<1>5. S = Nat
  <2> HIDE DEF S
  <2>1. S \in SUBSET Nat
    BY DEF S
  <2>2. QED
    BY <1>3, <1>4, <2>1, NumbersReached
<1>6. QED
  BY <1>5

\* Powers: the zeroth is one, and each is the base times the one before.
LEMMA RaisedSteps ==
  ASSUME NEW x \in Int
  PROVE  Raised(x, 0) = 1 /\ \A n \in Nat : Raised(x, n + 1) = x * Raised(x, n)
<1>1. Raised(x, 0) = 1
  <2>1. PICK f : IsRaised(x, 0, f) /\ Raised(x, 0) = f[0]
    BY RaisedIs
  <2>2. QED
    BY <2>1 DEF IsRaised
<1>2. ASSUME NEW n \in Nat PROVE Raised(x, n + 1) = x * Raised(x, n)
  <2>1. PICK f : IsRaised(x, n, f) /\ Raised(x, n) = f[n]
    BY RaisedIs
  <2> DEFINE m == n + 1
  <2>2. m \in Nat /\ m \in 0..m /\ m # 0 /\ m - 1 = n /\ n <= m
    OBVIOUS
  <2> HIDE DEF m
  <2>3. PICK g : IsRaised(x, m, g) /\ Raised(x, m) = g[m]
    BY <2>2, RaisedIs
  <2>4. f[n] = g[n]
    BY <2>1, <2>2, <2>3, RaisedAgree
  <2>5. g[m] = x * g[m - 1]
    BY <2>2, <2>3 DEF IsRaised
  <2>6. QED
    BY <2>1, <2>2, <2>3, <2>4, <2>5 DEF m
<1>3. QED
  BY <1>1, <1>2

\* Rounding over a positive number, from both sides.
LEMMA HalfUpBounds ==
  ASSUME NEW n \in Int, NEW d \in Nat \ {0}
  PROVE  LET h == HalfUp(n, d)
         IN  /\ h \in Int
             /\ n >= 0 => h >= 0 /\ 2 * (h * d) <= 2 * n + d /\ 2 * n + d < 2 * (h * d) + 2 * d
             /\ n < 0 => h <= 0 /\ 2 * (h * d) >= 2 * n - d /\ 2 * (h * d) < 2 * n + d
<1> DEFINE a == Magnitude(n)
           b == Magnitude(d)
           m == 2 * a + b
           w == 2 * b
           q == m \div w
<1>1. a \in Nat /\ b = d /\ m \in Nat /\ w \in Nat /\ w > 0
  BY DEF Magnitude
<1>2. q \in Int /\ q * w <= m /\ m < q * w + w
  <2> HIDE DEF m, w
  <2>1. QED
    BY <1>1
<1>3. q >= 0
  <2> HIDE DEF m, w, q
  <2>1. ASSUME q <= -1 PROVE FALSE
    <3>1. q * w <= (-1) * w
      BY <1>1, <1>2, <2>1
    <3> DEFINE z == q * w
    <3>2. z \in Int /\ z <= -w
      BY <1>1, <1>2, <3>1
    <3> HIDE DEF z
    <3>3. QED
      BY <1>1, <1>2, <3>2 DEF z
  <2>2. QED
    BY <1>2, <2>1
<1>4. HalfUp(n, d) = IF n < 0 THEN -q ELSE q
  BY <1>1 DEF HalfUp
<1>5. q * w = 2 * (q * d) /\ q * d \in Int
  BY <1>1, <1>2
<1> HIDE DEF q
<1> DEFINE p == q * d
<1>6. p \in Int /\ 2 * p <= 2 * a + d /\ 2 * a + d < 2 * p + 2 * d
  BY <1>1, <1>2, <1>5
<1>7. HalfUp(n, d) * d = IF n < 0 THEN -p ELSE p
  <2>1. CASE n < 0
    BY <1>2, <1>4, <2>1
  <2>2. CASE ~(n < 0)
    BY <1>2, <1>4, <2>2
  <2>3. QED
    BY <2>1, <2>2
<1> HIDE DEF p
<1>8. CASE n >= 0
  BY <1>1, <1>2, <1>3, <1>4, <1>6, <1>7, <1>8 DEF Magnitude
<1>9. CASE n < 0
  BY <1>1, <1>2, <1>3, <1>4, <1>6, <1>7, <1>9 DEF Magnitude
<1>10. QED
  BY <1>8, <1>9

\* An integer is the one that its multiple lies closest below.
LEMMA MultiplesTell ==
  ASSUME NEW u \in Int, NEW b \in Nat \ {0}
  PROVE  /\ -b < u * b => u >= 0
         /\ u * b < b => u <= 0
         /\ u * b <= b => u <= 1
<1>1. ASSUME u <= -1 PROVE u * b <= -b
  <2>1. u * b <= (-1) * b
    BY <1>1
  <2>2. QED
    BY <2>1
<1>2. ASSUME u >= 1 PROVE u * b >= b
  <2>1. u * b >= 1 * b
    BY <1>2
  <2>2. QED
    BY <2>1
<1>3. ASSUME u >= 2 PROVE u * b >= 2 * b
  BY <1>3
<1> DEFINE z == u * b
<1>4. z \in Int
  OBVIOUS
<1> HIDE DEF z
<1>5. QED
  BY <1>1, <1>2, <1>3, <1>4 DEF z

\* One less than a rounded quotient is the rounded quotient of the difference,
\* but for a half of a decline, which is rounded away from zero.
LEMMA RoundingsShift ==
  ASSUME NEW a \in Int, NEW b \in Nat \ {0}, a > 0, NEW scale \in Nat \ {0}
  PROVE  LET q == HalfUp(a * scale, b)
             r == HalfUp((a - b) * scale, b)
         IN  /\ q \in Nat /\ r \in Int
             /\ r = q - scale \/ (a < b /\ r = (q - scale) - 1)
<1> DEFINE x == a * scale
           y == b * scale
           q == HalfUp(x, b)
           n == (a - b) * scale
           r == HalfUp(n, b)
           u == (q - scale) - r
<1>1. x \in Int /\ x >= 0 /\ y \in Int /\ n = x - y /\ n \in Int
  BY SMTT(20)
<1>2. a >= b => n >= 0
  BY SMTT(20)
<1>3. a < b => n < 0
  <2> SUFFICES ASSUME a < b PROVE n < 0
    OBVIOUS
  <2>1. (b - a) * scale > 0 /\ n = -((b - a) * scale)
    BY SMTT(20)
  <2>2. QED
    BY <2>1
<1> HIDE DEF x, n
<1>4. q \in Int /\ q >= 0 /\ 2 * (q * b) <= 2 * x + b /\ 2 * x + b < 2 * (q * b) + 2 * b
  BY <1>1, HalfUpBounds
<1>5. /\ r \in Int
      /\ n >= 0 => 2 * (r * b) <= 2 * n + b /\ 2 * n + b < 2 * (r * b) + 2 * b
      /\ n < 0 => 2 * (r * b) >= 2 * n - b /\ 2 * (r * b) < 2 * n + b
  BY <1>1, HalfUpBounds
<1> HIDE DEF q, r
<1> DEFINE Q == q * b
           P == r * b
           U == u * b
<1>6. Q \in Int /\ P \in Int /\ u \in Int /\ U = (Q - y) - P
  BY <1>1, <1>4, <1>5
<1> HIDE DEF Q, P, U, y, u
<1>7. CASE a >= b
  <2>1. -b < U /\ U < b
    BY <1>1, <1>2, <1>4, <1>5, <1>6, <1>7 DEF Q, P
  <2>2. u = 0
    BY <1>6, <2>1, MultiplesTell DEF U
  <2>3. QED
    BY <1>4, <1>5, <2>2 DEF u, q, r, x, n
<1>8. CASE a < b
  <2>1. -b < U /\ U <= b
    BY <1>1, <1>3, <1>4, <1>5, <1>6, <1>8 DEF Q, P
  <2>2. u = 0 \/ u = 1
    BY <1>6, <2>1, MultiplesTell DEF U
  <2>3. QED
    BY <1>4, <1>5, <1>8, <2>2 DEF u, q, r, x, n
<1>9. QED
  BY <1>7, <1>8

\* Compound growth over one year is the quotient less one.
LEMMA CompoundOfOneYear ==
  ASSUME NEW a \in Int, NEW b \in Nat \ {0}, a > 0
  PROVE  CompoundGrowth(b, a, 1) = 100 * (Ratio(a, b) - RatioScale)
<1> DEFINE q == Ratio(a, b)
           target == q * Raised(2, 1) * Raised(RatioScale, 1 - 1)
           twice(c) == 2 * (RatioScale + c)
           Root(c) == /\ c > -RatioScale => Raised(twice(c) - 1, 1) <= target
                      /\ target < Raised(twice(c) + 1, 1)
<1>1. RatioScale \in Nat \ {0}
  BY FiguresAssumption
<1>2. q \in Nat
  BY <1>1, RoundingsShift DEF Ratio
<1>3. \A z \in Int : Raised(z, 1) = z
  <2>1. SUFFICES ASSUME NEW z \in Int PROVE Raised(z, 1) = z
    OBVIOUS
  <2>2. Raised(z, 0 + 1) = z * Raised(z, 0) /\ Raised(z, 0) = 1
    BY RaisedSteps
  <2>3. QED
    BY <2>2
<1>4. target = 2 * q
  <2>1. Raised(2, 1) = 2 /\ Raised(RatioScale, 1 - 1) = 1
    BY <1>1, <1>3, RaisedSteps
  <2> HIDE DEF q
  <2>2. QED
    BY <1>2, <2>1
<1> HIDE DEF target
<1>5. \A c \in -RatioScale .. q : Root(c) <=> c = q - RatioScale
  <2>1. SUFFICES ASSUME NEW c \in -RatioScale .. q PROVE Root(c) <=> c = q - RatioScale
    OBVIOUS
  <2> HIDE DEF q
  <2>2. c \in Int /\ -RatioScale <= c
    BY <1>1, <1>2
  <2>3. twice(c) - 1 \in Int /\ twice(c) + 1 \in Int
    BY <1>1, <2>2
  <2>4. Raised(twice(c) - 1, 1) = twice(c) - 1 /\ Raised(twice(c) + 1, 1) = twice(c) + 1
    BY <1>3, <2>3
  <2>5. QED
    BY <1>1, <1>2, <1>4, <2>2, <2>4
<1>6. q - RatioScale \in -RatioScale .. q
  <2> HIDE DEF q
  <2>1. QED
    BY <1>1, <1>2
<1>7. (CHOOSE c \in -RatioScale .. q : Root(c)) = q - RatioScale
  <2> HIDE DEF Root, q
  <2>1. QED
    BY <1>5, <1>6
<1>8. CompoundGrowth(b, a, 1) = 100 * CHOOSE c \in -RatioScale .. q : Root(c)
  <2>1. ~(1 <= 0 \/ b <= 0 \/ a <= 0)
    OBVIOUS
  <2>2. QED
    BY <2>1 DEF CompoundGrowth, target
<1>9. QED
  BY <1>7, <1>8

\* Two keys are put in order, equal ones as they came.
LEMMA TwoInOrder ==
  ASSUME NEW keys, DOMAIN keys = 1..2, NEW i \in 1..2, NEW j \in 1..2, i # j,
         keys[i] \in Int, keys[j] \in Int, keys[i] < keys[j] \/ (keys[i] = keys[j] /\ i < j)
  PROVE  Order(keys) = [k \in 1..2 |-> IF k = 1 THEN i ELSE j]
<1> DEFINE Before(h) == {l \in DOMAIN keys : keys[l] < keys[h] \/ (keys[l] = keys[h] /\ l <= h)}
           rank(h) == Cardinality(Before(h))
<1>1. 1..2 = {i, j}
  OBVIOUS
<1>2. Before(i) = {i} /\ Before(j) = {j, i}
  BY <1>1
<1>3. rank(i) = 1
  BY <1>2, FS_Singleton
<1>4. rank(j) = 2
  <2>1. IsFiniteSet({i}) /\ Cardinality({i}) = 1
    BY FS_Singleton
  <2>2. {i} \cup {j} = {j, i} /\ j \notin {i}
    OBVIOUS
  <2>3. Cardinality({i} \cup {j}) = 1 + 1
    BY <2>1, <2>2, FS_AddElement
  <2>4. QED
    BY <1>2, <2>2, <2>3
<1> HIDE DEF rank
<1>5. (CHOOSE h \in 1..2 : rank(h) = 1) = i /\ (CHOOSE h \in 1..2 : rank(h) = 2) = j
  BY <1>1, <1>3, <1>4
<1>6. Order(keys) = [k \in 1..2 |-> CHOOSE h \in 1..2 : rank(h) = k]
  BY DEF Order, rank
<1>7. QED
  BY <1>5, <1>6

\* The trend of a series of two is the growth from the earlier to the later.
LEMMA TrendOfTwo ==
  ASSUME NEW new, NEW old, new.period.end \in Int, old.period.end \in Int,
         new.period.end > old.period.end
  PROVE  LET g == Growth(new.amount, old.amount, new.period, old.period)
         IN  Trend(<<new, old>>) = <<g>> /\ Trend(<<old, new>>) = <<g>>
<1> DEFINE g == Growth(new.amount, old.amount, new.period, old.period)
<1>1. ASSUME NEW series, series = <<new, old>> \/ series = <<old, new>>
      PROVE  Trend(series) = <<g>>
  <2> DEFINE keys == [i \in DOMAIN series |-> series[i].period.end]
             order == Order(keys)
             ordered == [i \in DOMAIN series |-> series[order[i]]]
             i == IF series[1] = old THEN 1 ELSE 2
             j == IF series[1] = old THEN 2 ELSE 1
  <2>1. DOMAIN series = 1..2 /\ Len(series) = 2
    BY <1>1
  <2>2. new # old
    OBVIOUS
  <2>3. series[i] = old /\ series[j] = new
    BY <1>1, <2>2
  <2>4. i \in 1..2 /\ j \in 1..2 /\ i # j
    OBVIOUS
  <2>5. keys[i] = old.period.end /\ keys[j] = new.period.end /\ DOMAIN keys = 1..2
    BY <2>1, <2>3, <2>4
  <2>6. order = [k \in 1..2 |-> IF k = 1 THEN i ELSE j]
    <3> HIDE DEF keys, i, j
    <3>1. QED
      BY <2>4, <2>5, TwoInOrder
  <2>7. ordered[1] = old /\ ordered[2] = new
    <3> HIDE DEF order, i, j
    <3>1. 1 \in DOMAIN series /\ 2 \in DOMAIN series /\ order[1] = i /\ order[2] = j
      BY <2>1, <2>6
    <3>2. QED
      BY <2>3, <3>1
  <2>8. Trend(series) = [h \in 1 .. Len(series) - 1 |->
                           Growth(ordered[h + 1].amount, ordered[h].amount,
                                  ordered[h + 1].period, ordered[h].period)]
    BY DEF Trend
  <2> HIDE DEF ordered
  <2>9. Trend(series) = [h \in 1..1 |-> g]
    <3>1. 1 .. Len(series) - 1 = 1..1
      BY <2>1
    <3>2. \A h \in 1..1 : h = 1 /\ h + 1 = 2
      OBVIOUS
    <3>3. QED
      BY <2>7, <2>8, <3>1, <3>2
  <2>10. <<g>> = [h \in 1..1 |-> g]
    OBVIOUS
  <2>11. QED
    BY <2>9, <2>10
<1>2. QED
  BY <1>1

\* The two ways of counting growth, and the series, agree on every stored pair.
LEMMA GrowthsMatch == RowsInv => GrowthsAgree
<1> SUFFICES ASSUME RowsInv, NEW new \in Lines("revenue"), NEW old \in Lines("revenue"),
                    IncomeGrowth("revenue", rows[new].set, rows[old].set) # Absent
             PROVE  LET g == IncomeGrowth("revenue", rows[new].set, rows[old].set)
                        entry(k) == [period |-> rows[k].set.period,
                                     amount |-> rows[k].set.income.revenue]
                        a == entry(new).amount
                        b == entry(old).amount
                        compound == CompoundGrowth(b, a, 1)
                    IN  /\ IF a <= 0 THEN compound = Absent
                           ELSE compound = g \/ (a < b /\ compound = g + 100)
                        /\ Trend(<<entry(new), entry(old)>>) = <<g>>
                        /\ Trend(<<entry(old), entry(new)>>) = <<g>>
  BY DEF GrowthsAgree
<1> DEFINE g == IncomeGrowth("revenue", rows[new].set, rows[old].set)
           entry(k) == [period |-> rows[k].set.period, amount |-> rows[k].set.income.revenue]
           a == rows[new].set.income.revenue
           b == rows[old].set.income.revenue
           compound == CompoundGrowth(b, a, 1)
<1>1. \A k \in Lines("revenue") : rows[k].set.income.revenue \in Int /\ rows[k].set.period.end \in Int
  <2>1. SUFFICES ASSUME NEW k \in Lines("revenue")
                 PROVE  rows[k].set.income.revenue \in Int /\ rows[k].set.period.end \in Int
    OBVIOUS
  <2>2. k \in DOMAIN rows /\ Line(rows[k].set.income, "revenue") # Absent
    BY DEF Lines
  <2>3. "income" \in PartNames /\ "revenue" \in Columns["income"]
    BY DEF PartNames, Columns, IncomeColumns
  <2>4. Line(rows[k].set["income"], "revenue") \in Int \cup {Absent}
    BY <2>2, <2>3, LinesAreFigures
  <2>5. PICK f \in Filings : Extracted[f] # Absent /\ rows[k] = RowOf(f)
    BY <2>2 DEF RowsInv
  <2>6. rows[k].set.period = Text[f].period
    BY <2>5, PartsAreBuilt DEF RowOf, Extracted, SetOf
  <2>7. QED
    BY <2>2, <2>4, <2>6, StoreAssumption DEF Line
<1>2. /\ g = Growth(a, b, rows[new].set.period, rows[old].set.period)
      /\ g = 100 * HalfUp((a - b) * RatioScale, b)
      /\ rows[new].set.period.end > rows[old].set.period.end /\ b > 0
  BY DEF IncomeGrowth, Growth, Ratio
<1>3. Trend(<<entry(new), entry(old)>>) = <<g>> /\ Trend(<<entry(old), entry(new)>>) = <<g>>
  <2> DEFINE n == entry(new)
             o == entry(old)
  <2>1. /\ n.amount = a /\ o.amount = b
        /\ n.period = rows[new].set.period /\ o.period = rows[old].set.period
    OBVIOUS
  <2> HIDE DEF n, o, g, a, b
  <2>2. n.period.end \in Int /\ o.period.end \in Int /\ n.period.end > o.period.end
    BY <1>1, <1>2, <2>1
  <2>3. Growth(n.amount, o.amount, n.period, o.period) = g
    BY <1>2, <2>1
  <2>4. Trend(<<n, o>>) = <<g>> /\ Trend(<<o, n>>) = <<g>>
    BY <2>2, <2>3, TrendOfTwo
  <2>5. QED
    BY <2>4 DEF n, o
<1>4. a \in Int /\ b \in Nat \ {0} /\ RatioScale \in Nat \ {0}
  BY <1>1, <1>2, FiguresAssumption
<1>5. CASE a <= 0
  <2>1. compound = Absent
    BY <1>5 DEF CompoundGrowth
  <2>2. QED
    BY <1>3, <1>5, <2>1
<1>6. CASE a > 0
  <2> DEFINE q == HalfUp(a * RatioScale, b)
             r == HalfUp((a - b) * RatioScale, b)
  <2> HIDE DEF a, b, g, compound
  <2>1. compound = 100 * (q - RatioScale)
    BY <1>4, <1>6, CompoundOfOneYear DEF compound, Ratio
  <2>2. q \in Nat /\ r \in Int /\ (r = q - RatioScale \/ (a < b /\ r = (q - RatioScale) - 1))
    BY <1>4, <1>6, RoundingsShift
  <2>3. g = 100 * r
    BY <1>2
  <2> HIDE DEF q, r
  <2>4. compound = g \/ (a < b /\ compound = g + 100)
    BY <1>4, <2>1, <2>2, <2>3
  <2>5. QED
    BY <1>3, <1>4, <1>6, <2>4 DEF a, b, g, compound
<1>7. QED
  BY <1>4, <1>5, <1>6

\* For any figures: an analysis reports the quotients of the lines on file, and
\* growth between two sets is forward, between comparable periods, over a
\* positive base and nearest to the exact change; compound growth over one year
\* and the trend of the two sets agree with it, but for a half in the last place
\* of a decline.
THEOREM RatiosFollow == Spec => []RatiosFollowFigures
<1>1. Init => RowsInv /\ NothingDroppedSilently /\ QuotientsFollowFigures
  BY DEF Init, RowsInv, NothingDroppedSilently, QuotientsFollowFigures
<1>2. RowsInv /\ QuotientsFollowFigures => RatiosFollowFigures
  BY GrowthsFollow, GrowthsMatch DEF RatiosFollowFigures
<1>3. QED
  BY <1>1, <1>2, StepFigures, StepQuotients, PTL DEF Spec

(***************************************************************************)
(* Valuations                                                              *)
(***************************************************************************)
LEMMA PowersOfPositives ==
  ASSUME NEW x \in Nat \ {0}
  PROVE  \A n \in Nat : Raised(x, n) \in Nat \ {0}
<1> DEFINE S == {n \in Nat : Raised(x, n) \in Nat \ {0}}
<1>1. 0 \in S
  BY RaisedSteps
<1>2. ASSUME NEW n \in S PROVE n + 1 \in S
  <2>1. Raised(x, n + 1) = x * Raised(x, n)
    BY RaisedSteps
  <2> DEFINE r == Raised(x, n)
  <2>2. r \in Nat \ {0}
    OBVIOUS
  <2> HIDE DEF r
  <2>3. x * r \in Nat \ {0}
    BY <2>2
  <2>4. QED
    BY <2>1, <2>3 DEF r
<1>3. S = Nat
  <2> HIDE DEF S
  <2>1. S \in SUBSET Nat
    BY DEF S
  <2>2. QED
    BY <1>1, <1>2, <2>1, NumbersReached
<1>4. QED
  BY <1>3

\* A product of smaller natural numbers is no larger.
LEMMA ProductsGrow ==
  ASSUME NEW a \in Nat, NEW b \in Nat, NEW c \in Nat, NEW d \in Nat, a <= b, c <= d
  PROVE  a * c \in Nat /\ b * d \in Nat /\ a * c <= b * d
<1>1. a * c <= b * c
  <2>1. (b - a) * c >= 0
    BY SMTT(20)
  <2>2. QED
    BY <2>1, SMTT(20)
<1>2. b * c <= b * d
  <2>1. b * (d - c) >= 0
    BY SMTT(20)
  <2>2. QED
    BY <2>1, SMTT(20)
<1>3. a * c \in Nat /\ b * d \in Nat /\ b * c \in Nat
  OBVIOUS
<1> DEFINE p == a * c
           q == b * c
           r == b * d
<1> HIDE DEF p, q, r
<1>4. QED
  BY <1>1, <1>2, <1>3 DEF p, q, r

LEMMA PowersRise ==
  ASSUME NEW x \in Nat \ {0}, NEW y \in Nat \ {0}, x <= y
  PROVE  \A n \in Nat : Raised(x, n) <= Raised(y, n)
<1> DEFINE S == {n \in Nat : Raised(x, n) <= Raised(y, n)}
<1>1. 0 \in S
  BY RaisedSteps
<1>2. ASSUME NEW n \in S PROVE n + 1 \in S
  <2>1. Raised(x, n + 1) = x * Raised(x, n) /\ Raised(y, n + 1) = y * Raised(y, n)
    BY RaisedSteps
  <2>2. Raised(x, n) \in Nat /\ Raised(y, n) \in Nat
    BY PowersOfPositives
  <2>3. x * Raised(x, n) <= y * Raised(y, n)
    BY <2>2, ProductsGrow
  <2>4. QED
    BY <2>1, <2>3
<1>3. S = Nat
  <2> HIDE DEF S
  <2>1. S \in SUBSET Nat
    BY DEF S
  <2>2. QED
    BY <1>1, <1>2, <2>1, NumbersReached
<1>4. QED
  BY <1>3

\* A larger amount is not rounded to less.
LEMMA HalfUpRises ==
  ASSUME NEW m \in Int, NEW n \in Int, m <= n, NEW d \in Nat \ {0}
  PROVE  HalfUp(m, d) <= HalfUp(n, d)
<1> DEFINE h == HalfUp(m, d)
           k == HalfUp(n, d)
           u == h - k
           p == h * d
           q == k * d
<1>1. /\ h \in Int
      /\ m >= 0 => 2 * p <= 2 * m + d
      /\ m < 0 => h <= 0 /\ 2 * p < 2 * m + d
  BY HalfUpBounds
<1>2. /\ k \in Int
      /\ n >= 0 => k >= 0 /\ 2 * n + d < 2 * q + 2 * d
      /\ n < 0 => 2 * q >= 2 * n - d
  BY HalfUpBounds
<1> HIDE DEF h, k
<1>3. u \in Int /\ u * d = p - q /\ p \in Int /\ q \in Int
  BY <1>1, <1>2
<1> HIDE DEF p, q, u
<1>4. CASE m < 0 /\ n >= 0
  BY <1>1, <1>2, <1>4 DEF h, k
<1>5. CASE ~(m < 0 /\ n >= 0)
  <2>1. u * d < d
    BY <1>1, <1>2, <1>3, <1>5
  <2>2. u <= 0
    BY <1>3, <2>1, MultiplesTell
  <2>3. QED
    BY <1>1, <1>2, <2>2 DEF u, h, k
<1>6. QED
  BY <1>4, <1>5

\* Over a larger number, the same amount is not rounded to more.
LEMMA HalfUpFalls ==
  ASSUME NEW n \in Nat, NEW d \in Nat \ {0}, NEW e \in Nat \ {0}, d <= e
  PROVE  HalfUp(n, e) <= HalfUp(n, d)
<1> DEFINE h == HalfUp(n, d)
           k == HalfUp(n, e)
           p == h * d
           q == k * e
<1>1. h \in Int /\ h >= 0 /\ 2 * n + d < 2 * p + 2 * d
  BY HalfUpBounds
<1>2. k \in Int /\ k >= 0 /\ 2 * q <= 2 * n + e
  BY HalfUpBounds
<1> HIDE DEF h, k
<1>3. ASSUME k >= h + 1 PROVE FALSE
  <2> DEFINE f == k - 1
             s == f * d
             t == f * e
  <2>1. f \in Nat /\ h <= f
    BY <1>1, <1>2, <1>3
  <2> HIDE DEF f
  <2>2. p <= s /\ s <= t /\ p \in Nat /\ s \in Nat /\ t \in Nat
    BY <1>1, <2>1, ProductsGrow
  <2>3. q = t + e
    BY <1>2, <2>1 DEF f
  <2> HIDE DEF p, q, s, t
  <2>4. QED
    BY <1>1, <1>2, <2>2, <2>3
<1>4. QED
  BY <1>1, <1>2, <1>3 DEF h, k

\* What is at most a multiple is rounded to at most that.
LEMMA HalfUpAtMost ==
  ASSUME NEW n \in Nat, NEW d \in Nat \ {0}, NEW c \in Nat, n <= c * d
  PROVE  HalfUp(n, d) \in 0..c
<1> DEFINE h == HalfUp(n, d)
           u == h - c
           p == h * d
           q == c * d
<1>1. h \in Int /\ h >= 0 /\ 2 * p <= 2 * n + d
  BY HalfUpBounds
<1> HIDE DEF h
<1>2. u \in Int /\ p \in Int /\ q \in Int /\ u * d = p - q /\ n <= q
  BY <1>1
<1> HIDE DEF p, q, u
<1>3. u * d < d
  BY <1>1, <1>2
<1>4. u <= 0
  BY <1>2, <1>3, MultiplesTell
<1>5. QED
  BY <1>1, <1>4 DEF u, h

LEMMA RoundedNumbers ==
  ASSUME NEW n \in Nat, NEW d \in Nat \ {0}
  PROVE  HalfUp(n, d) \in Nat
BY HalfUpBounds

\* A discount factor is at most one, and is no larger at a higher rate.
LEMMA FactorsFall ==
  ASSUME NEW rate \in Nat \ {0}, NEW higher \in Nat \ {0}, rate <= higher, NEW i \in Nat
  PROVE  /\ DiscountFactor(rate, i) \in Nat /\ DiscountFactor(rate, i) <= FactorScale
         /\ DiscountFactor(higher, i) \in Nat
         /\ DiscountFactor(higher, i) <= DiscountFactor(rate, i)
<1> DEFINE a == Raised(RateUnit, i)
           b == Raised(RateUnit + rate, i)
           c == Raised(RateUnit + higher, i)
           n == FactorScale * a
<1>1. /\ RateUnit \in Nat \ {0} /\ FactorScale \in Nat \ {0}
      /\ RateUnit + rate \in Nat \ {0} /\ RateUnit + higher \in Nat \ {0}
      /\ RateUnit <= RateUnit + rate /\ RateUnit + rate <= RateUnit + higher
  BY FiguresAssumption
<1>2. a \in Nat \ {0} /\ b \in Nat \ {0} /\ c \in Nat \ {0} /\ a <= b /\ b <= c
  BY <1>1, PowersOfPositives, PowersRise
<1> HIDE DEF a, b, c
<1>3. n \in Nat /\ n <= FactorScale * b
  BY <1>1, <1>2, ProductsGrow
<1> HIDE DEF n
<1>4. DiscountFactor(rate, i) = HalfUp(n, b) /\ DiscountFactor(higher, i) = HalfUp(n, c)
  BY DEF DiscountFactor, n, a, b, c
<1>5. HalfUp(n, b) \in 0..FactorScale
  BY <1>1, <1>2, <1>3, HalfUpAtMost
<1>6. HalfUp(n, c) <= HalfUp(n, b)
  BY <1>2, <1>3, HalfUpFalls
<1>7. HalfUp(n, c) \in Nat
  BY <1>2, <1>3, RoundedNumbers
<1>8. QED
  BY <1>1, <1>4, <1>5, <1>6, <1>7

\* The sums of the discounted flows, year by year.
IsTotal(rate, flows, total) ==
  total = [i \in 0 .. Len(flows) |->
             IF i = 0 THEN 0 ELSE total[i - 1] + flows[i] * DiscountFactor(rate, i)]

LEMMA PresentValueIs ==
  ASSUME NEW rate \in Nat \ {0}, NEW flows \in Seq(Nat)
  PROVE  \E total : IsTotal(rate, flows, total) /\ PresentValue(rate, flows) = total[Len(flows)]
<1> DEFINE years == Len(flows)
           due(i) == IF i \in 1..years THEN flows[i] * DiscountFactor(rate, i) ELSE 0
           step == [i \in Nat |-> [y \in Int |-> y + due(i)]]
<1>1. years \in Nat /\ \A i \in 1..years : flows[i] \in Nat
  OBVIOUS
<1> HIDE DEF years
<1>2. \A i \in Nat : due(i) \in Int
  <2>1. ASSUME NEW i \in 1..years PROVE flows[i] * DiscountFactor(rate, i) \in Int
    <3>1. flows[i] \in Int /\ DiscountFactor(rate, i) \in Int
      <4>1. i \in Nat
        BY <1>1
      <4>2. DiscountFactor(rate, i) \in Nat
        BY <4>1, FactorsFall
      <4>3. QED
        BY <1>1, <4>2
    <3>2. QED
      BY <3>1
  <2>2. QED
    BY <2>1
<1> HIDE DEF due
<1>3. step \in [Nat -> [Int -> Int]] /\ \A i \in Nat, y \in Int : step[i][y] = y + due(i)
  BY <1>2
<1> HIDE DEF step
<1>4. \E t : IsTotal(rate, flows, t)
  <2>1. 0 \in Int
    OBVIOUS
  <2>2. PICK t : Iterates(t, years, Int, 0, step)
    BY <1>1, <1>3, <2>1, IterationExists
  <2>3. \A i \in 0..years : t[i] = IF i = 0 THEN 0 ELSE t[i - 1] + flows[i] * DiscountFactor(rate, i)
    <3>1. \A i \in 0..years : i # 0 => i \in Nat /\ i \in 1..years /\ t[i - 1] \in Int
      BY <1>1, <2>2 DEF Iterates
    <3>2. QED
      BY <1>3, <2>2, <3>1 DEF Iterates, due
  <2>4. t = [i \in 0..years |-> t[i]]
    BY <2>2 DEF Iterates
  <2>5. QED
    BY <2>3, <2>4 DEF IsTotal, years
<1> DEFINE total == CHOOSE t : IsTotal(rate, flows, t)
<1>5. PresentValue(rate, flows) = total[Len(flows)]
  BY DEF PresentValue, IsTotal
<1>6. QED
  BY <1>4, <1>5

\* Flows are worth something, and no more at a higher rate.
LEMMA PresentValueFalls ==
  ASSUME NEW rate \in Nat \ {0}, NEW higher \in Nat \ {0}, rate <= higher, NEW flows \in Seq(Nat)
  PROVE  /\ PresentValue(rate, flows) \in Nat
         /\ PresentValue(higher, flows) \in Nat
         /\ PresentValue(higher, flows) <= PresentValue(rate, flows)
<1>1. PICK f : IsTotal(rate, flows, f) /\ PresentValue(rate, flows) = f[Len(flows)]
  BY PresentValueIs
<1>2. PICK g : IsTotal(higher, flows, g) /\ PresentValue(higher, flows) = g[Len(flows)]
  BY PresentValueIs
<1> DEFINE years == Len(flows)
           S == {n \in Nat : n <= years => f[n] \in Nat /\ g[n] \in Nat /\ g[n] <= f[n]}
<1>3. /\ \A i \in 0..years : f[i] = IF i = 0 THEN 0 ELSE f[i - 1] + flows[i] * DiscountFactor(rate, i)
      /\ \A i \in 0..years :
           g[i] = IF i = 0 THEN 0 ELSE g[i - 1] + flows[i] * DiscountFactor(higher, i)
  BY <1>1, <1>2 DEF IsTotal
<1>4. years \in Nat /\ \A i \in 1..years : flows[i] \in Nat
  OBVIOUS
<1> HIDE DEF years
<1>5. 0 \in S
  BY <1>3, <1>4
<1>6. ASSUME NEW n \in S PROVE n + 1 \in S
  <2> SUFFICES ASSUME n + 1 <= years
               PROVE  f[n + 1] \in Nat /\ g[n + 1] \in Nat /\ g[n + 1] <= f[n + 1]
    OBVIOUS
  <2> DEFINE i == n + 1
             p == flows[i] * DiscountFactor(rate, i)
             q == flows[i] * DiscountFactor(higher, i)
  <2>1. i \in 0..years /\ i \in 1..years /\ i # 0 /\ i - 1 = n /\ i \in Nat
    BY <1>4
  <2>2. f[n] \in Nat /\ g[n] \in Nat /\ g[n] <= f[n]
    BY <1>4
  <2> HIDE DEF i, S
  <2>3. p \in Nat /\ q \in Nat /\ q <= p
    <3>1. /\ DiscountFactor(rate, i) \in Nat /\ DiscountFactor(higher, i) \in Nat
          /\ DiscountFactor(higher, i) <= DiscountFactor(rate, i)
      BY <2>1, FactorsFall
    <3>2. flows[i] \in Nat /\ flows[i] <= flows[i]
      BY <1>4, <2>1
    <3>3. QED
      BY <3>1, <3>2, ProductsGrow
  <2>4. f[i] = f[n] + p /\ g[i] = g[n] + q
    BY <1>3, <2>1
  <2> HIDE DEF p, q
  <2>5. f[i] \in Nat /\ g[i] \in Nat /\ g[i] <= f[i]
    BY <2>2, <2>3, <2>4
  <2>6. QED
    BY <2>5 DEF i
<1>7. S = Nat
  <2> HIDE DEF S
  <2>1. S \in SUBSET Nat
    BY DEF S
  <2>2. QED
    BY <1>5, <1>6, <2>1, NumbersReached
<1>8. QED
  BY <1>1, <1>2, <1>4, <1>7 DEF years

\* The parts of a sum, each rounded, miss the rounded sum by at most one.
LEMMA RoundedParts ==
  ASSUME NEW x \in Nat, NEW y \in Nat, NEW d \in Nat \ {0}
  PROVE  (HalfUp(x, d) + HalfUp(y, d)) - HalfUp(x + y, d) \in -1..1
<1> DEFINE h == HalfUp(x, d)
           k == HalfUp(y, d)
           l == HalfUp(x + y, d)
           u == (h + k) - l
           p == h * d
           q == k * d
           r == l * d
<1>1. h \in Int /\ 2 * p <= 2 * x + d /\ 2 * x + d < 2 * p + 2 * d
  BY HalfUpBounds
<1>2. k \in Int /\ 2 * q <= 2 * y + d /\ 2 * y + d < 2 * q + 2 * d
  BY HalfUpBounds
<1>3. l \in Int /\ 2 * r <= 2 * (x + y) + d /\ 2 * (x + y) + d < 2 * r + 2 * d
  <2> DEFINE z == x + y
  <2>1. z \in Int /\ z >= 0
    OBVIOUS
  <2> HIDE DEF z
  <2>2. HalfUp(z, d) \in Int /\ 2 * (HalfUp(z, d) * d) <= 2 * z + d
        /\ 2 * z + d < 2 * (HalfUp(z, d) * d) + 2 * d
    BY <2>1, HalfUpBounds
  <2>3. QED
    BY <2>2 DEF z
<1> HIDE DEF h, k, l
<1>4. u \in Int /\ p \in Int /\ q \in Int /\ r \in Int /\ u * d = (p + q) - r
  BY <1>1, <1>2, <1>3
<1> HIDE DEF p, q, r, u
<1>5. u * d < 2 * d /\ -(2 * d) < u * d
  BY <1>1, <1>2, <1>3, <1>4
<1>6. u < 2 /\ -2 < u
  <2>1. (u - 1) * d = u * d - d /\ (u + 1) * d = u * d + d
    BY <1>4
  <2> DEFINE w == u * d
             v == u - 1
             t == u + 1
  <2>2. w \in Int /\ w < 2 * d /\ -(2 * d) < w /\ v * d = w - d /\ t * d = w + d
    BY <1>4, <1>5, <2>1
  <2>3. v \in Int /\ t \in Int
    BY <1>4
  <2> HIDE DEF w, v, t
  <2>4. v * d < d /\ -d < t * d
    BY <2>2
  <2>5. v <= 0 /\ t >= 0
    BY <2>3, <2>4, MultiplesTell
  <2>6. QED
    BY <1>4, <2>5 DEF v, t
<1>7. QED
  BY <1>4, <1>6 DEF u, h, k, l

\* Amounts a number of units apart, each rounded to cents, are that number of
\* units apart to a cent.
LEMMA RoundedDifference ==
  ASSUME NEW e \in Int, NEW debt \in Int, NEW unit \in Nat \ {0}
  PROVE  2 * Magnitude((Cents(e - debt * unit, unit) + debt) - Cents(e, unit)) <= 2 * Cent
<1> DEFINE d == unit * Cent
           w == debt * unit
           n == e - w
           h == HalfUp(n, d)
           k == HalfUp(e, d)
           u == (h * Cent + debt) - k * Cent
           p == h * d
           q == k * d
           z == u * unit
<1>1. Cent \in Nat \ {0}
  BY FiguresAssumption
<1>2. d \in Nat \ {0} /\ w \in Int /\ n \in Int
  <2>1. d \in Nat \ {0}
    BY <1>1, SMTT(20)
  <2>2. QED
    BY <2>1
<1> HIDE DEF w
<1>3. h \in Int /\ 2 * Magnitude(p - n) <= Magnitude(d)
  <2> HIDE DEF n, d
  <2>1. d \in Int /\ d # 0
    BY <1>2
  <2>2. QED
    BY <1>2, <2>1, HalfUpIsNearest
<1>4. k \in Int /\ 2 * Magnitude(q - e) <= Magnitude(d)
  <2> HIDE DEF d
  <2>1. d \in Int /\ d # 0
    BY <1>2
  <2>2. QED
    BY <2>1, HalfUpIsNearest
<1>5. z = (p + w) - q /\ u \in Int /\ p \in Int /\ q \in Int /\ z \in Int
  <2> HIDE DEF h, k
  <2>1. (h * Cent) * unit = p /\ (k * Cent) * unit = q
    BY <1>1, <1>3, <1>4, SMTT(20)
  <2> DEFINE s == h * Cent
             t == k * Cent
  <2>2. s \in Int /\ t \in Int
    BY <1>1, <1>3, <1>4
  <2> HIDE DEF s, t
  <2>3. ((s + debt) - t) * unit = (s * unit + debt * unit) - t * unit
    BY <2>2, SMTT(20)
  <2>4. s * unit \in Int /\ t * unit \in Int
    BY <2>2
  <2>5. QED
    BY <1>2, <2>1, <2>2, <2>3, <2>4 DEF s, t, w
<1>6. -d <= z /\ z <= d
  <2> HIDE DEF p, q, z, d
  <2>1. QED
    BY <1>2, <1>3, <1>4, <1>5 DEF Magnitude
<1> HIDE DEF u, z, h, k, p, q
<1>7. u <= Cent /\ -Cent <= u
  <2>1. z = u * unit /\ d = Cent * unit
    BY <1>1 DEF z
  <2>2. ASSUME u >= Cent + 1 PROVE FALSE
    <3>1. (u - Cent) * unit >= 1 * unit
      BY <1>1, <1>5, <2>2, SMTT(20)
    <3>2. (u - Cent) * unit = z - d
      BY <1>1, <1>5, <2>1, SMTT(20)
    <3> HIDE DEF d
    <3>3. QED
      BY <1>2, <1>5, <1>6, <3>1, <3>2
  <2>3. ASSUME u <= -Cent - 1 PROVE FALSE
    <3>1. (u + Cent) * unit <= (-1) * unit
      BY <1>1, <1>5, <2>3, SMTT(20)
    <3>2. (u + Cent) * unit = z + d
      BY <1>1, <1>5, <2>1, SMTT(20)
    <3> HIDE DEF d
    <3>3. QED
      BY <1>2, <1>5, <1>6, <3>1, <3>2
  <2>4. QED
    BY <1>1, <1>5, <2>2, <2>3
<1>8. 2 * Magnitude(u) <= 2 * Cent
  BY <1>1, <1>5, <1>7 DEF Magnitude
<1>9. QED
  BY <1>8 DEF u, h, k, n, w, Cents

\* What a stream of flows and its terminal value are worth, before rounding.
Gordon(rate, growth) == HalfUp(FactorScale * (RateUnit + growth), rate - growth)
Terminal(rate, growth, flows) == flows[Len(flows)] * Gordon(rate, growth)
Enterprise(rate, growth, flows) ==
  PresentValue(rate, flows) * FactorScale
    + Terminal(rate, growth, flows) * DiscountFactor(rate, Len(flows))
Unit(flows) == Raised(RateUnit, Len(flows)) * FactorScale * FactorScale

LEMMA UnitsAreNumbers ==
  ASSUME NEW flows \in Seq(Nat)
  PROVE  Unit(flows) \in Nat \ {0}
<1> DEFINE a == Raised(RateUnit, Len(flows))
           b == a * FactorScale
<1>1. FactorScale \in Nat \ {0}
  BY FiguresAssumption
<1>2. a \in Nat \ {0}
  <2>1. RateUnit \in Nat \ {0} /\ Len(flows) \in Nat
    BY FiguresAssumption
  <2>2. QED
    BY <2>1, PowersOfPositives
<1> HIDE DEF a
<1>3. b \in Nat \ {0}
  BY <1>1, <1>2, SMTT(20)
<1> HIDE DEF b
<1>4. b * FactorScale \in Nat \ {0}
  BY <1>1, <1>3, SMTT(20)
<1>5. QED
  BY <1>4 DEF a, b, Unit

\* A terminal value rises with growth and falls with the rate.
LEMMA GordonFalls ==
  ASSUME NEW rate \in Int, NEW growth \in Int, NEW higher \in Int, NEW lower \in Int,
         rate <= higher, lower <= growth, rate - growth >= MinimumSpread, -RateUnit < lower
  PROVE  /\ Gordon(rate, growth) \in Nat /\ Gordon(higher, lower) \in Nat
         /\ Gordon(higher, lower) <= Gordon(rate, growth)
<1> DEFINE m == FactorScale * (RateUnit + lower)
           n == FactorScale * (RateUnit + growth)
           d == rate - growth
           e == higher - lower
<1>1. RateUnit \in Nat /\ FactorScale \in Nat /\ MinimumSpread \in Nat \ {0}
  BY FiguresAssumption
<1>2. d \in Nat \ {0} /\ e \in Nat \ {0} /\ d <= e
  BY <1>1
<1>3. m \in Nat /\ n \in Nat /\ m <= n
  <2>1. RateUnit + lower \in Nat /\ RateUnit + growth \in Nat /\ RateUnit + lower <= RateUnit + growth
        /\ FactorScale <= FactorScale
    BY <1>1
  <2>2. QED
    BY <1>1, <2>1, ProductsGrow
<1> HIDE DEF m, n, d, e
<1>4. HalfUp(n, d) \in Nat /\ HalfUp(m, e) \in Nat
  BY <1>2, <1>3, RoundedNumbers
<1>5. HalfUp(m, e) <= HalfUp(m, d)
  BY <1>2, <1>3, HalfUpFalls
<1>6. HalfUp(m, d) <= HalfUp(n, d)
  <2>1. m \in Int /\ n \in Int
    BY <1>3
  <2>2. QED
    BY <1>2, <1>3, <2>1, HalfUpRises
<1>7. HalfUp(m, d) \in Nat
  BY <1>2, <1>3, RoundedNumbers
<1>8. QED
  BY <1>4, <1>5, <1>6, <1>7 DEF Gordon, m, n, d, e

\* The exact value of positive flows: a natural number that falls with the rate and
\* rises with growth, and whose terminal part is no more than undiscounted.
LEMMA EnterpriseFalls ==
  ASSUME NEW rate \in Nat \ {0}, NEW higher \in Nat \ {0}, NEW growth \in Int, NEW lower \in Int,
         rate <= higher, lower <= growth, rate - growth >= MinimumSpread, -RateUnit < lower,
         NEW flows \in Seq(Nat), flows # << >>
  PROVE  /\ PresentValue(rate, flows) * FactorScale \in Nat
         /\ Terminal(rate, growth, flows) * DiscountFactor(rate, Len(flows)) \in Nat
         /\ Terminal(rate, growth, flows) * FactorScale \in Nat
         /\ Terminal(rate, growth, flows) * DiscountFactor(rate, Len(flows))
              <= Terminal(rate, growth, flows) * FactorScale
         /\ Enterprise(rate, growth, flows) \in Nat /\ Enterprise(higher, lower, flows) \in Nat
         /\ Enterprise(higher, lower, flows) <= Enterprise(rate, growth, flows)
<1> DEFINE years == Len(flows)
           last == flows[years]
           gordon == Gordon(rate, growth)
           dearer == Gordon(higher, lower)
           pv == PresentValue(rate, flows)
           pw == PresentValue(higher, flows)
           factor == DiscountFactor(rate, years)
           least == DiscountFactor(higher, years)
           T == last * gordon
           U == last * dearer
           forecast == pv * FactorScale
           less == pw * FactorScale
           final == T * factor
           later == U * least
           most == T * FactorScale
<1>1. years \in Nat \ {0} /\ last \in Nat /\ last <= last
  OBVIOUS
<1>2. FactorScale \in Nat /\ FactorScale <= FactorScale
  BY FiguresAssumption
<1>3. gordon \in Nat /\ dearer \in Nat /\ dearer <= gordon
  BY GordonFalls
<1>4. pv \in Nat /\ pw \in Nat /\ pw <= pv
  BY PresentValueFalls
<1>5. factor \in Nat /\ factor <= FactorScale /\ least \in Nat /\ least <= factor
  <2> HIDE DEF years
  <2>1. QED
    BY <1>1, FactorsFall
<1>6. /\ Terminal(rate, growth, flows) = T
      /\ Enterprise(rate, growth, flows) = forecast + final
      /\ Enterprise(higher, lower, flows) = less + later
  BY DEF Terminal, Enterprise
<1> HIDE DEF years, last, gordon, dearer, pv, pw, factor, least
<1>7. T \in Nat /\ U \in Nat /\ U <= T
  BY <1>1, <1>3, ProductsGrow
<1>8. forecast \in Nat /\ less \in Nat /\ less <= forecast
  BY <1>2, <1>4, ProductsGrow
<1> HIDE DEF T, U, forecast, less
<1>9. final \in Nat /\ later \in Nat /\ later <= final
  BY <1>5, <1>7, ProductsGrow
<1>10. most \in Nat /\ final <= most
  <2>1. T <= T
    BY <1>7
  <2>2. QED
    BY <1>2, <1>5, <1>7, <2>1, ProductsGrow
<1> HIDE DEF final, later, most
<1>11. forecast + final \in Nat /\ less + later \in Nat /\ less + later <= forecast + final
  BY <1>8, <1>9
<1>12. QED
  BY <1>6, <1>8, <1>9, <1>10, <1>11 DEF forecast, final, most, pv, factor, years

\* Cents keep the order of amounts.
LEMMA CentsRise ==
  ASSUME NEW x \in Int, NEW y \in Int, x <= y, NEW unit \in Nat \ {0}
  PROVE  Cents(x, unit) \in Int /\ Cents(y, unit) \in Int /\ Cents(x, unit) <= Cents(y, unit)
<1> DEFINE d == unit * Cent
           h == HalfUp(x, d)
           k == HalfUp(y, d)
<1>1. Cent \in Nat \ {0}
  BY FiguresAssumption
<1>2. d \in Nat \ {0}
  BY <1>1, SMTT(20)
<1> HIDE DEF d
<1>3. h \in Int /\ k \in Int
  BY <1>2, HalfUpBounds
<1>4. h <= k
  BY <1>2, HalfUpRises
<1> HIDE DEF h, k
<1>5. h * Cent <= k * Cent /\ h * Cent \in Int /\ k * Cent \in Int
  <2>1. (k - h) * Cent >= 0
    BY <1>1, <1>3, <1>4, SMTT(20)
  <2>2. QED
    BY <1>1, <1>3, <2>1, SMTT(20)
<1>6. QED
  BY <1>5 DEF Cents, h, k, d

\* A value per share keeps the order of amounts.
LEMMA SharesRise ==
  ASSUME NEW x \in Int, NEW y \in Int, x <= y, NEW unit \in Nat \ {0}, NEW shares \in Nat \ {0}
  PROVE  /\ PerShare(x, unit, shares) \in Int /\ PerShare(y, unit, shares) \in Int
         /\ PerShare(x, unit, shares) <= PerShare(y, unit, shares)
<1> DEFINE d == unit * shares
           e == RatioScale * ColumnUnit
           a == x * RatioScale
           b == y * RatioScale
           h == HalfUp(a, d)
           k == HalfUp(b, d)
           v == h * Whole
           w == k * Whole
           p == HalfUp(v, e)
           q == HalfUp(w, e)
<1>1. RatioScale \in Nat \ {0} /\ ColumnUnit \in Nat \ {0} /\ Whole \in Nat \ {0}
  BY FiguresAssumption
<1>2. \A i, j \in Int, s \in Nat \ {0} : i <= j => i * s \in Int /\ j * s \in Int /\ i * s <= j * s
  <2>1. SUFFICES ASSUME NEW i \in Int, NEW j \in Int, NEW s \in Nat \ {0}, i <= j
                 PROVE  i * s \in Int /\ j * s \in Int /\ i * s <= j * s
    OBVIOUS
  <2>2. (j - i) * s >= 0
    BY <2>1, SMTT(20)
  <2>3. QED
    BY <2>1, <2>2, SMTT(20)
<1>3. d \in Nat \ {0} /\ e \in Nat \ {0}
  BY <1>1, SMTT(20)
<1>4. a \in Int /\ b \in Int /\ a <= b
  BY <1>1, <1>2
<1> HIDE DEF d, e, a, b
<1>5. h \in Int /\ k \in Int /\ h <= k
  <2>1. h \in Int /\ k \in Int
    BY <1>3, <1>4, HalfUpBounds
  <2>2. QED
    BY <1>3, <1>4, <2>1, HalfUpRises
<1> HIDE DEF h, k
<1>6. v \in Int /\ w \in Int /\ v <= w
  BY <1>1, <1>2, <1>5
<1> HIDE DEF v, w
<1>7. p \in Int /\ q \in Int /\ p <= q
  <2>1. p \in Int /\ q \in Int
    BY <1>3, <1>6, HalfUpBounds
  <2>2. QED
    BY <1>3, <1>6, <2>1, HalfUpRises
<1> HIDE DEF p, q
<1>8. p * ColumnUnit \in Int /\ q * ColumnUnit \in Int /\ p * ColumnUnit <= q * ColumnUnit
  BY <1>1, <1>2, <1>7
<1>9. QED
  BY <1>8 DEF PerShare, p, q, v, w, h, k, a, b, d, e

\* What a valuation holds, from the exact value.
Left(rate, growth, flows, debt) ==
  IF debt = Absent THEN Absent ELSE Enterprise(rate, growth, flows) - debt * Unit(flows)

LEMMA ValuationHolds ==
  ASSUME NEW rate, NEW growth, NEW flows, NEW debt, NEW shares
  PROVE  LET v == DcfValue(rate, growth, flows, debt, shares)
             left == Left(rate, growth, flows, debt)
         IN  /\ v.enterprise = Cents(Enterprise(rate, growth, flows), Unit(flows))
             /\ v.forecast = Cents(PresentValue(rate, flows) * FactorScale, Unit(flows))
             /\ v.terminal = Cents(Terminal(rate, growth, flows) * FactorScale, Unit(flows))
             /\ v.pv_terminal = Cents(Terminal(rate, growth, flows) * DiscountFactor(rate, Len(flows)),
                                      Unit(flows))
             /\ v.equity = IF left = Absent THEN Absent ELSE Cents(left, Unit(flows))
             /\ v.per_share = IF Absent \in {left, shares} THEN Absent
                              ELSE PerShare(left, Unit(flows), shares)
BY DEF DcfValue, Enterprise, Terminal, Gordon, Unit, Left

\* Reported values fall with the rate and rise with growth, and they are integers.
LEMMA ReportedFalls ==
  ASSUME NEW rate \in Nat \ {0}, NEW higher \in Nat \ {0}, NEW growth \in Int, NEW lower \in Int,
         rate <= higher, lower <= growth, rate - growth >= MinimumSpread, -RateUnit < lower,
         NEW flows \in Seq(Nat), flows # << >>,
         NEW debt \in Int \cup {Absent}, NEW shares \in (Nat \ {0}) \cup {Absent}
  PROVE  LET v == DcfValue(rate, growth, flows, debt, shares)
             w == DcfValue(higher, lower, flows, debt, shares)
         IN  Reported(v) \in Int /\ Reported(w) \in Int /\ Reported(w) <= Reported(v)
<1> DEFINE v == DcfValue(rate, growth, flows, debt, shares)
           w == DcfValue(higher, lower, flows, debt, shares)
           unit == Unit(flows)
           a == Enterprise(rate, growth, flows)
           b == Enterprise(higher, lower, flows)
           l == Left(rate, growth, flows, debt)
           m == Left(higher, lower, flows, debt)
<1>1. unit \in Nat \ {0} /\ a \in Nat /\ b \in Nat /\ b <= a /\ Absent \notin Int
  BY UnitsAreNumbers, EnterpriseFalls, FiguresAssumption
<1>2. /\ v.enterprise = Cents(a, unit) /\ w.enterprise = Cents(b, unit)
      /\ v.equity = (IF l = Absent THEN Absent ELSE Cents(l, unit))
      /\ w.equity = (IF m = Absent THEN Absent ELSE Cents(m, unit))
      /\ v.per_share = (IF Absent \in {l, shares} THEN Absent ELSE PerShare(l, unit, shares))
      /\ w.per_share = (IF Absent \in {m, shares} THEN Absent ELSE PerShare(m, unit, shares))
  BY ValuationHolds
<1>3. /\ l = IF debt = Absent THEN Absent ELSE a - debt * unit
      /\ m = IF debt = Absent THEN Absent ELSE b - debt * unit
  BY DEF Left
<1> HIDE DEF v, w, unit, a, b, l, m
<1>4. CASE debt = Absent
  <2>1. l = Absent /\ m = Absent
    BY <1>3, <1>4
  <2>2. v.per_share = Absent /\ w.per_share = Absent /\ v.equity = Absent /\ w.equity = Absent
    BY <1>2, <2>1
  <2>3. Reported(v) = Cents(a, unit) /\ Reported(w) = Cents(b, unit)
    BY <1>2, <2>2 DEF Reported
  <2>4. QED
    BY <1>1, <2>3, CentsRise DEF v, w
<1>5. CASE debt # Absent
  <2>1. l \in Int /\ m \in Int /\ m <= l /\ l # Absent /\ m # Absent
    <3> DEFINE z == debt * unit
    <3>1. z \in Int
      BY <1>1, <1>5
    <3>2. l = a - z /\ m = b - z
      BY <1>3, <1>5
    <3> HIDE DEF z
    <3>3. QED
      BY <1>1, <3>1, <3>2
  <2>2. Cents(l, unit) \in Int /\ Cents(m, unit) \in Int /\ Cents(m, unit) <= Cents(l, unit)
    BY <1>1, <2>1, CentsRise
  <2>3. CASE shares = Absent
    <3>1. v.per_share = Absent /\ w.per_share = Absent
      BY <1>2, <2>3
    <3>2. v.equity = Cents(l, unit) /\ w.equity = Cents(m, unit)
      BY <1>2, <2>1
    <3>3. v.equity # Absent /\ w.equity # Absent
      BY <1>1, <2>2, <3>2
    <3>4. Reported(v) = Cents(l, unit) /\ Reported(w) = Cents(m, unit)
      BY <3>1, <3>2, <3>3 DEF Reported
    <3>5. QED
      BY <2>2, <3>4 DEF v, w
  <2>4. CASE shares # Absent
    <3>1. /\ PerShare(l, unit, shares) \in Int /\ PerShare(m, unit, shares) \in Int
          /\ PerShare(m, unit, shares) <= PerShare(l, unit, shares)
      <4>1. shares \in Nat \ {0}
        BY <2>4
      <4>2. QED
        BY <1>1, <2>1, <4>1, SharesRise
    <3>2. v.per_share = PerShare(l, unit, shares) /\ w.per_share = PerShare(m, unit, shares)
      BY <1>2, <2>1, <2>4
    <3>3. v.per_share # Absent /\ w.per_share # Absent
      BY <1>1, <3>1, <3>2
    <3>4. Reported(v) = v.per_share /\ Reported(w) = w.per_share
      BY <3>3 DEF Reported
    <3>5. QED
      BY <3>1, <3>2, <3>4 DEF v, w
  <2>5. QED
    BY <2>3, <2>4
<1>6. QED
  BY <1>4, <1>5

\* Positive flows under a sound spread: the parts of their value add up, equity
\* is what net debt leaves, and a higher rate is not worth more.
LEMMA ValuesAddUp ==
  ASSUME NEW rate \in Nat \ {0}, NEW growth \in Int, rate - growth >= MinimumSpread,
         -RateUnit < growth, NEW flows \in Seq(Nat), flows # << >>,
         NEW debt \in Int \cup {Absent}, NEW shares
  PROVE  LET v == DcfValue(rate, growth, flows, debt, shares)
         IN  /\ Magnitude(v.forecast + v.pv_terminal - v.enterprise) <= Cent
             /\ v.pv_terminal <= v.terminal
             /\ IF debt = Absent THEN v.equity = Absent
                ELSE 2 * Magnitude(v.equity + debt - v.enterprise) <= 2 * Cent
             /\ v.per_share # Absent => shares # Absent /\ v.equity # Absent
             /\ DcfValue(rate + 1, growth, flows, debt, shares).enterprise <= v.enterprise
<1> DEFINE unit == Unit(flows)
           forecast == PresentValue(rate, flows) * FactorScale
           final == Terminal(rate, growth, flows) * DiscountFactor(rate, Len(flows))
           most == Terminal(rate, growth, flows) * FactorScale
           enterprise == Enterprise(rate, growth, flows)
           cheaper == Enterprise(rate + 1, growth, flows)
           left == Left(rate, growth, flows, debt)
           v == DcfValue(rate, growth, flows, debt, shares)
           w == DcfValue(rate + 1, growth, flows, debt, shares)
           d == unit * Cent
<1>1. /\ v.enterprise = Cents(enterprise, unit) /\ v.forecast = Cents(forecast, unit)
      /\ v.terminal = Cents(most, unit) /\ v.pv_terminal = Cents(final, unit)
      /\ v.equity = (IF left = Absent THEN Absent ELSE Cents(left, unit))
      /\ v.per_share = (IF Absent \in {left, shares} THEN Absent ELSE PerShare(left, unit, shares))
      /\ w.enterprise = Cents(cheaper, unit)
  BY ValuationHolds
<1>2. Cent \in Nat \ {0} /\ Absent \notin Int
  BY FiguresAssumption
<1>3. unit \in Nat \ {0}
  BY UnitsAreNumbers
<1>4. /\ forecast \in Nat /\ final \in Nat /\ most \in Nat /\ final <= most
      /\ enterprise \in Nat /\ cheaper \in Nat /\ cheaper <= enterprise
  <2>1. rate + 1 \in Nat \ {0} /\ rate <= rate + 1 /\ growth <= growth
    OBVIOUS
  <2>2. QED
    BY <2>1, EnterpriseFalls
<1>5. enterprise = forecast + final
  BY DEF Enterprise
<1>6. left = IF debt = Absent THEN Absent ELSE enterprise - debt * unit
  BY DEF Left
<1> HIDE DEF unit, forecast, final, most, enterprise, cheaper, left, v, w
<1>7. d \in Nat \ {0}
  BY <1>2, <1>3, SMTT(20)
<1> HIDE DEF d
<1>8. Magnitude(v.forecast + v.pv_terminal - v.enterprise) <= Cent
  <2> DEFINE h == HalfUp(forecast, d)
             k == HalfUp(final, d)
             l == HalfUp(enterprise, d)
             u == (h + k) - l
  <2>1. u \in -1..1
    BY <1>4, <1>5, <1>7, RoundedParts
  <2>2. h \in Int /\ k \in Int /\ l \in Int
    <3>1. \A n \in Nat : HalfUp(n, d) \in Int
      <4>1. SUFFICES ASSUME NEW n \in Nat PROVE HalfUp(n, d) \in Int
        OBVIOUS
      <4>2. HalfUp(n, d) \in Nat
        BY <1>7, RoundedNumbers
      <4>3. QED
        BY <4>2
    <3>2. QED
      BY <1>4, <3>1
  <2>3. v.forecast = h * Cent /\ v.pv_terminal = k * Cent /\ v.enterprise = l * Cent
    BY <1>1 DEF Cents, d
  <2> HIDE DEF h, k, l
  <2>4. v.forecast + v.pv_terminal - v.enterprise = u * Cent
    BY <1>2, <2>2, <2>3, SMTT(20)
  <2> HIDE DEF u
  <2>5. u = -1 \/ u = 0 \/ u = 1
    BY <2>1
  <2>6. u * Cent = -Cent \/ u * Cent = 0 \/ u * Cent = Cent
    BY <1>2, <2>5
  <2>7. Magnitude(u * Cent) <= Cent
    BY <1>2, <2>6 DEF Magnitude
  <2>8. QED
    BY <2>4, <2>7
<1>9. v.pv_terminal <= v.terminal /\ w.enterprise <= v.enterprise
  <2>1. Cents(final, unit) <= Cents(most, unit)
    BY <1>3, <1>4, CentsRise
  <2>2. Cents(cheaper, unit) <= Cents(enterprise, unit)
    BY <1>3, <1>4, CentsRise
  <2>3. QED
    BY <1>1, <2>1, <2>2
<1>10. IF debt = Absent THEN v.equity = Absent
       ELSE v.equity # Absent /\ 2 * Magnitude(v.equity + debt - v.enterprise) <= 2 * Cent
  <2>1. CASE debt = Absent
    BY <1>1, <1>6, <2>1
  <2>2. CASE debt # Absent
    <3> DEFINE z == debt * unit
               e == enterprise - z
               a == Cents(e, unit)
               b == Cents(enterprise, unit)
    <3>1. debt \in Int /\ enterprise \in Int
      BY <1>4, <2>2
    <3>2. z \in Int
      BY <1>3, <3>1
    <3>3. e \in Int /\ e <= e
      <4> HIDE DEF z
      <4>1. QED
        BY <3>1, <3>2
    <3>4. left = e /\ left # Absent
      BY <1>2, <1>6, <2>2, <3>3
    <3>5. 2 * Magnitude((a + debt) - b) <= 2 * Cent
      BY <1>3, <3>1, RoundedDifference
    <3> HIDE DEF e
    <3>6. a \in Int
      BY <1>3, <3>3, CentsRise
    <3>7. b \in Int
      BY <1>3, <1>4, CentsRise
    <3>8. v.equity = a /\ v.enterprise = b
      BY <1>1, <3>4
    <3> HIDE DEF a, b
    <3>9. v.equity + debt - v.enterprise = (a + debt) - b
      BY <3>1, <3>6, <3>7, <3>8
    <3>10. v.equity # Absent
      BY <1>2, <3>6, <3>8
    <3>11. QED
      BY <2>2, <3>5, <3>9, <3>10
  <2>3. QED
    BY <2>1, <2>2
<1>11. v.per_share # Absent => shares # Absent /\ v.equity # Absent
  <2>1. ASSUME v.per_share # Absent PROVE shares # Absent /\ left # Absent
    BY <1>1, <2>1
  <2>2. left # Absent => debt # Absent
    BY <1>6
  <2>3. QED
    BY <1>10, <2>1, <2>2
<1>12. QED
  BY <1>8, <1>9, <1>10, <1>11 DEF v, w

(***************************************************************************)
(* What is inferred from several inputs                                    *)
(***************************************************************************)
\* Twice their distance is at most c.
Near(a, b, c) == 2 * Magnitude(a - b) <= c

LEMMA NearSum ==
  ASSUME NEW a \in Int, NEW b \in Int, NEW x \in Int, NEW c \in Int, NEW e \in Int,
         Near(a, b, c), Near(b, x, e)
  PROVE  Near(a, x, c + e)
BY DEF Near, Magnitude

LEMMA NearScaled ==
  ASSUME NEW a \in Int, NEW b \in Int, NEW c \in Int, NEW s \in Nat \ {0}
  PROVE  Near(a, b, c) <=> Near(a * s, b * s, c * s)
<1> DEFINE x == a * s
           y == b * s
           z == c * s
<1>1. x \in Int /\ y \in Int /\ z \in Int
  OBVIOUS
<1>2. \A m, n \in Int : (m <= n) <=> (m * s <= n * s)
  <2>1. SUFFICES ASSUME NEW m \in Int, NEW n \in Int PROVE (m <= n) <=> (m * s <= n * s)
    OBVIOUS
  <2>2. CASE m <= n
    <3>1. (n - m) * s >= 0
      BY <2>2, SMTT(20)
    <3>2. m * s <= n * s
      BY <3>1, SMTT(20)
    <3>3. QED
      BY <2>2, <3>2
  <2>3. CASE m > n
    <3>1. (m - n) * s > 0
      BY <2>3, SMTT(20)
    <3>2. m * s > n * s
      BY <3>1, SMTT(20)
    <3> DEFINE p == m * s
               q == n * s
    <3>3. p \in Int /\ q \in Int /\ p > q
      BY <3>2
    <3> HIDE DEF p, q
    <3>4. ~(p <= q)
      BY <3>3
    <3>5. QED
      BY <2>3, <3>4 DEF p, q
  <2>4. QED
    BY <2>2, <2>3
<1>3. (2 * (a - b)) * s = 2 * (x - y) /\ (2 * (b - a)) * s = 2 * (y - x)
  BY SMTT(20)
<1>4. 2 * (a - b) <= c <=> 2 * (x - y) <= z
  <2>1. 2 * (a - b) \in Int
    OBVIOUS
  <2>2. QED
    BY <1>2, <1>3, <2>1
<1>5. 2 * (b - a) <= c <=> 2 * (y - x) <= z
  <2>1. 2 * (b - a) \in Int
    OBVIOUS
  <2>2. QED
    BY <1>2, <1>3, <2>1
<1>6. Near(a, b, c) <=> (2 * (a - b) <= c /\ 2 * (b - a) <= c)
  BY DEF Near, Magnitude
<1> HIDE DEF x, y, z
<1>7. Near(x, y, z) <=> (2 * (x - y) <= z /\ 2 * (y - x) <= z)
  BY <1>1 DEF Near, Magnitude
<1>8. QED
  BY <1>4, <1>5, <1>6, <1>7 DEF x, y, z

\* A rounded quotient is near, in the form that scales.
LEMMA HalfUpIsNear ==
  ASSUME NEW n \in Int, NEW d \in Nat \ {0}
  PROVE  HalfUp(n, d) \in Int /\ Near(HalfUp(n, d) * d, n, d)
<1>1. HalfUp(n, d) \in Int /\ 2 * Magnitude(HalfUp(n, d) * d - n) <= Magnitude(d)
  BY HalfUpIsNearest
<1>2. Magnitude(d) = d
  BY DEF Magnitude
<1>3. QED
  BY <1>1, <1>2 DEF Near

LEMMA Products ==
  /\ \A a, b \in Int : a * b \in Int /\ a * b = b * a
  /\ \A a, b, c \in Int : (a * b) * c = a * (b * c)
  /\ \A a, b \in Nat \ {0} : a * b \in Nat \ {0}
<1>1. \A a, b \in Int : a * b \in Int /\ a * b = b * a
  OBVIOUS
<1>2. \A a, b, c \in Int : (a * b) * c = a * (b * c)
  BY SMTT(20)
<1>3. \A a, b \in Nat \ {0} : a * b \in Nat \ {0}
  BY SMTT(20)
<1>4. QED
  BY <1>1, <1>2, <1>3

\* The multiple a company trades at, of its own figure, comes back to its price.
LEMMA OwnMultiplePrices ==
  ASSUME NEW S \in Nat \ {0}, NEW D \in Int, NEW B \in Nat \ {0}
  PROVE  LET M == Multiple(20 * S + D * Whole, B * Whole)
             per == PerShare(B * M - D * FactorScale, FactorScale, S)
         IN  M \in Int /\ per \in Int
             /\ FactorScale * S * (Magnitude(per - 20) - ColumnUnit) <= B * Whole
<1> DEFINE W == Whole
           FS == FactorScale
           RS == RatioScale
           CU == ColumnUnit
           G == B * W
           K == FS * S
           C == RS * CU
           V == 20 * S + D * W
           M1 == HalfUp(V * RS, G)
           M == HalfUp(M1 * FS, RS)
           E == B * M - D * FS
           P1 == HalfUp(E * RS, K)
           P2 == HalfUp(P1 * W, C)
           per == P2 * CU
<1>1. /\ W \in Nat \ {0} /\ FS \in Nat \ {0} /\ RS \in Nat \ {0} /\ CU \in Nat \ {0}
      /\ FS <= RS /\ W <= C
  BY FiguresAssumption, ScalesAssumption
<1>2. M = Multiple(V, G) /\ per = PerShare(E, FS, S)
  BY DEF Multiple, Ratio, PerShare
<1> HIDE DEF W, FS, RS, CU
<1>3. G \in Nat \ {0} /\ K \in Nat \ {0} /\ C \in Nat \ {0} /\ V \in Int
  BY <1>1, Products
<1> HIDE DEF G, K, C
<1>4. M1 \in Int /\ Near(M1 * G, V * RS, G)
  <2>1. V * RS \in Int
    <3> HIDE DEF V
    <3>1. QED
      BY <1>1, <1>3
  <2> HIDE DEF V
  <2>2. QED
    BY <1>3, <2>1, HalfUpIsNear
<1> HIDE DEF M1
<1>5. M \in Int /\ Near(M * RS, M1 * FS, RS)
  <2>1. M1 * FS \in Int
    BY <1>1, <1>4
  <2>2. QED
    BY <1>1, <2>1, HalfUpIsNear
<1> HIDE DEF M
<1>6. E \in Int
  BY <1>1, <1>5
<1>7. P1 \in Int /\ Near(P1 * K, E * RS, K)
  <2> HIDE DEF E
  <2>1. E * RS \in Int
    BY <1>1, <1>6
  <2>2. QED
    BY <1>3, <2>1, HalfUpIsNear
<1> HIDE DEF P1
<1>8. P2 \in Int /\ Near(P2 * C, P1 * W, C)
  <2>1. P1 * W \in Int
    BY <1>1, <1>7
  <2>2. QED
    BY <1>3, <2>1, HalfUpIsNear
<1> HIDE DEF P2
<1>9. Near(M * G, V * FS, 2 * G)
  <2> HIDE DEF V
  <2> DEFINE a == (M * G) * RS
             b == (M1 * G) * FS
             c == (V * FS) * RS
             e == G * RS
             f == G * FS
  <2>1. Near(b, c, f)
    <3>1. Near((M1 * G) * FS, (V * RS) * FS, G * FS)
      <4>1. M1 * G \in Int /\ V * RS \in Int
        BY <1>1, <1>3, <1>4
      <4>2. G \in Int
        BY <1>3
      <4>3. QED
        BY <1>1, <1>4, <4>1, <4>2, NearScaled
    <3>2. (V * RS) * FS = c
      BY <1>1, <1>3, SMTT(20)
    <3>3. QED
      BY <3>1, <3>2
  <2>2. Near(a, b, e)
    <3>1. Near((M * RS) * G, (M1 * FS) * G, RS * G)
      <4>1. M * RS \in Int /\ M1 * FS \in Int
        BY <1>1, <1>4, <1>5
      <4>2. RS \in Int
        BY <1>1
      <4>3. QED
        BY <1>3, <1>5, <4>1, <4>2, NearScaled
    <3>2. (M * RS) * G = a /\ (M1 * FS) * G = b /\ RS * G = e
      BY <1>1, <1>3, <1>4, <1>5, SMTT(20)
    <3>3. QED
      BY <3>1, <3>2
  <2>3. a \in Int /\ b \in Int /\ c \in Int /\ e \in Int /\ f \in Int
    <3>1. M * G \in Int /\ M1 * G \in Int /\ V * FS \in Int
      BY <1>1, <1>3, <1>4, <1>5
    <3>2. \A x \in Int : x * RS \in Int /\ x * FS \in Int
      BY <1>1
    <3>3. G \in Int
      BY <1>3
    <3>4. QED
      BY <3>1, <3>2, <3>3
  <2>4. f <= e
    <3>1. G \in Nat /\ G <= G /\ FS \in Nat /\ RS \in Nat
      BY <1>1, <1>3
    <3>2. QED
      BY <1>1, <3>1, ProductsGrow
  <2>5. (2 * G) * RS = 2 * e
    BY <1>1, <1>3, SMTT(20)
  <2> HIDE DEF a, b, c, e, f
  <2>6. Near(a, c, 2 * e)
    <3>1. Near(b, c, e)
      BY <2>1, <2>3, <2>4 DEF Near, Magnitude
    <3>2. Near(a, c, e + e)
      BY <2>2, <2>3, <3>1, NearSum
    <3>3. e + e = 2 * e
      BY <2>3
    <3>4. QED
      BY <3>2, <3>3
  <2>7. Near((M * G) * RS, (V * FS) * RS, (2 * G) * RS)
    BY <2>5, <2>6 DEF a, c
  <2>8. M * G \in Int /\ V * FS \in Int /\ 2 * G \in Int
    BY <1>1, <1>3, <1>5
  <2>9. QED
    BY <1>1, <2>7, <2>8, NearScaled
<1>10. Near(E * W, 20 * K, 2 * G)
  <2>1. E * W = M * G - (D * W) * FS
    BY <1>1, <1>5, SMTT(20) DEF G
  <2>2. V * FS = 20 * K + (D * W) * FS
    BY <1>1, SMTT(20) DEF K
  <2> HIDE DEF V, E
  <2> DEFINE m == M * G
             v == V * FS
             x == (D * W) * FS
             y == E * W
  <2>3. m \in Int /\ v \in Int /\ x \in Int /\ y \in Int
    <3>1. D * W \in Int
      BY <1>1
    <3>2. QED
      BY <1>1, <1>3, <1>5, <1>6, <3>1
  <2>4. y = m - x /\ v = 20 * K + x /\ Near(m, v, 2 * G)
    BY <1>9, <2>1, <2>2
  <2> HIDE DEF m, v, x, y
  <2>5. Near(y, 20 * K, 2 * G)
    BY <1>3, <2>3, <2>4 DEF Near, Magnitude
  <2>6. QED
    BY <2>5 DEF y
<1> HIDE DEF E
<1>11. Near(per * K, 20 * K, 2 * (CU * K) + 2 * G)
  <2> DEFINE a == (per * K) * RS
             b == (P1 * W) * K
             c == (E * W) * RS
             e == (20 * K) * RS
             f == C * K
             g == K * W
             h == G * RS
  <2>1. Near(a, b, f)
    <3>1. Near((P2 * C) * K, (P1 * W) * K, C * K)
      <4>1. P2 * C \in Int /\ P1 * W \in Int
        BY <1>1, <1>3, <1>7, <1>8
      <4>2. C \in Int
        BY <1>3
      <4>3. QED
        BY <1>3, <1>8, <4>1, <4>2, NearScaled
    <3>2. (P2 * C) * K = a
      BY <1>1, <1>3, <1>8, SMTT(20) DEF C
    <3>3. QED
      BY <3>1, <3>2
  <2>2. Near(b, c, g)
    <3>1. Near((P1 * K) * W, (E * RS) * W, K * W)
      <4>1. P1 * K \in Int /\ E * RS \in Int
        BY <1>1, <1>3, <1>6, <1>7
      <4>2. K \in Int
        BY <1>3
      <4>3. QED
        BY <1>1, <1>7, <4>1, <4>2, NearScaled
    <3>2. (P1 * K) * W = b /\ (E * RS) * W = c
      BY <1>1, <1>3, <1>6, <1>7, SMTT(20)
    <3>3. QED
      BY <3>1, <3>2
  <2>3. Near(c, e, 2 * h)
    <3>1. E * W \in Int /\ 20 * K \in Int /\ 2 * G \in Int
      BY <1>1, <1>3, <1>6
    <3>2. Near((E * W) * RS, (20 * K) * RS, (2 * G) * RS)
      BY <1>1, <1>10, <3>1, NearScaled
    <3>3. (2 * G) * RS = 2 * h
      BY <1>1, <1>3, SMTT(20)
    <3>4. QED
      BY <3>2, <3>3
  <2>4. g <= f
    <3>1. K \in Nat /\ K <= K /\ W \in Nat /\ C \in Nat /\ W <= C
      BY <1>1, <1>3 DEF C
    <3>2. K * W <= K * C
      BY <3>1, ProductsGrow
    <3>3. QED
      BY <1>3, <3>2
  <2>5. per \in Int
    BY <1>1, <1>8
  <2> HIDE DEF per
  <2>6. a \in Int /\ b \in Int /\ c \in Int /\ e \in Int /\ f \in Int /\ g \in Int /\ h \in Int
    <3>1. per * K \in Int /\ P1 * W \in Int /\ E * W \in Int /\ 20 * K \in Int
      BY <1>1, <1>3, <1>6, <1>7, <2>5
    <3>2. \A x \in Int : x * RS \in Int /\ x * K \in Int /\ x * W \in Int
      BY <1>1, <1>3
    <3>3. C \in Int /\ K \in Int /\ G \in Int
      BY <1>3
    <3>4. QED
      BY <3>1, <3>2, <3>3
  <2>7. (2 * (CU * K) + 2 * G) * RS = 2 * f + 2 * h
    BY <1>1, <1>3, SMTT(20) DEF C
  <2> HIDE DEF a, b, c, e, f, g, h
  <2>8. Near(a, e, 2 * f + 2 * h)
    BY <2>1, <2>2, <2>3, <2>4, <2>6 DEF Near, Magnitude
  <2>9. Near((per * K) * RS, (20 * K) * RS, (2 * (CU * K) + 2 * G) * RS)
    BY <2>7, <2>8 DEF a, e
  <2>10. per * K \in Int /\ 20 * K \in Int /\ 2 * (CU * K) + 2 * G \in Int
    BY <1>1, <1>3, <2>5
  <2>11. QED
    BY <1>1, <2>9, <2>10, NearScaled
<1>12. per \in Int
  BY <1>1, <1>8
<1> HIDE DEF per
<1>13. K * (Magnitude(per - 20) - CU) <= G
  <2> DEFINE x == per * K
             y == CU * K
             z == Magnitude(per - 20)
  <2>1. x \in Int /\ y \in Int
    BY <1>1, <1>3, <1>12
  <2>2. z \in Int /\ (z = per - 20 \/ z = 20 - per)
    BY <1>12 DEF Magnitude
  <2> HIDE DEF z
  <2>3. K * (z - CU) = K * z - y
    BY <1>1, <1>3, <2>2, SMTT(20)
  <2>4. K * z = x - 20 * K \/ K * z = 20 * K - x
    BY <1>3, <1>12, <2>2, SMTT(20)
  <2>5. Near(x, 20 * K, 2 * y + 2 * G)
    BY <1>11
  <2> HIDE DEF x, y
  <2>6. x - 20 * K <= y + G /\ 20 * K - x <= y + G
    BY <1>3, <2>1, <2>5 DEF Near, Magnitude
  <2> DEFINE w == K * z
  <2>7. w \in Int
    BY <1>3, <2>2
  <2>8. w <= y + G
    BY <2>4, <2>6
  <2> HIDE DEF w
  <2>9. w - y <= G
    BY <1>3, <2>1, <2>7, <2>8
  <2>10. QED
    BY <2>3, <2>9 DEF w, z
<1>14. QED
  BY <1>2, <1>5, <1>12, <1>13 DEF K, G, W, FS, CU, E, V

\* The median of two is their mean, to a half in the last place.
LEMMA PairMedian ==
  ASSUME NEW a \in Int, NEW b \in Int, a + b >= 0
  PROVE  Median(<<a, b>>) \in Int /\ 2 * Median(<<a, b>>) \in {a + b, a + b + 1}
<1> DEFINE keys == <<a, b>>
           i == IF a <= b THEN 1 ELSE 2
           j == IF a <= b THEN 2 ELSE 1
           order == Order(keys)
           ordered == [k \in DOMAIN keys |-> keys[order[k]]]
           s == a + b
           h == HalfUp(s, 2)
<1>1. DOMAIN keys = 1..2 /\ Len(keys) = 2 /\ keys[1] = a /\ keys[2] = b
  OBVIOUS
<1>2. i \in 1..2 /\ j \in 1..2 /\ i # j
  OBVIOUS
<1>3. order = [k \in 1..2 |-> IF k = 1 THEN i ELSE j]
  <2>1. keys[i] \in Int /\ keys[j] \in Int
    BY <1>1
  <2>2. keys[i] < keys[j] \/ (keys[i] = keys[j] /\ i < j)
    BY <1>1
  <2> HIDE DEF keys, i, j
  <2>3. QED
    BY <1>1, <1>2, <2>1, <2>2, TwoInOrder
<1>4. ordered[1] + ordered[2] = s
  <2> HIDE DEF order, keys
  <2>1. 1 \in DOMAIN keys /\ 2 \in DOMAIN keys /\ order[1] = i /\ order[2] = j
    BY <1>1, <1>3
  <2>2. ordered[1] = keys[i] /\ ordered[2] = keys[j]
    BY <2>1
  <2>3. QED
    BY <1>1, <2>2
<1>5. Median(keys) = h
  <2>1. Median(keys) = IF Len(keys) % 2 = 1 THEN ordered[Len(keys) \div 2 + 1]
                       ELSE HalfUp(ordered[Len(keys) \div 2] + ordered[Len(keys) \div 2 + 1], 2)
    BY DEF Median
  <2>2. Len(keys) % 2 # 1 /\ Len(keys) \div 2 = 1 /\ Len(keys) \div 2 + 1 = 2
    <3>1. 2 % 2 # 1 /\ 2 \div 2 = 1 /\ 1 + 1 = 2
      OBVIOUS
    <3>2. QED
      BY <1>1, <3>1
  <2> HIDE DEF ordered, keys, s
  <2>3. QED
    BY <1>4, <2>1, <2>2
<1>6. s \in Int /\ s >= 0
  OBVIOUS
<1> HIDE DEF s
<1>7. h \in Int /\ 2 * (h * 2) <= 2 * s + 2 /\ 2 * s + 2 < 2 * (h * 2) + 2 * 2
  BY <1>6, HalfUpBounds
<1> HIDE DEF h
<1>8. 2 * h = s \/ 2 * h = s + 1
  BY <1>6, <1>7
<1>9. QED
  BY <1>5, <1>7, <1>8 DEF s, keys

\* Peers whose multiples are natural numbers imply what their mean does.
LEMMA PeersImply ==
  ASSUME NEW a \in Int, NEW b \in Int, a + b >= 0, NEW figure \in Nat \ {0}, NEW shares
  PROVE  LET pair == <<[name |-> "a", basis |-> "pe", multiple |-> a],
                       [name |-> "b", basis |-> "pe", multiple |-> b]>>
             worth == ValueFromPeers(pair, figure, "pe", shares, Absent)
         IN  /\ 2 * worth.median \in {a + b, a + b + 1}
             /\ 2 * Magnitude(worth.implied * FactorScale - figure * worth.median)
                  <= Cent * FactorScale
<1> DEFINE pair == <<[name |-> "a", basis |-> "pe", multiple |-> a],
                     [name |-> "b", basis |-> "pe", multiple |-> b]>>
           worth == ValueFromPeers(pair, figure, "pe", shares, Absent)
           m == Median(<<a, b>>)
           n == figure * m
           d == FactorScale * Cent
           h == HalfUp(n, d)
<1>1. m \in Int /\ 2 * m \in {a + b, a + b + 1}
  BY PairMedian
<1>2. [i \in DOMAIN pair |-> pair[i].multiple] = <<a, b>>
  OBVIOUS
<1>3. ~(pair = << >> \/ figure <= 0 \/ \E i \in DOMAIN pair : pair[i].basis # "pe")
  OBVIOUS
<1>4. worth.median = m /\ worth.implied = Cents(n, FactorScale)
  <2> HIDE DEF pair
  <2>1. QED
    BY <1>2, <1>3 DEF ValueFromPeers
<1> HIDE DEF pair, worth, m
<1>5. FactorScale \in Nat \ {0} /\ Cent \in Nat \ {0}
  BY FiguresAssumption
<1>6. d \in Nat \ {0} /\ n \in Int
  BY <1>1, <1>5, Products
<1> HIDE DEF d, n
<1>7. h \in Int /\ Near(h * d, n, d)
  BY <1>6, HalfUpIsNear
<1> HIDE DEF h
<1>8. worth.implied * FactorScale = h * d
  <2>1. worth.implied = h * Cent
    BY <1>4 DEF Cents, h, d
  <2>2. (h * Cent) * FactorScale = h * (FactorScale * Cent)
    BY <1>5, <1>7, SMTT(20)
  <2>3. QED
    BY <2>1, <2>2 DEF d
<1>9. Cent * FactorScale = d
  BY <1>5 DEF d
<1>10. 2 * Magnitude(worth.implied * FactorScale - figure * worth.median) <= Cent * FactorScale
  BY <1>4, <1>7, <1>8, <1>9 DEF Near, n
<1>11. QED
  BY <1>1, <1>4, <1>10 DEF worth, pair

\* A multiple of a value that is not negative is a natural number.
LEMMA MultiplesAreNumbers ==
  ASSUME NEW n \in Nat, NEW d \in Nat \ {0}
  PROVE  Multiple(n, d) \in Nat
<1> DEFINE r == HalfUp(n * RatioScale, d)
<1>1. RatioScale \in Nat \ {0} /\ FactorScale \in Nat \ {0}
  BY FiguresAssumption
<1>2. n * RatioScale \in Nat
  BY <1>1
<1>3. r \in Nat
  BY <1>2, RoundedNumbers
<1> HIDE DEF r
<1>4. r * FactorScale \in Nat
  BY <1>1, <1>3
<1>5. HalfUp(r * FactorScale, RatioScale) \in Nat
  BY <1>1, <1>4, RoundedNumbers
<1>6. QED
  BY <1>5 DEF Multiple, Ratio, r

\* The shares of equity and of debt are one, to one in the last place, and
\* capital costs no less and no more than its parts.
LEMMA CapitalCosts ==
  ASSUME NEW equity \in Nat, NEW debt \in Nat, equity + debt > 0,
         NEW ke \in Nat, NEW kd \in Nat, NEW tax \in Int, tax < RateUnit
  PROVE  LET dear == ke * RateUnit
             taxed == kd * (RateUnit - tax)
             square == RateUnit * RateUnit
             cost == CostOfCapital(equity, debt, ke, kd, tax)
         IN  /\ \E c \in {dear, taxed} : 2 * c * (RatioScale - 1) - square <= 2 * (cost * square)
             /\ \E c \in {dear, taxed} : 2 * (cost * square) <= 2 * c * (RatioScale + 1) + square
<1> DEFINE R == RatioScale
           total == equity + debt
           x == equity * R
           y == debt * R
           v == HalfUp(x, total)
           w == HalfUp(y, total)
           A == ke * RateUnit
           B == kd * (RateUnit - tax)
           square == RateUnit * RateUnit
           p == v * A
           q == w * B
           n == p + q
           h == HalfUp(n, square)
           cost == CostOfCapital(equity, debt, ke, kd, tax)
<1>1. R \in Nat \ {0} /\ RateUnit \in Nat \ {0} /\ total \in Nat \ {0}
  BY FiguresAssumption
<1>2. x \in Nat /\ y \in Nat
  BY <1>1
<1>3. x + y = R * total /\ R * total \in Nat
  BY <1>1, SMTT(20)
<1>4. A \in Nat /\ B \in Nat /\ square \in Nat \ {0}
  <2>1. RateUnit - tax \in Nat
    BY <1>1
  <2> DEFINE t == RateUnit - tax
  <2> HIDE DEF t
  <2>2. kd * t \in Nat
    BY <2>1 DEF t
  <2>3. QED
    BY <1>1, <2>2, Products DEF t
<1>5. cost = h
  <2>1. cost = HalfUp(v * ke * RateUnit + w * kd * (RateUnit - tax), square)
    BY <1>1 DEF CostOfCapital, Ratio
  <2>2. v \in Int /\ w \in Int
    <3> HIDE DEF x, y, total
    <3>1. QED
      BY <1>1, <1>2, RoundedNumbers
  <2> HIDE DEF v, w
  <2>3. v * ke * RateUnit = p /\ w * kd * (RateUnit - tax) = q
    BY <1>1, <2>2, SMTT(20)
  <2>4. QED
    BY <2>1, <2>3
<1> HIDE DEF R, x, y, total
<1>6. v \in Nat /\ w \in Nat /\ v + w - R \in -1..1
  <2>1. v \in Nat /\ w \in Nat
    BY <1>1, <1>2, RoundedNumbers
  <2>2. (v + w) - HalfUp(x + y, total) \in -1..1
    BY <1>1, <1>2, RoundedParts
  <2>3. HalfUp(x + y, total) = R
    <3> DEFINE k == HalfUp(R * total, total)
               u == k - R
               f == k * total
               g == R * total
    <3>1. g \in Int /\ g >= 0
      BY <1>3
    <3>2. k \in Int /\ 2 * f <= 2 * g + total /\ 2 * g + total < 2 * f + 2 * total
      <4> HIDE DEF g
      <4>1. HalfUp(g, total) \in Int /\ 2 * (HalfUp(g, total) * total) <= 2 * g + total
            /\ 2 * g + total < 2 * (HalfUp(g, total) * total) + 2 * total
        BY <1>1, <3>1, HalfUpBounds
      <4>2. QED
        BY <4>1 DEF g
    <3> HIDE DEF k
    <3>3. u * total = f - g /\ u \in Int /\ f \in Int
      BY <1>1, <3>2
    <3> HIDE DEF f, g, u
    <3>4. u * total < total /\ -total < u * total
      BY <1>1, <3>1, <3>2, <3>3
    <3>5. u = 0
      BY <1>1, <3>3, <3>4, MultiplesTell
    <3>6. k = R
      BY <1>1, <3>2, <3>5 DEF u
    <3>7. QED
      BY <1>3, <3>6 DEF k
  <2> HIDE DEF v, w
  <2>4. v + w - R = (v + w) - R
    BY <1>1, <2>1
  <2>5. QED
    BY <2>1, <2>2, <2>3, <2>4
<1>7. R - 1 <= v + w /\ v + w <= R + 1
  <2> HIDE DEF v, w
  <2>1. v + w - R \in Int /\ -1 <= v + w - R /\ v + w - R <= 1
    BY <1>6
  <2>2. QED
    BY <1>1, <1>6, <2>1
<1> HIDE DEF v, w, A, B, square
<1>8. p \in Nat /\ q \in Nat /\ n \in Nat
  <2>1. p \in Nat /\ q \in Nat
    BY <1>4, <1>6
  <2> HIDE DEF p, q
  <2>2. QED
    BY <2>1
<1>9. h \in Int /\ 2 * (h * square) <= 2 * n + square /\ 2 * n + square < 2 * (h * square) + 2 * square
  <2> HIDE DEF n
  <2>1. n \in Int /\ n >= 0
    BY <1>8
  <2>2. QED
    BY <1>4, <2>1, HalfUpBounds
<1> HIDE DEF h, n, p, q
<1> DEFINE s == h * square
<1>10. s \in Int
  BY <1>4, <1>9
<1> HIDE DEF s
<1>11. 2 * n - square <= 2 * s /\ 2 * s <= 2 * n + square
  BY <1>4, <1>8, <1>9, <1>10 DEF s
<1>12. \A c, e \in Nat, i, j \in Nat : (c <= e) => c * (i + j) <= i * c + j * e /\ i * c + j * e <= e * (i + j)
  <2>1. SUFFICES ASSUME NEW c \in Nat, NEW e \in Nat, NEW i \in Nat, NEW j \in Nat, c <= e
                 PROVE  c * (i + j) <= i * c + j * e /\ i * c + j * e <= e * (i + j)
    OBVIOUS
  <2>2. (e - c) * j >= 0 /\ (e - c) * i >= 0
    BY <2>1, SMTT(20)
  <2>3. QED
    BY <2>1, <2>2, SMTT(20)
<1>13. \A c \in Nat, k \in Nat : /\ k >= R - 1 => c * (R - 1) <= c * k
                                 /\ k <= R + 1 => c * k <= c * (R + 1)
  <2>1. SUFFICES ASSUME NEW c \in Nat, NEW k \in Nat
                 PROVE  /\ k >= R - 1 => c * (R - 1) <= c * k
                        /\ k <= R + 1 => c * k <= c * (R + 1)
    OBVIOUS
  <2>2. R - 1 \in Nat /\ R + 1 \in Nat /\ c <= c
    BY <1>1
  <2>3. QED
    BY <2>1, <2>2, ProductsGrow
<1>14. \A c \in Nat : /\ 2 * c * (R - 1) = 2 * (c * (R - 1)) /\ c * (R - 1) \in Int
                      /\ 2 * c * (R + 1) = 2 * (c * (R + 1)) /\ c * (R + 1) \in Int
  BY <1>1, SMTT(20)
<1>15. \E c, e \in {A, B} : c * (R - 1) <= n /\ n <= e * (R + 1)
  <2> DEFINE k == v + w
  <2>1. k \in Nat /\ R - 1 <= k /\ k <= R + 1 /\ w + v = k
    BY <1>6, <1>7
  <2> HIDE DEF k
  <2>2. \A c \in Nat : c * (R - 1) \in Int /\ c * (R + 1) \in Int /\ c * k \in Int
    BY <1>1, <2>1
  <2>3. n \in Int /\ n = v * A + w * B /\ n = w * B + v * A
    <3>1. n = p + q /\ p = v * A /\ q = w * B
      BY DEF n, p, q
    <3>2. p + q = q + p
      BY <1>8
    <3>3. QED
      BY <1>8, <3>1, <3>2
  <2>4. CASE A <= B
    <3>1. A * k <= n /\ n <= B * k
      BY <1>4, <1>6, <1>12, <2>1, <2>3, <2>4 DEF k
    <3>2. A * (R - 1) <= A * k /\ B * k <= B * (R + 1)
      BY <1>4, <1>13, <2>1
    <3>3. A * (R - 1) <= n /\ n <= B * (R + 1)
      <4> DEFINE aa == A * (R - 1)
                 ab == A * k
                 ba == B * k
                 bb == B * (R + 1)
      <4>1. aa \in Int /\ ab \in Int /\ ba \in Int /\ bb \in Int
        BY <1>4, <2>2
      <4> HIDE DEF aa, ab, ba, bb
      <4>2. QED
        BY <2>3, <3>1, <3>2, <4>1 DEF aa, ab, ba, bb
    <3>4. QED
      BY <3>3
  <2>5. CASE B <= A
    <3>1. B * k <= n /\ n <= A * k
      <4>1. B * (w + v) <= w * B + v * A /\ w * B + v * A <= A * (w + v)
        BY <1>4, <1>6, <1>12, <2>5
      <4>2. QED
        BY <2>1, <2>3, <4>1
    <3>2. B * (R - 1) <= B * k /\ A * k <= A * (R + 1)
      BY <1>4, <1>13, <2>1
    <3>3. B * (R - 1) <= n /\ n <= A * (R + 1)
      <4> DEFINE aa == B * (R - 1)
                 ab == B * k
                 ba == A * k
                 bb == A * (R + 1)
      <4>1. aa \in Int /\ ab \in Int /\ ba \in Int /\ bb \in Int
        BY <1>4, <2>2
      <4> HIDE DEF aa, ab, ba, bb
      <4>2. QED
        BY <2>3, <3>1, <3>2, <4>1 DEF aa, ab, ba, bb
    <3>4. QED
      BY <3>3
  <2>6. QED
    BY <1>4, <2>4, <2>5
<1>16. PICK c \in {A, B}, e \in {A, B} : c * (R - 1) <= n /\ n <= e * (R + 1)
  BY <1>15
<1>17. c \in Nat /\ e \in Nat
  BY <1>4
<1>18. 2 * c * (R - 1) - square <= 2 * s
  <2> DEFINE z == c * (R - 1)
  <2>1. z \in Int /\ z <= n /\ 2 * c * (R - 1) = 2 * z
    BY <1>14, <1>16, <1>17
  <2> HIDE DEF z
  <2>2. QED
    BY <1>4, <1>8, <1>10, <1>11, <2>1
<1>19. 2 * s <= 2 * e * (R + 1) + square
  <2> DEFINE z == e * (R + 1)
  <2>1. z \in Int /\ n <= z /\ 2 * e * (R + 1) = 2 * z
    BY <1>14, <1>16, <1>17
  <2> HIDE DEF z
  <2>2. QED
    BY <1>4, <1>8, <1>10, <1>11, <2>1
<1>20. QED
  BY <1>5, <1>18, <1>19 DEF s, R, A, B, square

\* The figures of a stored set that a valuation starts from.
LEMMA SetsAreFigures ==
  ASSUME RowsInv, NEW k \in DOMAIN rows
  PROVE  /\ NetDebt(rows[k].set.balance) \in Int \cup {Absent}
         /\ FreeCashFlow(rows[k].set) \in Int \cup {Absent}
         /\ Line(rows[k].set.income, "diluted_shares") \in Int \cup {Absent}
         /\ Line(rows[k].set.income, "revenue") \in Int \cup {Absent}
         /\ Line(rows[k].set.income, "net_income") \in Int \cup {Absent}
         /\ Line(rows[k].set.balance, "shareholders_equity") \in Int \cup {Absent}
         /\ Line(rows[k].set.balance, "total_debt") \in Int \cup {Absent}
<1> DEFINE set == rows[k].set
           L(p, item) == Line(set[p], item)
<1>1. \A p \in PartNames : \A item \in Columns[p] : Line(set[p], item) \in Int \cup {Absent}
  BY LinesAreFigures
<1>2. /\ "balance" \in PartNames /\ "cash_flow" \in PartNames /\ "income" \in PartNames
      /\ {"total_debt", "cash_and_equivalents", "shareholders_equity"} \subseteq Columns["balance"]
      /\ {"operating_cash_flow", "capital_expenditures"} \subseteq Columns["cash_flow"]
      /\ {"diluted_shares", "revenue", "net_income"} \subseteq Columns["income"]
  BY DEF PartNames, Columns, BalanceColumns, CashFlowColumns, IncomeColumns
<1> DEFINE a == Line(set.balance, "total_debt")
           b == Line(set.balance, "cash_and_equivalents")
           c == Line(set.cash_flow, "operating_cash_flow")
           d == Line(set.cash_flow, "capital_expenditures")
<1>3. a \in Int \cup {Absent} /\ b \in Int \cup {Absent}
      /\ c \in Int \cup {Absent} /\ d \in Int \cup {Absent}
  BY <1>1, <1>2
<1>4. NetDebt(set.balance) = Minus(a, b)
  BY DEF NetDebt
<1>5. FreeCashFlow(set) = Minus(c, IF d = Absent THEN Absent ELSE Magnitude(d))
  BY DEF FreeCashFlow
<1>6. /\ Line(set.income, "diluted_shares") \in Int \cup {Absent}
      /\ Line(set.income, "revenue") \in Int \cup {Absent}
      /\ Line(set.income, "net_income") \in Int \cup {Absent}
      /\ Line(set.balance, "shareholders_equity") \in Int \cup {Absent}
  BY <1>1, <1>2
<1> HIDE DEF a, b, c, d
<1>7. \A x, y \in Int \cup {Absent} : Minus(x, y) \in Int \cup {Absent}
  BY DEF Minus
<1>8. (IF d = Absent THEN Absent ELSE Magnitude(d)) \in Int \cup {Absent}
  BY <1>3 DEF Magnitude
<1>9. NetDebt(set.balance) \in Int \cup {Absent} /\ FreeCashFlow(set) \in Int \cup {Absent}
  <2> DEFINE z == IF d = Absent THEN Absent ELSE Magnitude(d)
  <2>1. z \in Int \cup {Absent} /\ FreeCashFlow(set) = Minus(c, z)
    BY <1>5, <1>8
  <2> HIDE DEF z
  <2>2. Minus(a, b) \in Int \cup {Absent}
    BY <1>3, <1>7
  <2>3. Minus(c, z) \in Int \cup {Absent}
    BY <1>3, <1>7, <2>1
  <2>4. QED
    BY <1>4, <2>1, <2>2, <2>3
<1>10. QED
  BY <1>3, <1>6, <1>9 DEF a

\* A set that is served has a share, or no count of them.
LEMMA ServedShares ==
  ASSUME RowsInv, NEW k \in Served
  PROVE  Line(rows[k].set.income, "diluted_shares") \in (Nat \ {0}) \cup {Absent}
<1> DEFINE income == rows[k].set.income
           shares == Line(income, "diluted_shares")
<1>1. k \in DOMAIN rows /\ Loads(rows[k])
  BY DEF Served
<1>2. shares \in Int \cup {Absent}
  BY <1>1, SetsAreFigures
<1>3. income # Absent => ValidIncome(income)
  BY <1>1 DEF Loads, Constructs
<1>4. CASE income = Absent
  BY <1>4 DEF Line
<1>5. CASE income # Absent
  <2>1. shares = income.diluted_shares
    BY <1>5 DEF Line
  <2>2. shares # Absent => shares > 0
    BY <1>3, <1>5, <2>1 DEF ValidIncome
  <2>3. QED
    BY <1>2, <2>2
<1>6. QED
  BY <1>4, <1>5

\* The flows projected from a positive base.
LEMMA FlowsAreNumbers ==
  ASSUME NEW set, FreeCashFlow(set) \in Nat \ {0}, NEW inputs \in Admitted
  PROVE  /\ Flows(set, inputs) \in Seq(Nat) /\ Flows(set, inputs) # << >>
         /\ Len(Flows(set, inputs)) = inputs.years
<1> DEFINE base == FreeCashFlow(set)
           years == inputs.years
           rate == RateUnit + inputs.forecast
           flow(i) == base * Raised(rate, i) * Raised(RateUnit, years - i)
<1>1. /\ inputs \in [rate : Int, terminal : Int, forecast : Int, years : Int]
      /\ -RateUnit < inputs.forecast /\ years \in 1 .. MaxYears
  BY InputsAssumption DEF Admitted, Requestable
<1>2. RateUnit \in Nat \ {0} /\ rate \in Nat \ {0} /\ years \in Nat \ {0}
  BY <1>1, FiguresAssumption
<1> HIDE DEF base, rate
<1>3. ASSUME NEW i \in 1..years PROVE flow(i) \in Nat
  <2> DEFINE x == Raised(rate, i)
             y == Raised(RateUnit, years - i)
  <2>1. i \in Nat /\ years - i \in Nat
    BY <1>2
  <2>2. x \in Nat /\ y \in Nat
    BY <1>2, <2>1, PowersOfPositives
  <2> HIDE DEF x, y
  <2>3. base * x \in Nat
    BY <2>2 DEF base
  <2> DEFINE z == base * x
  <2>4. z \in Nat
    BY <2>3
  <2> HIDE DEF z
  <2>5. z * y \in Nat
    BY <2>2, <2>4
  <2>6. QED
    BY <2>5 DEF z, x, y
<1>4. Flows(set, inputs) = [i \in 1..years |-> flow(i)]
  BY DEF Flows, ProjectCashFlows, base, rate
<1> HIDE DEF flow, years
<1>5. [i \in 1..years |-> flow(i)] \in [1..years -> Nat]
  BY <1>3
<1>6. Len([i \in 1..years |-> flow(i)]) = years /\ [i \in 1..years |-> flow(i)] \in Seq(Nat)
  BY <1>2, <1>5
<1>7. QED
  BY <1>2, <1>4, <1>6 DEF years

LEMMA PeersFollow == RowsInv => PeersImplyTheirMean
<1> SUFFICES ASSUME RowsInv, NEW k \in Served,
                    Absent \notin {Line(rows[k].set.income, "diluted_shares"),
                                   Line(rows[k].set.income, "net_income")},
                    Line(rows[k].set.income, "net_income") > 0
             PROVE  LET shares == Line(rows[k].set.income, "diluted_shares")
                        net == Line(rows[k].set.income, "net_income")
                        low == PriceToEarnings(k, 20)
                        high == PriceToEarnings(k, 31)
                        pair == <<[name |-> "a", basis |-> "pe", multiple |-> high],
                                  [name |-> "b", basis |-> "pe", multiple |-> low]>>
                        worth == ValueFromPeers(pair, net, "pe", shares, Absent)
                    IN  /\ 2 * worth.median \in {low + high, low + high + 1}
                        /\ 2 * Magnitude(worth.implied * FactorScale - net * worth.median)
                             <= Cent * FactorScale
  BY DEF PeersImplyTheirMean
<1> DEFINE income == rows[k].set.income
           shares == Line(income, "diluted_shares")
           net == Line(income, "net_income")
           low == PriceToEarnings(k, 20)
           high == PriceToEarnings(k, 31)
<1>1. k \in DOMAIN rows
  BY DEF Served
<1>2. shares = income.diluted_shares /\ net = income.net_income
  BY DEF Line
<1>3. shares \in Nat \ {0} /\ net \in Nat \ {0}
  BY <1>1, SetsAreFigures, ServedShares
<1>4. \A price \in {20, 31} : PriceToEarnings(k, price) \in Nat
  <2>1. SUFFICES ASSUME NEW price \in {20, 31} PROVE PriceToEarnings(k, price) \in Nat
    OBVIOUS
  <2> DEFINE n == price * shares
             d == net * Whole
  <2>2. PriceToEarnings(k, price) = MarketMultiple(n, net)
    BY <1>2 DEF PriceToEarnings, MarketCapitalisation
  <2> HIDE DEF shares, net
  <2>3. n \in Nat /\ d \in Nat \ {0} /\ n # Absent
    <3>1. Whole \in Nat \ {0} /\ price \in Nat /\ Absent \notin Int
      BY FiguresAssumption
    <3>2. n \in Nat
      BY <1>3, <3>1
    <3>3. QED
      BY <1>3, <3>1, <3>2, Products
  <2>4. MarketMultiple(n, net) = Multiple(n, d)
    BY <1>3, <2>3 DEF MarketMultiple
  <2> HIDE DEF n, d
  <2>5. QED
    BY <2>2, <2>3, <2>4, MultiplesAreNumbers
<1>5. low \in Nat /\ high \in Nat
  BY <1>4
<1> HIDE DEF low, high, net, shares
<1>6. high \in Int /\ low \in Int /\ high + low >= 0 /\ high + low = low + high
  BY <1>5
<1>7. LET pair == <<[name |-> "a", basis |-> "pe", multiple |-> high],
                    [name |-> "b", basis |-> "pe", multiple |-> low]>>
          worth == ValueFromPeers(pair, net, "pe", shares, Absent)
      IN  /\ 2 * worth.median \in {high + low, high + low + 1}
          /\ 2 * Magnitude(worth.implied * FactorScale - net * worth.median) <= Cent * FactorScale
  BY <1>3, <1>6, PeersImply
<1>8. QED
  BY <1>6, <1>7 DEF low, high, net, shares

LEMMA OwnMultiplesFollow == RowsInv => OwnMultipleIsOwnPrice
<1> SUFFICES ASSUME RowsInv, NEW k \in Served,
                    Absent \notin {Line(rows[k].set.income, "diluted_shares"),
                                   NetDebt(rows[k].set.balance),
                                   Line(rows[k].set.income, "revenue")},
                    Line(rows[k].set.income, "revenue") > 0
             PROVE  LET shares == Line(rows[k].set.income, "diluted_shares")
                        revenue == Line(rows[k].set.income, "revenue")
                        debt == NetDebt(rows[k].set.balance)
                        own == [name |-> "own", basis |-> "ps",
                                multiple |-> MarketMultiple(EnterpriseValue(20, shares, debt), revenue)]
                        worth == ValueFromPeers(<<own>>, revenue, "ps", shares, debt)
                    IN  FactorScale * shares * (Magnitude(worth.per_share - 20) - ColumnUnit)
                          <= revenue * Whole
  BY DEF OwnMultipleIsOwnPrice
<1> DEFINE S == Line(rows[k].set.income, "diluted_shares")
           B == Line(rows[k].set.income, "revenue")
           D == NetDebt(rows[k].set.balance)
           V == 20 * S + D * Whole
           M == Multiple(V, B * Whole)
           own == [name |-> "own", basis |-> "ps",
                   multiple |-> MarketMultiple(EnterpriseValue(20, S, D), B)]
           worth == ValueFromPeers(<<own>>, B, "ps", S, D)
           per == PerShare(B * M - D * FactorScale, FactorScale, S)
<1>1. k \in DOMAIN rows
  BY DEF Served
<1>2. S \in Nat \ {0} /\ B \in Nat \ {0} /\ D \in Int
  BY <1>1, SetsAreFigures, ServedShares
<1>3. Absent \notin Int /\ Whole \in Nat \ {0}
  BY FiguresAssumption
<1> HIDE DEF S, B, D
<1>4. MarketMultiple(EnterpriseValue(20, S, D), B) = M
  <2>1. EnterpriseValue(20, S, D) = V
    BY <1>2, <1>3 DEF EnterpriseValue, MarketCapitalisation
  <2>2. V \in Int
    BY <1>2, <1>3
  <2>3. QED
    BY <1>2, <1>3, <2>1, <2>2 DEF MarketMultiple
<1>5. M \in Int /\ FactorScale * S * (Magnitude(per - 20) - ColumnUnit) <= B * Whole
  BY <1>2, OwnMultiplePrices
<1> HIDE DEF M
<1>6. own = [name |-> "own", basis |-> "ps", multiple |-> M]
  BY <1>4
<1> HIDE DEF own
<1>7. Median([i \in DOMAIN <<own>> |-> (<<own>>)[i].multiple]) = M
  <2> DEFINE values == <<M>>
             rank(i) == Cardinality({j \in DOMAIN values :
                                       values[j] < values[i] \/ (values[j] = values[i] /\ j <= i)})
  <2>1. [i \in DOMAIN <<own>> |-> (<<own>>)[i].multiple] = values
    BY <1>6
  <2>2. DOMAIN values = {1} /\ Len(values) = 1 /\ values[1] = M
    OBVIOUS
  <2>3. rank(1) = 1
    <3>1. {j \in DOMAIN values : values[j] < values[1] \/ (values[j] = values[1] /\ j <= 1)} = {1}
      BY <1>5, <2>2
    <3>2. QED
      BY <3>1, FS_Singleton
  <2>4. Order(values) = [h \in DOMAIN values |-> CHOOSE i \in DOMAIN values : rank(i) = h]
    BY DEF Order
  <2> HIDE DEF rank, values
  <2>5. Order(values)[1] = 1
    BY <2>2, <2>3, <2>4
  <2>6. Median(values) = [i \in DOMAIN values |-> values[Order(values)[i]]][1]
    <3>1. Len(values) % 2 = 1 /\ Len(values) \div 2 + 1 = 1
      <4>1. 1 % 2 = 1 /\ 1 \div 2 + 1 = 1
        OBVIOUS
      <4>2. QED
        BY <2>2, <4>1
    <3>2. QED
      BY <3>1 DEF Median
  <2>7. QED
    BY <2>1, <2>2, <2>5, <2>6
<1>8. worth.per_share = per
  <2>1. ~(<<own>> = << >> \/ B <= 0 \/ \E i \in DOMAIN <<own>> : (<<own>>)[i].basis # "ps")
    BY <1>2, <1>6
  <2>2. D # Absent /\ S # Absent
    BY <1>2, <1>3
  <2>3. QED
    BY <1>7, <2>1, <2>2 DEF ValueFromPeers
<1>9. QED
  BY <1>5, <1>8 DEF own, M, S, B, D

LEMMA AdmittedInputs ==
  ASSUME NEW inputs \in Admitted
  PROVE  /\ inputs \in [rate : Int, terminal : Int, forecast : Int, years : Int]
         /\ -RateUnit < inputs.rate /\ inputs.rate < RateUnit
         /\ -RateUnit < inputs.terminal /\ inputs.terminal < RateUnit
         /\ inputs.years \in 1 .. MaxYears
BY InputsAssumption DEF Admitted, Requestable

LEMMA GridsFollow == RowsInv => GridsFall
<1> SUFFICES ASSUME RowsInv, NEW k \in Served, NEW inputs \in Admitted,
                    FreeCashFlow(rows[k].set) # Absent, FreeCashFlow(rows[k].set) > 0
             PROVE  LET set == rows[k].set
                        rates == {i.rate : i \in Admitted}
                        growths == {i.terminal : i \in Admitted}
                        grid == SensitivityGrid(Flows(set, inputs), rates, growths,
                                  NetDebt(set.balance), Line(set.income, "diluted_shares"))
                    IN  \A r \in rates, g \in growths :
                          /\ (grid[r][g] # Absent) = (r > 0 /\ r - g >= MinimumSpread)
                          /\ grid[r][g] # Absent => \A s \in rates, h \in growths :
                               (r <= s /\ h <= g) => grid[s][h] # Absent /\ grid[s][h] <= grid[r][g]
  BY DEF GridsFall
<1> DEFINE set == rows[k].set
           rates == {i.rate : i \in Admitted}
           growths == {i.terminal : i \in Admitted}
           flows == Flows(set, inputs)
           debt == NetDebt(set.balance)
           shares == Line(set.income, "diluted_shares")
           grid == SensitivityGrid(flows, rates, growths, debt, shares)
           value(r, g) == Reported(DcfValue(r, g, flows, debt, shares))
<1>1. k \in DOMAIN rows
  BY DEF Served
<1>2. debt \in Int \cup {Absent} /\ shares \in (Nat \ {0}) \cup {Absent}
  BY <1>1, SetsAreFigures, ServedShares
<1>3. flows \in Seq(Nat) /\ flows # << >> /\ Len(flows) = inputs.years
  <2>1. FreeCashFlow(set) \in Nat \ {0}
    BY <1>1, SetsAreFigures
  <2>2. QED
    BY <2>1, FlowsAreNumbers
<1>4. Len(flows) \in 1 .. MaxYears
  BY <1>3, AdmittedInputs
<1>5. /\ \A r \in rates : r \in Int
      /\ \A g \in growths : g \in Int /\ -RateUnit < g
  BY AdmittedInputs
<1>6. Absent \notin Int /\ MinimumSpread \in Int
  BY FiguresAssumption
<1> HIDE DEF rates, growths, flows, debt, shares
<1>7. ASSUME NEW r \in rates, NEW g \in growths
      PROVE  grid[r][g] = IF r > 0 /\ r - g >= MinimumSpread THEN value(r, g) ELSE Absent
  <2>1. grid[r][g] = IF AssumptionsHold(r, g, Len(flows)) THEN value(r, g) ELSE Absent
    BY DEF SensitivityGrid
  <2>2. AssumptionsHold(r, g, Len(flows)) <=> (r > 0 /\ r - g >= MinimumSpread)
    BY <1>4 DEF AssumptionsHold
  <2>3. QED
    BY <2>1, <2>2
<1>8. ASSUME NEW r \in rates, NEW g \in growths, NEW s \in rates, NEW h \in growths,
             r > 0, r - g >= MinimumSpread, r <= s, h <= g
      PROVE  /\ value(r, g) \in Int /\ value(s, h) \in Int /\ value(s, h) <= value(r, g)
             /\ s > 0 /\ s - h >= MinimumSpread
  <2>1. r \in Nat \ {0} /\ s \in Nat \ {0} /\ g \in Int /\ h \in Int /\ -RateUnit < h
        /\ s - h >= MinimumSpread
    BY <1>5, <1>6, <1>8
  <2>2. value(r, g) \in Int /\ value(s, h) \in Int /\ value(s, h) <= value(r, g)
    BY <1>2, <1>3, <1>8, <2>1, ReportedFalls
  <2>3. QED
    BY <2>1, <2>2
<1> HIDE DEF grid, value
<1>9. ASSUME NEW r \in rates, NEW g \in growths
      PROVE  (grid[r][g] # Absent) = (r > 0 /\ r - g >= MinimumSpread)
  <2>1. CASE r > 0 /\ r - g >= MinimumSpread
    <3>1. value(r, g) \in Int
      <4>1. r <= r /\ g <= g
        BY <1>5
      <4>2. QED
        BY <1>8, <2>1, <4>1
    <3>2. grid[r][g] = value(r, g)
      BY <1>7, <2>1
    <3>3. grid[r][g] # Absent
      BY <1>6, <3>1, <3>2
    <3>4. QED
      BY <2>1, <3>3
  <2>2. CASE ~(r > 0 /\ r - g >= MinimumSpread)
    <3>1. grid[r][g] = Absent
      BY <1>7, <2>2
    <3>2. QED
      BY <2>2, <3>1
  <2>3. QED
    BY <2>1, <2>2
<1>10. ASSUME NEW r \in rates, NEW g \in growths, grid[r][g] # Absent,
              NEW s \in rates, NEW h \in growths, r <= s, h <= g
       PROVE  grid[s][h] # Absent /\ grid[s][h] <= grid[r][g]
  <2>1. r > 0 /\ r - g >= MinimumSpread
    BY <1>9, <1>10
  <2>2. /\ value(r, g) \in Int /\ value(s, h) \in Int /\ value(s, h) <= value(r, g)
        /\ s > 0 /\ s - h >= MinimumSpread
    BY <1>8, <1>10, <2>1
  <2>3. grid[r][g] = value(r, g) /\ grid[s][h] = value(s, h)
    BY <1>7, <2>1, <2>2
  <2>4. QED
    BY <1>6, <2>2, <2>3
<1>11. QED
  BY <1>9, <1>10 DEF grid, rates, growths, flows, debt, shares

LEMMA CapitalFollows == RowsInv => CapitalCostsBetween
<1> SUFFICES ASSUME RowsInv, NEW k \in Served,
                    Absent \notin {Line(rows[k].set.balance, "shareholders_equity"),
                                   Line(rows[k].set.balance, "total_debt")},
                    Line(rows[k].set.balance, "shareholders_equity") >= 0,
                    Line(rows[k].set.balance, "total_debt") >= 0,
                    Line(rows[k].set.balance, "shareholders_equity")
                      + Line(rows[k].set.balance, "total_debt") > 0,
                    NEW i \in Admitted, NEW j \in Admitted, NEW l \in Admitted,
                    i.rate >= 0, j.rate >= 0
             PROVE  LET equity == Line(rows[k].set.balance, "shareholders_equity")
                        debt == Line(rows[k].set.balance, "total_debt")
                        dear == i.rate * RateUnit
                        taxed == j.rate * (RateUnit - l.terminal)
                        square == RateUnit * RateUnit
                        cost == CostOfCapital(equity, debt, i.rate, j.rate, l.terminal)
                    IN  /\ \E c \in {dear, taxed} :
                             2 * c * (RatioScale - 1) - square <= 2 * (cost * square)
                        /\ \E c \in {dear, taxed} :
                             2 * (cost * square) <= 2 * c * (RatioScale + 1) + square
  BY DEF CapitalCostsBetween
<1> DEFINE equity == Line(rows[k].set.balance, "shareholders_equity")
           debt == Line(rows[k].set.balance, "total_debt")
<1>1. k \in DOMAIN rows
  BY DEF Served
<1>2. equity \in Int \cup {Absent} /\ debt \in Int \cup {Absent}
  BY <1>1, SetsAreFigures
<1> HIDE DEF equity, debt
<1>3. equity \in Nat /\ debt \in Nat /\ equity + debt > 0
  BY <1>2 DEF equity, debt
<1>4. i.rate \in Nat /\ j.rate \in Nat /\ l.terminal \in Int /\ l.terminal < RateUnit
  BY AdmittedInputs
<1>5. QED
  BY <1>3, <1>4, CapitalCosts DEF equity, debt

LEMMA ValuesFollow == RowsInv => ValuesLieBetween
BY PeersFollow, OwnMultiplesFollow, GridsFollow, CapitalFollows DEF ValuesLieBetween

\* A valuation that is given adds up.
LEMMA AnswersAddUp ==
  ASSUME RowsInv, UNCHANGED rows, NEW k \in DOMAIN rows, NEW inputs \in AskedInputs, NEW asked,
         Requestable(inputs), ValuationOf(k, inputs, asked)
  PROVE  ValuationsAddUp'
<1> DEFINE set == rows[k].set
           base == FreeCashFlow(set)
           dearer == [inputs EXCEPT !.rate = @ + 1]
           flows == Flows(set, inputs)
           debt == NetDebt(set.balance)
           shares == Line(set.income, "diluted_shares")
           v == DcfValue(inputs.rate, inputs.terminal, flows, debt, shares)
<1>1. CASE Reply("unprocessable")
  BY <1>1 DEF Reply, ValuationsAddUp
<1>2. CASE ~Reply("unprocessable")
  <2>1. /\ answer' = ValuationResponse(k, inputs, asked) /\ base # Absent /\ ~(base <= 0)
        /\ AssumptionsHold(inputs.rate, inputs.terminal, inputs.years)
    BY <1>2 DEF ValuationOf
  <2>2. inputs \in Admitted
    BY DEF Admitted
  <2>3. /\ inputs \in [rate : Int, terminal : Int, forecast : Int, years : Int]
        /\ -RateUnit < inputs.terminal
    BY <2>2, AdmittedInputs
  <2>4. base \in Nat \ {0}
    BY <2>1, SetsAreFigures
  <2>5. flows \in Seq(Nat) /\ flows # << >>
    BY <2>2, <2>4, FlowsAreNumbers
  <2>6. debt \in Int \cup {Absent}
    BY SetsAreFigures
  <2>7. inputs.rate \in Nat \ {0} /\ inputs.terminal \in Int
        /\ inputs.rate - inputs.terminal >= MinimumSpread
    BY <2>1, <2>3 DEF AssumptionsHold
  <2>8. /\ answer'.key = k /\ answer'.inputs = inputs /\ answer'.value = v
    BY <2>1 DEF ValuationResponse, Valued
  <2>9. Valued(set, dearer) = DcfValue(inputs.rate + 1, inputs.terminal, flows, debt, shares)
    <3>1. /\ dearer.rate = inputs.rate + 1 /\ dearer.terminal = inputs.terminal
          /\ dearer.forecast = inputs.forecast /\ dearer.years = inputs.years
      BY <2>3
    <3> HIDE DEF dearer
    <3>2. Flows(set, dearer) = flows
      BY <3>1 DEF Flows
    <3>3. QED
      BY <3>1, <3>2 DEF Valued
  <2>10. shares # Absent => set.income # Absent
    BY DEF Line
  <2> HIDE DEF flows, debt, shares, dearer
  <2>11. /\ Magnitude(v.forecast + v.pv_terminal - v.enterprise) <= Cent
         /\ v.pv_terminal <= v.terminal
         /\ IF debt = Absent THEN v.equity = Absent
            ELSE 2 * Magnitude(v.equity + debt - v.enterprise) <= 2 * Cent
         /\ v.per_share # Absent => shares # Absent /\ v.equity # Absent
         /\ Valued(set, dearer).enterprise <= v.enterprise
    BY <2>3, <2>5, <2>6, <2>7, <2>9, ValuesAddUp
  <2>12. base > 0
    BY <2>4
  <2> HIDE DEF v, base
  <2>13. (/\ Magnitude(answer.value.forecast + answer.value.pv_terminal
                         - answer.value.enterprise) <= Cent
          /\ answer.value.pv_terminal <= answer.value.terminal
          /\ IF debt = Absent THEN answer.value.equity = Absent
             ELSE 2 * Magnitude(answer.value.equity + debt - answer.value.enterprise) <= 2 * Cent)'
    BY <2>8, <2>11 DEF debt
  <2>14. QED
    BY <2>7, <2>8, <2>10, <2>11, <2>12 DEF ValuationsAddUp, debt, dearer, base
<1>3. QED
  BY <1>1, <1>2

\* A valuation is answered when it is made, from a set that is on file.
LEMMA StepValuations ==
  RowsInv /\ ValuationsAddUp /\ [Next]_vars => ValuationsAddUp'
<1> SUFFICES ASSUME RowsInv, ValuationsAddUp, [Next]_vars
             PROVE  ValuationsAddUp'
  OBVIOUS
<1>1. ASSUME NEW f \in Filings, RefusePeriod(f) \/ SubmitAgain(f) \/ SubmitUnread(f) \/ Submit(f)
      PROVE  answer'.kind # "valuation"
  <2>1. CASE RefusePeriod(f)
    BY <2>1 DEF RefusePeriod, Reply
  <2>2. CASE SubmitAgain(f)
    BY <2>2 DEF SubmitAgain, IngestFilingResponse
  <2>3. CASE SubmitUnread(f)
    BY <2>3 DEF SubmitUnread, IngestFilingResponse
  <2>4. CASE Submit(f)
    <3>1. answer'.kind = "ingested"
      BY <2>4 DEF Submit, IngestFilingResponse
    <3>2. QED
      BY <3>1
  <2>5. QED
    BY <1>1, <2>1, <2>2, <2>3, <2>4
<1>2. ASSUME NEW asked \in Asked, NEW kind \in {"statements", "analysis"}, Read(kind, asked)
      PROVE  answer'.kind # "valuation"
  <2>1. CASE NotFound(kind, asked) \/ Reply("error")
    BY <2>1 DEF Reply, NotFound
  <2>2. CASE ~(NotFound(kind, asked) \/ Reply("error"))
    <3>1. PICK k \in Lookup(asked) :
            answer' = [kind |-> kind, asked |-> asked, key |-> k,
                       shown |-> IF kind = "analysis" THEN AnalysisResponse(rows[k].set)
                                 ELSE StatementSetView(rows[k].set)]
      BY <1>2, <2>2 DEF Read
    <3>2. answer'.kind = kind
      BY <3>1
    <3>3. QED
      BY <3>2
  <2>3. QED
    BY <2>1, <2>2
<1>3. ASSUME NEW inputs \in AskedInputs, RefuseInputs(inputs)
      PROVE  answer'.kind # "valuation"
  BY <1>3 DEF RefuseInputs, Reply
<1>4. ASSUME Reply("error") \/ \E asked : NotFound("valuation", asked)
      PROVE  ValuationsAddUp'
  BY <1>4 DEF Reply, NotFound, ValuationsAddUp
<1>5. ASSUME NEW inputs \in AskedInputs, ValueLatest(inputs)
      PROVE  ValuationsAddUp'
  <2>1. UNCHANGED rows /\ Requestable(inputs)
    BY <1>5 DEF ValueLatest
  <2>2. CASE \E k \in Newest(DOMAIN rows) : ValuationOf(k, inputs, Absent)
    <3>1. \E k \in DOMAIN rows : ValuationOf(k, inputs, Absent)
      BY <2>2 DEF Newest
    <3>2. QED
      BY <2>1, <3>1, AnswersAddUp
  <2>3. CASE ~\E k \in Newest(DOMAIN rows) : ValuationOf(k, inputs, Absent)
    BY <1>4, <1>5, <2>3 DEF ValueLatest
  <2>4. QED
    BY <2>2, <2>3
<1>6. ASSUME NEW inputs \in AskedInputs, NEW year \in AskedYears, ValueYear(year, inputs)
      PROVE  ValuationsAddUp'
  <2>1. UNCHANGED rows /\ Requestable(inputs)
    BY <1>6 DEF ValueYear
  <2>2. PICK history \in Histories :
          LET ofYear == {k \in history : rows[k].set.period.year = year}
          IN  IF \E k \in history : ~Loads(rows[k]) THEN Reply("error")
              ELSE IF ofYear = {} THEN NotFound("valuation", year)
              ELSE \E k \in Newest(ofYear) : ValuationOf(k, inputs, year)
    BY <1>6 DEF ValueYear
  <2>3. CASE Reply("error") \/ NotFound("valuation", year)
    BY <1>4, <2>3
  <2>4. CASE ~(Reply("error") \/ NotFound("valuation", year))
    <3>1. \E k \in Newest({k \in history : rows[k].set.period.year = year}) : ValuationOf(k, inputs, year)
      BY <2>2, <2>4
    <3>2. \E k \in DOMAIN rows : ValuationOf(k, inputs, year)
      BY <3>1 DEF Newest, Histories
    <3>3. QED
      BY <2>1, <3>2, AnswersAddUp
  <2>5. QED
    BY <2>3, <2>4
<1>7. CASE UNCHANGED vars
  BY <1>7 DEF vars, ValuationsAddUp
<1>8. answer'.kind # "valuation" => ValuationsAddUp'
  BY DEF ValuationsAddUp
<1>9. QED
  BY <1>1, <1>2, <1>3, <1>5, <1>6, <1>7, <1>8 DEF Next, GetStatements, GetAnalysis

\* For any figures, scales and inputs: the parts of a valuation are those of its
\* total to the cent, equity is what net debt leaves of it, capital that costs
\* more is not worth more; what a pair of peers implies is their mean, a company
\* at its own multiple is worth its own price, a grid falls along the discount
\* rate and rises along terminal growth, and capital costs between its parts.
THEOREM ValuationsCohere == Spec => []ValuationsAreCoherent
<1>1. Init => RowsInv /\ NothingDroppedSilently /\ ValuationsAddUp
  BY DEF Init, RowsInv, NothingDroppedSilently, ValuationsAddUp
<1>2. RowsInv /\ ValuationsAddUp => ValuationsAreCoherent
  BY ValuesFollow DEF ValuationsAreCoherent
<1>3. QED
  BY <1>1, <1>2, StepFigures, StepValuations, PTL DEF Spec
=============================================================================
