-------------------------------- MODULE Figures --------------------------------
(***************************************************************************)
(* The figures of Atlas: atlas.domain (periods, statements and the         *)
(* identities they must satisfy) and atlas.analysis (ratios, growth, DCF,  *)
(* comparables), as operators on integers.                                 *)
(*                                                                         *)
(* A Decimal is an integer count of grains; Whole grains make one unit of  *)
(* currency or one share.  The exponents of the code (six places for       *)
(* ratios, four for discount factors, two for cents, four for the NUMERIC  *)
(* columns) are constants, so that small ones can be checked.  Quantizing  *)
(* is ROUND_HALF_UP throughout.  All amounts of a statement set share its  *)
(* currency, because the extractor gives it to each of them.  A figure     *)
(* that was not disclosed is Absent, never zero.                           *)
(***************************************************************************)
EXTENDS Integers, Sequences, TLC, SequencesExt

CONSTANTS
  Absent,          \* None: a figure, a statement or a metric there is not
  Whole,           \* grains in a unit of currency, and in a share
  Cent,            \* grains in a cent
  ColumnUnit,      \* grains in the last place of a NUMERIC(28, 4) column
  RatioScale,      \* 1 / _INTERNAL_EXPONENT, the precision of a ratio
  FactorScale,     \* 1 / _PRECISION, the precision of a discount factor
  RateUnit,        \* 1.0 as a rate
  MinimumSpread,   \* of the discount rate over terminal growth
  MaxYears         \* the longest projection horizon

ASSUME FiguresAssumption ==
  /\ Absent \notin Int
  /\ \A c \in {Whole, Cent, ColumnUnit, RatioScale, FactorScale, RateUnit, MinimumSpread,
               MaxYears} : c \in Nat \ {0}

\* A ratio is kept more finely than a factor, and than a column keeps a share.
ASSUME ScalesAssumption ==
  FactorScale <= RatioScale /\ Whole <= RatioScale * ColumnUnit

Magnitude(x) == IF x < 0 THEN -x ELSE x

\* n / d rounded half away from zero.
HalfUp(n, d) ==
  LET q == (2 * Magnitude(n) + Magnitude(d)) \div (2 * Magnitude(d))
  IN  IF (n < 0) = (d < 0) THEN q ELSE -q

ToMultipleOf(unit, x) == HalfUp(x, unit) * unit
Minus(a, b) == IF Absent \in {a, b} THEN Absent ELSE a - b
Line(statement, item) == IF statement = Absent THEN Absent ELSE statement[item]

(***************************************************************************)
(* Fiscal periods: [kind, year, quarter, start, end]                       *)
(***************************************************************************)
Kinds == {"annual", "quarterly", "year_to_date", "instant"}
IsFlow(kind) == kind # "instant"

ValidPeriod(p) ==
  /\ p.kind = "quarterly" => p.quarter # Absent
  /\ p.kind \in {"annual", "instant"} => p.quarter = Absent
  /\ p.start # Absent => IF p.kind = "instant" THEN p.start = p.end ELSE p.start < p.end

\* The identity of a period in the store; an absent quarter is a zero.
PeriodKey(kind, year, quarter) == <<kind, year, IF quarter = Absent THEN 0 ELSE quarter>>
KeyOf(p) == PeriodKey(p.kind, p.year, p.quarter)
Instant(year, asOf) ==
  [kind |-> "instant", year |-> year, quarter |-> Absent, start |-> Absent, end |-> asOf]

IsComparableTo(p, q) == p.kind = q.kind /\ (p.kind = "quarterly" => p.quarter = q.quarter)

(***************************************************************************)
(* Statements and the identities they are constructed under                *)
(***************************************************************************)
\* Equal up to IDENTITY_TOLERANCE: 2% of the reference, or 0.02 when it is zero.
WithinTolerance(left, right, relativeTo) ==
  \/ left = right
  \/ 50 * Magnitude(left - right) <=
       IF relativeTo = 0 THEN Whole ELSE Magnitude(relativeTo)

ValidIncome(s) ==
  /\ IsFlow(s.period.kind)
  /\ Absent \notin {s.gross_profit, s.cost_of_revenue} =>
       WithinTolerance(s.revenue - s.cost_of_revenue, s.gross_profit, s.revenue)
  /\ Absent \notin {s.pretax_income, s.income_tax_expense} =>
       WithinTolerance(s.pretax_income - s.income_tax_expense, s.net_income, s.pretax_income)
  /\ s.diluted_shares # Absent => s.diluted_shares > 0

ValidBalance(s) ==
  /\ s.period.kind = "instant"
  /\ WithinTolerance(s.total_liabilities + s.shareholders_equity, s.total_assets, s.total_assets)
  /\ s.current_assets # Absent => s.current_assets <= s.total_assets
  /\ s.current_liabilities # Absent => s.current_liabilities <= s.total_liabilities

ValidCashFlow(s) ==
  /\ IsFlow(s.period.kind)
  /\ Absent \notin {s.net_change_in_cash, s.investing_cash_flow, s.financing_cash_flow} =>
       WithinTolerance(s.operating_cash_flow + s.investing_cash_flow + s.financing_cash_flow,
                       s.net_change_in_cash, s.net_change_in_cash)

NetDebt(balance) == Minus(Line(balance, "total_debt"), Line(balance, "cash_and_equivalents"))

Parts(set) == {set.income, set.balance, set.cash_flow} \ {Absent}

\* A set has a statement, and each ends when the set's period does.
ValidSet(set) ==
  Parts(set) # {} /\ \A s \in Parts(set) : ValidPeriod(s.period) /\ s.period.end = set.period.end

\* Everything the constructors of a set and of its statements check.
Constructs(set) ==
  /\ ValidPeriod(set.period)
  /\ set.income # Absent => ValidIncome(set.income)
  /\ set.balance # Absent => ValidBalance(set.balance)
  /\ set.cash_flow # Absent => ValidCashFlow(set.cash_flow)
  /\ ValidSet(set)

SourceIds(set) == UNION {s.sources : s \in Parts(set)}
=============================================================================
