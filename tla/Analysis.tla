-------------------------------- MODULE Analysis --------------------------------
(***************************************************************************)
(* atlas.analysis: what is computed from a statement set.  A metric is an  *)
(* integer or Absent (unavailable).  Ratios, percentages and per-share     *)
(* earnings count 1 / RatioScale; multiples count 1 / FactorScale.         *)
(***************************************************************************)
EXTENDS Figures, FiniteSets

\* A power, as a recursive function: x ^ n is opaque to provers.
Raised(x, n) ==
  LET power[m \in 0..n] == IF m = 0 THEN 1 ELSE x * power[m - 1] IN power[n]

\* sorted(): the places of the keys in ascending order, equal ones as they came.
Order(keys) ==
  LET rank(i) == Cardinality({j \in DOMAIN keys :
                                keys[j] < keys[i] \/ (keys[j] = keys[i] /\ j <= i)})
  IN  [k \in DOMAIN keys |-> CHOOSE i \in DOMAIN keys : rank(i) = k]

Ratio(n, d) == HalfUp(n * RatioScale, d)

\* A ratio of two disclosed figures; undefined over zero, not infinite.
RatioMetric(n, d) == IF Absent \in {n, d} \/ d = 0 THEN Absent ELSE Ratio(n, d)
PercentMetric(n, d) ==
  LET r == RatioMetric(n, d) IN IF r = Absent THEN Absent ELSE 100 * r

GrossMargin(income) ==
  LET gross == Line(income, "gross_profit")
  IN  PercentMetric(IF gross # Absent THEN gross
                    ELSE Minus(Line(income, "revenue"), Line(income, "cost_of_revenue")),
                    Line(income, "revenue"))
OperatingMargin(income) ==
  PercentMetric(Line(income, "operating_income"), Line(income, "revenue"))
NetMargin(income) == PercentMetric(Line(income, "net_income"), Line(income, "revenue"))
InterestCoverage(income) ==
  LET expense == Line(income, "interest_expense")
  IN  RatioMetric(Line(income, "operating_income"),
                  IF expense = Absent THEN Absent ELSE Magnitude(expense))
DilutedEps(income) == RatioMetric(Line(income, "net_income"), Line(income, "diluted_shares"))
CurrentRatio(balance) ==
  RatioMetric(Line(balance, "current_assets"), Line(balance, "current_liabilities"))
QuickRatio(balance) ==
  LET current == Line(balance, "current_assets")
      inventory == Line(balance, "inventory")
  IN  RatioMetric(IF Absent \in {current, inventory} THEN current ELSE current - inventory,
                  Line(balance, "current_liabilities"))
DebtToEquity(balance) ==
  RatioMetric(Line(balance, "total_debt"), Line(balance, "shareholders_equity"))
ReturnOnEquity(income, balance) ==
  PercentMetric(Line(income, "net_income"), Line(balance, "shareholders_equity"))
ReturnOnAssets(income, balance) ==
  PercentMetric(Line(income, "net_income"), Line(balance, "total_assets"))

\* Every metric, available or not.
Analyze(set) ==
  [gross_margin |-> GrossMargin(set.income), operating_margin |-> OperatingMargin(set.income),
   net_margin |-> NetMargin(set.income), interest_coverage |-> InterestCoverage(set.income),
   diluted_eps |-> DilutedEps(set.income), current_ratio |-> CurrentRatio(set.balance),
   quick_ratio |-> QuickRatio(set.balance), debt_to_equity |-> DebtToEquity(set.balance),
   return_on_equity |-> ReturnOnEquity(set.income, set.balance),
   return_on_assets |-> ReturnOnAssets(set.income, set.balance)]

Available(analysis) == {m \in DOMAIN analysis : analysis[m] # Absent}

(***************************************************************************)
(* Growth                                                                  *)
(***************************************************************************)
\* Plausible mistake. Growth: the order of the two periods is not checked.
MutGrowth(current, prior, currentPeriod, priorPeriod) ==
  IF IsComparableTo(currentPeriod, priorPeriod) /\ prior > 0
    THEN 100 * Ratio(current - prior, prior) ELSE Absent

\* Percentage change between comparable periods over a positive base.
Growth(current, prior, currentPeriod, priorPeriod) ==
  IF /\ IsComparableTo(currentPeriod, priorPeriod)
     /\ currentPeriod.end > priorPeriod.end
     /\ prior > 0
    THEN 100 * Ratio(current - prior, prior)
    ELSE Absent

\* Revenue or net income growth between two sets.
IncomeGrowth(item, current, prior) ==
  IF Absent \in {current.income, prior.income} THEN Absent
  ELSE Growth(current.income[item], prior.income[item], current.period, prior.period)

\* (last / first) ^ (1 / years) - 1, to the precision of a ratio, in percent.
CompoundGrowth(first, last, years) ==
  IF years <= 0 \/ first <= 0 \/ last <= 0 THEN Absent
  ELSE LET target == Ratio(last, first) * Raised(2, years) * Raised(RatioScale, years - 1)
           twice(c) == 2 * (RatioScale + c)
       IN  100 * CHOOSE c \in -RatioScale .. Ratio(last, first) :
             /\ c > -RatioScale => Raised(twice(c) - 1, years) <= target
             /\ target < Raised(twice(c) + 1, years)

\* Consecutive growth over a series of [period, amount], oldest first.
Trend(series) ==
  LET order == Order([i \in DOMAIN series |-> series[i].period.end])
      ordered == [i \in DOMAIN series |-> series[order[i]]]
  IN  [i \in 1 .. Len(series) - 1 |->
         Growth(ordered[i + 1].amount, ordered[i].amount,
                ordered[i + 1].period, ordered[i].period)]

\* Operating cash flow less the magnitude of capital expenditures.
FreeCashFlow(set) ==
  LET spent == Line(set.cash_flow, "capital_expenditures")
  IN  Minus(Line(set.cash_flow, "operating_cash_flow"),
            IF spent = Absent THEN Absent ELSE Magnitude(spent))

(***************************************************************************)
(* Discounted cash flow                                                    *)
(***************************************************************************)
\* DCFAssumptions: the spread bounds the terminal value.
AssumptionsHold(rate, growth, years) ==
  rate > 0 /\ years \in 1 .. MaxYears /\ rate - growth >= MinimumSpread

\* Plausible mistake. DiscountFactor: the flow is compounded, not discounted.
MutDiscountFactor(rate, year) ==
  HalfUp(FactorScale * Raised(RateUnit + rate, year), Raised(RateUnit, year))

DiscountFactor(rate, year) ==
  HalfUp(FactorScale * Raised(RateUnit, year), Raised(RateUnit + rate, year))

\* A base grown at a constant rate; a flow of n years counts RateUnit to
\* the power of -n grains.
ProjectCashFlows(base, growth, years) ==
  [i \in 1 .. years |-> base * Raised(RateUnit + growth, i) * Raised(RateUnit, years - i)]

\* The discounted flows, added up year by year, in 1 / FactorScale of a flow.
PresentValue(rate, flows) ==
  LET total[i \in 0 .. Len(flows)] ==
        IF i = 0 THEN 0 ELSE total[i - 1] + flows[i] * DiscountFactor(rate, i)
  IN  total[Len(flows)]

\* An amount of 1 / unit grains, to cents.
Cents(x, unit) == HalfUp(x, unit * Cent) * Cent

\* Per share: first to the precision of a ratio, then to four places.
PerShare(x, unit, shares) ==
  HalfUp(HalfUp(x * RatioScale, unit * shares) * Whole, RatioScale * ColumnUnit) * ColumnUnit

\* DCFModel.value: present values of the flows and of the Gordon terminal
\* value, the equity they leave after net debt, and its value per share.
DcfValue(rate, growth, flows, netDebt, shares) ==
  LET years == Len(flows)
      unit  == Raised(RateUnit, years) * FactorScale * FactorScale
      pv    == PresentValue(rate, flows)
      terminal == flows[years] * HalfUp(FactorScale * (RateUnit + growth), rate - growth)
      pvTerminal == terminal * DiscountFactor(rate, years)
      enterprise == pv * FactorScale + pvTerminal
      equity == IF netDebt = Absent THEN Absent ELSE enterprise - netDebt * unit
  IN  [enterprise |-> Cents(enterprise, unit),
       forecast |-> Cents(pv * FactorScale, unit),
       terminal |-> Cents(terminal * FactorScale, unit),
       pv_terminal |-> Cents(pvTerminal, unit),
       equity |-> IF equity = Absent THEN Absent ELSE Cents(equity, unit),
       per_share |-> IF Absent \in {equity, shares} THEN Absent ELSE PerShare(equity, unit, shares),
       terminal_share |-> IF enterprise = 0 THEN 0 ELSE Ratio(pvTerminal, enterprise)]

IsTerminalDominated(valuation) == 4 * valuation.terminal_share > 3 * RatioScale

\* The figure a reader takes away: per share, else equity, else enterprise.
Reported(valuation) ==
  CASE valuation.per_share # Absent -> valuation.per_share
    [] valuation.per_share = Absent /\ valuation.equity # Absent -> valuation.equity
    [] OTHER -> valuation.enterprise

SensitivityGrid(flows, rates, growths, netDebt, shares) ==
  [r \in rates |-> [g \in growths |->
     IF AssumptionsHold(r, g, Len(flows))
       THEN Reported(DcfValue(r, g, flows, netDebt, shares)) ELSE Absent]]

\* Weighted cost of capital as 1 / RatioScale, with the tax shield on debt.
CostOfCapital(equity, debt, costOfEquity, costOfDebt, taxRate) ==
  IF equity + debt = 0 THEN Absent
  ELSE HalfUp(Ratio(equity, equity + debt) * costOfEquity * RateUnit
                + Ratio(debt, equity + debt) * costOfDebt * (RateUnit - taxRate),
              RateUnit * RateUnit)

(***************************************************************************)
(* Comparables: multiples of market value, and value from peers            *)
(***************************************************************************)
Multiple(n, d) == HalfUp(Ratio(n, d) * FactorScale, RatioScale)
MarketCapitalisation(price, shares) == price * shares
EnterpriseValue(price, shares, netDebt) ==
  IF netDebt = Absent THEN Absent ELSE MarketCapitalisation(price, shares) + netDebt * Whole

\* Market or enterprise value over a positive base: P/E, EV/EBITDA, P/S.
MarketMultiple(value, base) ==
  IF value = Absent \/ base <= 0 THEN Absent ELSE Multiple(value, base * Whole)

Median(values) ==
  LET order   == Order(values)
      ordered == [i \in DOMAIN values |-> values[order[i]]]
      middle  == Len(values) \div 2
  IN  IF Len(values) % 2 = 1 THEN ordered[middle + 1]
      ELSE HalfUp(ordered[middle] + ordered[middle + 1], 2)

\* value_from_peers: Absent where it raises, else the median multiple applied
\* to the company's own figure.  The multiples are kept by name.
ValueFromPeers(peers, figure, basis, shares, netDebt) ==
  IF peers = <<>> \/ figure <= 0 \/ \E i \in DOMAIN peers : peers[i].basis # basis THEN Absent
  ELSE LET median  == Median([i \in DOMAIN peers |-> peers[i].multiple])
           implied == figure * median
           equity  == IF netDebt = Absent THEN implied ELSE implied - netDebt * FactorScale
       IN  [median |-> median, peer_count |-> Len(peers), names |-> {p.name : p \in ToSet(peers)},
            implied |-> Cents(implied, FactorScale),
            per_share |-> IF shares = Absent THEN Absent
                          ELSE PerShare(equity, FactorScale, shares)]
=============================================================================
