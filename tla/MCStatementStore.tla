---------------------------- MODULE MCStatementStore ----------------------------
(***************************************************************************)
(* StatementStore for TLC.  There are eighteen grains in a unit, six in a  *)
(* cent and three in the last place of a column.  Dates count quarters.    *)
(***************************************************************************)
EXTENDS StatementStore

Period(kind, year, quarter, start, end) ==
  [kind |-> kind, year |-> year, quarter |-> quarter, start |-> start, end |-> end]
Income(revenue, cost, gross, operating, net, shares) ==
  [revenue |-> revenue, cost_of_revenue |-> cost, gross_profit |-> gross,
   operating_expenses |-> Absent, operating_income |-> operating,
   interest_expense |-> Absent, pretax_income |-> Absent,
   income_tax_expense |-> Absent, net_income |-> net, diluted_shares |-> shares]
Balance(assets, current, cash, inventory, liabilities, due, debt, equity) ==
  [total_assets |-> assets, current_assets |-> current, cash_and_equivalents |-> cash,
   inventory |-> inventory, total_liabilities |-> liabilities, current_liabilities |-> due,
   total_debt |-> debt, shareholders_equity |-> equity]
CashFlow(operating, spent) ==
  [operating_cash_flow |-> operating, capital_expenditures |-> spent,
   investing_cash_flow |-> Absent, financing_cash_flow |-> Absent,
   net_change_in_cash |-> Absent]
Filing(period, full, scale, income, balance, cashFlow) ==
  [period |-> period, full |-> full, scale |-> scale,
   printed |-> [income |-> income, balance |-> balance, cash_flow |-> cashFlow]]

CONSTANTS annual, restated, fourth, second, next, letter, undated

MCText ==
  annual :> Filing(Period("annual", 1, Absent, 0, 4), TRUE, 10,
              Income(30, 18, 12, 7, 4, 13), Balance(50, 20, 3, 6, 30, 9, 8, 20),
              CashFlow(5, -2))
  @@ restated :> Filing(Period("annual", 1, Absent, 0, 4), TRUE, 1,
              Income(269, 150, 119, Garbled, -35, 1),
              Balance(500, 200, 30, Garbled, 300, 0, Absent, 200), CashFlow(Garbled, 21))
  @@ fourth :> Filing(Period("quarterly", 1, 4, 3, 4), TRUE, 1,
              Income(81, Absent, Absent, 20, 11, 13), Absent, CashFlow(13, 4))
  @@ second :> Filing(Period("quarterly", 2, 2, 5, 6), TRUE, 1,
              Income(90, 60, 60, 20, 11, Absent),
              Balance(503, 199, 31, 61, 301, 90, 21, 203), CashFlow(20, Absent))
  @@ next :> Filing(Period("annual", 2, Absent, 4, 8), TRUE, 1,
              Income(283, 166, 117, 5, -7, -20), Balance(500, 200, 0, 0, 300, 90, 80, 100),
              CashFlow(4, 9))
  @@ letter :> Filing(Period("instant", 2, Absent, Absent, 7), TRUE, 1, Absent, Absent, Absent)
  @@ undated :> Filing(Period("quarterly", 2, Absent, 5, 6), TRUE, 1,
              Income(90, Absent, Absent, 20, 11, Absent), Absent, Absent)

Inputs(rate, terminal, forecast, years) ==
  [rate |-> rate, terminal |-> terminal, forecast |-> forecast, years |-> years]
MCInputs == {Inputs(2, 0, 0, 1), Inputs(2, 0, 0, 2), Inputs(2, 0, 1, 2), Inputs(3, 1, 1, 2),
             Inputs(2, 1, 0, 1), Inputs(2, 0, 0, 3)}
=============================================================================
