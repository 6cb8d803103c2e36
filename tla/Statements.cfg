SPECIFICATION Spec
CONSTANTS
  Absent = Absent
  Garbled = Garbled
  annual = annual
  restated = restated
  fourth = fourth
  second = second
  next = next
  letter = letter
  undated = undated
  Whole = 18
  Cent = 6
  ColumnUnit = 3
  RatioScale = 100
  FactorScale = 10
  RateUnit = 10
  MinimumSpread = 2
  MaxYears = 2
  Filings = {annual, restated, fourth, second, next, letter, undated}
  Text <- MCText
  AskedInputs <- MCInputs
  AskedYears = {1, 2}
  HistoryLimit = 2
INVARIANT TypeOK
INVARIANT FiguresAsFiled
INVARIANT AnswersFitTheQuestion
INVARIANT RatiosFollowFigures
INVARIANT ValuationsAreCoherent
