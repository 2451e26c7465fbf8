CONSTANTS
  N = 3
  Margin = 0
  MaxPeriod = 1
  Inf = 1000000000
  Verdict = 20
  Fates = {0, 1, 1000000000}
SPECIFICATION StartedSpec
INVARIANTS NoUseAfterFree SameImports
