CONSTANTS
  N = 2
  Margin = 1
  MaxPeriod = 3
  Inf = 1000000000
  Verdict = 10
SPECIFICATION FairSpec
INVARIANTS TypeOK StopOnlyAfterTerminated NoLostWakeup FindHits PopsInOrder SameImports EarliestPeriodWins
PROPERTIES ImplementsPortfolio JoinsAll
