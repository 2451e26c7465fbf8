CONSTANTS
  N = 3
  DCE = FALSE
  Verdict = 10
SPECIFICATION FairSpec
INVARIANTS TypeOK StopOnlyAfterTerminated NoAnswerLost
PROPERTIES ImplementsPortfolio CutoffEndsRun
