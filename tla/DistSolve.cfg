CONSTANTS
  N = 3
  Verdict = 10
SPECIFICATION Spec
INVARIANTS TypeOK StopOnlyAfterTerminated SoleAnswerComplete
