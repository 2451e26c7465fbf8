CONSTANTS
  N = 3
  Margin = 0
  MaxPeriod = 1
  Inf = 1000000000
  Verdict = 10
  Fates = {}
SPECIFICATION OneAnswerSpec
PROPERTY CutoffEndsRun
CHECK_DEADLOCK FALSE
