CONSTANT W = 2
SPECIFICATION FairSpec
PROPERTY CutoffEndsJob
CHECK_DEADLOCK FALSE
