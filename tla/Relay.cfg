CONSTANTS
  N = 4
  T = 2
  c1 = c1
  c2 = c2
  Clause = {c1, c2}
  Learners <- MixedLearners
  Methods = {0, 1}
  Order <- GlibcOrder
SPECIFICATION FairSpec
INVARIANTS TypeOK SeenByAllThreads RingCarries NoEcho QuietMeansShared
PROPERTY RingDelivers
