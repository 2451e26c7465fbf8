CONSTANTS
  N = 2
  Verdict = 10
SPECIFICATION Spec
INVARIANT PublishedModelComplete
