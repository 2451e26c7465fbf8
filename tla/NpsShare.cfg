CONSTANTS
  N = 3
  c1 = c1
  c2 = c2
  c3 = c3
  Clause = {c1, c2, c3}
  Size <- MCSize
  Lbd <- MCLbd
  ShareLits = {2, 4}
  Capacity = 1
  MaxLimit = 4
SYMMETRY Alike
SPECIFICATION Spec
INVARIANTS TypeOK RefsMatchHolders OfferedOnce SelectionFits
