CONSTANTS
  v1 = v1  v2 = v2  bad = bad  none = none  del = del
  Vals <- MCVals
  Unconvertible <- bad
  NoValue <- none
  Deleted <- del
  Capacity = 3
  IndexArgs <- MCIndexArgs
  TrimArgs <- MCTrimArgs
SPECIFICATION Spec
INVARIANT TypeOK
PROPERTY ImplementsSparseCollection
