SPECIFICATION Spec
CONSTANTS
  n1 = n1
  a1 = a1
  n2 = n2
  n3 = n3
  n4 = n4
  Workers = {w1, w2}
  Names <- MCNames
  Models <- MCModels
  NoModel = NoModel
  ModelOf <- MCModelOf
  Known <- MCKnown
  Files <- MCPairs
  MaxFiles = 1
  MaxAborts = 0
  MaxAttempts = 2
INVARIANT
  NoFileRefused
