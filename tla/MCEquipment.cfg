SPECIFICATION Spec
CONSTANTS
  n1 = n1
  a1 = a1
  n2 = n2
  n3 = n3
  n4 = n4
  Workers = {w1, w2}
  Names <- MCNames
  Models <- MCModels
  NoModel = NoModel
  ModelOf <- MCModelOf
  Known <- MCKnown
  Files <- MCFiles
  MaxFiles = 2
  MaxAborts = 1
  MaxAttempts = 2
INVARIANTS
  TypeOK
  OneIdPerModel
  OnlyRolledBackAreRefused
PROPERTIES
  ImplementsStoredFiles
