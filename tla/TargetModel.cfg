SPECIFICATION Spec
CONSTANTS
  ta = ta
  tb = tb
  None = None
  Token <- MCToken
  Layers = 2
  MaxContext = 4
  MaxBatch = 4
  MaxIterations = 3
  Models <- MCModels
INVARIANT CachesExact
PROPERTY AnswersExact
PROPERTY VerificationExact
PROPERTY JacobiConverges
PROPERTY ImplementsVerifiedLog
