SPECIFICATION WSpec
CONSTANTS
  N <- MCN
  Settings = {0, 1, 2, 9}
  MaxTokens = 3
  Batch = 2
  Files <- MCFiles
  Gap = 3
  Processes <- MCProcesses
INVARIANT StagedIsExecuting
INVARIANT LookaheadFilled
INVARIANT ResidencyBound
INVARIANT WeightsExact
INVARIANT StagedOnce
PROPERTY ImplementsLayerStack
