SPECIFICATION DenseRunSpec
CONSTANTS
  Rows = 5
  BlockRows = 2
  Weights <- MCWeights
  Inputs <- MCInputs
  KernelError = 1
  BoundError = 0
  Margin = 1
  NegInf = NegInf
  Inf = Inf
  Depth = 2
  Chunks = {0, 2, 7}
  Retains = {0, 1, 3}
  Widths = {1, 3}
  Page = 4
  Sizes = {0, 1, 3}
  Budgets = {0, 10, 20, 25, 30}
  Largest = 30
INVARIANTS HeadExact ReadsOnce SourcesHonoured PlanCovers
