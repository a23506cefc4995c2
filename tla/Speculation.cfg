SPECIFICATION Spec
CONSTANTS
  a = a
  b = b
  e = e
  Token <- MCToken
  Eos = e
  PromptLen = 2
  MaxNew = 6
  MaxContext = 8
  Runs = 2
  Widths = {2, 3, 5}
  Depths = {2, 3}
  Paths <- MCPaths
  Configs <- Schedules
  SidecarTreeWidth = 4
INVARIANT GreedyPrefix
INVARIANT TargetExact
INVARIANT DraftersAligned
INVARIANT NoInternalError
PROPERTY ImplementsGreedy
