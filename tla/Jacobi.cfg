SPECIFICATION Spec
CONSTANTS
  a = a
  b = b
  e = e
  Token <- MCToken
  Eos = e
  PromptLen = 2
  MaxNew = 6
  MaxContext = 8
  Runs = 2
  Widths = {2, 3, 5}
  Depths = {2, 3}
  Paths <- MCPaths
  Configs <- Jacobi
  SidecarTreeWidth = 4
INVARIANT JacobiControlRuns
