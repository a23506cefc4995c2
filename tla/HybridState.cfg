SPECIFICATION DriverSpec
CONSTANTS
  a = a
  b = b
  Kinds <- MCKinds
  LayerSets <- MCLayerSets
  Prompts <- MCPrompts
  Token = {a, b}
  Eos = b
  DraftVocabulary = {a}
  Kernel = 3
  KvHeads = 2
  Capacity = 4
  Batch = 3
  MaxFed = 3
  Width = 3
  Rounds = 3
  NewTokens = 3
  PrefixLayers = 2
INVARIANT StatesExact
INVARIANT AnswersExact
INVARIANT AcceptedGreedy
INVARIANT JacobiSettles
INVARIANT RunsAgree
