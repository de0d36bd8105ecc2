SPECIFICATION GenerationSpec
CONSTANTS
  Engines = {"qwen", "qwen4_exp"}
  Token = {0, 1, 2}
  Stop = {2}
  Prompts <- MCPrompts
  MaxTokens = 5
  Target <- MCTarget
  Predict <- MCPredict
  DraftModel <- MCDraftModel
  DFlashHead <- MCDFlashHead
  K = 3
  MaxNgram = 3
  Guesses <- MCGuesses
  Sources = {"lookup", "model", "remote", "dflash"}
  Absent = 9
  Eos = 2
  NgramSize = 3
  HeadsPerNgram = 1
  VocabBase = 3
  DivisibleBy = 4
  Parts = 4
  PleIndex = 1
  Mix <- MCMix
  ConvKernel = 3
  PleKernel = 2
  Ratio = 2
  Budget = 2
  Score <- MCScore
  Routable = {0, 1, 2}
  TopK = 2
  Gate <- MCGate
INVARIANTS
  KVMatchesContext
  DraftStateFollows
  CachedDraftIsStateless
  EveryPositionAsWhole
  RowsInTable
PROPERTIES
  RefinesGreedy
