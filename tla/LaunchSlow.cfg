SPECIFICATION LSpec
CONSTANTS
  Word = {0, 1, 2, 3, 4}
  Depth = 3
  Prompt = FALSE
  Relaunches = 0
INVARIANTS LaunchedAsAsked
