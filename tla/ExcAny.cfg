CONSTANTS
  NumIrqs = 1
  NumPri = 2
  MaxDepth = 3
  MaxFrames = 2
  MaxIt = 1
  Guest <- AnyGuest
SPECIFICATION Spec
INVARIANTS NestingMatchesFrames
PROPERTIES EntryTakesOnePending
