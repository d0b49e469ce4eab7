CONSTANTS
  NumIrqs = 2
  NumPri = 2
  MaxDepth = 3
  MaxFrames = 4
  MaxIt = 1
  Guest <- LawfulGuest
SPECIFICATION Spec
INVARIANTS NestingInv PendingIrqIsStrongest
PROPERTIES LateArrivalSettles
