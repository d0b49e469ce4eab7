CONSTANTS
  NumIrqs = 1
  NumPri = 2
  MaxDepth = 3
  MaxFrames = 3
  MaxIt = 1
  Guest <- JitGuest
SPECIFICATION Spec
PROPERTIES SvcDelivered
