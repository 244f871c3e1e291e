SPECIFICATION Spec
CONSTANTS
  ChanCap = 2
  MaxMoves = 1
  MaxErrors = 0
INVARIANT DeliveredAtMostOnce
