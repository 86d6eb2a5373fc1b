CONSTANT None = None
SPECIFICATION LiveSpec
PROPERTIES PointsLeave SessionLossNoticed HoldsEnd HandlersEnd ScreenCatchesUp BadgeCatchesUp
CHECK_DEADLOCK FALSE
