CONSTANTS
  m1 = m1
  m2 = m2
  Measurement <- MCMeasurement
  Input <- MCInput
  CriticalSquare = 3841

SPECIFICATION CompareSpec
INVARIANTS PairsCounted ExactVariance EachOnce
CHECK_DEADLOCK FALSE
