SPECIFICATION Spec
CHECK_DEADLOCK FALSE
CONSTANTS
  None = None
  Calls <- MCCalls
  Formats <- MCFormats
  W = 7
  MaxBits = 60
  Digit10 = 10
  Group9 = 2
  FastDigits = 4
  FastUp = 4
  FastDown = 8
  Pow5Max = 5
  Den5Max = 2
  Den2Max = 21
  QMax = 6
  SigDigits = 5
  ShortMax = 3
  Payload = 3
  NumBits = 10
INVARIANTS Exact Refused Rounded
