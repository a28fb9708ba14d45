SPECIFICATION RuntimeSpec
CONSTANTS
  Calls = {sign, read}
  Key <- MCKey
  Hash <- MCHash
  Connections = {a, b}
  None = None
  Parts = 2
  MaxNoise = 2
  HangsUp = TRUE
  sign = sign read = read
  alpha = alpha beta = beta hash = hash
CHECK_DEADLOCK FALSE
INVARIANTS TypeOK IInv LockStep AnswersAsked FailsForCause
PROPERTIES Responsive AnsweredUnlessClosed
