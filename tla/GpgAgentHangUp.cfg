SPECIFICATION FairSpec
CONSTANTS
  Calls = {sign}
  Key <- MCKey
  Hash <- MCHash
  Connections = {a, b}
  None = None
  Parts = 1
  MaxNoise = 0
  HangsUp = TRUE
  sign = sign read = read
  alpha = alpha beta = beta hash = hash
CHECK_DEADLOCK FALSE
PROPERTY Answered
