SPECIFICATION FairSpec
CONSTANTS
  Asks = {"ensure", "read", "issue", "verify", "report"}
  To <- MCTo
  Signs = {"issue"}
  Before <- MCBefore
  Capacity = 1
CHECK_DEADLOCK FALSE
INVARIANTS TypeOK IInv TraceOrdered
PROPERTY Answered
