SPECIFICATION Spec
CONSTANTS
  Firsts <- MCFirsts
  Seconds <- MCSeconds
  Points <- MCPoints
  KeyLength = 2
  SignatureHead <- MCSignatureHead
  KeyHead <- MCKeyHead
  Ending <- MCEnding
  Limits = {1, 4, 7}
CHECK_DEADLOCK FALSE
INVARIANTS IInv AnswerRead
