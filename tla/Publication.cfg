SPECIFICATION FairSpec
CONSTANTS
  Requests = {first, second}
  Planes <- MCPlanes
  None = None
  MaxVersion = 1
  MaxFaults = 1
  first = first second = second
INVARIANTS IInv PicksUp WholeUnlessMixed
PROPERTY Converges
