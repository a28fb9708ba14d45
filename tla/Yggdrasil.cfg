SPECIFICATION FairSpec
CONSTANTS
  Calls = {setup, again, read}
  Setups = {setup, again}
  Path <- MCPath
  Paths = {"keypair.json"}
  Keys = {k1, k2, k3, k4}
  None = None
  Damaged = Damaged
  Serial = TRUE
  MaxFaults = 2
  setup = setup again = again read = read
  k1 = k1 k2 = k2 k3 = k3 k4 = k4
INVARIANTS IInv ProjectionWhole
PROPERTIES RerunPreserves Recovers
