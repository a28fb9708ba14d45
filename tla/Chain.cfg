SPECIFICATION FairSpec
CONSTANTS
  Authorities = {authority}
  Issuances = {issue}
  Verifications = {verify}
  Grips = {old, new}
  Names = {"cluster", "renamed"}
  FirstGrip = old
  FirstName = "cluster"
  HostKey = ssh
  HostName = "host"
  None = None
  Second = 2
  AuthorityLife = 20
  LeafLife = 2
  MaxClock = 3
  MaxFaults = 2
  authority = authority issue = issue verify = verify
  old = old new = new ssh = ssh
INVARIANTS IInv Chains
PROPERTIES NoFalseAlarm Rechains
