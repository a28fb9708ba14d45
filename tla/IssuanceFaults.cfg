SPECIFICATION Spec
CONSTANTS
  Requests = {ca, server, again}
  CertificatePath <- MCCertificatePath
  KeyPath <- MCKeyPath
  AuthorityPath <- MCAuthorityPath
  Paths <- MCPaths
  Keys = {gpg, ssh, k1, k2, k3}
  Subject <- MCSubject
  None = None
  Damaged = Damaged
  Hollow = Hollow
  Damages <- MCAny
  Serial = TRUE
  Interference = TRUE
  Foreign = {"ca.pem"}
  MaxFaults = 3
  ca = ca server = server again = again client = client
  gpg = gpg ssh = ssh k1 = k1 k2 = k2 k3 = k3
SYMMETRY Symmetric
INVARIANTS IInv PairMatches
PROPERTIES OverwritesOnlySupplied KeepsIdentity
