SPECIFICATION Spec
CONSTANTS
  Requests = {ca, server}
  CertificatePath <- MCCertificatePath
  KeyPath <- MCKeyPath
  AuthorityPath <- MCAuthorityPath
  Paths <- MCPaths
  Keys = {gpg, ssh, k1, k2, k3}
  Subject <- MCSubject
  None = None
  Damaged = Damaged
  Hollow = Hollow
  Damages <- MCHollowKey
  Serial = TRUE
  Interference = FALSE
  Foreign = {}
  MaxFaults = 1
  ca = ca server = server again = again client = client
  gpg = gpg ssh = ssh k1 = k1 k2 = k2 k3 = k3
PROPERTY AnswersTruthfully
