SPECIFICATION FairSpec
CONSTANTS
  Requests = {ca, server, client}
  CertificatePath <- MCCertificatePath
  KeyPath <- MCKeyPath
  AuthorityPath <- MCAuthorityPath
  Paths <- MCPaths
  Keys = {gpg, ssh, k1, k2, k3}
  Subject <- MCSubject
  None = None
  Damaged = Damaged
  Hollow = Hollow
  Damages <- MCRefused
  Serial = TRUE
  Interference = FALSE
  Foreign = {}
  MaxFaults = 2
  ca = ca server = server again = again client = client
  gpg = gpg ssh = ssh k1 = k1 k2 = k2 k3 = k3
INVARIANT AsFound
PROPERTIES AnswersTruthfully Recovers
