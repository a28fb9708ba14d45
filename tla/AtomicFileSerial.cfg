SPECIFICATION Spec
CONSTANTS
  Writers = {w1}
  Paths <- MCPaths
  Tmp <- MCTmp
  PathMode <- MCPathMode
  FreshMode = "0644"
  Contents = {new, old}
  Chunks = 2
  Inodes = {i1, i2, i3}
  Serial = TRUE
  None = None
  w1 = w1 w2 = w2 i1 = i1 i2 = i2 i3 = i3 i4 = i4 new = new old = old
SYMMETRY Symmetric
VIEW Visible
INVARIANTS TypeOK TargetWhole TargetMode
PROPERTIES PublishedStable ImplementsStore
