SPECIFICATION Spec
CONSTANTS
  h1 = h1
  h2 = h2
  Hosts = {h1, h2}
  Unspecified = unspecified
  BadHosts = {}
  Ports = {1, 2, 3}
  Protocols <- OnlyTCP
  BadProtocols = {}
  TTLs = {0, 1}
  Names = {g1, g2}
  Candidates <- SomeMappings
  MaxBatch = 2
  Nobody = nobody
SYMMETRY Swap
INVARIANTS IInv OneTranslation
