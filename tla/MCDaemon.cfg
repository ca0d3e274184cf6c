SPECIFICATION Spec
CONSTANTS
  h1 = h1
  h2 = h2
  local = local
  broken = broken
  Hosts = {h1, h2}
  Unspecified = unspecified
  BadHosts = {local, broken}
  Zoned = {local}
  Ports = {1, 2, 3}
  Protocols <- BothProtocols
  BadProtocols = {}
  TTLs = {0, 1}
  Empty = empty
  Configs <- Documents
  Plugins <- SomePlugins
INVARIANTS IInv AllServed RoutedAsConfigured
PROPERTY Ends
\* The daemon ends.
CHECK_DEADLOCK FALSE
