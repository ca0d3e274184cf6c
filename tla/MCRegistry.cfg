SPECIFICATION Spec
CONSTANTS
  TargetNames = {n1, n2}
  FrontendNames = {m1}
  TargetKinds = {k1}
  FrontendKinds = {k2}
  EndpointNames = {e1}
  Targets = {t1, t2}
  Frontends = {f1}
  None = none
INVARIANTS IInv NobodyOutlives
PROPERTIES ShutdownEnds NamesComeBack
\* The daemon ends.
CHECK_DEADLOCK FALSE
