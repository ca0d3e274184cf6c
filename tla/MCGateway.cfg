SPECIFICATION Spec
CONSTANTS
  t1 = t1
  Targets = {t1}
  Frontends = {f1}
  MaxTimeout = 1
  TargetOf <- OneTarget
INVARIANT IInv
PROPERTIES DrainedOnlyWhenQuiet IdleTargetsDrain DemandIsServed ShutdownCompletes
\* Every loop may have exited: the daemon has stopped.
CHECK_DEADLOCK FALSE
