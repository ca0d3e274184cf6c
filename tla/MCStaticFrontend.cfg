SPECIFICATION StaticSpec
CONSTANTS
  Frontends = {f1}
  MaxBusy = 2
INVARIANT StaticIInv
PROPERTIES TicksOnlyWhileUp IsAFrontend Released
\* Every loop may have exited: the daemon has stopped.
CHECK_DEADLOCK FALSE
