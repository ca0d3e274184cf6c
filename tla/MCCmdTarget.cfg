SPECIFICATION CmdSpec
CONSTANT Targets = {t1}
INVARIANT CmdIInv
PROPERTY IsATarget
\* Every loop may have exited: the daemon has stopped.
CHECK_DEADLOCK FALSE
