SPECIFICATION Spec
CONSTANT Frontends = {f1}
INVARIANTS MailboxHasRoom IInv SettledIsHonest
PROPERTIES ClosedIsFinal RequestsSettle ShutdownCompletes KeepsPromise
\* Every loop may have exited: the daemon has stopped.
CHECK_DEADLOCK FALSE
