SPECIFICATION Spec
CONSTANT Targets = {t1}
INVARIANTS MailboxHasRoom IInv SettledIsHonest
PROPERTIES ClosedIsFinal ShutdownCompletes KeepsPromise
\* Every loop may have exited: the daemon has stopped.
CHECK_DEADLOCK FALSE
