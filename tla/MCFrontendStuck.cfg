SPECIFICATION Spec
CONSTANT Frontends = {f1}
INVARIANT StoppingMeansStopInProgress
CHECK_DEADLOCK FALSE
