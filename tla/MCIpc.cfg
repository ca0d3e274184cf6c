SPECIFICATION Spec
CONSTANTS
  Role <- ClientServer
  Tags = {t1, t2}
  None = none
  MaxId = 2
  Cap = 1
  PipeCap = 1
  Window = 2
  Notes <- FirstOnly
INVARIANT IInv
PROPERTIES AnswersMatch RequestsEnd ServeEnds
\* Once both sides are closed nothing is left to do.
CHECK_DEADLOCK FALSE
