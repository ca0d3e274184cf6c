SPECIFICATION Spec
CONSTANTS
  Role <- ClientServer
  Tags = {t1}
  None = none
  MaxId = 3
  Cap = 1
  PipeCap = 1
  Window = 3
  Notes <- Silent
PROPERTY ServeEnds
CHECK_DEADLOCK FALSE
