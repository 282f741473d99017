SPECIFICATION Spec
CONSTANTS
  MAX_REQUESTS = 2
  MAX_HIDES = 1
  Ids = {0, 1}
  Contents = {"on", "off"}
  Blank = "on"
INVARIANTS
  TableIsTrue
  FormIsTrue
PROPERTIES
  CreatedOnce
