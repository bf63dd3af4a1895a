SPECIFICATION HeapsSpec
CONSTANTS
  Buffer = 16
  Header = 2
  Requests = {0, 1, 3}
INVARIANTS SectionsOK NothingLost
PROPERTY HeapSpec
CHECK_DEADLOCK FALSE
