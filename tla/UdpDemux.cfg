SPECIFICATION FairSpec
CONSTANTS
  Cap = 2
  Arrivals = 4
  Length = {31, 32, 64, 92, 148}
  Reopens = 3
INVARIANTS TypeOK NothingStrays RoutineWatchesBind
PROPERTIES ImplementsLossyQueues NothingHangs
CHECK_DEADLOCK FALSE
