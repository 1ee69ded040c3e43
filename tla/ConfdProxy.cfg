SPECIFICATION FairSpec
CONSTANTS
  MaxReq = 4
  MaxCrash = 2
INVARIANTS TypeOK RequestsInOrder RepliesInOrder FlagMeansClosed
PROPERTIES ServedUntilFirstCrash
CHECK_DEADLOCK FALSE
