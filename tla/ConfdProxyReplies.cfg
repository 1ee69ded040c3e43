SPECIFICATION FairSpec
CONSTANTS
  MaxReq = 2
  MaxCrash = 1
PROPERTIES RepliesRead
CHECK_DEADLOCK FALSE
