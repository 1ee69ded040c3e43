SPECIFICATION FairSpec
CONSTANTS
  p = p
  q = q
  Null = Null
  Positions <- MCPositions
  Garbage <- AnyGarbage
  EmptyIds <- KeptIds
INVARIANTS TypeOK NoPhantomTouch TracksFirstFinger
PROPERTIES LiftReported
CHECK_DEADLOCK FALSE
