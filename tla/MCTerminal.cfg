CONSTANTS
  Callers = {"c1", "c2"}
  TextOf <- MCApart
  MaxLine = 2
  MaxTries = 1
  MaxAnnounced = 1
  Results <- MCResults
SPECIFICATION FairSpec
CHECK_DEADLOCK FALSE
INVARIANTS
  TypeOK
  OutcomesAreTrue
  ActivityIsTrue
  
PROPERTIES
  NothingSpliced
  NeverRunTwice
  EveryCallSettles
