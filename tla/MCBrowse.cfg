SPECIFICATION FairSpec
CONSTANTS
  Id = {1, 2, 3}
  scoreOf <- Scores
  MaxChanges = 2
  pageSize = 1
  Screen <- Room
  MaxFailures = 1
  MaxVisits = 2
INVARIANTS TypeOK NoneTwice NoneSkipped PagesOfApiAgree
PROPERTY ScrollsToTheEnd
CHECK_DEADLOCK FALSE
