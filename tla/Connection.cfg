SPECIFICATION FairSpec
CONSTANTS
  Clients = {"c1", "c2"}
  Profiles <- MCProfiles
  MaxServices = 2
INVARIANTS TreeFollowsSessions ConnackFirst SessionContinuity WillOnce
PROPERTIES NoWillWhenBack WillSettled
CHECK_DEADLOCK FALSE
