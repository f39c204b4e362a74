\* One terminal tab, two sessions, the surface hidden and rebuilt.
SPECIFICATION FairSpec
CONSTANTS
  MaxSessions = 2
  MaxOutput = 2
  MaxActivity = 4
  MaxReloads = 1
INVARIANTS
  TypeOK
  OneSessionPerTerminal
  OutputInOrder
  EndIsNotForgotten
  LittleFollowsTheExit
PROPERTIES
  NoSessionIsForgotten
CHECK_DEADLOCK FALSE
