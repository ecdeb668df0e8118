SPECIFICATION FairSpec
CONSTANTS
  Addr = {a1, a2, a3, a4}
  NPlayers = 2
  Rows = 1
  Columns = 5
  PlayerRange = 1
  FriendRange = 1
  PlayerLife = 1
  MaxLife = 1
  Lifespan = 2
  MaxTurns = 3
  MaxStones = 1
  FriendCards = {"razor"}
  None = None
INVARIANTS ArmedFriendsHaveTargets ShownAreAlive
PROPERTIES TurnsEnd
CHECK_DEADLOCK FALSE
