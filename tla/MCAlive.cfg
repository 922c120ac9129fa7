SPECIFICATION Spec

CONSTANTS
  Slot = {s1}
  Team = {jinrai, nsf}
  None = None
  ResourceLag = 3
  Period = 2
  Delay = 1
  JoinTime = 4
  MaxTick = 8
  MaxLate = 2

SYMMETRY Teams

INVARIANT TypeOK
INVARIANT ChangesInOrder
INVARIANT CountsFollowGame
INVARIANT DeathTeamsAsPlayed
