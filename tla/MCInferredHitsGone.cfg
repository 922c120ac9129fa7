SPECIFICATION WoundsSpec

CONSTANTS
  None = None
  Player = {1, 2}
  Weapon = {4, 5, 6}
  WeaponClass = {"mx", "ghost"}
  TeamOf <- MCTeamOf
  Full = {2, 3}
  DeathWindow = 1
  RespawnTime = 3
  MaxTick = 9
  MaxChanges = 3

INVARIANT AttackersLiving
CHECK_DEADLOCK FALSE
