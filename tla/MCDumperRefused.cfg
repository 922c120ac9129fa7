SPECIFICATION SerialSpec

CONSTANTS
  p1 = p1
  p2 = p2
  Procs <- MCProcs
  SchemaVersion <- OneBuild
  Path <- MCPath
  ContentOf <- MCContentOf
  NoFile = NoFile
  Content <- MCContent
  Table <- MCTable
  RowsOf <- MCRowsOf
  CutOf <- MCCutOf
  NoCut = NoCut
  Bail = Bail
  Id = {1, 2, 3}
  IdOf <- MCIdOf
  Parsable = {"long", "short", "twin"}
  InsertOrder <- MCOrder
  Rounds = "rounds"
  Options <- MCOptions
  CommandLines <- MCLines
  MaxRuns = 2
  MaxFaults = 0
  MaxKills = 1
  MaxLosses = 0

INVARIANT RefusesOnlyForeignFiles
CHECK_DEADLOCK FALSE
