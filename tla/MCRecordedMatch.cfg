SPECIFICATION CapturesSpec

CONSTANTS
  Recordings <- MCRecordings
  Winner = {"jinrai", "tie"}
  None = None
  MaxTick = 14
  Gap = 2
  Numbers = {1, 2, 3}
  LastRounds = {None, 1, 2}
  Holder = {1, 2}
  MaxTakes = 3
  Zone = {8, 9}
  EndWindow = 1

INVARIANT TypeOK
INVARIANT EveryMarkInOneRound
INVARIANT NoOverlap
INVARIANT PlacesInOrder
INVARIANT PlacedInItsRound
PROPERTY CutSparesWhatItKeeps
INVARIANT RoundsAsPlayed
INVARIANT KeptAsAsked
INVARIANT HoldsAsCarried
INVARIANT CapturersAsPlayed
CHECK_DEADLOCK FALSE
