SPECIFICATION Spec

CONSTANTS
  Uptime = 7
  Pace = {0, 1, 2}
  Skew <- MCSkew
  None = None
  MaxFrames = 4

INVARIANT TypeOK
INVARIANT SnapshotsOnServer
INVARIANT AfterItsSnapshot
INVARIANT WalksAgree
