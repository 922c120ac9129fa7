SPECIFICATION Spec

CONSTANTS
  start = start
  over = over
  Text = {start, over}
  Packet <- MCPacket
  Threads = {0, 1, 2, 3}
  Window = 2
  MaxPackets = 4

INVARIANT TypeOK
INVARIANT SameForAnyThreads
INVARIANT EveryTextKept
