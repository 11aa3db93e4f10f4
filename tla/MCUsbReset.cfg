SPECIFICATION UsbSpec
CONSTANTS
  Requests <- MCResetRequests
  Commands <- MCCommands
  Values = {"a", "b"}
  Blocks = 2
  BlockPackets = 2
  Plans <- MCOnce
INVARIANT NoAssertFails
CHECK_DEADLOCK FALSE
