SPECIFICATION UsbSpec
CONSTANTS
  Requests <- MCRequests
  Commands <- MCCommands
  Values = {"a", "b"}
  Blocks = 2
  BlockPackets = 2
  Plans <- MCPlans
INVARIANTS ReadsBack StatusInTurn RepliesExact
PROPERTY CallsAnswered
CHECK_DEADLOCK FALSE
