\* A requested sub line stays masked.
SPECIFICATION Spec
CONSTANTS
  m1 = m1
  m2 = m2
  e1 = e1
  e2 = e2
  tc = tc
  NoIrq = NoIrq
  extParent = extParent
  subParent = subParent
  Main <- MCMainLine
  Ext <- MCNone
  Sub <- MCSub
  OneShot <- MCNone
  Rerequest <- MCNone
  MaxSlip = 2
INVARIANT RequestedIsOpen
