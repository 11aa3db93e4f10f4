\* Requests, frees and interrupts of main and external lines in every order.
SPECIFICATION FairSpec
CONSTANTS
  m1 = m1
  m2 = m2
  e1 = e1
  e2 = e2
  tc = tc
  NoIrq = NoIrq
  extParent = extParent
  subParent = subParent
  Main <- MCMain
  Ext <- MCExt
  Sub <- MCNone
  OneShot <- MCOneShot
  Rerequest <- MCNone
  MaxSlip = 2
INVARIANTS NoAssertFails RequestedIsOpen
PROPERTIES OwedIsHandled
\* A failed assertion stops the kernel: interrupts off, while (1).
CHECK_DEADLOCK FALSE
