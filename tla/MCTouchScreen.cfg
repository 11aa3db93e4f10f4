\* Handlers, stylus, converter and reader in every order.
SPECIFICATION TsFairSpec
CONSTANTS
  ts = ts
  head = head
  Timer <- MCTimer
  Delays <- MCDelays
  Delay = 2
  MaxJiffies = 3
  NSamples = 3
  Point <- MCPoint
INVARIANTS TsListSound NoTornRead
PROPERTIES HeldIsSampled ReleaseSettles
