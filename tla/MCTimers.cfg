\* Safety and the refinement: every order of calls and expiries of three timers.
SPECIFICATION TimersFairSpec
CONSTANTS
  a = a
  b = b
  c = c
  head = head
  Timer <- MCTimer
  Delays <- MCDelays
  MaxJiffies = 3
INVARIANTS ListSound
PROPERTIES ImplementsService EveryTimerEnds
