SPECIFICATION FairSpec
CONSTANTS
  Defers = {d1, d2}
  Cleanups = {c1}
  Signals <- MCSignals
  OnSignalNames <- MCOnSignalNames
  ToolCalls = {}
  ControlCalls = {}
  HttpCalls = {h1}
  FilterCalls = {h1}
  MaxSignals = 2
INVARIANTS
  TypeOK
  TakenOnce
  RuntimeCallsExcluded
  UndisturbedRun
PROPERTIES
  SignalEndsProcess
  RunEnds
