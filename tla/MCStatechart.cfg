SPECIFICATION FairChartSpec
CONSTANTS
  NULL = NULL
  P = P
  C = C
  D = D
  Q = Q
  X = X
  Y = Y
  body = body
  aux = aux
  step = step
  leave = leave
  reset = reset
  turn = turn
  State = {P, C, D, Q, X, Y}
  Event = {step, leave, reset, turn}
  History = {P}
  Regions <- MCRegions
  RegionOf <- MCRegionOf
  Parent <- MCParent
  InitialChild <- MCInitialChild
  Initial <- MCInitial
  Transitions <- MCTransitions
  Watchers <- MCWatchers
  kMaxCascadeDepth = 2
  MaxTick = 2
  ReentrantEntry = FALSE
INVARIANTS ArmedInActiveState OneScopePerInactiveState ConfigurationWhole
PROPERTIES OneChainPerTick HooksInOrder CascadeSettles
CHECK_DEADLOCK FALSE
