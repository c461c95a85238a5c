SPECIFICATION MCSpec
CONSTANTS
  NsClasses = {"BAD", "GOOD"}
  PureStates <- PureObserved
  AccessPoints = {a1, a2}
  a1 = a1
  a2 = a2
  MaxConns = 1
  Burst = 1
  Configs <- UnregisterConfigs
  FileSize = 2
  InitAdv = 1
  MinAdv = 1
  MaxLocks = 2
  Aspects = {"balancing"}
  PoAs = {p1, p2, p3}
  p1 = p1
  p2 = p2
  p3 = p3
  Hosts = {h1, h2, h3, h4}
  h1 = h1
  h2 = h2
  h3 = h3
  h4 = h4
  Networks <- MCNetworks
  Rules <- MCRules
  CongestionThreshold = 2
  ClientsPoAGradingLimit = 3
  PoARankingLimit = 1
  PoAMargin = 2
  SimultaneousHOs = 2
INVARIANT BestCandidatesFirst
CHECK_DEADLOCK FALSE
