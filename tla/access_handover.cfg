SPECIFICATION MCSpec
CONSTANTS
  NsClasses = {"BAD", "GOOD"}
  PureStates <- PureObserved
  AccessPoints = {a1, a2}
  a1 = a1
  a2 = a2
  MaxConns = 2
  Burst = 1
  Configs <- HandoverConfigs
  FileSize = 2
  InitAdv = 1
  MinAdv = 1
  MaxLocks = 2
  Aspects = {"handover", "balancing"}
  PoAs = {p1, p2, p3}
  p1 = p1
  p2 = p2
  p3 = p3
  Hosts = {h1, h2, h3, h4}
  h1 = h1
  h2 = h2
  h3 = h3
  h4 = h4
  Networks <- MCNetworks
  Rules <- MCRules
  CongestionThreshold = 2
  ClientsPoAGradingLimit = 3
  PoARankingLimit = 1
  PoAMargin = 2
  SimultaneousHOs = 2
INVARIANTS
  NoUnexpectedError
  
  VideoPromisedOnce
  MovesFit
  NobodyLeftBehind
  PreferredFirst
  FeedbackFitsAction
PROPERTIES
  HandoverCompletes
CHECK_DEADLOCK FALSE
