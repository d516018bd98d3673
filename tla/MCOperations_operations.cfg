SPECIFICATION MCSpec
CONSTANTS
  Runs = {r1, r2, r3}
  NoRun = NoRun
  RequestCount = 1
  CHUNK = 2
  MaxDels = 2
  Invocations = {v1, v2, v3}
  FailNext = 2
  MaxArms = 2
  MaxLost = 1
  NoFlag = NoFlag
  Requests = {q1, q2}
  Depths = {0, 2}
  HIGH_WATER = 1
  CACHE_TTL = 2
  CALL = 1
  MaxTime = 5
  MaxWrites = 1
  NoReading = NoReading
  Instances = {i1, i2}
  Calls = {c1, c2, c3}
  MaxCount = 2
  Flights = {f1, f2}
  MaxVersion = 1
  MaxGens = 3
  MaxFails = 1
  NoFlight = NoFlight
  NoSecret = NoSecret
  NoVersion = NoVersion
INVARIANTS
  SimTypeOK
  RunsAreCounted
  FaultsAreBounded
  VerdictsAreFresh
  NothingLeftBehind
  BusyMeansCall
PROPERTIES
  ClaimEnds
  ChaosEnds
  FlagIsReleased
  NoAnswerFromThePast
  PanelsCatchUp
CHECK_DEADLOCK FALSE
