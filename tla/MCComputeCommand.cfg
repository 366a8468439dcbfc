CONSTANTS
  None = None
  Refused = Refused
  NotANumber = NotANumber
  HostProfiles <- MCHostProfiles
  LegacyModeled <- MCLegacy
  Expectations <- MCExpectations
  Keys <- MCKeys
  Ticks <- MCTicks
  MaxEvents = 1
  Reports <- MCReports
  Dashed <- MCDashed
  Selectors <- MCSelectors
  Capabilities <- MCCapabilities
  Commits <- MCCommits
  Paths <- MCPaths
  Numbers <- MCNumbers
  Inputs <- MCInputs
  Sessions <- MCSessions
  MaxCommands = 2
SPECIFICATION Spec
INVARIANTS
  PersistenceKeepsDecision
  StaleIsForever
  VerifiesWhenComplete
  AlteredIsRefused
  SitesAreProven
PROPERTIES
  DeviceRouteProven
  ImplicitSaveKeepsOneKey
  UnknownIsAbsent
CHECK_DEADLOCK FALSE
