CONSTANTS
  None = None
  Refused = Refused
  NotANumber = NotANumber
  HostProfiles <- MCHostProfiles
  LegacyModeled <- MCLegacy
  Expectations <- MCExpectations
  Keys <- MCKeys
  Ticks <- MCTicks
  MaxEvents = 1
  Reports <- MCReports
  Dashed <- MCDashed
  Selectors <- MCSelectors
  Capabilities <- MCCapabilities
  Commits <- MCCommits
  Paths <- MCPaths
  Numbers <- MCNumbers
  Inputs <- MCInputs
  Sessions <- DesktopSession
  MaxCommands = 1
SPECIFICATION Spec
INVARIANT AcceptedFitsTarget
CHECK_DEADLOCK FALSE
