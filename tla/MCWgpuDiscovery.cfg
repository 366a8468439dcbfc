CONSTANTS
  None = None
  Refused = Refused
  Reports <- MCReports
SPECIFICATION DiscoverySpec
INVARIANT SiteKeepsDevice
CHECK_DEADLOCK FALSE
