SPECIFICATION Spec
CONSTANTS
  tag = tag
  air = air
  blank = blank
  stray = stray
  None = None
  Devices = {tag, air, blank, stray}
  Configured = {tag, air, blank}
  NilEntries = {blank}
  FilterNamed = TRUE
  DefaultInterval = 0
  DeviceInterval <- MCInterval
  E1PreferWindow = 2
  Frames <- TagFrames
  QoS = 1
  PublishQueueSize = 1
  PublishRetries = 1
  DiscoveryOn = FALSE
  SensorsOf <- MCSensorsOf
  MaxAdverts = 2
  MaxTime = 1
  MaxSent = 3
INVARIANTS
  Accounting
  AdmissionSpacing
  LateSends
PROPERTIES
  ImplementsRelay
