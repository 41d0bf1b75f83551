SPECIFICATION Spec
CONSTANTS
  tag = tag
  air = air
  blank = blank
  stray = stray
  None = None
  Devices = {tag, blank}
  Configured = {tag, blank}
  NilEntries = {blank}
  FilterNamed = TRUE
  DefaultInterval = 1
  DeviceInterval <- MCInterval
  E1PreferWindow = 2
  Frames <- TagFrames
  QoS = 0
  PublishQueueSize = 1
  PublishRetries = 1
  DiscoveryOn = FALSE
  SensorsOf <- MCSensorsOf
  MaxAdverts = 3
  MaxTime = 2
  MaxSent = 2
INVARIANTS
  NilEntriesAreLegal
