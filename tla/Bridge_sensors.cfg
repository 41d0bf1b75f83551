SPECIFICATION Spec
CONSTANTS
  tag = tag
  air = air
  blank = blank
  stray = stray
  None = None
  Devices = {air}
  Configured = {}
  NilEntries = {}
  FilterNamed = FALSE
  DefaultInterval = 1
  DeviceInterval <- MCInterval
  E1PreferWindow = 2
  Frames <- AirFrames
  QoS = 1
  PublishQueueSize = 1
  PublishRetries = 1
  DiscoveryOn = TRUE
  SensorsOf <- MCSensorsOf
  MaxAdverts = 3
  MaxTime = 2
  MaxSent = 2
INVARIANTS
  SensorsAreCreated
