SPECIFICATION FairSpec
CONSTANTS
  tag = tag
  air = air
  blank = blank
  stray = stray
  None = None
  Devices = {air}
  Configured = {}
  NilEntries = {}
  FilterNamed = FALSE
  DefaultInterval = 1
  DeviceInterval <- MCInterval
  E1PreferWindow = 2
  Frames <- AirFrames
  QoS = 0
  PublishQueueSize = 2
  PublishRetries = 1
  DiscoveryOn = TRUE
  SensorsOf <- MCSensorsOf
  MaxAdverts = 2
  MaxTime = 2
  MaxSent = 2
INVARIANTS
  TypeOK
  E1Preferred
  DiscoveredIsAnnounced
  NeverGoesBack
PROPERTIES
  CallbackReturns
  QueueDrains
  ShutdownCompletes
