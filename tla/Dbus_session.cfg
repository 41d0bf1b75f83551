SPECIFICATION FairSpec
CONSTANTS
  tag = tag
  other = other
  Paths <- MCPaths
  FilterMode = "named"
  Configured <- MCConfigured
  ChannelSize = 2
  MaxLevel = 2
INVARIANTS
  TypeOK
  RssiIsCurrent
PROPERTIES
  Recovery
  ShutdownCompletes
