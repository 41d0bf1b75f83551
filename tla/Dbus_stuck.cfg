SPECIFICATION FairSpec
CONSTANTS
  tag = tag
  other = other
  Paths <- MCPaths
  FilterMode = "named"
  Configured <- MCConfigured
  ChannelSize = 1
  MaxLevel = 1
PROPERTIES
  SilentIsReplaced
