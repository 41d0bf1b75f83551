SPECIFICATION Spec
CONSTANTS
  tag1 = tag1
  tag2 = tag2
  neighbour = neighbour
  lowerCase = lowerCase
  Threshold = 4
  CheckEvery = 2
  Devices <- MCDevices
  Keys <- MCKeys
  Named = TRUE
INVARIANTS
  TypeOK
  SilentTagIsWarned
  ProbeIsRight
PROPERTIES
  NoFalseWarning
