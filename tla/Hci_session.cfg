SPECIFICATION Spec
CONSTANTS
  Timings <- MCTimings
  BindTries = 5
  LateMax = 3
  EventMax = 1
INVARIANTS
  TypeOK
  ListeningIsScanning
  NeverRefused
PROPERTIES
  Listens
