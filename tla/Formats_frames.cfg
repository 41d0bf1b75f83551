SPECIFICATION Spec
CONSTANT PollutantMax = 5100
INVARIANTS
  TypeOK
  ReadsWhatWasSent
  FormatsAgree
  SensorsMatchValues
PROPERTIES
  AqiIsSmooth
