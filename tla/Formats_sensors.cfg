SPECIFICATION Spec
CONSTANT PollutantMax = 10
INVARIANT
  EverySensorHasValue
