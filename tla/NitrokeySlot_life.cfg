\* Three APDUs, two rounds of the loop, builds and crashes with two faults.
SPECIFICATION Spec
CONSTANTS
  MaxApdus = 3
  MaxPolls = 2
  MaxUpdates = 2
  MaxFaults = 2
INVARIANTS
  AnswersOwnApdu
  NextIsAccepted
  RefusedOnlyIfNeverBuilt
PROPERTIES
  VolumesKeepData
  EveryCallEnds
