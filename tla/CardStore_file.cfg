\* The state file of slot 0 with crashes and failing operations.
SPECIFICATION Spec
CONSTANTS
  States = {"factory", "s1", "s2", "s3"}
  Factory = "factory"
  Absent = "absent"
  Partial = "partial"
  MaxFaults = 3
INVARIANTS
  InstallKeepsData
PROPERTIES
  ImplementsStore
