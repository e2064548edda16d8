\* Two threads, two slots, calls of one slot at the same time too, an update, and
\* a load or save that fails.
SPECIFICATION Spec
CONSTANTS
  Threads = {"t1", "t2"}
  Slots = {0, 1}
  MaxCards = 2
  MaxUpdates = 1
  MaxFaults = 1
  Nobody = "nobody"
INVARIANTS
  NoOrphanInUse
  NothingSavedIsLost
  TableNotHeldForLong
PROPERTIES
  EveryCallReturns
