\* Both applets behind selection, power and chaining.
SPECIFICATION Spec
CONSTANTS
  Lengths = {0, 512}
  Les = {200, 256}
  MaxBlocks = 2
INVARIANTS
  CommandsAreWhole
  EveryByteOnce
  OffIsClean
  SelectRecovers
