\* A PIN, a PUK and the empty secret, a key that needs the PIN, two
\* certificates and a second channel.
SPECIFICATION Spec
CONSTANTS
  Full = {"puk8"}
  Short = {"empty", "pin6"}
  Empty = "empty"
  DefaultPin = "pin6"
  DefaultPuk = "puk8"
  Slots = {"9C"}
  KeyIds = {"k1", "k2"}
  NoKeyId = "nokey"
  ObjectIds = {"5FC10A", "5FC10B"}
  Values = {"v1"}
  Witnesses = {"w1"}
  NoChallenge = "nochallenge"
  MaxCards = 1
VIEW View
INVARIANTS
  TypeOK
  TryLimit
  PinBlockVerifies
  AuthorityIsOfThisSession
  KeyUseIsRight
  ChallengeUsedOnce
  ObjectsReadBack
PROPERTIES
  BlockedNeedsPuk
  ChangesNeedManagementKey
