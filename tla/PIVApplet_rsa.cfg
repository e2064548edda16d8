\* Signatures with an RSA key.
SPECIFICATION Spec
CONSTANTS
  Full = {"puk8"}
  Short = {"empty", "pin6"}
  Empty = "empty"
  DefaultPin = "pin6"
  DefaultPuk = "puk8"
  Slots = {"9A"}
  KeyIds = {"k1"}
  NoKeyId = "nokey"
  ObjectIds = {}
  Values = {"v1"}
  Witnesses = {"w1"}
  NoChallenge = "nochallenge"
  MaxCards = 0
PROPERTIES
  RSAKeysSign
