\* Decipher, internal authentication and the data objects.
SPECIFICATION Spec
CONSTANTS
  Secrets = {"empty", "pin6", "pin8"}
  NoSecret = "none"
  EmptySecret = "empty"
  DefaultPW1 = "pin6"
  DefaultPW3 = "pin8"
  SecretLen <- MCSecretLen
  Strip <- MCStrip
  MaxRetries = 1
  Slots = {"DEC", "AUT"}
  Algs = {"rsa", "p256dh"}
  DefaultAlg = "rsa"
  AlgKind <- MCAlgKind
  KeySize <- MCKeySize
  KeyIds = {"k1"}
  NoKeyId = "nokey"
  InvalidFor <- MCInvalidFor
  UserObjects = {"do1"}
  AdminObjects = {}
  Values = {0, 1}
  DefaultValue = 0
  CounterMax = 1
  MaxFaults = 0
VIEW KeyView
PROPERTIES
  ChangesAreAuthorised
