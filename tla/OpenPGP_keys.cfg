\* The signature key: attributes, import, generation, signatures.
SPECIFICATION Spec
CONSTANTS
  Secrets = {"empty", "pin6", "pin8"}
  NoSecret = "none"
  EmptySecret = "empty"
  DefaultPW1 = "pin6"
  DefaultPW3 = "pin8"
  SecretLen <- MCSecretLen
  Strip <- MCStrip
  MaxRetries = 1
  Slots = {"SIG"}
  Algs = {"rsa", "p256", "other"}
  DefaultAlg = "rsa"
  AlgKind <- MCAlgKind
  KeySize <- MCKeySize
  KeyIds = {"k1", "bad"}
  NoKeyId = "nokey"
  InvalidFor <- MCInvalidFor
  UserObjects = {}
  AdminObjects = {"name"}
  Values = {0, 1}
  DefaultValue = 0
  CounterMax = 1
  MaxFaults = 0
VIEW KeyView
INVARIANTS
  KeyPairIntact
  SignaturesCounted
PROPERTIES
  ChangesAreAuthorised
