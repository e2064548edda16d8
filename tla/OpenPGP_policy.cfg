\* The policy "PW1 valid for one signature" and the copy after_sign reads.
SPECIFICATION Spec
CONSTANTS
  Secrets = {"empty", "pin6", "pin8"}
  NoSecret = "none"
  EmptySecret = "empty"
  DefaultPW1 = "pin6"
  DefaultPW3 = "pin8"
  SecretLen <- MCSecretLen
  Strip <- MCStrip
  MaxRetries = 1
  Slots = {"SIG"}
  Algs = {"rsa"}
  DefaultAlg = "rsa"
  AlgKind <- MCAlgKind
  KeySize <- MCKeySize
  KeyIds = {"k1"}
  NoKeyId = "nokey"
  InvalidFor <- MCInvalidFor
  UserObjects = {}
  AdminObjects = {}
  Values = {0}
  DefaultValue = 0
  CounterMax = 1
  MaxFaults = 0
PROPERTIES
  SignatureUsesUpPW1
