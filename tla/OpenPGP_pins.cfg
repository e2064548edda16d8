\* PIN commands, the reset code and the life cycle, with no key slots and one save or load that may fail.
SPECIFICATION Spec
CONSTANTS
  Secrets = {"empty", "pin6", "pin8", "long"}
  NoSecret = "none"
  EmptySecret = "empty"
  DefaultPW1 = "pin6"
  DefaultPW3 = "pin8"
  SecretLen <- MCSecretLen
  Strip <- MCStrip
  MaxRetries = 2
  Slots = {}
  Algs = {"rsa"}
  DefaultAlg = "rsa"
  AlgKind <- MCAlgKind
  KeySize <- MCKeySize
  KeyIds = {"k1"}
  NoKeyId = "nokey"
  InvalidFor <- MCInvalidFor
  UserObjects = {}
  AdminObjects = {}
  Values = {0}
  DefaultValue = 0
  CounterMax = 1
  MaxFaults = 1
INVARIANTS
  TypeOK
  RetryBudget
  AnsweredIsDurable
  LengthMatchesSecret
PROPERTIES
  TerminatedIsFrozen
  BlockedStaysBlocked
  CommitsToStore
