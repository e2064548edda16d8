\* The fingerprint of a generated RSA key.
SPECIFICATION Spec
CONSTANTS
  Slots = {"SIG"}
  RsaKeys <- MCRsaKeys
  NewRsaKeys <- MCNewRsaKeys
  Scalars <- MCScalars
  AttributeBytes <- MCAttributeBytes
  Lists <- MCLists
  Headers <- MCHeaders
  Payloads <- MCPayloads
  Lengths = {0, 1, 256, 257, 65536}
  Broken <- MCBroken
  Time <- MCTime
  ImportCuts = {0, 1, 4}
  ListCuts = {0, 1, 2, 3, 4, 5, 6, 7, 129, 130, 131}
INVARIANTS
  FingerprintIsV4
