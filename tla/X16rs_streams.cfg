SPECIFICATION Spec
CONSTANTS
  Word <- SmallWords
  MaxFed <- ShortMessages
  Chunks <- FewChunks
  Rounds = 2
  LastUnit = FALSE
INVARIANTS
  TypeOK
  DigestIsStandard
