SPECIFICATION Spec
CONSTANTS
  Keys <- MCKeys
  KeyBits = {256}
  Message <- MCMessage
  IVs <- MCIVs
  Pieces = {1, 15, 16, 17}
  LIMBS = 2
  Radix = 256
  Bits25519 = 15
  A24 = 23418
  EdD = 374
  EdX = 1342
  EdY = 26086
  EdI = 15645
  EdL <- MCEdL
  Seeds <- MCSeeds
  Texts <- MCTexts
  Nonces <- MCNonces
  Positions = {1, 2, 3, 4, 17, 33}
  Operands <- MCOperands
  WideOperands <- MCWideOperands
INVARIANTS
  CiphersAreStandard
  BoxesAreStandard
CHECK_DEADLOCK FALSE
