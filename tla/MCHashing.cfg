SPECIFICATION Spec
CONSTANTS
  Secrets <- MCSecrets
  Text <- MCText
  Lengths = {7, 56, 64}
  OutLengths = {33, 8161}
  Sizes <- MCSizes
  HmacSha256 <- SmallHmac
  EntropyOf <- MCEntropy
  MD_SIZE = 4
  MAX_INPUT = 3
  MAX_REQUEST = 9
  MAX_SEED_INPUT = 26
  RESEED_INTERVAL = 2
  Sources = {7}
  Additional <- MCAdditional
  Drawn = {6, 10}
  Intervals = {0}
  EntropyLens = {24}
  Reuse = "none"
  MaxCalls = 4
INVARIANTS
  ContextIsOfTheBytes
  TagsAreStandard
PROPERTIES
  GeneratorIsStandard
CHECK_DEADLOCK FALSE
