\* Messages of 0, 5, 10, 12, 15 and 17 bytes: every remainder of a block, the
\* two sides of the padding test, and the carry between the words (at 16).
CONSTANTS
  a = a
  b = b
  Contexts = {a, b}
  Sizes = {5, 12}
  BlockSize = 4
  WordBits = 4
  MaxLen = 17
SYMMETRY Symmetry
SPECIFICATION Spec
INVARIANTS
  EngineHasOneUser
  EngineIsReturned
PROPERTIES
  DigestSpec
