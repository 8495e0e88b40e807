SPECIFICATION Spec
CONSTANTS
  Blocks <- MCBlocks
  Messages <- MCMessages
INVARIANT
  PublishedDigests
PROPERTY
  StandardSpec
