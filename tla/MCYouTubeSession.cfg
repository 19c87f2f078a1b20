\* Three formats under a bound of two, arrays of four rejected, every host answer.
CONSTANTS
  a = a
  b = b
  c = c
  unsafe = unsafe
  Missing = Missing
  Urls <- MCUrls
  SafeUrls <- MCSafeUrls
  Candidates = 2
  MaxFormats = 3
  PageReplies <- MCPageReplies
  PlayerReplies <- MCPlayerReplies
SPECIFICATION Spec
INVARIANTS
  TypeOK
  DeliversTheBest
PROPERTIES
  PlayerOnlyForACipher
  KeepsResolveContract
