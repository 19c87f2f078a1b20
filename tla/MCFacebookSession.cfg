\* Every page of two blocks, every host answer, a candidate bound of two.
CONSTANTS
  a = a
  b = b
  c = c
  unsafe = unsafe
  Urls <- MCUrls
  SafeUrls <- MCSafeUrls
  Candidates = 2
  PageReplies <- MCPageReplies
  TahoeReplies <- MCTahoeReplies
SPECIFICATION Spec
INVARIANTS
  TypeOK
  SecretDiesWithItsCall
  AnswerMatchesOffer
PROPERTIES
  TahoeIsLastResort
  KeepsResolveContract
