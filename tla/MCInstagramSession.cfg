\* Every page and GraphQL body of the samples, every host answer.
CONSTANTS
  a = a
  b = b
  c = c
  unsafe = unsafe
  Urls <- MCUrls
  SafeUrls <- MCSafeUrls
  Candidates = 2
  PageReplies <- MCPageReplies
  GraphqlReplies <- MCGraphqlReplies
SPECIFICATION Spec
INVARIANTS
  TypeOK
  TokenDiesWithItsCall
  RefusalIsFinal
  CarouselIsWhole
PROPERTIES
  KeepsResolveContract
