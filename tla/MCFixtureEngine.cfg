\* Scripts of up to three exchanges; client calls in any order.
CONSTANTS
  v1 = v1
  v2 = v2
  v3 = v3
  MaxScript = 3
  Words <- MCWords
  Hosts <- MCHosts
  Values <- MCValues
  ByteCount <- MCByteCount
  Categories <- MCCategories
  Statuses <- MCStatuses
  Requests <- MCRequests
  Replies <- MCReplies
  Scripts <- MCScripts
SPECIFICATION Spec
INVARIANTS
  TypeOK
  TranscriptAndQueueSplitScript
  TranscriptHidesValues
PROPERTIES
  ImplementsScriptedHost
