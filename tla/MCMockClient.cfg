\* Every queue of up to two calls, every sequence of up to three requests.
CONSTANTS
  u = u
  v = v
  short = short
  long = long
  same = same
  ok = ok
  Refused = Refused
  Visible <- MCVisible
  Secrets <- MCSecrets
  LengthOf <- MCLengthOf
  Results = {ok, Refused}
  Queues <- MCQueues
  MaxCalls = 3
SPECIFICATION MockSpec
INVARIANTS
  MockTypeOK
  AnsweredByPosition
  VerifyMeansReplayed
\* A test makes only so many calls.
CHECK_DEADLOCK FALSE
