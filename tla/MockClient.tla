------------------------------ MODULE MockClient ------------------------------
(***************************************************************************)
(* The v2 SDK's deterministic mock (sdk/.../src/mock.rs), the host that    *)
(* the plugins' own tests run against: a queue of expected calls, each     *)
(* with its result.  Every call takes the front of the queue, whether it   *)
(* matches or not; a call that does not match is refused, and verify never *)
(* passes again.  A secret is compared by its length alone.                *)
(***************************************************************************)
EXTENDS Naturals, Sequences

CONSTANTS Visible,    \* values of the compared fields of a request
          Secrets,    \* values of the lsd or fb_dtsg of a POST
          LengthOf,   \* the length of a secret
          Results,    \* what an expected call may return
          Refused,    \* HttpsError::InvalidRequest
          Queues,    \* the queues a test may build
          MaxCalls    \* bound: calls a test makes

MockOperations == {"get", "post-public-graphql", "post-tahoe"}
Posts == MockOperations \ {"get"}

MockRequests == [op : {"get"}, visible : Visible]
              \cup [op : Posts, visible : Visible, secret : Secrets]

ExpectedCalls == [op : {"get"}, visible : Visible, result : Results]
                   \cup [op : Posts, visible : Visible, length : Nat, result : Results]

ASSUME MockAssumption == /\ Queues \subseteq Seq(ExpectedCalls)
                         /\ LengthOf \in [Secrets -> Nat]
                         /\ Refused \in Results
                         /\ MaxCalls \in Nat

\* An expectation admits the requests of its operation that agree with it.
Admits(expected, request) ==
  /\ expected.op = request.op
  /\ expected.visible = request.visible
  /\ request.op \in Posts => expected.length = LengthOf[request.secret]

VARIABLES queue,     \* the queue the mock was built with (history)
          made,      \* the calls made and what they returned (history)
          expected,  \* what is left of the queue
          observed,  \* the operations called (observations)
          mismatch   \* whether a call was refused

mock_vars == <<queue, made, expected, observed, mismatch>>

MockInit == /\ queue \in Queues
            /\ made = << >>
            /\ expected = queue
            /\ observed = << >>
            /\ mismatch = FALSE

Matched(request) == expected # << >> /\ Admits(Head(expected), request)

\* Seeded bug: both POSTs are observed under a name that is no operation.
ObservedAsPost(request) == IF request.op \in Posts THEN "post" ELSE "get"

Observed(request) == request.op

Respond(request, result) ==
  /\ Len(made) < MaxCalls
  /\ observed' = Append(observed, Observed(request))
  /\ made' = Append(made, [request |-> request, result |-> result])
  /\ UNCHANGED queue

Accept(request) ==
  /\ Matched(request)
  /\ Respond(request, Head(expected).result)
  /\ expected' = Tail(expected)
  /\ UNCHANGED mismatch

\* Seeded bug: a refused call leaves the front of the queue for the next one.
RejectKeepsFront(request) ==
  /\ ~Matched(request)
  /\ Respond(request, Refused)
  /\ mismatch' = TRUE
  /\ UNCHANGED expected

\* Seeded bug: a call beyond the end of the queue is refused and forgotten.
RejectForgets(request) ==
  /\ ~Matched(request)
  /\ Respond(request, Refused)
  /\ expected' = IF expected = << >> THEN << >> ELSE Tail(expected)
  /\ mismatch' = (mismatch \/ expected # << >>)

Reject(request) ==
  /\ ~Matched(request)
  /\ Respond(request, Refused)
  /\ expected' = IF expected = << >> THEN << >> ELSE Tail(expected)
  /\ mismatch' = TRUE

MockNext == \E request \in MockRequests : Accept(request) \/ Reject(request)

MockSpec == MockInit /\ [][MockNext]_mock_vars

\* What verify says at any moment.
verify == IF mismatch THEN "did not match"
          ELSE IF expected = << >> THEN "ok" ELSE "remain unconsumed"

------------------------------------------------------------------------------
MockTypeOK ==
  /\ queue \in Queues
  /\ made \in Seq([request : MockRequests, result : Results]) /\ Len(made) <= MaxCalls
  /\ expected \in Seq(ExpectedCalls)
  /\ observed \in Seq(MockOperations)
  /\ mismatch \in BOOLEAN

\* A call is answered from its own position in the queue or refused: no earlier
\* mistake of a plugin makes a later call see the result of another one.
AnsweredByPosition ==
  \A i \in 1..Len(made) :
    made[i].result =
      IF i <= Len(queue) /\ Admits(queue[i], made[i].request)
      THEN queue[i].result ELSE Refused

\* verify passes exactly when the calls made are the expected ones, all of them,
\* each in its place and no other: a plugin that fetched out of order, once too
\* often or in vain fails its test even if it recovered afterwards.
VerifyMeansReplayed ==
  (verify = "ok") <=>
    /\ Len(made) = Len(queue)
    /\ \A i \in 1..Len(made) : Admits(queue[i], made[i].request)
==============================================================================
