------------------------ MODULE InstagramSessionProofs ------------------------
(***************************************************************************)
(* For every set of media URLs, every bound on candidates and whatever the *)
(* host answers: what a resolve call of the Instagram plugin holds, asks,  *)
(* delivers and refuses.                                                   *)
(***************************************************************************)
EXTENDS InstagramSession, SequenceTheorems, FiniteSetTheorems, TLAPS

Calls == [op : {"get", "graphql"}, reply : {Pending} \cup PageReplies \cup GraphqlReplies]

ResolverErrors == [kind : ResolverErrorKinds, retryable : BOOLEAN]

Outcomes == {Pending} \cup [kind : {"error"}, error : ResolverErrors]
              \cup [kind : {"response"}, response : ResolveResponses]

\* What has been asked of the host, and how it was answered, at every point of
\* resolve_public.
Conversation ==
  /\ calls \in Seq(Calls)
  /\ pc = "classify" => calls = << >>
  /\ pc \in {"await_page", "page", "state", "built"} => Len(calls) = 1
  /\ pc \in {"await_graphql", "graphql", "validate"} => Len(calls) = 2
  /\ pc = "done" => Len(calls) \in 0..2
  /\ calls # << >> => calls[1].op = "get"
  /\ Len(calls) = 2 => calls[2].op = "graphql" /\ Usable(calls[1].reply)
  /\ pc = "await_page" => calls[1].reply = Pending
  /\ pc = "await_graphql" => calls[2].reply = Pending
  /\ calls # << >> /\ pc # "await_page" => calls[1].reply \in PageReplies
  /\ Len(calls) = 2 /\ pc # "await_graphql" => calls[2].reply \in GraphqlReplies
  /\ pc \in {"state", "built"} => Usable(calls[1].reply)
  /\ pc = "validate" => Usable(calls[2].reply)
  /\ pc # "done" => outcome = Pending

\* Where the token is.
Custody ==
  /\ pc \in {"classify", "await_page", "page"} => secret = "none"
  /\ pc = "state" => secret = "ephemeral"
  /\ pc \in {"built", "await_graphql"} => secret = "call"
  /\ pc \in {"graphql", "validate"} => secret = "wiped"
  /\ pc = "done" => secret \in {"none", "wiped"}
  /\ secret # "none" => calls # << >> /\ Usable(calls[1].reply)
  /\ Len(calls) = 2 => secret = IF pc = "await_graphql" THEN "call" ELSE "wiped"

\* A response comes from the GraphQL item, or from the Relay item when the former
\* was malformed.
Sourced(r) ==
  \/ GraphqlOk(Graphql) /\ r = map(Graphql.item)
  \/ FallsBack /\ RelayOk(Page.relay) /\ r = map(Page.relay.item)

\* Where the response comes from, and what the answer to the POST led to.
Provenance ==
  /\ response \in ResolveResponses
  /\ outcome \in Outcomes
  /\ pc = "validate" => Sourced(response)
  /\ outcome.kind = "response" =>
       /\ pc = "done" /\ Len(calls) = 2 /\ Usable(calls[2].reply)
       /\ Sourced(response) /\ validate_response(response)
       /\ outcome.response = response
  /\ pc = "done" /\ Len(calls) = 2 /\ Usable(calls[2].reply) =>
       \/ GraphqlOk(Graphql) \/ FallsBack
       \/ outcome = [kind |-> "error", error |-> GraphqlError(Graphql)]

Places == {"classify", "await_page", "page", "state", "built", "await_graphql",
           "graphql", "validate", "done"}

IInv == pc \in Places /\ source \in Sources /\ Conversation /\ Custody /\ Provenance

------------------------------------------------------------------------------
\* The plugin's two tables and the gate in front of them agree with the contract's
\* reading of an answer: a usable one is a success from an admitted address, and the
\* error made of any other invites a retry exactly when the failure may pass.
LEMMA AnswerTables ==
  ASSUME NEW Bodies, NEW r \in Replied(Bodies)
  PROVE  /\ r # Pending
         /\ AnswerClass(r) \in {"success", "transient", "refused"}
         /\ Usable(r) <=> AnswerClass(r) = "success"
         /\ Usable(r) => /\ r.kind = "response" /\ r.body \in Bodies
                         /\ r.final_url # "elsewhere"
         /\ ~Usable(r) => (RetrievalError(r).retryable <=> AnswerClass(r) = "transient")
         /\ ~Usable(r) => RetrievalError(r) \in ResolverErrors
<1> USE DEF ResolverErrors, ResolverErrorKinds, ResolverError, malformed, policy,
            private, unavailable
<1>1. CASE r \in [kind : {"error"}, error : HttpsErrors]
  <2>1. r.kind = "error" /\ r.error \in HttpsErrors /\ r # Pending
    BY <1>1 DEF Pending
  <2>2. checked_response(r) = r /\ ~Usable(r) /\ RetrievalError(r) = transport(r.error)
    BY <2>1 DEF checked_response, Usable, RetrievalError
  <2>3. AnswerClass(r) = IF r.error \in {"Timeout", "TransportFailure"}
                         THEN "transient" ELSE "refused"
    BY <2>1 DEF AnswerClass
  <2>4. /\ transport(r.error) \in ResolverErrors
        /\ transport(r.error).retryable <=> r.error \in {"Timeout", "TransportFailure"}
    BY <2>1 DEF HttpsErrors, transport
  <2>5. QED
    BY <2>1, <2>2, <2>3, <2>4
<1>2. CASE r.kind = "response" /\ r.status \in Nat /\ r.body \in Bodies
  <2>1. r # Pending
    BY <1>2 DEF Pending
  <2>2. CASE ~validate_https_response(r)
    <3>1. checked_response(r) = HostError("MalformedUpstream")
      BY <1>2, <2>2 DEF checked_response
    <3>2. ~Usable(r) /\ RetrievalError(r) = malformed
      BY <3>1 DEF Usable, RetrievalError, HostError, transport
    <3>3. AnswerClass(r) = "refused"
      BY <1>2, <2>1, <2>2 DEF AnswerClass
    <3>4. QED
      BY <2>1, <3>2, <3>3
  <2>3. CASE validate_https_response(r)
    <3>1. checked_response(r) = r
      BY <2>3 DEF checked_response
    <3>2. Usable(r) <=> r.status \in 200..299
      BY <1>2, <3>1 DEF Usable, StatusOk
    <3>3. RetrievalError(r) = status(r.status)
      BY <1>2, <3>1 DEF RetrievalError
    <3>4. /\ status(r.status) \in ResolverErrors
          /\ status(r.status).retryable <=> r.status = 429 \/ r.status \in 500..599
      BY <1>2 DEF status
    <3>5. AnswerClass(r) = IF r.status \in 200..299 THEN "success"
                           ELSE IF r.status = 429 \/ r.status \in 500..599
                                THEN "transient" ELSE "refused"
      BY <1>2, <2>1, <2>3 DEF AnswerClass
    <3>6. r.final_url # "elsewhere"
      BY <2>3 DEF validate_https_response, valid_get_url, valid_tahoe_url, PageUrls
    <3>7. QED
      BY <1>2, <2>1, <3>2, <3>3, <3>4, <3>5, <3>6
  <2>4. QED
    BY <2>2, <2>3
<1>3. QED
  BY <1>1, <1>2 DEF Replied

\* The same of the two replies of a call.
LEMMA ReplyTables ==
  ASSUME NEW r \in PageReplies \cup GraphqlReplies
  PROVE  /\ r # Pending
         /\ AnswerClass(r) \in {"success", "transient", "refused"}
         /\ Usable(r) <=> AnswerClass(r) = "success"
         /\ Usable(r) => r.final_url # "elsewhere"
         /\ Usable(r) /\ r \in PageReplies => r.body \in PageBodies
         /\ Usable(r) /\ r \in GraphqlReplies => r.body \in GraphqlBodies
         /\ ~Usable(r) => (RetrievalError(r).retryable <=> AnswerClass(r) = "transient")
         /\ ~Usable(r) => RetrievalError(r) \in ResolverErrors
<1>1. CASE r \in PageReplies /\ r \in GraphqlReplies
  <2>1. r \in Replied(PageBodies) /\ r \in Replied(GraphqlBodies)
    BY <1>1, ReplyAssumption
  <2>2. QED
    BY <2>1, AnswerTables
<1>2. CASE r \in PageReplies /\ r \notin GraphqlReplies
  <2>1. r \in Replied(PageBodies)
    BY <1>2, ReplyAssumption
  <2>2. QED
    BY <1>2, <2>1, AnswerTables
<1>3. CASE r \notin PageReplies /\ r \in GraphqlReplies
  <2>1. r \in Replied(GraphqlBodies)
    BY <1>3, ReplyAssumption
  <2>2. QED
    BY <1>3, <2>1, AnswerTables
<1>4. QED
  BY <1>1, <1>2, <1>3

\* mapping::map builds a response of the SDK's type from any item.
LEMMA MapType ==
  ASSUME NEW item \in Items
  PROVE  map(item) \in ResolveResponses
<1>1. item.children \in Seq(Nodes) /\ item.root \in Nodes
  BY DEF Items
<1>2. [i \in 1..Len(item.children) |-> item.children[i].url] \in Seq(Urls)
  <2>1. Len(item.children) \in Nat
          /\ \A i \in 1..Len(item.children) : item.children[i] \in Nodes
    BY <1>1
  <2>2. [i \in 1..Len(item.children) |-> item.children[i].url]
          \in [1..Len(item.children) -> Urls]
    BY <2>1 DEF Nodes
  <2>3. QED
    BY <2>1, <2>2
<1>3. <<item.root.url>> \in Seq(Urls) /\ << >> \in Seq(Urls)
  BY <1>1 DEF Nodes
<1>4. QED
  BY <1>2, <1>3 DEF map, ResolveResponses

------------------------------------------------------------------------------
\* The inductive invariant holds before the call has done anything.
LEMMA InitIInv == Init => IInv
<1> SUFFICES ASSUME Init PROVE IInv
  OBVIOUS
<1>1. response \in ResolveResponses
  BY DEF Init, unsupported_response, ResolveResponses
<1>2. Conversation /\ Custody
  BY DEF Init, Conversation, Custody
<1>3. Provenance
  BY <1>1 DEF Init, Provenance, Outcomes, Pending
<1>4. QED
  BY <1>2, <1>3 DEF Init, IInv, Places

\* An error return ends the call. Whoever held the token has dropped it, and a usable
\* answer to the POST is refused for what it says, unless it was readable or the
\* Relay script was read in its place.
LEMMA ErrorStep ==
  ASSUME IInv, NEW e \in ResolverErrors, ReturnError(e),
         pc \in {"classify", "page", "state", "graphql", "validate"},
         UNCHANGED <<source, calls, response>>,
         secret' = IF pc = "state" THEN "wiped" ELSE secret,
         pc \in {"graphql", "validate"} /\ Usable(calls[2].reply) =>
           GraphqlOk(Graphql) \/ FallsBack \/ e = GraphqlError(Graphql)
  PROVE  IInv'
<1>1. /\ calls \in Seq(Calls) /\ Len(calls) \in 0..2
      /\ pc' = "done" /\ outcome' = [kind |-> "error", error |-> e]
  <2>1. calls = << >> => Len(calls) = 0
    OBVIOUS
  <2>2. QED
    BY <2>1 DEF ReturnError, IInv, Conversation
<1>2. Conversation'
  BY <1>1 DEF IInv, Conversation
<1>3. Custody'
  BY <1>1 DEF IInv, Conversation, Custody
<1>4. Provenance'
  <2>1. Len(calls) = 2 => pc \in {"graphql", "validate"}
    <3>1. calls = << >> => Len(calls) = 0
      OBVIOUS
    <3>2. QED
      BY <3>1 DEF IInv, Conversation
  <2>2. outcome' \in Outcomes
    BY <1>1 DEF Outcomes
  <2>3. Graphql' = Graphql /\ Page' = Page /\ (FallsBack' <=> FallsBack)
    BY DEF Graphql, Page, FallsBack
  <2>4. QED
    BY <1>1, <2>1, <2>2, <2>3 DEF IInv, Provenance
<1>5. QED
  BY <1>1, <1>2, <1>3, <1>4 DEF IInv, Places

\* A step that builds the response from a usable answer to the POST.
LEMMA BuildStep ==
  ASSUME IInv, NEW r \in ResolveResponses, Build(r), pc = "graphql",
         Usable(calls[2].reply), Sourced(r)
  PROVE  IInv'
<1>1. /\ pc' = "validate" /\ response' = r
      /\ UNCHANGED <<source, calls, secret, outcome>>
  BY DEF Build
<1>2. Conversation'
  BY <1>1 DEF IInv, Conversation
<1>3. Custody'
  BY <1>1 DEF IInv, Conversation, Custody
<1>4. Sourced(r)'
  BY <1>1 DEF Sourced, Graphql, Page, FallsBack
<1>5. outcome = Pending
  BY DEF IInv, Conversation
<1>6. Provenance'
  BY <1>1, <1>4, <1>5 DEF IInv, Provenance, Pending
<1>7. QED
  BY <1>1, <1>2, <1>3, <1>6 DEF IInv, Places

\* A call to the host is appended with its answer pending.
LEMMA CallsGrow ==
  ASSUME calls \in Seq(Calls), NEW op \in {"get", "graphql"},
         calls' = Append(calls, [op |-> op, reply |-> Pending])
  PROVE  /\ calls' \in Seq(Calls)
         /\ Len(calls') = Len(calls) + 1 /\ Len(calls) \in Nat
         /\ \A i \in 1..Len(calls) : calls'[i] = calls[i]
         /\ calls'[Len(calls) + 1] = [op |-> op, reply |-> Pending]
<1>1. [op |-> op, reply |-> Pending] \in Calls
  BY DEF Calls
<1>2. QED
  BY <1>1

\* The answer of the host takes the place of the pending one.
LEMMA LastAnswered ==
  ASSUME calls \in Seq(Calls), calls # << >>, NEW reply \in PageReplies \cup GraphqlReplies,
         calls' = [calls EXCEPT ![Len(calls)].reply = reply]
  PROVE  /\ calls' \in Seq(Calls)
         /\ Len(calls') = Len(calls) /\ Len(calls) \in Nat
         /\ \A i \in 1..Len(calls) :
              /\ calls'[i].op = calls[i].op
              /\ i # Len(calls) => calls'[i] = calls[i]
         /\ calls'[Len(calls)].reply = reply
<1>1. /\ Len(calls) \in Nat /\ calls \in [1..Len(calls) -> Calls]
      /\ Len(calls) \in 1..Len(calls)
  OBVIOUS
<1>2. /\ calls' \in [1..Len(calls) -> Calls]
      /\ \A i \in 1..Len(calls) : /\ calls'[i].op = calls[i].op
                                   /\ i # Len(calls) => calls'[i] = calls[i]
      /\ calls'[Len(calls)].reply = reply
  BY <1>1 DEF Calls
<1>3. QED
  BY <1>1, <1>2

\* While the call is on, the history and the token change without touching what has
\* been built or returned.
LEMMA UnbuiltStep ==
  ASSUME IInv, UNCHANGED <<response, outcome>>, pc # "done",
         pc' \notin {"validate", "done"}
  PROVE  Provenance'
<1>1. outcome = Pending
  BY DEF IInv, Conversation
<1>2. QED
  BY <1>1 DEF IInv, Provenance, Pending

\* Every step of the call keeps the invariant.
LEMMA NextIInv == IInv /\ [Next]_vars => IInv'
<1> SUFFICES ASSUME IInv, [Next]_vars PROVE IInv'
  OBVIOUS
<1>0. /\ malformed \in ResolverErrors /\ invalid_input \in ResolverErrors
      /\ \A body : GraphqlError(body) \in ResolverErrors
  BY DEF ResolverErrors, ResolverErrorKinds, ResolverError, malformed, invalid_input,
         private, unavailable, GraphqlError
<1>1. CASE RejectSource
  BY <1>0, <1>1, ErrorStep DEF RejectSource
<1>2. CASE SendGet
  <2>1. /\ calls' = Append(calls, [op |-> "get", reply |-> Pending])
        /\ calls \in Seq(Calls) /\ Len(calls) = 0
        /\ pc = "classify" /\ pc' = "await_page"
        /\ UNCHANGED <<source, secret, response, outcome>>
    BY <1>2 DEF SendGet, CallHost, IInv, Conversation
  <2>2. /\ calls' \in Seq(Calls) /\ Len(calls') = 1
        /\ calls'[1] = [op |-> "get", reply |-> Pending]
    BY <2>1, CallsGrow
  <2>3. Provenance'
    BY <2>1, UnbuiltStep
  <2>4. QED
    BY <2>1, <2>2, <2>3 DEF IInv, Places, Conversation, Custody
<1>3. CASE \E reply \in PageReplies : PageReturns(reply)
  <2>1. PICK reply \in PageReplies : PageReturns(reply)
    BY <1>3
  <2>2. /\ calls \in Seq(Calls) /\ Len(calls) = 1 /\ calls # << >>
        /\ calls[1].op = "get" /\ outcome = Pending /\ secret = "none"
    BY <2>1 DEF PageReturns, IInv, Conversation, Custody
  <2>3. /\ calls' = [calls EXCEPT ![Len(calls)].reply = reply]
        /\ pc = "await_page" /\ pc' = "page"
        /\ UNCHANGED <<source, secret, response, outcome>>
    BY <2>1 DEF PageReturns, HostReturns
  <2>4. /\ calls' \in Seq(Calls) /\ Len(calls') = Len(calls)
        /\ \A i \in 1..Len(calls) : calls'[i].op = calls[i].op
        /\ calls'[Len(calls)].reply = reply
    BY <2>2, <2>3, LastAnswered
  <2>5. /\ Len(calls') = 1 /\ calls'[1].op = "get" /\ calls'[1].reply = reply
    BY <2>2, <2>4
  <2>6. Provenance'
    BY <2>3, UnbuiltStep
  <2>7. QED
    BY <2>2, <2>3, <2>4, <2>5, <2>6 DEF IInv, Places, Conversation, Custody
<1>4. CASE FailPage
  <2>1. pc = "page" /\ calls[1].reply \in PageReplies
    <3>1. pc = "page" /\ Len(calls) = 1
      BY <1>4 DEF FailPage, IInv, Conversation
    <3>2. calls # << >>
      BY <3>1
    <3>3. QED
      BY <3>1, <3>2 DEF IInv, Conversation
  <2>2. PICK e \in ResolverErrors : ReturnError(e)
    BY <1>0, <1>4, <2>1, ReplyTables DEF FailPage
  <2>3. QED
    BY <1>4, <2>1, <2>2, ErrorStep DEF FailPage
<1>5. CASE CopySecret
  <2>1. /\ pc = "page" /\ pc' = "state" /\ secret' = "ephemeral"
        /\ UNCHANGED <<source, calls, response, outcome>>
        /\ Len(calls) = 1 /\ calls # << >> /\ Usable(calls[1].reply)
    BY <1>5 DEF CopySecret, IInv, Conversation
  <2>2. Provenance'
    BY <2>1, UnbuiltStep
  <2>3. QED
    BY <2>1, <2>2 DEF IInv, Places, Conversation, Custody
<1>6. CASE RefuseToken
  BY <1>0, <1>6, ErrorStep DEF RefuseToken
<1>7. CASE BuildGraphql
  <2>1. /\ pc = "state" /\ pc' = "built" /\ secret' = "call"
        /\ UNCHANGED <<source, calls, response, outcome>>
        /\ Len(calls) = 1 /\ Usable(calls[1].reply)
    BY <1>7 DEF BuildGraphql, IInv, Conversation
  <2>2. Provenance'
    BY <2>1, UnbuiltStep
  <2>3. QED
    BY <2>1, <2>2 DEF IInv, Places, Conversation, Custody
<1>8. CASE SendGraphql
  <2>1. /\ calls' = Append(calls, [op |-> "graphql", reply |-> Pending])
        /\ calls \in Seq(Calls) /\ Len(calls) = 1 /\ calls # << >>
        /\ pc = "built" /\ pc' = "await_graphql"
        /\ UNCHANGED <<source, secret, response, outcome>>
    BY <1>8 DEF SendGraphql, CallHost, IInv, Conversation
  <2>2. /\ calls' \in Seq(Calls) /\ Len(calls') = 2 /\ calls' # << >>
        /\ calls'[1] = calls[1] /\ calls'[2] = [op |-> "graphql", reply |-> Pending]
    BY <2>1, CallsGrow
  <2>3. Provenance'
    BY <2>1, UnbuiltStep
  <2>4. QED
    BY <2>1, <2>2, <2>3 DEF IInv, Places, Conversation, Custody
<1>9. CASE \E reply \in GraphqlReplies : GraphqlReturns(reply)
  <2>1. PICK reply \in GraphqlReplies : GraphqlReturns(reply)
    BY <1>9
  <2>2. calls \in Seq(Calls) /\ Len(calls) = 2 /\ calls # << >>
    <3>1. calls \in Seq(Calls) /\ Len(calls) = 2
      BY <2>1 DEF GraphqlReturns, IInv, Conversation
    <3>2. QED
      BY <3>1
  <2>3. /\ calls[1].op = "get" /\ calls[2].op = "graphql" /\ outcome = Pending
        /\ Usable(calls[1].reply) /\ calls[1].reply \in PageReplies
    BY <2>1, <2>2 DEF GraphqlReturns, IInv, Conversation
  <2>4. /\ calls' = [calls EXCEPT ![Len(calls)].reply = reply]
        /\ pc = "await_graphql" /\ pc' = "graphql" /\ secret' = "wiped"
        /\ UNCHANGED <<source, response, outcome>>
    BY <2>1 DEF GraphqlReturns, HostReturns
  <2>5. /\ calls' \in Seq(Calls) /\ Len(calls') = 2 /\ calls' # << >>
        /\ calls'[1] = calls[1]
        /\ calls'[2].op = "graphql" /\ calls'[2].reply = reply
    <3>1. /\ calls' \in Seq(Calls) /\ Len(calls') = Len(calls)
          /\ calls'[Len(calls)].reply = reply
          /\ \A i \in 1..Len(calls) : /\ calls'[i].op = calls[i].op
                                      /\ i # Len(calls) => calls'[i] = calls[i]
      BY <2>2, <2>4, LastAnswered
    <3>2. calls'[1] = calls[1] /\ calls'[2].op = calls[2].op
      BY <2>2, <3>1
    <3>3. QED
      BY <2>2, <2>3, <3>1, <3>2
  <2>6. Provenance'
    BY <2>4, UnbuiltStep
  <2>7. Conversation'
    BY <2>3, <2>4, <2>5 DEF Conversation
  <2>8. Custody'
    BY <2>3, <2>4, <2>5 DEF Custody
  <2>9. QED
    BY <2>4, <2>6, <2>7, <2>8 DEF IInv, Places
<1>10. CASE FailGraphql
  <2>1. pc = "graphql" /\ calls[2].reply \in GraphqlReplies
    BY <1>10 DEF FailGraphql, IInv, Conversation
  <2>2. RetrievalError(calls[2].reply) \in ResolverErrors
    BY <1>10, <2>1, ReplyTables DEF FailGraphql
  <2>3. QED
    BY <1>10, <2>1, <2>2, ErrorStep DEF FailGraphql
<1>11. CASE MapGraphql
  <2>1. pc = "graphql" /\ calls[2].reply \in GraphqlReplies
    BY <1>11 DEF MapGraphql, IInv, Conversation
  <2>2. Graphql.item \in Items
    BY <1>11, <2>1, ReplyTables DEF MapGraphql, Graphql, GraphqlBodies
  <2>3. QED
    BY <1>11, <2>1, <2>2, MapType, BuildStep DEF MapGraphql, Sourced
<1>12. CASE RefuseGraphql
  BY <1>0, <1>12, ErrorStep DEF RefuseGraphql
<1>13. CASE MapRelay
  <2>1. /\ pc = "graphql" /\ calls # << >> /\ Usable(calls[1].reply)
        /\ calls[1].reply \in PageReplies
    <3>1. pc = "graphql" /\ Len(calls) = 2 /\ Usable(calls[1].reply)
      BY <1>13 DEF MapRelay, IInv, Conversation
    <3>2. calls # << >>
      BY <3>1
    <3>3. QED
      BY <3>1, <3>2 DEF IInv, Conversation
  <2>2. Page.relay.item \in Items
    BY <2>1, ReplyTables DEF Page, PageBodies
  <2>3. QED
    BY <1>13, <2>1, <2>2, MapType, BuildStep DEF MapRelay, FallsBack, Sourced
<1>14. CASE RefuseRelay
  BY <1>0, <1>14, ErrorStep DEF RefuseRelay
<1>15. CASE Return
  <2>1. pc = "validate" /\ Sourced(response) /\ Usable(calls[2].reply)
    BY <1>15 DEF Return, IInv, Conversation, Provenance
  <2>2. CASE ReturnError(malformed)
    <3>1. GraphqlOk(Graphql) \/ FallsBack
      BY <2>1 DEF Sourced
    <3>2. QED
      BY <1>0, <1>15, <2>1, <2>2, <3>1, ErrorStep DEF Return
  <2>3. CASE /\ validate_response(response) /\ pc' = "done"
             /\ outcome' = [kind |-> "response", response |-> response]
    <3>1. UNCHANGED <<source, calls, secret, response>>
      BY <1>15 DEF Return
    <3>2. Conversation' /\ Custody'
      BY <2>1, <2>3, <3>1 DEF IInv, Conversation, Custody
    <3>3. Sourced(response)' /\ outcome' \in Outcomes
      BY <2>1, <2>3, <3>1 DEF IInv, Provenance, Outcomes, Sourced, FallsBack, Graphql, Page
    <3>4. Len(calls) = 2
      BY <2>1 DEF IInv, Conversation
    <3>5. Provenance'
      BY <2>1, <2>3, <3>1, <3>3, <3>4 DEF IInv, Provenance, Sourced
    <3>6. QED
      BY <2>3, <3>1, <3>2, <3>5 DEF IInv, Places
  <2>4. QED
    BY <1>15, <2>2, <2>3 DEF Return
<1>16. CASE UNCHANGED vars
  BY <1>16 DEF vars, IInv, Conversation, Custody, Provenance, Sourced, FallsBack,
     Graphql, Page
<1>17. QED
  BY <1>1, <1>2, <1>3, <1>4, <1>5, <1>6, <1>7, <1>8, <1>9, <1>10, <1>11, <1>12, <1>13,
     <1>14, <1>15, <1>16 DEF Next, Terminated

\* The invariant holds in every reachable state.
LEMMA SpecIInv == Spec => []IInv
BY InitIInv, NextIInv, PTL DEF Spec

------------------------------------------------------------------------------
\* The call's state keeps its type, whatever the items and answers.
THEOREM TypeCorrect == Spec => []TypeOK
<1>1. IInv => TypeOK
  <2>1. ASSUME IInv PROVE Len(calls) <= 2
    <3>1. calls = << >> => Len(calls) = 0
      OBVIOUS
    <3>2. Len(calls) \in {0, 1, 2}
      BY <2>1, <3>1 DEF IInv, Places, Conversation
    <3>3. \A n \in {0, 1, 2} : n <= 2
      OBVIOUS
    <3>4. QED
      BY <3>2, <3>3, Zenon
  <2>2. ASSUME IInv PROVE secret \in {"none", "ephemeral", "call", "wiped"}
    BY <2>2 DEF IInv, Places, Custody
  <2>3. QED
    BY <2>1, <2>2 DEF IInv, Places, Conversation, Provenance, TypeOK, Calls, Outcomes,
       ResolverErrors
<1>2. QED
  BY <1>1, SpecIInv, PTL

\* The lsd token is copied only from a usable page, is held by the call only until
\* the host answers it, and is wiped on every way out of resolve.
THEOREM TokenDies == Spec => []TokenDiesWithItsCall
<1>1. ASSUME IInv PROVE TokenDiesWithItsCall
  <2>1. secret \in {"ephemeral", "call"} => pc \in {"state", "built", "await_graphql"}
    BY <1>1 DEF IInv, Places, Custody
  <2>2. Len(calls) = 2 => (calls[2].reply = Pending <=> pc = "await_graphql")
    BY <1>1, ReplyTables DEF IInv, Conversation
  <2>3. QED
    BY <1>1, <2>1, <2>2 DEF IInv, Custody, TokenDiesWithItsCall
<1>2. QED
  BY <1>1, SpecIInv, PTL

\* What GraphQL says of a private, unavailable or gated item is the last word: the
\* Relay script is read only where GraphQL was malformed.
THEOREM RefusalStands == Spec => []RefusalIsFinal
<1>1. ASSUME IInv PROVE RefusalIsFinal
  <2>1. SUFFICES ASSUME pc = "done", Len(calls) = 2, Usable(calls[2].reply), Graphql.media
                 PROVE  /\ Graphql.is_private =>
                             outcome = [kind |-> "error", error |-> private]
                        /\ ~Graphql.is_private /\ Graphql.is_unavailable =>
                             outcome = [kind |-> "error", error |-> unavailable]
                        /\ ~Graphql.is_private /\ ~Graphql.is_unavailable /\ Graphql.gated =>
                             \/ outcome = [kind |-> "error", error |-> private]
                             \/ GraphqlOk(Graphql)
    BY DEF RefusalIsFinal
  <2>2. \/ GraphqlOk(Graphql) \/ FallsBack
        \/ outcome = [kind |-> "error", error |-> GraphqlError(Graphql)]
    BY <1>1, <2>1 DEF IInv, Provenance
  <2>3. Graphql \in GraphqlBodies
    <3>1. calls[2].reply \in GraphqlReplies
      BY <1>1, <2>1 DEF IInv, Conversation
    <3>2. QED
      BY <2>1, <3>1, ReplyTables DEF Graphql
  <2>4. /\ Graphql.is_private => GraphqlError(Graphql) = private
        /\ ~Graphql.is_private /\ Graphql.is_unavailable =>
             GraphqlError(Graphql) = unavailable
        /\ ~Graphql.is_private /\ ~Graphql.is_unavailable /\ Graphql.gated =>
             GraphqlError(Graphql) = private
    BY <2>1, <2>3 DEF GraphqlBodies, GraphqlError
  <2>5. FallsBack => ~GraphqlOk(Graphql) /\ GraphqlError(Graphql).kind = "MalformedResponse"
    BY DEF FallsBack
  <2>6. QED
    BY <2>2, <2>4, <2>5 DEF GraphqlOk, private, unavailable, ResolverError
<1>2. QED
  BY <1>1, SpecIInv, PTL

\* A response is read from answers the host gave for addresses the SDK admits, and
\* delivers the item's whole carousel, each child under its own URL, or its video.
THEOREM CarouselHolds == Spec => []CarouselIsWhole
<1>1. ASSUME IInv PROVE CarouselIsWhole
  <2>1. SUFFICES ASSUME outcome.kind = "response"
                 PROVE  CarouselIsWhole
    BY DEF CarouselIsWhole
  <2>2. /\ Len(calls) = 2 /\ calls \in Seq(Calls) /\ pc = "done"
        /\ Usable(calls[1].reply) /\ Usable(calls[2].reply)
        /\ calls[2].reply \in GraphqlReplies
        /\ Sourced(response) /\ validate_response(response)
        /\ outcome.response = response
    BY <1>1, <2>1 DEF IInv, Provenance, Conversation
  <2>3. calls # << >>
    BY <2>2
  <2>4. calls[1].reply \in PageReplies
    BY <1>1, <2>2, <2>3 DEF IInv, Conversation
  <2>5. \A k \in 1..2 : calls[k].reply.final_url # "elsewhere"
    <3>1. /\ calls[1].reply.final_url # "elsewhere"
          /\ calls[2].reply.final_url # "elsewhere"
      BY <2>2, <2>4, ReplyTables
    <3>2. \A k \in 1..2 : k = 1 \/ k = 2
      OBVIOUS
    <3>3. QED
      BY <3>1, <3>2
  <2>6. PICK item \in {Graphql.item, Page.relay.item} :
          item \in Items /\ selected_payload_ok(item) /\ response = map(item)
    <3>1. Graphql.item \in Items /\ Page.relay.item \in Items
      BY <2>2, <2>4, ReplyTables DEF Graphql, Page, GraphqlBodies, PageBodies
    <3>2. QED
      BY <2>2, <3>1 DEF Sourced, GraphqlOk, RelayOk
  <2>7. ToSet(response.streams) \subseteq SafeUrls
    <3>1. response.streams \in Seq(Urls)
      BY <1>1 DEF IInv, Provenance, ResolveResponses
    <3>2. \A i \in 1..Len(response.streams) : response.streams[i] \in SafeUrls
      BY <2>2 DEF validate_response
    <3>3. QED
      BY <3>1, <3>2 DEF ToSet
  <2>8. CASE item.carousel
    <3> DEFINE n == Len(item.children)
               streams == [i \in 1..n |-> item.children[i].url]
    <3>1. item.children \in Seq(Nodes) /\ n \in Nat
      BY <2>6 DEF Items
    <3>2. response.streams = streams
      BY <2>6, <2>8 DEF map
    <3>3. Len(streams) = n /\ \A i \in 1..n : streams[i] = item.children[i].url
      BY <3>1
    <3>4. \A i, j \in 1..n : i # j => streams[i] # streams[j]
      BY <2>6, <2>8, <3>3 DEF selected_payload_ok, ChildrenOk
    <3>5. streams \in Bijection(1..n, ToSet(streams))
      BY <3>1, <3>4 DEF Bijection, Injection, Surjection, IsInjective, ToSet
    <3>6. Cardinality(ToSet(streams)) = n
      BY <3>1, <3>5, FS_CountingElements DEF ExistsBijection
    <3>7. QED
      BY <2>2, <2>5, <2>6, <2>7, <2>8, <3>2, <3>3, <3>6 DEF CarouselIsWhole
  <2>9. CASE ~item.carousel
    <3>1. response.streams = IF item.root.video THEN <<item.root.url>> ELSE << >>
      BY <2>6, <2>9 DEF map
    <3>2. QED
      BY <2>2, <2>5, <2>6, <2>7, <2>9, <3>1 DEF CarouselIsWhole
  <2>10. QED
    BY <2>8, <2>9
<1>2. QED
  BY <1>1, SpecIInv, PTL

------------------------------------------------------------------------------
(* The refinement: Asked and Verdict, seen through the calls and the outcome. *)

Askings == [op : {"get", "graphql"},
            answer : {"none", "success", "transient", "refused"}]

\* The contract's view has one element per call, with the class of its answer.
LEMMA AskedShape ==
  ASSUME calls \in Seq(Calls)
  PROVE  /\ Asked \in Seq(Askings) /\ Len(Asked) = Len(calls) /\ Len(calls) \in Nat
         /\ \A i \in 1..Len(calls) :
              Asked[i] = [op |-> calls[i].op, answer |-> AnswerClass(calls[i].reply)]
<1>1. Len(calls) \in Nat /\ \A i \in 1..Len(calls) : calls[i] \in Calls
  OBVIOUS
<1>2. \A r : AnswerClass(r) \in {"none", "success", "transient", "refused"}
  BY DEF AnswerClass
<1>3. \A i \in 1..Len(calls) :
        [op |-> calls[i].op, answer |-> AnswerClass(calls[i].reply)] \in Askings
  BY <1>1, <1>2 DEF Calls, Askings
<1>4. Asked \in [1..Len(calls) -> Askings]
  BY <1>3 DEF Asked
<1>5. QED
  BY <1>1, <1>4 DEF Asked

\* A step that changes no call and not the outcome is a stutter of the contract.
LEMMA StutterStep ==
  ASSUME UNCHANGED <<calls, outcome>>
  PROVE  UNCHANGED <<Asked, Verdict>>
BY DEF Asked, Verdict

\* A call to the host is an Ask: every earlier answer was usable.
LEMMA AskStep ==
  ASSUME calls \in Seq(Calls), NEW op \in {"get", "graphql"},
         calls' = Append(calls, [op |-> op, reply |-> Pending]),
         outcome = Pending, outcome' = Pending,
         \/ op = "get" /\ Len(calls) = 0
         \/ op = "graphql" /\ Len(calls) = 1 /\ calls[1].reply \in PageReplies
                           /\ Usable(calls[1].reply)
  PROVE  Contract!Ask
<1> DEFINE asking == [op |-> op, answer |-> "none"]
<1>1. /\ Asked \in Seq(Askings) /\ Len(Asked) = Len(calls) /\ Len(calls) \in Nat
      /\ \A i \in 1..Len(calls) :
           Asked[i] = [op |-> calls[i].op, answer |-> AnswerClass(calls[i].reply)]
  BY AskedShape
<1>2. /\ calls' \in Seq(Calls) /\ Len(calls') = Len(calls) + 1
      /\ \A i \in 1..Len(calls) : calls'[i] = calls[i]
      /\ calls'[Len(calls) + 1] = [op |-> op, reply |-> Pending]
  BY <1>1, CallsGrow
<1>3. /\ Asked' = [i \in 1..Len(calls') |->
                    [op |-> calls'[i].op, answer |-> AnswerClass(calls'[i].reply)]]
      /\ AnswerClass(Pending) = "none"
  BY DEF Asked, AnswerClass
<1>4. /\ asking \in Askings
      /\ Append(Asked, asking) \in Seq(Askings)
      /\ Len(Append(Asked, asking)) = Len(calls) + 1
      /\ \A i \in 1..Len(calls) : Append(Asked, asking)[i] = Asked[i]
      /\ Append(Asked, asking)[Len(calls) + 1] = asking
  <2>1. asking \in Askings
    BY DEF Askings
  <2>2. QED
    BY <1>1, <2>1, AppendProperties
<1>5. Asked' = Append(Asked, asking)
  <2>1. \A i \in 1..(Len(calls) + 1) : i \in 1..Len(calls) \/ i = Len(calls) + 1
    BY <1>1
  <2>2. \A i \in 1..(Len(calls) + 1) :
          Append(Asked, asking)[i]
            = [op |-> calls'[i].op, answer |-> AnswerClass(calls'[i].reply)]
    BY <1>1, <1>2, <1>3, <1>4, <2>1
  <2>3. Append(Asked, asking) =
          [i \in 1..(Len(calls) + 1) |-> Append(Asked, asking)[i]]
    BY <1>1, <1>4
  <2>4. QED
    BY <1>2, <1>3, <2>2, <2>3
<1>6. /\ \A i \in 1..Len(Asked) : Asked[i].answer = "success"
      /\ Len(Asked) < 2 /\ op = <<"get", "graphql">>[Len(Asked) + 1]
  <2>1. CASE op = "get" /\ Len(calls) = 0
    BY <1>1, <2>1
  <2>2. CASE /\ op = "graphql" /\ Len(calls) = 1 /\ calls[1].reply \in PageReplies
             /\ Usable(calls[1].reply)
    <3>1. Len(Asked) = 1 /\ Asked[1].answer = AnswerClass(calls[1].reply)
      BY <1>1, <2>2
    <3>2. AnswerClass(calls[1].reply) = "success"
      BY <2>2, ReplyTables
    <3>3. QED
      BY <2>2, <3>1, <3>2
  <2>3. QED
    BY <2>1, <2>2
<1>7. Verdict = "pending" /\ Verdict' = "pending"
  BY DEF Verdict, Pending
<1>8. QED
  BY <1>5, <1>6, <1>7 DEF Contract!Ask, Contract!AllSucceeded

\* The host's answer is an Answer of the class the contract gives it.
LEMMA AnswerStep ==
  ASSUME calls \in Seq(Calls), NEW reply \in PageReplies \cup GraphqlReplies,
         calls # << >>, calls[Len(calls)].reply = Pending,
         calls' = [calls EXCEPT ![Len(calls)].reply = reply],
         UNCHANGED outcome
  PROVE  \E a \in Contract!Answers : Contract!Answer(a)
<1> DEFINE n == Len(calls)
<1>1. /\ Asked \in Seq(Askings) /\ Len(Asked) = n /\ n \in Nat
      /\ \A i \in 1..n :
           Asked[i] = [op |-> calls[i].op, answer |-> AnswerClass(calls[i].reply)]
  BY AskedShape
<1>2. n \in 1..n
  BY <1>1
<1>3. /\ Len(calls') = n
      /\ \A i \in 1..n : /\ calls'[i].op = calls[i].op
                          /\ i # n => calls'[i] = calls[i]
      /\ calls'[n].reply = reply
  BY <1>1, LastAnswered
<1>4. Asked' = [i \in 1..n |->
                 [op |-> calls'[i].op, answer |-> AnswerClass(calls'[i].reply)]]
  BY <1>3 DEF Asked
<1>5. Asked[n].answer = "none"
  <2>1. Asked[n] = [op |-> calls[n].op, answer |-> AnswerClass(calls[n].reply)]
    BY <1>1, <1>2
  <2>2. AnswerClass(calls[n].reply) = "none"
    BY DEF AnswerClass
  <2>3. QED
    BY <2>1, <2>2
<1>6. Asked' = [Asked EXCEPT ![n].answer = AnswerClass(reply)]
  <2>1. Asked = [i \in 1..n |->
                  [op |-> calls[i].op, answer |-> AnswerClass(calls[i].reply)]]
    BY DEF Asked
  <2>2. \A i \in 1..n : i # n =>
          Asked'[i] = [op |-> calls[i].op, answer |-> AnswerClass(calls[i].reply)]
    BY <1>3, <1>4
  <2>3. Asked'[n] = [op |-> calls[n].op, answer |-> AnswerClass(reply)]
    BY <1>2, <1>3, <1>4
  <2>4. QED
    BY <1>2, <1>4, <2>1, <2>2, <2>3
<1>7. AnswerClass(reply) \in Contract!Answers
  BY ReplyTables DEF Contract!Answers
<1>8. Verdict' = Verdict
  BY DEF Verdict
<1>9. Asked # << >>
  BY <1>1, <1>2
<1>10. QED
  BY <1>1, <1>5, <1>6, <1>7, <1>8, <1>9 DEF Contract!Answer

\* An error return is a Fail, if it invites a retry exactly when the last answer was
\* transient, where there is one, and the ones before it were usable.
LEMMA FailureStep ==
  ASSUME calls \in Seq(Calls), NEW e, outcome = Pending, ReturnError(e), UNCHANGED calls,
         \/ Len(calls) = 0 /\ ~e.retryable
         \/ /\ Len(calls) = 1 /\ calls[1].reply \in PageReplies
            /\ e.retryable <=> AnswerClass(calls[1].reply) = "transient"
         \/ /\ Len(calls) = 2 /\ calls[1].reply \in PageReplies /\ Usable(calls[1].reply)
            /\ calls[2].reply \in GraphqlReplies
            /\ e.retryable <=> AnswerClass(calls[2].reply) = "transient"
  PROVE  Contract!Fail
<1>1. Asked' = Asked /\ Len(Asked) = Len(calls)
      /\ \A i \in 1..Len(calls) :
           Asked[i] = [op |-> calls[i].op, answer |-> AnswerClass(calls[i].reply)]
  BY AskedShape DEF Asked
<1>2. Verdict = "pending" /\ Verdict' = IF e.retryable THEN "retryable" ELSE "final"
  BY DEF Verdict, Pending, ReturnError
<1>3. /\ \A i \in 1..Len(Asked) : Asked[i].answer # "none"
      /\ e.retryable <=> \E i \in 1..Len(Asked) : Asked[i].answer = "transient"
  <2>1. CASE Len(calls) = 0 /\ ~e.retryable
    BY <1>1, <2>1
  <2>2. CASE /\ Len(calls) = 1 /\ calls[1].reply \in PageReplies
             /\ e.retryable <=> AnswerClass(calls[1].reply) = "transient"
    <3>1. Len(Asked) = 1 /\ Asked[1].answer = AnswerClass(calls[1].reply)
      BY <1>1, <2>2
    <3>2. AnswerClass(calls[1].reply) # "none"
      BY <2>2, ReplyTables
    <3>3. QED
      BY <2>2, <3>1, <3>2
  <2>3. CASE /\ Len(calls) = 2 /\ calls[1].reply \in PageReplies
             /\ Usable(calls[1].reply) /\ calls[2].reply \in GraphqlReplies
             /\ e.retryable <=> AnswerClass(calls[2].reply) = "transient"
    <3>1. /\ Len(Asked) = 2 /\ Asked[1].answer = AnswerClass(calls[1].reply)
          /\ Asked[2].answer = AnswerClass(calls[2].reply)
      BY <1>1, <2>3
    <3>2. AnswerClass(calls[1].reply) = "success" /\ AnswerClass(calls[2].reply) # "none"
      BY <2>3, ReplyTables
    <3>3. QED
      BY <2>3, <3>1, <3>2
  <2>4. QED
    BY <2>1, <2>2, <2>3
<1>4. QED
  BY <1>1, <1>2, <1>3 DEF Contract!Fail

\* Every step of the call is a step of the contract or a stutter.
LEMMA StepRefines ==
  ASSUME IInv, [Next]_vars
  PROVE  [Contract!Next]_<<Asked, Verdict>>
<1>0. /\ calls \in Seq(Calls) /\ (pc # "done" => outcome = Pending)
      /\ pc = "page" => Len(calls) = 1 /\ calls[1].reply \in PageReplies
      /\ pc \in {"state", "built"} =>
           Len(calls) = 1 /\ calls[1].reply \in PageReplies /\ Usable(calls[1].reply)
      /\ pc \in {"graphql", "validate"} =>
           /\ Len(calls) = 2 /\ calls[1].reply \in PageReplies
           /\ Usable(calls[1].reply) /\ calls[2].reply \in GraphqlReplies
  <2>1. calls = << >> => Len(calls) = 0
    OBVIOUS
  <2>2. calls # << >> /\ pc # "await_page" => calls[1].reply \in PageReplies
    BY DEF IInv, Conversation
  <2>3. QED
    BY <2>1, <2>2 DEF IInv, Conversation
<1>1. \A body : ~GraphqlError(body).retryable
  BY DEF GraphqlError, ResolverError, malformed, private, unavailable
<1>2. ~malformed.retryable /\ ~invalid_input.retryable
  BY DEF ResolverError, malformed, invalid_input
<1>3. CASE RejectSource
  <2>1. Len(calls) = 0 /\ pc = "classify"
    BY <1>3 DEF RejectSource, IInv, Conversation
  <2>2. QED
    BY <1>0, <1>2, <1>3, <2>1, FailureStep DEF RejectSource, Contract!Next
<1>4. CASE SendGet
  <2>1. Len(calls) = 0 /\ outcome = Pending
    BY <1>0, <1>4 DEF SendGet, IInv, Conversation
  <2>2. QED
    BY <1>0, <1>4, <2>1, AskStep DEF SendGet, CallHost, Contract!Next
<1>5. CASE \E reply \in PageReplies : PageReturns(reply)
  <2>1. Len(calls) = 1 /\ calls[Len(calls)].reply = Pending
    BY <1>5 DEF PageReturns, IInv, Conversation
  <2>2. calls # << >>
    BY <2>1
  <2>3. QED
    BY <1>0, <1>5, <2>1, <2>2, AnswerStep DEF PageReturns, HostReturns, Contract!Next
<1>6. CASE FailPage
  <2>1. PICK e : /\ ReturnError(e) /\ UNCHANGED calls
                 /\ e.retryable <=> AnswerClass(calls[1].reply) = "transient"
    BY <1>0, <1>2, <1>6, ReplyTables DEF FailPage
  <2>2. pc = "page"
    BY <1>6 DEF FailPage
  <2>3. QED
    BY <1>0, <2>1, <2>2, FailureStep DEF Contract!Next
<1>7. CASE RefuseToken
  <2>1. pc = "state" /\ ReturnError(malformed) /\ UNCHANGED calls
    BY <1>7 DEF RefuseToken
  <2>2. AnswerClass(calls[1].reply) = "success"
    BY <1>0, <2>1, ReplyTables
  <2>3. QED
    BY <1>0, <1>2, <2>1, <2>2, FailureStep DEF Contract!Next
<1>8. CASE CopySecret \/ BuildGraphql \/ MapGraphql \/ MapRelay \/ UNCHANGED vars
  BY <1>8, StutterStep DEF CopySecret, BuildGraphql, MapGraphql, MapRelay, Build, vars
<1>9. CASE SendGraphql
  BY <1>0, <1>9, AskStep DEF SendGraphql, CallHost, Contract!Next
<1>10. CASE \E reply \in GraphqlReplies : GraphqlReturns(reply)
  <2>1. Len(calls) = 2 /\ calls[Len(calls)].reply = Pending
    BY <1>10 DEF GraphqlReturns, IInv, Conversation
  <2>2. calls # << >>
    BY <2>1
  <2>3. QED
    BY <1>0, <1>10, <2>1, <2>2, AnswerStep
       DEF GraphqlReturns, HostReturns, Contract!Next
<1>11. CASE FailGraphql
  <2>1. pc = "graphql" /\ ReturnError(RetrievalError(calls[2].reply)) /\ UNCHANGED calls
    BY <1>11 DEF FailGraphql
  <2>2. RetrievalError(calls[2].reply).retryable
          <=> AnswerClass(calls[2].reply) = "transient"
    BY <1>0, <1>11, ReplyTables DEF FailGraphql
  <2>3. QED
    BY <1>0, <2>1, <2>2, FailureStep DEF Contract!Next
<1>12. CASE RefuseGraphql \/ RefuseRelay
  <2>1. PICK e : /\ ReturnError(e) /\ UNCHANGED calls /\ ~e.retryable
                 /\ pc = "graphql" /\ Usable(calls[2].reply)
    BY <1>1, <1>2, <1>12 DEF RefuseGraphql, RefuseRelay, FallsBack
  <2>2. AnswerClass(calls[2].reply) = "success"
    BY <1>0, <2>1, ReplyTables
  <2>3. QED
    BY <1>0, <2>1, <2>2, FailureStep DEF Contract!Next
<1>13. CASE Return
  <2>1. pc = "validate" /\ Usable(calls[2].reply) /\ UNCHANGED calls
    BY <1>13 DEF Return, IInv, Conversation
  <2>2. /\ AnswerClass(calls[1].reply) = "success"
        /\ AnswerClass(calls[2].reply) = "success"
    BY <1>0, <2>1, ReplyTables
  <2>3. CASE ReturnError(malformed)
    BY <1>0, <1>2, <2>1, <2>2, <2>3, FailureStep DEF Contract!Next
  <2>4. CASE outcome' = [kind |-> "response", response |-> response]
    <3>1. Verdict = "pending" /\ Verdict' = "delivered" /\ Asked' = Asked
      BY <1>0, <2>1, <2>4 DEF Verdict, Pending, Asked
    <3>2. Len(Asked) = 2 /\ \A i \in 1..Len(Asked) : Asked[i].answer = "success"
      <4>1. Len(calls) = 2
        BY <1>0, <2>1
      <4>2. /\ Len(Asked) = 2 /\ Asked[1].answer = AnswerClass(calls[1].reply)
            /\ Asked[2].answer = AnswerClass(calls[2].reply)
        BY <1>0, <4>1, AskedShape
      <4>3. \A i \in 1..2 : i = 1 \/ i = 2
        OBVIOUS
      <4>4. QED
        BY <2>2, <4>2, <4>3
    <3>3. Asked # << >>
      BY <3>2
    <3>4. QED
      BY <3>1, <3>2, <3>3 DEF Contract!Next, Contract!Deliver, Contract!AllSucceeded
  <2>5. QED
    BY <1>13, <2>3, <2>4 DEF Return
<1>14. QED
  BY <1>3, <1>4, <1>5, <1>6, <1>7, <1>8, <1>9, <1>10, <1>11, <1>12, <1>13
     DEF Next, Terminated

\* A resolve call of the Instagram plugin asks for at most one GET and one GraphQL
\* POST, the second only after the first succeeded, delivers only on successes, and
\* invites a retry exactly when the answer that stopped it may pass.
THEOREM KeepsContract == Spec => KeepsResolveContract
<1>1. Init => Contract!Init
  BY DEF Init, Contract!Init, Asked, Verdict, Pending
<1>2. IInv /\ [Next]_vars => [Contract!Next]_<<Asked, Verdict>>
  BY StepRefines
<1>3. QED
  BY <1>1, <1>2, SpecIInv, PTL DEF Spec, KeepsResolveContract, Contract!Spec, Contract!vars
==============================================================================
