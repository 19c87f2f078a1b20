-------------------------- MODULE InstagramSession --------------------------
(***************************************************************************)
(* One resolve call of the Instagram plugin (plugins/instagram/src) in the *)
(* wasm build: a GET of the canonical page for its lsd token and optional  *)
(* Relay script, then a public GraphQL POST that carries the token. When   *)
(* the GraphQL body is malformed, and only then, the Relay script is read  *)
(* instead.                                                                *)
(***************************************************************************)
EXTENDS SdkHttps, SequencesExt

CONSTANTS PageReplies,     \* what the host may answer to the GET
          GraphqlReplies   \* what it may answer to the POST

\* classify_url rejects the source, or makes it a canonical page URL that the
\* SDK's GET gate admits.
Sources == {"rejected", "canonical"}

\* A node of an item: whether it parses, its kind and the URL it would stream.
Nodes == [ok : BOOLEAN, video : BOOLEAN, url : Urls]

\* An item: its own node, its carousel when it has one, the text that becomes
\* its author, and whether its other metadata parses.
Items == [root : Nodes, carousel : BOOLEAN, children : Seq(Nodes),
          author : {"none", "clean", "control", "overlong"}, metadata : BOOLEAN]

\* What a JSON object holds where an item is looked for.
Held == {"item", "nothing"}

\* The page: whether it is UTF-8, whether its eqmc script is the only one, closed,
\* within bounds and an object, what the token in it is worth, and the Relay
\* script: absent (or ambiguous, oversized or no object), or an object with or
\* without a media item.
PageBodies ==
  [utf8 : BOOLEAN, eqmc : BOOLEAN,
   token : {"absent", "refused", "good"},
   relay : [present : BOOLEAN, held : Held, item : Items]]

\* The GraphQL body: no JSON or no media object, a media object marked private,
\* unavailable or gated, and the item shown to a viewer who is logged out.
GraphqlBodies ==
  [media : BOOLEAN, is_private : BOOLEAN, is_unavailable : BOOLEAN,
   gated : BOOLEAN, held : Held, item : Items]

Replied(bodies) ==
  [kind : {"error"}, error : HttpsErrors]
    \cup [kind : {"response"}, status : Nat, final_url : FinalUrls,
          headers_allowed : BOOLEAN, oversized : BOOLEAN, body : bodies]

ASSUME ReplyAssumption == /\ PageReplies \subseteq Replied(PageBodies)
                          /\ GraphqlReplies \subseteq Replied(GraphqlBodies)

------------------------------------------------------------------------------
(* Reading an item (payload.rs). Any part that does not parse makes the whole *)
(* item malformed.                                                            *)

NodeOk(n) == n.ok /\ n.url \in SafeUrls

\* Seeded bug: two children with one URL are let through.
ChildrenOkDuplicates(item) ==
  item.carousel =>
    /\ Len(item.children) \in 1..Candidates
    /\ \A i \in 1..Len(item.children) : NodeOk(item.children[i])

\* Children are never truncated: too many of them, an unreadable one or two with
\* the same URL are malformed.
ChildrenOk(item) ==
  item.carousel =>
    /\ Len(item.children) \in 1..Candidates
    /\ \A i \in 1..Len(item.children) : NodeOk(item.children[i])
    /\ \A i, j \in 1..Len(item.children) :
         i # j => item.children[i].url # item.children[j].url

selected_payload_ok(item) ==
  /\ NodeOk(item.root)
  /\ item.metadata
  /\ item.author # "overlong"
  /\ ChildrenOk(item)

\* mapping::map: the carousel's nodes, images included, or the root when it is a
\* video; the metadata goes along even with an unsupported item.
map(item) ==
  LET text == IF item.author = "control" THEN "control" ELSE "clean"
  IN  IF item.carousel
      THEN [resolution |-> "candidates",
            streams |-> [i \in 1..Len(item.children) |-> item.children[i].url],
            text |-> text]
      ELSE IF item.root.video
      THEN [resolution |-> "direct", streams |-> <<item.root.url>>, text |-> text]
      ELSE [resolution |-> "unsupported", streams |-> << >>, text |-> text]

\* payload::graphql: the first of these that applies decides.
GraphqlOk(body) ==
  /\ body.media
  /\ ~body.is_private /\ ~body.is_unavailable
  /\ body.held = "item" /\ selected_payload_ok(body.item)

\* Seeded bug: a gated item that does not parse counts as malformed.
GraphqlErrorForgetsGate(body) ==
  CASE ~body.media -> malformed
    [] body.media /\ body.is_private -> private
    [] body.media /\ ~body.is_private /\ body.is_unavailable -> unavailable
    [] OTHER -> malformed

GraphqlError(body) ==
  CASE ~body.media -> malformed
    [] body.media /\ body.is_private -> private
    [] body.media /\ ~body.is_private /\ body.is_unavailable -> unavailable
    [] body.media /\ ~body.is_private /\ ~body.is_unavailable ->
         IF body.gated THEN private ELSE malformed

RelayOk(relay) == relay.held = "item" /\ selected_payload_ok(relay.item)

------------------------------------------------------------------------------
VARIABLES pc,        \* where resolve_public stands
          source,    \* how the source URL fares
          calls,     \* the host calls made and their answers (history)
          secret,    \* who holds the lsd token copied out of the page
          response,  \* the response built, before the final gate
          outcome    \* what resolve returned

vars == <<pc, source, calls, secret, response, outcome>>

Pending == [kind |-> "pending"]

Init == /\ pc = "classify"
        /\ source \in Sources
        /\ calls = << >>
        /\ secret = "none"
        /\ response = unsupported_response
        /\ outcome = Pending

Page == calls[1].reply.body
Graphql == calls[2].reply.body

ReturnError(e) ==
  /\ pc' = "done"
  /\ outcome' = [kind |-> "error", error |-> e]

Build(r) ==
  /\ pc' = "validate"
  /\ response' = r
  /\ UNCHANGED <<source, calls, secret, outcome>>

CallHost(op, next) ==
  /\ calls' = Append(calls, [op |-> op, reply |-> Pending])
  /\ pc' = next
  /\ UNCHANGED <<source, secret, response, outcome>>

HostReturns(reply, next) ==
  /\ calls' = [calls EXCEPT ![Len(calls)].reply = reply]
  /\ pc' = next
  /\ UNCHANGED <<source, response, outcome>>

RejectSource ==
  /\ pc = "classify" /\ source = "rejected"
  /\ ReturnError(invalid_input)
  /\ UNCHANGED <<source, calls, secret, response>>

SendGet ==
  /\ pc = "classify" /\ source = "canonical"
  /\ CallHost("get", "await_page")

PageReturns(reply) ==
  /\ pc = "await_page"
  /\ HostReturns(reply, "page")
  /\ UNCHANGED secret

\* Transport, gate and status come first; then extract_page_state up to the copy
\* of the token.
FailPage ==
  /\ pc = "page"
  /\ \/ /\ ~Usable(calls[1].reply)
        /\ ReturnError(RetrievalError(calls[1].reply))
     \/ /\ Usable(calls[1].reply)
        /\ ~Page.utf8 \/ ~Page.eqmc \/ Page.token = "absent"
        /\ ReturnError(malformed)
  /\ UNCHANGED <<source, calls, secret, response>>

CopySecret ==
  /\ pc = "page" /\ Usable(calls[1].reply)
  /\ Page.utf8 /\ Page.eqmc /\ Page.token # "absent"
  /\ secret' = "ephemeral"
  /\ pc' = "state"
  /\ UNCHANGED <<source, calls, response, outcome>>

\* EphemeralLsd::new refuses; the value it was given is dropped and wiped.
RefuseToken ==
  /\ pc = "state" /\ Page.token = "refused"
  /\ secret' = "wiped"
  /\ ReturnError(malformed)
  /\ UNCHANGED <<source, calls, response>>

\* build_graphql_request asks of the token what EphemeralLsd::new already did, and
\* the rest of the request is fixed or decimal digits: it cannot refuse.
BuildGraphql ==
  /\ pc = "state" /\ Page.token = "good"
  /\ secret' = "call"
  /\ pc' = "built"
  /\ UNCHANGED <<source, calls, response, outcome>>

SendGraphql ==
  /\ pc = "built"
  /\ CallHost("graphql", "await_graphql")

\* Seeded bug: the call is kept by the client after the host has answered.
GraphqlReturnsKeepsCall(reply) ==
  /\ pc = "await_graphql"
  /\ HostReturns(reply, "graphql")
  /\ UNCHANGED secret

\* post_public_graphql owns the call: it is dropped, and wiped, on return.
GraphqlReturns(reply) ==
  /\ pc = "await_graphql"
  /\ secret' = "wiped"
  /\ HostReturns(reply, "graphql")

\* Seeded bug: a call that failed is sent again.
FailGraphqlRetries ==
  /\ pc = "graphql" /\ ~Usable(calls[2].reply)
  /\ pc' = "built"
  /\ UNCHANGED <<source, calls, secret, response, outcome>>

\* Seeded bug: a failed retrieval falls back to the Relay script as well.
FailGraphqlFallsBack ==
  /\ pc = "graphql" /\ ~Usable(calls[2].reply)
  /\ IF Page.relay.present /\ RelayOk(Page.relay)
     THEN Build(map(Page.relay.item))
     ELSE /\ ReturnError(RetrievalError(calls[2].reply))
          /\ UNCHANGED <<source, calls, secret, response>>

\* A retrieval that fails is final even when the page carried a Relay script.
FailGraphql ==
  /\ pc = "graphql" /\ ~Usable(calls[2].reply)
  /\ ReturnError(RetrievalError(calls[2].reply))
  /\ UNCHANGED <<source, calls, secret, response>>

MapGraphql ==
  /\ pc = "graphql" /\ Usable(calls[2].reply) /\ GraphqlOk(Graphql)
  /\ Build(map(Graphql.item))

FallsBack == /\ Usable(calls[2].reply) /\ ~GraphqlOk(Graphql)
             /\ GraphqlError(Graphql).kind = "MalformedResponse"
             /\ Page.relay.present

RefuseGraphql ==
  /\ pc = "graphql" /\ Usable(calls[2].reply) /\ ~GraphqlOk(Graphql) /\ ~FallsBack
  /\ ReturnError(GraphqlError(Graphql))
  /\ UNCHANGED <<source, calls, secret, response>>

MapRelay ==
  /\ pc = "graphql" /\ FallsBack /\ RelayOk(Page.relay)
  /\ Build(map(Page.relay.item))

RefuseRelay ==
  /\ pc = "graphql" /\ FallsBack /\ ~RelayOk(Page.relay)
  /\ ReturnError(malformed)
  /\ UNCHANGED <<source, calls, secret, response>>

Return ==
  /\ pc = "validate"
  /\ IF validate_response(response)
     THEN pc' = "done" /\ outcome' = [kind |-> "response", response |-> response]
     ELSE ReturnError(malformed)
  /\ UNCHANGED <<source, calls, secret, response>>

\* The call has returned; the component waits for no one.
Terminated == pc = "done" /\ UNCHANGED vars

Next == \/ RejectSource \/ SendGet
        \/ \E reply \in PageReplies : PageReturns(reply)
        \/ FailPage \/ CopySecret \/ RefuseToken \/ BuildGraphql \/ SendGraphql
        \/ \E reply \in GraphqlReplies : GraphqlReturns(reply)
        \/ FailGraphql \/ MapGraphql \/ RefuseGraphql \/ MapRelay \/ RefuseRelay
        \/ Return \/ Terminated

Spec == Init /\ [][Next]_vars

------------------------------------------------------------------------------
TypeOK ==
  /\ pc \in {"classify", "await_page", "page", "state", "built", "await_graphql",
             "graphql", "validate", "done"}
  /\ source \in Sources
  /\ calls \in Seq([op : {"get", "graphql"},
                    reply : {Pending} \cup PageReplies \cup GraphqlReplies])
  /\ Len(calls) <= 2
  /\ secret \in {"none", "ephemeral", "call", "wiped"}
  /\ response \in ResolveResponses
  /\ outcome \in {Pending}
                   \cup [kind : {"error"},
                         error : [kind : ResolverErrorKinds, retryable : BOOLEAN]]
                   \cup [kind : {"response"}, response : ResolveResponses]

\* The lsd token (EphemeralLsd and PublicGraphqlCall, sdk lib.rs:490-568) exists
\* only between a usable page and the answer to the one POST that carries it, and
\* is wiped on every way out, the failing ones included.
TokenDiesWithItsCall ==
  /\ secret \in {"ephemeral", "call"} => pc \in {"state", "built", "await_graphql"}
  /\ secret # "none" => calls # << >> /\ Usable(calls[1].reply)
  /\ Len(calls) = 2 =>
       secret = IF calls[2].reply = Pending THEN "call" ELSE "wiped"

\* The Relay script never overrules what GraphQL says of the item: an item that is
\* private, unavailable, or gated and unreadable is refused for good, with the kind
\* of error that says so, whatever the page still carries (fallback.rs:9-18,
\* payload.rs:157-188).
RefusalIsFinal ==
  pc = "done" /\ Len(calls) = 2 /\ Usable(calls[2].reply) /\ Graphql.media =>
    /\ Graphql.is_private =>
         outcome = [kind |-> "error", error |-> private]
    /\ ~Graphql.is_private /\ Graphql.is_unavailable =>
         outcome = [kind |-> "error", error |-> unavailable]
    /\ ~Graphql.is_private /\ ~Graphql.is_unavailable /\ Graphql.gated =>
         \/ outcome = [kind |-> "error", error |-> private]
         \/ GraphqlOk(Graphql)

\* What is delivered was read from an answer the host gave for one of the addresses
\* the SDK admits, with every stream safe and every carousel child its own URL, in
\* the order of the item: a carousel is delivered whole or not at all.
CarouselIsWhole ==
  outcome.kind = "response" =>
    \E item \in {Graphql.item, Page.relay.item} :
      LET streams == outcome.response.streams
      IN  /\ \A k \in 1..2 : calls[k].reply.final_url # "elsewhere"
          /\ IF item.carousel
             THEN /\ Len(streams) = Len(item.children)
                  /\ \A i \in 1..Len(streams) : streams[i] = item.children[i].url
                  /\ Cardinality(ToSet(streams)) = Len(streams)
             ELSE streams = IF item.root.video THEN <<item.root.url>> ELSE << >>
          /\ ToSet(streams) \subseteq SafeUrls

------------------------------------------------------------------------------
(* One resolve call keeps the contract of ResolveContract. How a host answer *)
(* counts is said here independently of the plugin's tables.                 *)

AnswerClass(reply) ==
  IF reply = Pending THEN "none"
  ELSE IF reply.kind = "error"
    THEN IF reply.error \in {"Timeout", "TransportFailure"} THEN "transient"
         ELSE "refused"
  ELSE IF ~validate_https_response(reply) THEN "refused"
  ELSE IF reply.status \in 200..299 THEN "success"
  ELSE IF reply.status = 429 \/ reply.status \in 500..599 THEN "transient"
  ELSE "refused"

Asked == [i \in 1..Len(calls) |->
            [op |-> calls[i].op, answer |-> AnswerClass(calls[i].reply)]]

Verdict == CASE outcome.kind = "pending" -> "pending"
             [] outcome.kind = "response" -> "delivered"
             [] outcome.kind = "error" ->
                  IF outcome.error.retryable THEN "retryable" ELSE "final"

Contract == INSTANCE ResolveContract
              WITH Script <- <<"get", "graphql">>, asked <- Asked,
                   verdict <- Verdict

KeepsResolveContract == Contract!Spec
==============================================================================
