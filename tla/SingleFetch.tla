----------------------------- MODULE SingleFetch -----------------------------
(***************************************************************************)
(* One resolve call of the X, the TikTok or the Bandcamp plugin            *)
(* (plugins/{x,tiktok,bandcamp}/src/retrieval.rs and lib.rs) in the wasm   *)
(* build: classify the URL, make the one GET, judge its answer, parse and  *)
(* map the page, and pass the SDK's last gate.  Bandcamp reads the clock   *)
(* before the GET, and time passes while the host works.                   *)
(***************************************************************************)
EXTENDS XPayload, TikTokPayload, BandcampPayload

CONSTANTS Plugins,   \* the plugins considered
          Pages,     \* what the host may answer to each of them
          MaxClock   \* bound on the clock

\* classify_url rejects the source, or yields a URL the SDK's GET gate admits.
Sources == {"rejected", "canonical"}

Replies(bodies) ==
  [kind : {"error"}, error : HttpsErrors]
    \cup [kind : {"response"}, status : Nat, final_url : FinalUrls,
          headers_allowed : BOOLEAN, oversized : BOOLEAN, body : bodies]

BodiesOf(plugin) == CASE plugin = "x" -> XBodies
                      [] plugin = "tiktok" -> TikTokBodies
                      [] plugin = "bandcamp" -> BandcampBodies

ASSUME SingleFetchAssumption ==
  /\ Plugins \subseteq {"x", "tiktok", "bandcamp"}
  /\ \A p \in Plugins : Pages[p] \subseteq Replies(BodiesOf(p))
  /\ MaxClock \in Nat

------------------------------------------------------------------------------
VARIABLES pc,        \* where the call stands
          plugin,    \* whose call it is
          source,    \* how the source URL fares
          clock,     \* the host's clock, in seconds
          now,       \* the time resolve_public read, only used by Bandcamp
          reply,     \* what the host answered to the GET
          response,  \* the response built, before the final gate
          outcome    \* what resolve returned

vars == <<pc, plugin, source, clock, now, reply, response, outcome>>

Pending == [kind |-> "pending"]

Init == /\ pc = "classify"
        /\ plugin \in Plugins
        /\ source \in Sources
        /\ clock = 0 /\ now = 0
        /\ reply = Pending
        /\ response = nothing_to_resolve
        /\ outcome = Pending

\* The two tables of each plugin. TikTok and Bandcamp have the same ones.
TransportError(e) ==
  IF plugin = "x" THEN x_transport(e)
  ELSE CASE e = "Timeout" -> ResolverError("Timeout", TRUE)
         [] e = "TransportFailure" -> ResolverError("UpstreamFailure", TRUE)
         [] OTHER -> malformed

\* Seeded bug: a rate limit, taken for the upstream's last word, ends the matter.
StatusErrorFinal(s) ==
  IF s \in 200..299 \/ s = 429 THEN malformed ELSE status(s)

\* A success other than 200 is malformed to X.
StatusError(s) == IF s \in 200..299 THEN malformed ELSE status(s)

Accepted(s) == IF plugin = "x" THEN x_status_ok(s) ELSE StatusOk(s)

Fetched ==
  LET checked == checked_response(reply)
  IN  checked.kind = "response" /\ Accepted(checked.status)

FetchError ==
  LET checked == checked_response(reply)
  IN  IF checked.kind = "error" THEN TransportError(checked.error)
      ELSE StatusError(checked.status)

parse_and_map(body) ==
  CASE plugin = "x" -> x_parse_and_map(body)
    [] plugin = "tiktok" -> tiktok_parse_and_map(body)
    [] plugin = "bandcamp" -> bandcamp_parse_and_map(body, now)

------------------------------------------------------------------------------
ReturnError(e) ==
  /\ pc' = "done"
  /\ outcome' = [kind |-> "error", error |-> e]
  /\ UNCHANGED <<plugin, source, clock, now, reply, response>>

RejectSource == pc = "classify" /\ source = "rejected" /\ ReturnError(invalid_input)

Get == /\ pc = "classify" /\ source = "canonical"
       /\ now' = clock
       /\ pc' = "await"
       /\ UNCHANGED <<plugin, source, clock, reply, response, outcome>>

\* The host's own deadline bounds the wait; its passing is the error Timeout.
HostReturns(r) ==
  /\ pc = "await"
  /\ reply' = r
  /\ pc' = "judge"
  /\ UNCHANGED <<plugin, source, clock, now, response, outcome>>

FailFetch == pc = "judge" /\ ~Fetched /\ ReturnError(FetchError)

Refuse ==
  /\ pc = "judge" /\ Fetched
  /\ parse_and_map(reply.body).kind = "error"
  /\ ReturnError(parse_and_map(reply.body).error)

BuildResponse ==
  /\ pc = "judge" /\ Fetched
  /\ parse_and_map(reply.body).kind = "response"
  /\ response' = parse_and_map(reply.body).response
  /\ pc' = "validate"
  /\ UNCHANGED <<plugin, source, clock, now, reply, outcome>>

Return ==
  /\ pc = "validate"
  /\ \/ /\ validate_answer(response)
        /\ pc' = "done" /\ outcome' = [kind |-> "response", response |-> response]
        /\ UNCHANGED <<plugin, source, clock, now, reply, response>>
     \/ ~validate_answer(response) /\ ReturnError(malformed)

Tick == /\ pc # "done" /\ clock < MaxClock
        /\ clock' = clock + 1
        /\ UNCHANGED <<pc, plugin, source, now, reply, response, outcome>>

\* The call has returned; the component waits for no one.
Terminated == pc = "done" /\ UNCHANGED vars

Next == \/ RejectSource \/ Get
        \/ \E r \in Pages[plugin] : HostReturns(r)
        \/ FailFetch \/ Refuse \/ BuildResponse \/ Return \/ Tick \/ Terminated

Spec == Init /\ [][Next]_vars

------------------------------------------------------------------------------
Outcomes == {Pending}
              \cup [kind : {"error"},
                    error : [kind : ResolverErrorKinds, retryable : BOOLEAN]]
              \cup [kind : {"response"}, response : MediaResponses]

\* The call's state has its type: retrieval.rs and lib.rs of the three plugins.
TypeOK ==
  /\ pc \in {"classify", "await", "judge", "validate", "done"}
  /\ plugin \in Plugins /\ source \in Sources
  /\ clock \in 0..MaxClock /\ now \in 0..clock
  /\ reply \in {Pending} \cup Pages[plugin]
  /\ response \in MediaResponses
  /\ outcome \in Outcomes

Delivered == outcome.kind = "response"
Delivers(p) == plugin = p /\ Delivered
Out == outcome.response.streams

OfferedBy(media) ==
  {media.variants[i] :
     i \in {j \in 1..Len(media.variants) :
              j <= VariantEntries /\ media.variants[j].mp4
                /\ media.variants[j].url \in VideoHostUrls}}

\* The comments of variants_of and parse (x/src/payload.rs): the answer holds
\* renditions of one attachment, the first of the bounded list that has video, best
\* bit rate at the head, and none is missing unless a delivered one at least as good
\* has its URL or its id; without such an attachment the item is unsupported.
XTakesTheBest ==
  Delivers("x") =>
    LET details == reply.body.mediaDetails
        carriers == IF details = Missing THEN {}
                    ELSE {k \in 1..Len(details) :
                            k <= MediaDetailEntries /\ OfferedBy(details[k]) # {}}
    IN  IF carriers = {} THEN outcome.response.resolution = "unsupported"
        ELSE LET k == CHOOSE c \in carriers : \A d \in carriers : c <= d
                 offered == OfferedBy(details[k])
                 taken == {v \in offered : XStream(v) \in ToSet(Out)}
             IN  /\ ToSet(Out) = {XStream(v) : v \in taken}
                 /\ \E v \in taken : /\ XStream(v) = Out[1]
                                     /\ \A w \in offered : w.bitrate <= v.bitrate
                 /\ \A w \in offered : \E v \in taken :
                      /\ v.url = w.url \/ variant_id(v) = variant_id(w)
                      /\ v.bitrate >= w.bitrate

\* The docs of parse_universal_data and map (tiktok/src): a delivered item was not
\* refused by its own detail, and of the addresses that the page's lists hold below
\* the bound of each list the answer has every CDN one once, in the order of the
\* page, with only the last ones cut off at the bound of the answer.
TikTokKeepsThePage ==
  Delivers("tiktok") =>
    LET detail == IF reply.body.universal # Missing THEN reply.body.universal
                  ELSE reply.body.api_data
        raw == Raw(detail.video)
        first(u) == CHOOSE i \in 1..Len(raw) :
                      raw[i] = u /\ \A j \in 1..(i - 1) : raw[j] # u
    IN  /\ detail.statusCode = 0
        /\ \A i \in 1..Len(Out) : Out[i].url \in CdnUrls \cap ToSet(raw)
        /\ \A i, j \in 1..Len(Out) : i < j => first(Out[i].url) < first(Out[j].url)
        /\ \A u \in CdnUrls \cap ToSet(raw) :
             \/ \E i \in 1..Len(Out) : Out[i].url = u
             \/ Len(Out) = Candidates /\ first(u) > first(Out[Candidates].url)

SameId(m, n) == (m - n) % IdRange = 0

\* Track selection and expiry (bandcamp/src/payload.rs): what is delivered are the
\* streams of the one track whose identifier is the page's current one, up to the
\* width of an integer, all of those that were not expired when the call began,
\* each once and in the order of the page.
BandcampPlaysTheCurrentTrack ==
  Delivers("bandcamp") =>
    LET body == reply.body
        named(t) == \/ t.track_id # Missing /\ SameId(t.track_id, body.current_id)
                    \/ /\ t.track_id = Missing /\ t.id # Missing
                       /\ SameId(t.id, body.current_id)
        current == {k \in 1..Len(body.trackinfo) : named(body.trackinfo[k])}
    IN  /\ Cardinality(current) = 1
        /\ LET file == body.trackinfo[CHOOSE k \in current : TRUE].file
               alive(f) == /\ f.media # ""
                           /\ parse_expiry(f.media) = Missing
                                \/ parse_expiry(f.media) > now
               at(u) == CHOOSE i \in 1..Len(file) :
                          /\ file[i].media = u
                          /\ \A j \in 1..(i - 1) : file[j].media # u
           IN  /\ {s.url : s \in ToSet(Out)} =
                    {f.media : f \in {g \in ToSet(file) : alive(g)}}
               /\ \A i, j \in 1..Len(Out) : i < j => at(Out[i].url) < at(Out[j].url)

\* The comment of decode_entities (bandcamp/src/html.rs): upstream markup is never
\* reinterpreted, so a delivered title is the one the page holds.
TitleSurvives ==
  Delivers("bandcamp") =>
    \E track \in ToSet(reply.body.trackinfo) :
      LET title == track.title
      IN  outcome.response.title =
            IF title = Missing THEN << >>
            ELSE [i \in 1..Len(title) |->
                    IF title[i] = "escaped" THEN "wide" ELSE title[i]]

------------------------------------------------------------------------------
(* One resolve call keeps the contract of ResolveContract. How a host answer *)
(* counts is said here independently of the plugins' tables.                 *)

AnswerClass ==
  IF reply = Pending THEN "none"
  ELSE IF reply.kind = "error"
    THEN IF reply.error \in {"Timeout", "TransportFailure"} THEN "transient"
         ELSE "refused"
  ELSE IF ~validate_https_response(reply) THEN "refused"
  ELSE IF reply.status \in 200..299 THEN "success"
  ELSE IF reply.status = 429 \/ reply.status \in 500..599 THEN "transient"
  ELSE "refused"

Asked == IF pc = "await" \/ reply # Pending
         THEN <<[op |-> "get", answer |-> AnswerClass]>> ELSE << >>

Verdict == CASE outcome.kind = "pending" -> "pending"
             [] outcome.kind = "response" -> "delivered"
             [] outcome.kind = "error" ->
                  IF outcome.error.retryable THEN "retryable" ELSE "final"

Contract == INSTANCE ResolveContract
              WITH Script <- <<"get">>, asked <- Asked, verdict <- Verdict

\* One GET, nothing delivered without it, and a retry suggested exactly when it
\* failed in a way that may pass: retrieval.rs and error.rs of the three plugins.
KeepsResolveContract == Contract!Spec
==============================================================================
