--------------------------- MODULE FacebookSession ---------------------------
(***************************************************************************)
(* One resolve call of the Facebook plugin (plugins/facebook/src) in the   *)
(* wasm build: one GET of the canonical page, the media objects of its     *)
(* data-sjs blocks, and, when the page has a media object but no playable  *)
(* URL, one Tahoe POST that carries the page's fb_dtsg secret. The host    *)
(* answers each call once, with any response or error.                     *)
(***************************************************************************)
EXTENDS SdkHttps, SequencesExt

CONSTANTS PageReplies,   \* what the host may answer to the GET
          TahoeReplies   \* what it may answer to the Tahoe POST

\* How a source URL fares: classify_url rejects it, it is classified but the
\* SDK's GET gate refuses what it became (a user label of dots), or both pass.
Sources == {"rejected", "unroutable", "canonical"}

\* The media object of a block: its playable URLs in source order, whether it
\* names a DASH or HLS manifest, and its title.
Media == [progressive : Seq(Urls), has_dash_hls : BOOLEAN,
          title : {"none", "clean", "control"}]

\* A data-sjs block: whether it is JSON, which media key it carries first, and
\* whether that key leads to a media object.
Blocks == [json : BOOLEAN, key : {"none", "video_data", "creation_story"},
           object : BOOLEAN, media : Media]

\* How far the page's Tahoe tokens get: one of the three is absent; the secret
\* is out of bounds; the other two are; extraction accepts them but the request
\* validator does not; or all is well.
Tokens == {"absent", "bad_secret", "bad_cohort", "unbuildable", "good"}

PageBodies == [utf8 : BOOLEAN, login_wall : BOOLEAN, blocks : Seq(Blocks),
               tokens : Tokens]

TahoeBodyRecords == [json : BOOLEAN, urls : Seq(Urls)]

\* A host answer to a call: an error, or a response with one of some bodies.
Answers(bodies) ==
  [kind : {"error"}, error : HttpsErrors]
    \cup [kind : {"response"}, status : Nat, final_url : FinalUrls,
          headers_allowed : BOOLEAN, oversized : BOOLEAN, body : bodies]

ASSUME ReplyAssumption == /\ PageReplies \subseteq Answers(PageBodies)
                          /\ TahoeReplies \subseteq Answers(TahoeBodyRecords)

------------------------------------------------------------------------------
(* What the plugin reads out of a body.                                      *)

\* Seeded bug: the bound is applied before the unsafe URLs are dropped.
CollectTruncatesFirst(found) ==
  LET bounded == SubSeq(found, 1, IF Len(found) < Candidates THEN Len(found)
                                                             ELSE Candidates)
  IN  FoldLeft(LAMBDA out, url : IF url \in SafeUrls THEN Append(out, url) ELSE out,
               << >>, bounded)

\* A safe URL not seen before is kept.
collect_one(out, url) ==
  IF url \in SafeUrls /\ \A i \in 1..Len(out) : out[i] # url
  THEN Append(out, url) ELSE out

\* collect_one over the fields found, then truncate: safe URLs, first occurrence
\* only, at most Candidates of them.
Collect(found) ==
  LET kept == FoldLeft(collect_one, << >>, found)
  IN  IF Len(kept) <= Candidates THEN kept ELSE SubSeq(kept, 1, Candidates)

BlocksWith(blocks, key) == {i \in 1..Len(blocks) : blocks[i].key = key}

FirstOf(indexes) == CHOOSE i \in indexes : \A j \in indexes : i <= j

\* The first block with a key decides for that key, even when what it carries is
\* no object; video_data is tried before creation_story.
LeadsToMedia(blocks, key) ==
  /\ BlocksWith(blocks, key) # {}
  /\ blocks[FirstOf(BlocksWith(blocks, key))].object

HasMedia(blocks) ==
  LeadsToMedia(blocks, "video_data") \/ LeadsToMedia(blocks, "creation_story")

MediaOf(blocks) ==
  LET key == IF LeadsToMedia(blocks, "video_data") THEN "video_data"
                                                    ELSE "creation_story"
  IN  blocks[FirstOf(BlocksWith(blocks, key))].media

map_progressive(urls, text) ==
  [resolution |-> IF Len(urls) = 1 THEN "direct" ELSE "candidates",
   streams |-> urls, text |-> text]

------------------------------------------------------------------------------
VARIABLES pc,        \* where resolve_public stands
          source,    \* how the source URL fares
          calls,     \* the host calls made and their answers (history)
          secret,    \* who holds the fb_dtsg copied out of the page
          response,  \* the response built, before the final gate
          outcome    \* what resolve returned

vars == <<pc, source, calls, secret, response, outcome>>

Pending == [kind |-> "pending"]

Init == /\ pc = "classify"
        /\ source \in Sources
        /\ calls = << >>
        /\ secret = "none"
        /\ response = unsupported_response
        /\ outcome = Pending

Page == calls[1].reply.body
TahoeBody == calls[2].reply.body
PageMedia == MediaOf(Page.blocks)

ReturnError(e) ==
  /\ pc' = "done"
  /\ outcome' = [kind |-> "error", error |-> e]

Build(r) ==
  /\ pc' = "validate"
  /\ response' = r
  /\ UNCHANGED <<source, calls, outcome>>

CallHost(op, next) ==
  /\ calls' = Append(calls, [op |-> op, reply |-> Pending])
  /\ pc' = next
  /\ UNCHANGED <<source, secret, response, outcome>>

HostReturns(reply, next) ==
  /\ calls' = [calls EXCEPT ![Len(calls)].reply = reply]
  /\ pc' = next
  /\ UNCHANGED <<source, response, outcome>>

RejectSource ==
  /\ pc = "classify" /\ source = "rejected"
  /\ ReturnError(invalid_input)
  /\ UNCHANGED <<source, calls, secret, response>>

\* validate_get_request refuses: InvalidRequest, with no host call.
RefuseGet ==
  /\ pc = "classify" /\ source = "unroutable"
  /\ ReturnError(transport("InvalidRequest"))
  /\ UNCHANGED <<source, calls, secret, response>>

SendGet ==
  /\ pc = "classify" /\ source = "canonical"
  /\ CallHost("get", "await_page")

PageReturns(reply) ==
  /\ pc = "await_page"
  /\ HostReturns(reply, "page_status")
  /\ UNCHANGED secret

FailPage ==
  /\ pc = "page_status" /\ ~Usable(calls[1].reply)
  /\ ReturnError(RetrievalError(calls[1].reply))
  /\ UNCHANGED <<source, calls, secret, response>>

AcceptPage ==
  /\ pc = "page_status" /\ Usable(calls[1].reply)
  /\ pc' = "page"
  /\ UNCHANGED <<source, calls, secret, response, outcome>>

RejectPage ==
  /\ pc = "page"
  /\ \/ /\ ~Page.utf8
        /\ ReturnError(malformed)
     \/ /\ Page.utf8 /\ Page.login_wall
        /\ ReturnError(private)
     \/ /\ Page.utf8 /\ ~Page.login_wall
        /\ \E i \in 1..Len(Page.blocks) : ~Page.blocks[i].json
        /\ ReturnError(malformed)
  /\ UNCHANGED <<source, calls, secret, response>>

Readable == /\ Page.utf8 /\ ~Page.login_wall
            /\ \A i \in 1..Len(Page.blocks) : Page.blocks[i].json

NothingPlayable ==
  HasMedia(Page.blocks) =>
    Collect(PageMedia.progressive) = << >> /\ PageMedia.has_dash_hls

ReportUnplayable ==
  /\ pc = "page" /\ Readable /\ NothingPlayable
  /\ Build(unsupported_response)
  /\ UNCHANGED secret

MapPage ==
  /\ pc = "page" /\ Readable /\ HasMedia(Page.blocks)
  /\ Collect(PageMedia.progressive) # << >>
  /\ Build(map_progressive(Collect(PageMedia.progressive), PageMedia.title))
  /\ UNCHANGED secret

\* Seeded bug: a manifest does not stop the fallback.
NeedsTahoeDespiteManifest ==
  /\ Readable /\ HasMedia(Page.blocks)
  /\ Collect(PageMedia.progressive) = << >>

NeedsTahoe == /\ Readable /\ HasMedia(Page.blocks)
              /\ Collect(PageMedia.progressive) = << >>
              /\ ~PageMedia.has_dash_hls

\* extract_tahoe_tokens finds no token to copy.
LackTokens ==
  /\ pc = "page" /\ NeedsTahoe /\ Page.tokens = "absent"
  /\ Build(unsupported_response)
  /\ UNCHANGED secret

\* It finds all three and copies the secret into an EphemeralFbDtsg.
CopySecret ==
  /\ pc = "page" /\ NeedsTahoe /\ Page.tokens # "absent"
  /\ secret' = "ephemeral"
  /\ pc' = "tokens"
  /\ UNCHANGED <<source, calls, response, outcome>>

\* Seeded bug: an early return forgets the secret already copied.
RefuseTokensLeaks ==
  /\ pc = "tokens" /\ Page.tokens \in {"bad_secret", "bad_cohort"}
  /\ Build(unsupported_response)
  /\ UNCHANGED secret

\* EphemeralFbDtsg::new or the checks after it refuse: the value is dropped, and
\* Drop wipes it.
RefuseTokens ==
  /\ pc = "tokens" /\ Page.tokens \in {"bad_secret", "bad_cohort"}
  /\ secret' = "wiped"
  /\ Build(unsupported_response)

\* build_tahoe_request moves the secret into the TahoeCall, then validates it; a
\* refused call is dropped and wiped there and then.
BuildTahoe ==
  /\ pc = "tokens" /\ Page.tokens = "good"
  /\ secret' = "call"
  /\ pc' = "built"
  /\ UNCHANGED <<source, calls, response, outcome>>

RefuseTahoe ==
  /\ pc = "tokens" /\ Page.tokens = "unbuildable"
  /\ secret' = "wiped"
  /\ Build(unsupported_response)

SendTahoe ==
  /\ pc = "built"
  /\ CallHost("tahoe", "await_tahoe")

\* post_tahoe owns the call: it is dropped, and wiped, when the host returns.
TahoeReturns(reply) ==
  /\ pc = "await_tahoe"
  /\ secret' = "wiped"
  /\ HostReturns(reply, "tahoe_status")

\* Seeded bug: a call that timed out is sent again.
FailTahoeRetries ==
  /\ pc = "tahoe_status"
  /\ ~Usable(calls[2].reply)
  /\ pc' = "built"
  /\ UNCHANGED <<source, calls, secret, response, outcome>>

FailTahoe ==
  /\ pc = "tahoe_status"
  /\ \/ /\ ~Usable(calls[2].reply)
        /\ ReturnError(RetrievalError(calls[2].reply))
     \/ /\ Usable(calls[2].reply) /\ ~TahoeBody.json
        /\ ReturnError(malformed)
  /\ UNCHANGED <<source, calls, secret, response>>

MapTahoe ==
  /\ pc = "tahoe_status" /\ Usable(calls[2].reply) /\ TahoeBody.json
  /\ Build(IF Collect(TahoeBody.urls) = << >> THEN unsupported_response
           ELSE map_progressive(Collect(TahoeBody.urls), "none"))
  /\ UNCHANGED secret

\* Component::resolve validates what resolve_public built.
Return ==
  /\ pc = "validate"
  /\ IF validate_response(response)
     THEN pc' = "done" /\ outcome' = [kind |-> "response", response |-> response]
     ELSE ReturnError(malformed)
  /\ UNCHANGED <<source, calls, secret, response>>

\* The call has returned; the component waits for no one.
Terminated == pc = "done" /\ UNCHANGED vars

Next == \/ RejectSource \/ RefuseGet \/ SendGet
        \/ \E reply \in PageReplies : PageReturns(reply)
        \/ FailPage \/ AcceptPage \/ RejectPage \/ ReportUnplayable \/ MapPage
        \/ LackTokens \/ CopySecret \/ RefuseTokens \/ BuildTahoe \/ RefuseTahoe
        \/ SendTahoe
        \/ \E reply \in TahoeReplies : TahoeReturns(reply)
        \/ FailTahoe \/ MapTahoe \/ Return \/ Terminated

Spec == Init /\ [][Next]_vars

------------------------------------------------------------------------------
Calls == [op : {"get", "tahoe"},
          reply : {Pending} \cup PageReplies \cup TahoeReplies]

TypeOK ==
  /\ pc \in {"classify", "await_page", "page_status", "page", "tokens", "built",
             "await_tahoe", "tahoe_status", "validate", "done"}
  /\ source \in Sources
  /\ calls \in Seq(Calls) /\ Len(calls) <= 2
  /\ secret \in {"none", "ephemeral", "call", "wiped"}
  /\ response \in ResolveResponses
  /\ outcome \in {Pending}
                   \cup [kind : {"error"},
                         error : [kind : ResolverErrorKinds, retryable : BOOLEAN]]
                   \cup [kind : {"response"}, response : ResolveResponses]

\* The fb_dtsg secret is in memory only while it is needed (EphemeralFbDtsg and
\* TahoeCall, sdk lib.rs:518-589): it is copied from a page that was delivered,
\* readable and out of playable URLs, it is held by a TahoeCall only until the
\* host has answered that call, and on every way out of resolve it is wiped.
SecretDiesWithItsCall ==
  /\ secret \in {"ephemeral", "call"} => pc \in {"tokens", "built", "await_tahoe"}
  /\ secret # "none" => /\ calls # << >> /\ Usable(calls[1].reply)
                        /\ NeedsTahoe /\ Page.tokens # "absent"
  /\ Len(calls) = 2 =>
       secret = IF calls[2].reply = Pending THEN "call" ELSE "wiped"

\* What the upstream offered the plugin: the media fields of the page, then those
\* of the Tahoe body.
Offered ==
  (IF HasMedia(Page.blocks) THEN PageMedia.progressive ELSE << >>)
    \o (IF Len(calls) = 2 THEN TahoeBody.urls ELSE << >>)

SafeOffers == ToSet(Offered) \cap SafeUrls

FirstOffer(url) == FirstOf({i \in 1..Len(Offered) : Offered[i] = url})

\* A delivered answer is exactly what was on offer: only safe URLs, each once, in
\* the order the fields name them, all of them unless the bound is reached; and
\* the plugin calls an item unsupported only when there is none of them
\* (collect_one, collect_progressive_into, parse_tahoe_response, map_progressive).
AnswerMatchesOffer ==
  outcome.kind = "response" =>
    LET streams == outcome.response.streams
    IN  /\ ToSet(streams) \subseteq SafeOffers
        /\ \A i, j \in 1..Len(streams) :
             i < j => FirstOffer(streams[i]) < FirstOffer(streams[j])
        /\ ToSet(streams) = SafeOffers \/ Len(streams) = Candidates
        /\ outcome.response.resolution = "unsupported" <=> streams = << >>

\* The doc of resolve_public (retrieval.rs:54-58): exactly one GET, and the one
\* Tahoe POST is a last resort. It is sent only for a readable page whose media
\* object has no safe URL and no manifest, never past a login wall or a failed
\* GET, and nothing is sent once the call has returned.
TahoeIsLastResort ==
  [][ Len(calls') = 2 /\ Len(calls) = 1 =>
        /\ Usable(calls[1].reply)
        /\ ~Page.login_wall /\ Page.tokens = "good"
        /\ SafeOffers = {} /\ ~PageMedia.has_dash_hls
        /\ outcome = Pending ]_vars

------------------------------------------------------------------------------
(* One resolve call keeps the contract of ResolveContract. How a host answer *)
(* counts is said here independently of the plugin's tables.                 *)

AnswerClass(reply) ==
  IF reply = Pending THEN "none"
  ELSE IF reply.kind = "error"
    THEN IF reply.error \in {"Timeout", "TransportFailure"} THEN "transient"
         ELSE "refused"
  ELSE IF ~validate_https_response(reply) THEN "refused"
  ELSE IF reply.status \in 200..299 THEN "success"
  ELSE IF reply.status = 429 \/ reply.status \in 500..599 THEN "transient"
  ELSE "refused"

Asked == [i \in 1..Len(calls) |->
            [op |-> calls[i].op, answer |-> AnswerClass(calls[i].reply)]]

Verdict == CASE outcome.kind = "pending" -> "pending"
             [] outcome.kind = "response" -> "delivered"
             [] outcome.kind = "error" ->
                  IF outcome.error.retryable THEN "retryable" ELSE "final"

Contract == INSTANCE ResolveContract
              WITH Script <- <<"get", "tahoe">>, asked <- Asked, verdict <- Verdict

KeepsResolveContract == Contract!Spec
==============================================================================
