---------------------------- MODULE YouTubeSession ----------------------------
(***************************************************************************)
(* One resolve call of the YouTube plugin (plugins/youtube/src) in the     *)
(* wasm build: a GET of the watch page and, when some format of the page   *)
(* has only a signature cipher, a second GET of the player script, whose   *)
(* operations decode every such format.  Formats are ranked: muxed ones    *)
(* come first, otherwise the best audio goes with the best video.  The mux *)
(* container, the thumbnail, the duration and the labels are left out.     *)
(***************************************************************************)
EXTENDS SdkHttps, Lists

CONSTANTS PageReplies,     \* what the host may answer to the first GET
          PlayerReplies,   \* what it may answer to the second
          MaxFormats,      \* MAX_FORMATS
          Missing          \* a field that is absent

\* classify_url rejects the source, or reduces it to an id whose watch URL the
\* SDK's GET gate admits.
Sources == {"rejected", "canonical"}

\* An entry of formats or adaptiveFormats: whether parse_format accepts it, its
\* kind by MIME type, its URL, what the player's operations make of its cipher,
\* its rank (an absent number counts as 0) and whether its MIME type is within
\* the bounds of the final validator, which are tighter than parse_format's.
Entries == [ok : BOOLEAN, family : {"audio", "video", "other"},
            url : SafeUrls \cup {Missing}, ciphered : Urls \cup {Missing, "garbled"},
            height : Nat, bitrate : Nat, within : BOOLEAN]

\* The watch page: whether the player response is found, bounded, JSON and not too
\* deep; whether the page names a player script, and one that the GET gate admits;
\* the playability status; title and author; and the two arrays of formats.
PageBodies ==
  [readable : BOOLEAN, player_js_url : {"none", "unroutable", "player"},
   playability : {"missing", "OK", "private", "unavailable"},
   text : {"clean", "control", "refused"},
   formats : Seq(Entries), adaptive : Seq(Entries)]

\* A player script, by whether extract_cipher_ops finds operations in it.
PlayerBodies == [ops : BOOLEAN]

Replies(bodies) ==
  [kind : {"error"}, error : HttpsErrors]
    \cup [kind : {"response"}, status : Nat, final_url : FinalUrls,
          headers_allowed : BOOLEAN, oversized : BOOLEAN, body : bodies]

ASSUME YouTubeAssumption ==
  /\ PageReplies \subseteq Replies(PageBodies)
  /\ PlayerReplies \subseteq Replies(PlayerBodies)
  /\ MaxFormats \in Nat
  /\ Missing \notin Urls /\ "garbled" \notin Urls

------------------------------------------------------------------------------
(* The plugin's own error table, and the gate it repeats after the client's. *)

\* Seeded bug: a refusal of the host is taken for a failure that may pass.
TransportErrorRetries(e) ==
  CASE e = "Timeout" -> ResolverError("Timeout", TRUE)
    [] OTHER -> ResolverError("UpstreamFailure", TRUE)

TransportError(e) ==
  CASE e = "Timeout" -> ResolverError("Timeout", TRUE)
    [] e = "TransportFailure" -> ResolverError("UpstreamFailure", TRUE)
    [] OTHER -> malformed

FetchError(reply) ==
  LET checked == checked_response(reply)
  IN  IF checked.kind = "error" THEN TransportError(checked.error)
      ELSE status(checked.status)

------------------------------------------------------------------------------
(* Reading the page (payload.rs). *)

\* One entry that does not parse spoils the page; one without URL and cipher is
\* passed over.
parse_format_array_ok(entries) ==
  /\ Len(entries) <= MaxFormats
  /\ \A i \in 1..Len(entries) : entries[i].ok

Named == {e \in Entries : e.url # Missing \/ e.ciphered # Missing}

Selected(entries) == Only(entries, Named)

select_ok(page) ==
  /\ page.playability = "OK"
  /\ page.text # "refused"
  /\ parse_format_array_ok(page.formats)
  /\ parse_format_array_ok(page.adaptive)

select_error(page) ==
  CASE page.playability = "private" -> private
    [] page.playability = "unavailable" -> unavailable
    [] OTHER -> malformed

\* Seeded bug: a format that has a URL as well counts as ciphered.
needs_cipher_even_if_direct(page) ==
  \E e \in ToSet(Selected(page.formats \o page.adaptive)) : e.ciphered # Missing

needs_cipher(page) ==
  \E e \in ToSet(Selected(page.formats \o page.adaptive)) :
    e.url = Missing /\ e.ciphered # Missing

\* resolve_one: the URL of an entry, decoded if need be; Missing if it is dropped.
Resolved(e) == IF e.url # Missing THEN e.url
               ELSE IF e.ciphered \in SafeUrls THEN e.ciphered ELSE Missing

Playable == {e \in Entries : Resolved(e) # Missing}

ResolvedFormat(e) ==
  [url |-> Resolved(e), height |-> e.height, bitrate |-> e.bitrate,
   within |-> e.within]

\* What the three rankings compare: audio goes by bit rate alone.
Taller(e, f) == e.height > f.height
                  \/ (e.height = f.height /\ e.bitrate > f.bitrate)
Louder(e, f) == e.bitrate > f.bitrate

\* sort_by, best first: what may stay ahead of what.
AsTall == {p \in Entries \X Entries : ~Taller(p[2], p[1])}
AsLoud == {p \in Entries \X Entries : ~Louder(p[2], p[1])}

Ranked(entries, passing, ahead) == StableSort(Only(Selected(entries), passing), ahead)

\* Seeded bug: the bound is applied in page order, before the ranking.
progressive_unranked(page) ==
  StableSort(First(Candidates, Only(Selected(page.formats), Playable)), AsTall)

progressive(page) == First(Candidates, Ranked(page.formats, Playable, AsTall))

audio(page) == Ranked(page.adaptive, {e \in Playable : e.family = "audio"}, AsLoud)
video(page) == Ranked(page.adaptive, {e \in Playable : e.family = "video"}, AsTall)

\* finalize: muxed formats if there is one, else the best of audio and video.
chosen(page) == IF progressive(page) # << >> THEN progressive(page)
                ELSE First(1, audio(page)) \o First(1, video(page))

map(page) ==
  [resolution |-> CASE chosen(page) = << >> -> "unsupported"
                    [] Len(chosen(page)) = 1 -> "direct"
                    [] Len(chosen(page)) > 1 /\ progressive(page) # << >> -> "candidates"
                    [] OTHER -> "separated",
   formats |-> [i \in 1..Len(chosen(page)) |-> ResolvedFormat(chosen(page)[i])],
   text |-> page.text]

ResolvedFormats == [url : SafeUrls, height : Nat, bitrate : Nat, within : BOOLEAN]

Responses == [resolution : {"direct", "candidates", "separated", "unsupported"},
              formats : Seq(ResolvedFormats), text : {"clean", "control"}]

\* The SDK's validator over such a response: one stream out of bounds is enough.
FinalGate(r) ==
  /\ r.text # "control"
  /\ \A i \in 1..Len(r.formats) : r.formats[i].within
  /\ r.resolution = "candidates" => Len(r.formats) \in 1..Candidates

------------------------------------------------------------------------------
VARIABLES pc,        \* where resolve_public stands
          source,    \* how the source URL fares
          calls,     \* the host calls made and their answers (history)
          response,  \* the response built, before the final gate
          outcome    \* what resolve returned

vars == <<pc, source, calls, response, outcome>>

Pending == [kind |-> "pending"]

Unbuilt == [resolution |-> "unsupported", formats |-> << >>, text |-> "clean"]

Init == /\ pc = "classify"
        /\ source \in Sources
        /\ calls = << >>
        /\ response = Unbuilt
        /\ outcome = Pending

Page == calls[1].reply.body
Player == calls[2].reply.body

ReturnError(e) ==
  /\ pc' = "done"
  /\ outcome' = [kind |-> "error", error |-> e]
  /\ UNCHANGED <<source, calls, response>>

CallHost(op, next) ==
  /\ calls' = Append(calls, [op |-> op, reply |-> Pending])
  /\ pc' = next
  /\ UNCHANGED <<source, response, outcome>>

HostReturns(reply, next) ==
  /\ calls' = [calls EXCEPT ![Len(calls)].reply = reply]
  /\ pc' = next
  /\ UNCHANGED <<source, response, outcome>>

BuildResponse ==
  /\ pc' = "validate"
  /\ response' = map(Page)
  /\ UNCHANGED <<source, calls, outcome>>

RejectSource == pc = "classify" /\ source = "rejected" /\ ReturnError(invalid_input)

GetWatch == pc = "classify" /\ source = "canonical" /\ CallHost("watch", "await_watch")

WatchReturns(reply) == pc = "await_watch" /\ HostReturns(reply, "watch")

FailWatch ==
  /\ pc = "watch" /\ ~Usable(calls[1].reply)
  /\ ReturnError(FetchError(calls[1].reply))

Readable == Usable(calls[1].reply) /\ Page.readable /\ select_ok(Page)

RejectPage ==
  /\ pc = "watch" /\ Usable(calls[1].reply) /\ ~Readable
  /\ ReturnError(IF Page.readable THEN select_error(Page) ELSE malformed)

\* Every entry names its URL: the player script is not fetched.
MapDirect == pc = "watch" /\ Readable /\ ~needs_cipher(Page) /\ BuildResponse

\* The page names no player script, or one the client refuses to ask for; that
\* fails the whole call even when other formats have a URL.
LackPlayer ==
  /\ pc = "watch" /\ Readable /\ needs_cipher(Page)
  /\ \/ Page.player_js_url = "none" /\ ReturnError(malformed)
     \/ /\ Page.player_js_url = "unroutable"
        /\ ReturnError(TransportError("InvalidRequest"))

GetPlayer ==
  /\ pc = "watch" /\ Readable /\ needs_cipher(Page)
  /\ Page.player_js_url = "player"
  /\ CallHost("player", "await_player")

PlayerReturns(reply) == pc = "await_player" /\ HostReturns(reply, "player")

\* Seeded bug: a player script that fails to arrive is asked for again.
FailPlayerRetries ==
  /\ pc = "player" /\ ~Usable(calls[2].reply)
  /\ CallHost("player", "await_player")

FailPlayer ==
  /\ pc = "player"
  /\ \/ ~Usable(calls[2].reply) /\ ReturnError(FetchError(calls[2].reply))
     \/ Usable(calls[2].reply) /\ ~Player.ops /\ ReturnError(malformed)

MapDecoded == pc = "player" /\ Usable(calls[2].reply) /\ Player.ops /\ BuildResponse

Return ==
  /\ pc = "validate"
  /\ \/ /\ FinalGate(response)
        /\ pc' = "done" /\ outcome' = [kind |-> "response", response |-> response]
        /\ UNCHANGED <<source, calls, response>>
     \/ ~FinalGate(response) /\ ReturnError(malformed)

\* The call has returned; the component waits for no one.
Terminated == pc = "done" /\ UNCHANGED vars

Next == \/ RejectSource \/ GetWatch
        \/ \E reply \in PageReplies : WatchReturns(reply)
        \/ FailWatch \/ RejectPage \/ MapDirect \/ LackPlayer \/ GetPlayer
        \/ \E reply \in PlayerReplies : PlayerReturns(reply)
        \/ FailPlayer \/ MapDecoded \/ Return \/ Terminated

Spec == Init /\ [][Next]_vars

------------------------------------------------------------------------------
TypeOK ==
  /\ pc \in {"classify", "await_watch", "watch", "await_player", "player",
             "validate", "done"}
  /\ source \in Sources
  /\ calls \in Seq([op : {"watch", "player"},
                    reply : {Pending} \cup PageReplies \cup PlayerReplies])
  /\ Len(calls) <= 2
  /\ response \in Responses
  /\ outcome \in {Pending}
                   \cup [kind : {"error"},
                         error : [kind : ResolverErrorKinds, retryable : BOOLEAN]]
                   \cup [kind : {"response"}, response : Responses]

\* The entries of a list that can be played: they name a URL, or a cipher that the
\* player's operations turn into one.
Offers(entries) ==
  {e \in ToSet(entries) : e.url # Missing \/ e.ciphered \in SafeUrls}

AsFormats(entries) == {ResolvedFormat(e) : e \in entries}

\* An answer is the best a page offers: muxed formats whenever one is playable, as many
\* as the bound allows, in order, and none left out that outranks one delivered; only
\* without any of them an audio and a video that nothing outranks; and unsupported only
\* when all is lost.
IsTheBest(page, r) ==
  LET out == r.formats
      muxed == Offers(page.formats)
      sound == {e \in Offers(page.adaptive) : e.family = "audio"}
      sight == {e \in Offers(page.adaptive) : e.family = "video"}
  IN  IF muxed # {}
      THEN /\ out # << >> /\ ToSet(out) \subseteq AsFormats(muxed)
           /\ \A i, j \in 1..Len(out) : i < j => ~Taller(out[j], out[i])
           /\ Len(out) = Candidates \/ ToSet(out) = AsFormats(muxed)
           /\ \A f \in AsFormats(muxed) \ ToSet(out), i \in 1..Len(out) :
                ~Taller(f, out[i])
      ELSE /\ Len(out) = Cardinality({s \in {sound, sight} : s # {}})
           /\ sound # {} => /\ out[1] \in AsFormats(sound)
                            /\ \A e \in sound : ~Louder(e, out[1])
           /\ sight # {} => /\ out[Len(out)] \in AsFormats(sight)
                            /\ \A e \in sight : ~Taller(e, out[Len(out)])
           /\ r.resolution = CASE Len(out) = 0 -> "unsupported"
                               [] Len(out) = 1 -> "direct"
                               [] Len(out) = 2 -> "separated"

\* A delivered answer is the best its page offers (finalize, mapping::map).
DeliversTheBest == outcome.kind = "response" => IsTheBest(Page, outcome.response)

\* The doc of resolve_public (retrieval.rs:32-34): the player script is fetched
\* only when at least one candidate format needs its cipher decoded, after a page
\* that says the item is playable, and nothing is fetched once the call returned.
PlayerOnlyForACipher ==
  [][ Len(calls') = 2 /\ Len(calls) = 1 =>
        /\ Usable(calls[1].reply)
        /\ Page.playability = "OK" /\ Page.player_js_url = "player"
        /\ \E e \in ToSet(Page.formats) \cup ToSet(Page.adaptive) :
             e.url = Missing /\ e.ciphered # Missing
        /\ outcome = Pending ]_vars

------------------------------------------------------------------------------
(* One resolve call keeps the contract of ResolveContract. How a host answer *)
(* counts is said here independently of the plugin's tables.                 *)

AnswerClass(reply) ==
  IF reply = Pending THEN "none"
  ELSE IF reply.kind = "error"
    THEN IF reply.error \in {"Timeout", "TransportFailure"} THEN "transient"
         ELSE "refused"
  ELSE IF ~validate_https_response(reply) THEN "refused"
  ELSE IF reply.status \in 200..299 THEN "success"
  ELSE IF reply.status = 429 \/ reply.status \in 500..599 THEN "transient"
  ELSE "refused"

Asked == [i \in 1..Len(calls) |->
            [op |-> calls[i].op, answer |-> AnswerClass(calls[i].reply)]]

Verdict == CASE outcome.kind = "pending" -> "pending"
             [] outcome.kind = "response" -> "delivered"
             [] outcome.kind = "error" ->
                  IF outcome.error.retryable THEN "retryable" ELSE "final"

Contract == INSTANCE ResolveContract
              WITH Script <- <<"watch", "player">>, asked <- Asked,
                   verdict <- Verdict

KeepsResolveContract == Contract!Spec
==============================================================================
