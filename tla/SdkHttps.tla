------------------------------ MODULE SdkHttps ------------------------------
(***************************************************************************)
(* The v2 SDK as a plugin sees it (sdk/bex-media-url-resolver-v2): the     *)
(* response gate behind every host call, the two tables by which the       *)
(* Facebook and Instagram plugins turn a host answer into a resolver       *)
(* error, and the validator every plugin response passes before it leaves. *)
(***************************************************************************)
EXTENDS Naturals, Sequences

CONSTANTS Urls,        \* media URLs an upstream body may carry
          SafeUrls,    \* those safe_https admits
          Candidates   \* resolver_bounds::CANDIDATES

ASSUME SdkAssumption == /\ SafeUrls \subseteq Urls
                        /\ Candidates \in Nat \ {0}

HttpsErrors == {"Timeout", "TransportFailure", "MalformedUpstream",
                "ResponseTooLarge", "InvalidRequest", "BlockedHost",
                "RedirectRejected", "RequestTooLarge"}

ResolverErrorKinds == {"InvalidInput", "PrivateOrUnavailable", "Unavailable",
                       "Timeout", "RateLimited", "PolicyDenied",
                       "UpstreamFailure", "MalformedResponse", "UnsupportedUrl"}

\* A final URL is known by what it is the address of.
PageUrls == {"instagram", "bandcamp", "youtube", "x", "tiktok", "facebook"}
FinalUrls == PageUrls \cup {"instagram-graphql", "facebook-tahoe", "elsewhere"}

\* What a host call yields. Header lists are told apart by whether they are
\* within the bounds and on the allow-list, bodies by their content and by
\* whether they exceed RESPONSE_BODY.
Response(status, final_url, headers_allowed, oversized, body) ==
  [kind |-> "response", status |-> status, final_url |-> final_url,
   headers_allowed |-> headers_allowed, oversized |-> oversized, body |-> body]

HostError(e) == [kind |-> "error", error |-> e]

------------------------------------------------------------------------------
valid_get_url(u) == u \in PageUrls

valid_tahoe_url(u) == u = "facebook-tahoe"

validate_https_response(r) ==
  /\ r.status \in 100..599
  /\ \/ valid_get_url(r.final_url)
     \/ r.final_url = "instagram-graphql"
     \/ valid_tahoe_url(r.final_url)
  /\ r.headers_allowed
  /\ ~r.oversized

\* Every answer of the host passes the gate; a response it refuses reaches the
\* plugin as an upstream error.
checked_response(reply) ==
  IF reply.kind = "response" /\ ~validate_https_response(reply)
  THEN HostError("MalformedUpstream") ELSE reply

------------------------------------------------------------------------------
ResolverError(kind, retryable) == [kind |-> kind, retryable |-> retryable]

malformed == ResolverError("MalformedResponse", FALSE)
private == ResolverError("PrivateOrUnavailable", FALSE)
unavailable == ResolverError("Unavailable", FALSE)
policy == ResolverError("PolicyDenied", FALSE)
invalid_input == ResolverError("InvalidInput", FALSE)

\* Seeded bug: a request the host's policy refused is offered for a retry.
TransportRetriesRefusals(e) ==
  CASE e = "Timeout" -> ResolverError("Timeout", TRUE)
    [] e \in {"MalformedUpstream", "ResponseTooLarge"} -> malformed
    [] OTHER -> ResolverError("UpstreamFailure", TRUE)

transport(e) ==
  CASE e = "Timeout" -> ResolverError("Timeout", TRUE)
    [] e = "TransportFailure" -> ResolverError("UpstreamFailure", TRUE)
    [] e \in {"MalformedUpstream", "ResponseTooLarge"} -> malformed
    [] e \in {"InvalidRequest", "BlockedHost", "RedirectRejected",
              "RequestTooLarge"} -> policy

StatusOk(s) == s \in 200..299

\* Only for a status outside 200..299.
status(s) ==
  CASE s \in {401, 403} -> private
    [] s \in {404, 410} -> unavailable
    [] s = 429 -> ResolverError("RateLimited", TRUE)
    [] s \in 500..599 -> ResolverError("UpstreamFailure", TRUE)
    [] OTHER -> malformed

\* What a plugin does first with a checked answer: a failed one ends the call
\* with RetrievalError, a usable one hands over its body.
Usable(reply) ==
  LET checked == checked_response(reply)
  IN  checked.kind = "response" /\ StatusOk(checked.status)

RetrievalError(reply) ==
  LET checked == checked_response(reply)
  IN  IF checked.kind = "error" THEN transport(checked.error)
      ELSE status(checked.status)

------------------------------------------------------------------------------
\* A response to the host: a direct stream, candidates or the statement that the
\* item is unsupported; its text metadata is absent, clean or holds a control
\* character.
ResolveResponses ==
  [resolution : {"direct", "candidates", "unsupported"}, streams : Seq(Urls),
   text : {"none", "clean", "control"}]

unsupported_response ==
  [resolution |-> "unsupported", streams |-> << >>, text |-> "none"]

\* The last gate, applied by Component::resolve to whatever the plugin built.
validate_response(r) ==
  /\ r.text # "control"
  /\ \A i \in 1..Len(r.streams) : r.streams[i] \in SafeUrls
  /\ r.resolution = "candidates" => Len(r.streams) \in 1..Candidates
==============================================================================
