--------------------------- MODULE MCFixtureEngine ---------------------------
(***************************************************************************)
(* A small instance: requests that differ from a base request in exactly   *)
(* one coordinate each (so that every branch of the comparison decides),   *)
(* two values of one length and one of another, and every script of at     *)
(* most MaxScript of these exchanges.                                      *)
(***************************************************************************)
EXTENDS FixtureEngine, TLC

CONSTANTS v1, v2, v3, MaxScript

MCWords == {"resolver", "accept", "cookie"}
MCHosts == {"example.com"}
MCValues == {v1, v2, v3}
MCByteCount == v1 :> 4 @@ v2 :> 4 @@ v3 :> 9
MCCategories == {"Header", "Token"}
MCStatuses == {200, 404}

Plain(w) == [word |-> w, upper |-> FALSE, valid |-> TRUE]
PageUrl == [canonical |-> TRUE, host |-> "example.com", path |-> "short",
            query |-> FALSE]
Accept == [name |-> Plain("accept"), category |-> "Header", value |-> v1]

Base == [policy |-> Plain("resolver"), operation |-> "Get",
         canonical_url |-> PageUrl, fields |-> <<Accept>>]

\* A request with a secret in a second field, an odd name and a long path.
Token == [policy |-> Plain("resolver"), operation |-> "PostPublicGraphql",
          canonical_url |-> [PageUrl EXCEPT !.query = TRUE],
          fields |-> <<Accept, [name |-> [Plain("cookie") EXCEPT !.valid = FALSE],
                                category |-> "Token", value |-> v2]>>]

MCRequests ==
  {Base, Token,
   [Base EXCEPT !.policy.upper = TRUE],
   [Base EXCEPT !.policy.valid = FALSE],
   [Base EXCEPT !.operation = "PostPublicGraphql"],
   [Base EXCEPT !.canonical_url.path = "oversized"],
   [Base EXCEPT !.fields = << >>],
   [Base EXCEPT !.fields[1].name.upper = TRUE],
   [Base EXCEPT !.fields[1].category = "Token"],
   [Base EXCEPT !.fields[1].value = v2],
   [Token EXCEPT !.fields[2].value = v3],
   [Token EXCEPT !.canonical_url.canonical = FALSE]}

Page == [kind |-> "Response", status |-> 200, headers |-> <<Accept>>, body |-> v3]
Down == [kind |-> "Error", diagnostic |-> v2]
MCReplies == {Page, Down}

MCExchanges ==
  {[request |-> Base, reply |-> Page],
   [request |-> [Base EXCEPT !.policy.valid = FALSE], reply |-> Page],
   [request |-> Token, reply |-> Down],
   [request |-> [Base EXCEPT !.fields[1].value = v2], reply |-> Page],
   [request |-> [Base EXCEPT !.canonical_url.path = "oversized"], reply |-> Down],
   [request |-> [Token EXCEPT !.canonical_url.canonical = FALSE], reply |-> Page]}

MCScripts == UNION {[1..n -> MCExchanges] : n \in 0..MaxScript}
==============================================================================
