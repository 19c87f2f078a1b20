-------------------------- MODULE MCInstagramSession --------------------------
(***************************************************************************)
(* A small instance: carousels of zero to three children under a bound of  *)
(* two, with duplicate, unsafe and unreadable children; items that fail in *)
(* each other way; every combination of a GraphQL body's marks.            *)
(***************************************************************************)
EXTENDS InstagramSession

CONSTANTS a, b, c, unsafe

MCUrls == {a, b, c, unsafe}
MCSafeUrls == {a, b, c}

Node(url, video) == [ok |-> TRUE, video |-> video, url |-> url]

Video == [root |-> Node(a, TRUE), carousel |-> FALSE, children |-> << >>,
          author |-> "clean", metadata |-> TRUE]

Carousel(children) == [Video EXCEPT !.carousel = TRUE, !.children = children]

Items1 ==
  {Video, [Video EXCEPT !.root = Node(a, FALSE)],
   [Video EXCEPT !.root = Node(unsafe, TRUE)], [Video EXCEPT !.root.ok = FALSE],
   [Video EXCEPT !.author = "control"], [Video EXCEPT !.author = "overlong"],
   [Video EXCEPT !.metadata = FALSE],
   Carousel(<< >>), Carousel(<<Node(b, FALSE)>>),
   Carousel(<<Node(b, TRUE), Node(a, FALSE)>>),
   Carousel(<<Node(b, TRUE), Node(b, FALSE)>>),
   Carousel(<<Node(b, TRUE), Node(unsafe, TRUE)>>),
   Carousel(<<Node(a, TRUE), Node(b, TRUE), Node(c, TRUE)>>)}

Relay(present, held, item) == [present |-> present, held |-> held, item |-> item]

\* The Relay item is told apart from the GraphQL one by its URL.
RelayItem == [Video EXCEPT !.root = Node(c, TRUE)]

Relays == {Relay(FALSE, "nothing", RelayItem), Relay(TRUE, "nothing", RelayItem),
           Relay(TRUE, "item", RelayItem),
           Relay(TRUE, "item", [RelayItem EXCEPT !.metadata = FALSE])}

Blank == [utf8 |-> TRUE, eqmc |-> TRUE, token |-> "good",
          relay |-> Relay(TRUE, "item", RelayItem)]

Shown == [media |-> TRUE, is_private |-> FALSE, is_unavailable |-> FALSE,
          gated |-> FALSE, held |-> "item", item |-> Video]

Failures(body, url) ==
  {HostError(e) : e \in HttpsErrors}
    \cup {Response(s, url, TRUE, FALSE, body) :
            s \in {99, 100, 204, 302, 401, 404, 429, 500, 599, 600}}
    \cup {Response(200, "elsewhere", TRUE, FALSE, body),
          Response(200, "facebook", TRUE, FALSE, body),
          Response(503, "elsewhere", TRUE, FALSE, body),
          Response(200, url, FALSE, FALSE, body),
          Response(200, url, TRUE, TRUE, body)}

MCPageReplies ==
  {Response(200, "instagram", TRUE, FALSE, p) :
     p \in [utf8 : {TRUE}, eqmc : BOOLEAN, token : {"absent", "refused", "good"},
            relay : Relays]}
    \cup {Response(200, "instagram", TRUE, FALSE, [Blank EXCEPT !.utf8 = FALSE])}
    \cup Failures(Blank, "instagram")

MCGraphqlReplies ==
  {Response(200, "instagram-graphql", TRUE, FALSE, g) :
     g \in [media : BOOLEAN, is_private : BOOLEAN, is_unavailable : BOOLEAN,
            gated : BOOLEAN, held : Held, item : Items1]}
    \cup Failures(Shown, "instagram-graphql")
==============================================================================
