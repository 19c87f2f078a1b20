-------------------------- MODULE MCFacebookSession --------------------------
(***************************************************************************)
(* A small instance. The bound on candidates is two, so that three safe    *)
(* URLs exceed it; field values include a duplicate and an unsafe URL; a   *)
(* page has up to two blocks, each key, with and without a media object.   *)
(***************************************************************************)
EXTENDS FacebookSession

CONSTANTS a, b, c, unsafe

MCUrls == {a, b, c, unsafe}
MCSafeUrls == {a, b, c}

Fields == {<< >>, <<unsafe>>, <<a>>, <<b, b, a>>, <<unsafe, unsafe, a>>,
           <<c, a, b>>}

MediaSamples ==
  {[progressive |-> f, has_dash_hls |-> d, title |-> t] :
     f \in Fields, d \in BOOLEAN, t \in {"clean", "control"}}

Block(key, object, media) ==
  [json |-> TRUE, key |-> key, object |-> object, media |-> media]

Empty == [progressive |-> << >>, has_dash_hls |-> FALSE, title |-> "none"]
Plain == [progressive |-> <<c>>, has_dash_hls |-> FALSE, title |-> "none"]

BlockLists ==
  {<< >>}
    \cup {<<Block("video_data", TRUE, m)>> : m \in MediaSamples}
    \cup {<<Block("creation_story", TRUE, Plain), Block("video_data", o, m)>> :
            o \in BOOLEAN, m \in {Empty, [Plain EXCEPT !.progressive = <<a>>]}}
    \cup {<<Block("video_data", FALSE, Empty), Block("video_data", TRUE, Plain)>>,
          <<[Block("none", FALSE, Empty) EXCEPT !.json = FALSE],
            Block("video_data", TRUE, Plain)>>}

Readables ==
  [utf8 : {TRUE}, login_wall : BOOLEAN, blocks : BlockLists, tokens : Tokens]

Body(p) == Response(200, "facebook", TRUE, FALSE, p)

Blank == [utf8 |-> TRUE, login_wall |-> FALSE, tokens |-> "good",
          blocks |-> <<Block("video_data", TRUE, Empty)>>]

\* Every outcome of a call that carries no usable body, and the responses the
\* gate and the status table tell apart.
Failures(body, url) ==
  {HostError(e) : e \in HttpsErrors}
    \cup {Response(s, url, TRUE, FALSE, body) :
            s \in {99, 100, 204, 302, 403, 410, 429, 503, 599, 600}}
    \cup {Response(200, u, TRUE, FALSE, body) : u \in {"elsewhere", "instagram"}}
    \cup {Response(503, "elsewhere", TRUE, FALSE, body),
          Response(200, url, FALSE, FALSE, body),
          Response(200, url, TRUE, TRUE, body)}

MCPageReplies ==
  {Body(p) : p \in Readables} \cup {Body([Blank EXCEPT !.utf8 = FALSE])}
    \cup Failures(Blank, "facebook")

MCTahoeReplies ==
  {Response(200, "facebook-tahoe", TRUE, FALSE, [json |-> j, urls |-> f]) :
     j \in BOOLEAN, f \in Fields}
    \cup Failures([json |-> TRUE, urls |-> <<a>>], "facebook-tahoe")
==============================================================================
