--------------------------- MODULE MCYouTubeSession ---------------------------
(***************************************************************************)
(* A small instance: up to three muxed and three adaptive formats under a  *)
(* bound of two candidates, with direct, ciphered, doubly named, undecoded *)
(* and unusable entries, equal and different ranks, one array too long.    *)
(***************************************************************************)
EXTENDS YouTubeSession

CONSTANTS a, b, c, unsafe

MCUrls == {a, b, c, unsafe}
MCSafeUrls == {a, b, c}

Entry(family, url, ciphered, height, bitrate) ==
  [ok |-> TRUE, family |-> family, url |-> url, ciphered |-> ciphered,
   height |-> height, bitrate |-> bitrate, within |-> TRUE]

Low == Entry("video", a, Missing, 1, 2)
Mid == Entry("video", b, b, 2, 1)
High == Entry("video", Missing, c, 2, 2)
Lost == Entry("video", Missing, "garbled", 3, 3)
Unsafe == Entry("other", Missing, unsafe, 3, 3)
Empty == Entry("video", Missing, Missing, 3, 3)
Overlong == [Mid EXCEPT !.within = FALSE]
Broken == [Low EXCEPT !.ok = FALSE]

Soft == Entry("audio", a, Missing, 0, 1)
Loud == Entry("audio", Missing, b, 0, 2)

Muxed == {<< >>, <<Low>>, <<Lost>>, <<Unsafe, Empty>>, <<Low, Mid>>, <<Low, High>>,
          <<Low, Mid, High>>, <<Mid, Low, Low>>, <<Lost, Low, High>>, <<Overlong, Low>>,
          <<Low, Broken>>, <<Low, Low, Low, Low>>}

Adaptive == {<< >>, <<Soft>>, <<Mid>>, <<Soft, Loud>>, <<Soft, Low, High>>,
             <<Low, Soft, Mid>>, <<Loud, Lost>>, <<Unsafe, Soft>>, <<Broken>>,
             <<Overlong, Soft>>, <<[Soft EXCEPT !.family = "other"]>>}

Watch(p) == Response(200, "youtube", TRUE, FALSE, p)

Plain == [readable |-> TRUE, player_js_url |-> "player", playability |-> "OK",
          text |-> "clean", formats |-> <<High>>, adaptive |-> << >>]

Failures(body) ==
  {HostError(e) : e \in HttpsErrors}
    \cup {Response(s, "youtube", TRUE, FALSE, body) :
            s \in {99, 100, 204, 302, 401, 404, 429, 500, 599, 600}}
    \cup {Response(200, "elsewhere", TRUE, FALSE, body),
          Response(200, "facebook", TRUE, FALSE, body),
          Response(503, "elsewhere", TRUE, FALSE, body),
          Response(200, "youtube", FALSE, FALSE, body),
          Response(200, "youtube", TRUE, TRUE, body)}

MCPageReplies ==
  {Watch([Plain EXCEPT !.formats = f, !.adaptive = d, !.player_js_url = u]) :
     f \in Muxed, d \in Adaptive, u \in {"none", "unroutable", "player"}}
    \cup {Watch([Plain EXCEPT !.text = t, !.playability = p, !.readable = r,
                              !.formats = f]) :
            t \in {"clean", "control", "refused"}, r \in BOOLEAN,
            p \in {"missing", "OK", "private", "unavailable"},
            f \in {<<Low>>, <<Broken>>, <<High>>}}
    \cup Failures(Plain)

MCPlayerReplies ==
  {Watch([ops |-> o]) : o \in BOOLEAN} \cup Failures([ops |-> TRUE])
==============================================================================
