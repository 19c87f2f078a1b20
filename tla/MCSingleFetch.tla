---------------------------- MODULE MCSingleFetch ----------------------------
(***************************************************************************)
(* A small instance: every bound of sixteen is three, the list cap of      *)
(* TikTok is four, a title has four bytes and an identifier three bits.    *)
(***************************************************************************)
EXTENDS SingleFetch

CONSTANTS a, b, c, d, fragment, foreign

MCUrls == {a, b, c, d, fragment, foreign}
MCSafeUrls == {a, b, c, d, foreign}

\* X: two URLs share a label, one has none; fragment passes the host check only.
MCVideoHostUrls == {a, b, c, d, fragment}
MCLabelOf == [u \in MCUrls |-> CASE u \in {a, b} -> "720p" [] u = c -> "360p"
                                 [] OTHER -> Missing]

V(mp4, url, bitrate) == [mp4 |-> mp4, url |-> url, bitrate |-> bitrate]
Media(variants) == [variants |-> variants, media_url_https |-> Missing]

SomeVariants == {V(TRUE, a, 1), V(TRUE, b, 2), V(TRUE, c, 2), V(TRUE, d, 0),
                 V(FALSE, c, 3), V(TRUE, foreign, 3), V(TRUE, Missing, 3)}

VariantLists ==
  {<< >>, <<V(TRUE, fragment, 1), V(TRUE, a, 1)>>,
   <<V(TRUE, d, 1), V(TRUE, fragment, 1)>>,
   <<V(TRUE, d, 0), V(TRUE, c, 1), V(TRUE, a, 2), V(TRUE, b, 3)>>}
    \cup UNION {[1..n -> SomeVariants] : n \in 1..3}

Post == [object |-> TRUE, tombstone |-> FALSE, text |-> <<"ascii">>,
         mediaDetails |-> <<Media(<<V(TRUE, a, 1)>>)>>]

MCXBodies ==
  {[Post EXCEPT !.mediaDetails = <<Media(v)>>] : v \in VariantLists}
    \cup {[Post EXCEPT !.mediaDetails = <<Media(v), Media(w), Media(x)>>] :
            v, w, x \in {<< >>, <<V(FALSE, a, 1)>>, <<V(TRUE, b, 1), V(TRUE, c, 2)>>}}
    \cup {[Post EXCEPT !.object = o, !.tombstone = t] : o, t \in BOOLEAN}
    \cup {[Post EXCEPT !.text = t, !.mediaDetails[1].media_url_https = u] :
            t \in {<< >>, <<"control">>, <<"wide", "wide", "wide">>,
                   <<"wide", "ascii", "wide", "control">>},
            u \in {Missing, d, fragment, foreign}}
    \cup {[Post EXCEPT !.mediaDetails = Missing]}

\* TikTok: a, b, c and d are on the CDN, foreign and fragment are not.
MCCdnUrls == {a, b, c, d}

Video(play, download, struct, rates) ==
  [playAddr |-> play, downloadAddr |-> download, PlayAddrStruct |-> struct,
   bitrateInfo |-> rates]

MCVideos ==
  {Video(p, q, s, r) :
     p \in {Missing, a, foreign}, q \in {Missing, a, b},
     s \in {<< >>, <<b, foreign, Missing>>, <<foreign, foreign, foreign, foreign, c>>},
     r \in {<< >>, <<<<c>>, <<d, a>>>>, <<<<fragment, b, Missing>>, <<a, c, d>>>>}}

Detail(code, video) == [statusCode |-> code, video |-> video]
PlainDetail == Detail(0, Video(a, Missing, << >>, << >>))
OtherDetail == Detail(0, Video(b, Missing, << >>, << >>))
Page(u, v) == [utf8 |-> TRUE, universal |-> u, api_data |-> v]

MCTikTokBodies ==
  {Page(Detail(0, v), Missing) : v \in MCVideos}
    \cup {Page(u, v) : u, v \in {Missing, PlainDetail, OtherDetail, Detail(0, Missing)}
                                  \cup {Detail(s, PlainDetail.video) : s \in {10204, Missing}}}
    \cup {[Page(PlainDetail, Missing) EXCEPT !.utf8 = FALSE]}

\* Bandcamp: a never expires, b and c do, d has a marker that conflicts.
Query(pairs, ts, token) == [pairs |-> pairs, ts |-> ts, token |-> token]
MCQueryOf ==
  [u \in MCUrls |-> CASE u = a -> Query(TRUE, << >>, <<{}>>)
                      [] u = b -> Query(TRUE, <<1>>, <<{0, 1}>>)
                      [] u = c -> Query(TRUE, <<2>>, <<{2}>>)
                      [] u = d -> Query(TRUE, <<2>>, <<{0, 1}>>)
                      [] u = foreign -> Query(TRUE, <<IllTyped>>, <<{2}>>)
                      [] u = fragment -> Query(FALSE, << >>, << >>)]

Named(id, media) == [id |-> id, id_fits |-> TRUE, media |-> media]

FileLists ==
  {<< >>, <<Named("mp3", d)>>, <<Named("mp3", "")>>, <<Named("mp3", fragment)>>,
   <<Named("mp3", a), Named("m4a", IllTyped)>>, <<Named("mp3", foreign)>>,
   <<Named("", a)>>, <<Named("", a), Named("mp3", c)>>,
   <<[Named("mp3", a) EXCEPT !.id_fits = FALSE]>>,
   <<Named("mp3", a), Named("m4a", a), Named("ogg", b)>>,
   <<Named("mp3", c), Named("m4a", a), Named("ogg", b)>>,
   <<Named("mp3", c), Named("m4a", a), Named("ogg", b), Named("wav", "")>>}
    \cup {<<Named("mp3", u), Named("m4a", v)>> : u, v \in {a, b, c, ""}}

Track(track_id, id, file) ==
  [track_id |-> track_id, id |-> id, file |-> file, title |-> <<"ascii">>]

Song == [readable |-> TRUE, current_id |-> 1, artist_refused |-> FALSE,
         trackinfo |-> <<Track(1, 1, <<Named("mp3", a)>>)>>]

AtFile(f) == <<Track(1, 1, f)>>

MCBandcampBodies ==
  {[Song EXCEPT !.trackinfo = AtFile(f)] : f \in FileLists \cup {Missing}}
    \cup {[Song EXCEPT !.trackinfo = <<Track(i, j, <<Named("mp3", a)>>),
                                       Track(k, Missing, <<Named("mp3", c)>>)>>,
                       !.current_id = m] :
            i, j \in {Missing, 1, 7}, k \in {-1, 1, 7}, m \in {Missing, -1, 1, 7}}
    \cup {[Song EXCEPT !.trackinfo[1].title = t] :
            t \in {Missing, IllTyped, <<"control">>, <<"wide">>, <<"wide", "wide">>,
                   <<"escaped", "escaped">>}}
    \cup {[Song EXCEPT !.readable = r, !.artist_refused = q] : r, q \in BOOLEAN}
    \cup {[Song EXCEPT !.trackinfo = t] :
            t \in {Missing, << >>, <<Missing>>,
                   [i \in 1..4 |-> Track(i, i, <<Named("mp3", a)>>)]}}

Failures(home, body) ==
  {HostError(e) : e \in HttpsErrors}
    \cup {Response(s, home, TRUE, FALSE, body) :
            s \in {99, 100, 204, 302, 401, 404, 429, 500, 599, 600}}
    \cup {Response(200, "elsewhere", TRUE, FALSE, body),
          Response(503, "elsewhere", TRUE, FALSE, body),
          Response(200, "facebook", TRUE, FALSE, body),
          Response(200, home, FALSE, FALSE, body),
          Response(200, home, TRUE, TRUE, body)}

Good(home, bodies) == {Response(200, home, TRUE, FALSE, body) : body \in bodies}

MCPages ==
  [p \in {"x", "tiktok", "bandcamp"} |->
     CASE p = "x" -> Good(p, MCXBodies) \cup Failures(p, Post)
       [] p = "tiktok" -> Good(p, MCTikTokBodies)
                            \cup Failures(p, Page(PlainDetail, Missing))
       [] p = "bandcamp" -> Good(p, MCBandcampBodies) \cup Failures(p, Song)]
==============================================================================
