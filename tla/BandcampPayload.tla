--------------------------- MODULE BandcampPayload ---------------------------
(***************************************************************************)
(* What the Bandcamp plugin makes of a page at a given time                *)
(* (plugins/bandcamp/src/html.rs, payload.rs and mapping.rs).              *)
(***************************************************************************)
EXTENDS MediaAnswer

CONSTANTS TrackinfoLimit,  \* TRACKINFO_LIMIT
          FileLimit,       \* FILE_LIMIT
          IdRange,         \* 2^64: how many values a u64 has
          QueryOf,         \* the query string of a URL, as parse_expiry reads it
          IllTyped,        \* a value of another JSON type, or of no use as a number
          Conflict         \* an expiry that its own URL contradicts

\* The pairs of a query: whether each has a value; the values of ts, IllTyped
\* when not a decimal that fits a u64; for each token the timestamps it starts with.
Queries == [pairs : BOOLEAN, ts : Seq(Nat \cup {IllTyped}), token : Seq(SUBSET Nat)]

ASSUME BandcampAssumption ==
  /\ TrackinfoLimit \in Nat /\ FileLimit \in Nat
  /\ IdRange \in Nat \ {0} /\ IdRange % 2 = 0
  /\ QueryOf \in [Urls -> Queries]

\* A JSON integer fits an i64 or a u64; any other number or type is no id.
JsonIds == (-(IdRange \div 2))..(IdRange - 1) \cup {Missing}

\* A member of the file object: whether its key is short enough, and a URL, an
\* empty string or another type.
Files == [id : FormatIds, id_fits : BOOLEAN,
          media : Urls \cup {"", IllTyped}]

Titles == Texts \cup {Missing, IllTyped}

Tracks == [track_id : JsonIds, id : JsonIds, file : Seq(Files) \cup {Missing},
           title : Titles]

\* The page: whether it holds the one data-tralbum attribute, decodable and, as
\* JSON, within the preflight bounds and with a current object; that object's id,
\* and whether its artist is refused; trackinfo, with an entry that is no object
\* Missing.
BandcampBodies == [readable : BOOLEAN, current_id : JsonIds,
                   artist_refused : BOOLEAN,
                   trackinfo : Seq(Tracks \cup {Missing}) \cup {Missing}]

------------------------------------------------------------------------------
\* Every byte that is no entity becomes a character of its own, so a wide character
\* of the page becomes two.
decode_entities(text) ==
  FlattenSeq([i \in 1..Len(text) |->
                CASE text[i] = "wide" -> <<"mangled", "mangled">>
                  [] text[i] = "escaped" -> <<"wide">>
                  [] OTHER -> <<text[i]>>])

\* A u64 beyond i64::MAX wraps to a negative number.
as_i64(n) == IF n >= IdRange \div 2 THEN n - IdRange ELSE n

entry_id(track) ==
  IF track.track_id # Missing THEN as_i64(track.track_id)
  ELSE IF track.id # Missing THEN as_i64(track.id) ELSE Missing

Matching(body) ==
  Only(body.trackinfo,
       {track \in ToSet(body.trackinfo) : entry_id(track) = as_i64(body.current_id)})

\* A ts without the one token that starts with it is a conflict.
parse_expiry(url) ==
  LET query == QueryOf[url]
  IN  CASE ~query.pairs -> Conflict
        [] query.pairs /\ query.ts = << >> -> Missing
        [] OTHER -> IF /\ Len(query.ts) = 1 /\ Len(query.token) = 1
                       /\ query.ts[1] # IllTyped /\ query.ts[1] \in query.token[1]
                    THEN query.ts[1] ELSE Conflict

FileOk(f) ==
  /\ f.id_fits
  /\ \/ f.media = ""
     \/ f.media \in SafeUrls /\ parse_expiry(f.media) # Conflict

\* Seeded bug: a stream is kept through the second in which it expires.
Expired_late(url, now) ==
  parse_expiry(url) # Missing /\ parse_expiry(url) < now

Expired(url, now) == parse_expiry(url) # Missing /\ parse_expiry(url) <= now

\* The members that are kept: not empty, the first of their URL, not expired.
Retained(file, now) ==
  Sieve(file, {f \in ToSet(file) : f.media # "" /\ ~Expired(f.media, now)},
        {p \in Files \X Files : p[1].media = p[2].media}, Len(file))

selected_string_ok(title) ==
  title # IllTyped
    /\ (title # Missing => Bytes(decode_entities(title)) <= TitleBytes)

BandcampStream(f) ==
  [id |-> <<"format", f.id>>, url |-> f.media, expires |-> parse_expiry(f.media)]

bandcamp_map(track, now) ==
  LET kept == Retained(track.file, now)
  IN  Answer([i \in 1..Len(kept) |-> BandcampStream(kept[i])],
             IF track.title = Missing THEN << >> ELSE decode_entities(track.title),
             Missing)

------------------------------------------------------------------------------
TrackinfoOk(body) ==
  /\ body.readable /\ body.current_id # Missing /\ body.trackinfo # Missing
  /\ Len(body.trackinfo) <= TrackinfoLimit

FileListOk(track) == track.file # Missing /\ Len(track.file) <= FileLimit

SelectTrack(track, artist_refused, now) ==
  CASE ~FileListOk(track) -> Error(malformed)
    [] FileListOk(track) /\ track.file = << >> -> Error(unavailable)
    [] OTHER ->
         IF \E f \in ToSet(track.file) : ~FileOk(f) THEN Error(malformed)
         ELSE IF Retained(track.file, now) = << >> THEN Error(unavailable)
         ELSE IF artist_refused \/ ~selected_string_ok(track.title)
         THEN Error(malformed)
         ELSE Ok(bandcamp_map(track, now))

bandcamp_parse_and_map(body, now) ==
  CASE ~TrackinfoOk(body) -> Error(malformed)
    [] TrackinfoOk(body) /\ body.trackinfo = << >> -> Error(unavailable)
    [] OTHER -> IF Missing \in ToSet(body.trackinfo) \/ Len(Matching(body)) # 1
                THEN Error(malformed)
                ELSE SelectTrack(Matching(body)[1], body.artist_refused, now)
==============================================================================
