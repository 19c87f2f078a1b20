----------------------------- MODULE MediaAnswer -----------------------------
(***************************************************************************)
(* The answer the X, TikTok and Bandcamp plugins build from a page, and    *)
(* the SDK's last gate over it.  A text is a sequence of characters, told  *)
(* apart by their width and by what happens to them on the way.            *)
(***************************************************************************)
EXTENDS SdkHttps, Lists

CONSTANTS TitleBytes,  \* resolver_bounds::TITLE, also the plugins' own limit
          Labels,      \* what quality_label lifts out of a path
          FormatIds,   \* the keys of a Bandcamp file object, one may be ""
          Missing      \* a field that is absent

ASSUME MediaAssumption == TitleBytes \in Nat /\ Missing \notin Urls \cup Int

\* "escaped" is a wide character written in ASCII (an entity or a JSON escape),
\* "mangled" one that stands for a single byte of a wide one.
Chars == {"ascii", "control", "wide", "escaped", "mangled"}

Bytes(text) ==
  FoldLeft(LAMBDA sum, c : sum + (IF c \in {"ascii", "control"} THEN 1 ELSE 2),
           0, text)

Texts == Seq(Chars)

\* Where a candidate's id comes from: its quality label or its bit rate (X), its
\* position (TikTok), its format id (Bandcamp).
CandidateIds == ({"label"} \X Labels) \cup ({"number"} \X Nat)
                  \cup ({"format"} \X FormatIds)

Streams == [id : CandidateIds, url : Urls, expires : Nat \cup {Missing}]

MediaResponses ==
  [resolution : {"direct", "candidates", "unsupported"}, streams : Seq(Streams),
   title : Texts, thumbnail : Urls \cup {Missing}]

nothing_to_resolve ==
  [resolution |-> "unsupported", streams |-> << >>, title |-> << >>,
   thumbnail |-> Missing]

\* The three mappings agree: one stream is direct, several are candidates.
Answer(streams, title, thumbnail) ==
  [resolution |-> IF Len(streams) = 1 THEN "direct" ELSE "candidates",
   streams |-> streams, title |-> title, thumbnail |-> thumbnail]

\* What a parser returns.
Error(e) == [kind |-> "error", error |-> e]
Ok(response) == [kind |-> "response", response |-> response]

\* Component::resolve applies it last: an id must be unique only among candidates.
validate_answer(r) ==
  /\ Bytes(r.title) <= TitleBytes
  /\ "control" \notin ToSet(r.title)
  /\ r.thumbnail \in SafeUrls \cup {Missing}
  /\ \A i \in 1..Len(r.streams) : r.streams[i].url \in SafeUrls
  /\ r.resolution = "candidates" =>
       /\ Len(r.streams) \in 1..Candidates
       /\ \A i \in 1..Len(r.streams) : r.streams[i].id # <<"format", "">>
       /\ \A i, j \in 1..Len(r.streams) :
            i # j => r.streams[i].id # r.streams[j].id
==============================================================================
