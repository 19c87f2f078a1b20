------------------------------- MODULE XPayload -------------------------------
(***************************************************************************)
(* What the X plugin makes of a syndication body (plugins/x/src/payload.rs *)
(* and mapping.rs) and of a failed retrieval (error.rs).                   *)
(***************************************************************************)
EXTENDS MediaAnswer

CONSTANTS MediaDetailEntries,  \* MEDIA_DETAIL_ENTRIES
          VariantEntries,      \* VARIANT_ENTRIES
          VideoHostUrls,       \* URLs of bounded length on video.twimg.com
          ThumbnailHostUrls,   \* URLs of any length on pbs.twimg.com
          LabelOf              \* quality_label, by URL

\* The authority is all the two host checks look at, so either set may hold URLs
\* that safe_https refuses. The entries of one attachment fill an answer exactly.
ASSUME XAssumption ==
  /\ MediaDetailEntries \in Nat /\ VariantEntries \in Nat
  /\ VariantEntries <= Candidates
  /\ VideoHostUrls \subseteq Urls /\ ThumbnailHostUrls \subseteq Urls
  /\ LabelOf \in [Urls -> Labels \cup {Missing}]

\* An entry of video_info.variants; an absent or ill-typed bit rate counts as 0.
Variants == [mp4 : BOOLEAN, url : Urls \cup {Missing}, bitrate : Nat]

Attachments == [variants : Seq(Variants), media_url_https : Urls \cup {Missing}]

\* The body: whether it is a JSON object, and one that stands for a withdrawn post;
\* the post's text with its white space collapsed; and mediaDetails.
XBodies == [object : BOOLEAN, tombstone : BOOLEAN, text : Texts,
            mediaDetails : Seq(Attachments) \cup {Missing}]

------------------------------------------------------------------------------
Renditions == [mp4 : {TRUE}, url : VideoHostUrls, bitrate : Nat]

HigherBitrate == {p \in Renditions \X Renditions : p[1].bitrate >= p[2].bitrate}

\* Seeded bug: the renditions are taken as the payload lists them.
variants_of_unsorted(media) == Only(First(VariantEntries, media.variants), Renditions)

variants_of(media) ==
  StableSort(Only(First(VariantEntries, media.variants), Renditions), HigherBitrate)

\* Seeded bug: an unlabelled rendition has no id.
variant_id_of_label(v) == <<"label", LabelOf[v.url]>>

variant_id(v) ==
  IF LabelOf[v.url] # Missing THEN <<"label", LabelOf[v.url]>>
  ELSE <<"number", v.bitrate>>

\* The loop over the variants of the attachment; a later one that repeats a URL or
\* an id is passed over.
Repeats == {p \in Renditions \X Renditions :
              p[1].url = p[2].url \/ variant_id(p[1]) = variant_id(p[2])}

distinct(variants) == Sieve(variants, Renditions, Repeats, Candidates)

\* The title is cut at the last character that fits.
title_of(text) ==
  LET fits == {n \in 0..Len(text) : Bytes(SubSeq(text, 1, n)) <= TitleBytes}
  IN  SubSeq(text, 1, CHOOSE n \in fits : \A m \in fits : m <= n)

WithVideo(body) ==
  LET details == First(MediaDetailEntries, body.mediaDetails)
  IN  Only(details, {media \in ToSet(details) : variants_of(media) # << >>})

XStream(v) == [id |-> variant_id(v), url |-> v.url, expires |-> Missing]

XSelection(body) ==
  LET media == Head(WithVideo(body))
      kept == distinct(variants_of(media))
      thumbnail == media.media_url_https
  IN  Answer([i \in 1..Len(kept) |-> XStream(kept[i])], title_of(body.text),
             IF thumbnail \in ThumbnailHostUrls THEN thumbnail ELSE Missing)

x_parse_and_map(body) ==
  CASE ~body.object -> Error(malformed)
    [] body.object /\ body.tombstone -> Error(private)
    [] OTHER -> IF body.mediaDetails = Missing \/ WithVideo(body) = << >>
                THEN Ok(nothing_to_resolve) ELSE Ok(XSelection(body))

------------------------------------------------------------------------------
x_transport(e) ==
  CASE e = "Timeout" -> ResolverError("Timeout", TRUE)
    [] e = "TransportFailure" -> ResolverError("UpstreamFailure", TRUE)
    [] e = "MalformedUpstream" -> malformed
    [] e \in {"BlockedHost", "RedirectRejected", "InvalidRequest"} -> policy
    [] e \in {"RequestTooLarge", "ResponseTooLarge"} ->
         ResolverError("UpstreamFailure", FALSE)

\* Unlike the other plugins X takes no success but 200.
x_status_ok(s) == s = 200
==============================================================================
