---------------------------- MODULE TikTokPayload ----------------------------
(***************************************************************************)
(* What the TikTok plugin makes of a page (plugins/tiktok/src/payload.rs   *)
(* and mapping.rs).  The page carries its video detail in one of two JSON  *)
(* islands.                                                                *)
(***************************************************************************)
EXTENDS MediaAnswer

CONSTANTS UrlListCap,   \* URL_LIST_CAP
          CdnUrls       \* URLs of an admitted CDN family, no gateway among them

ASSUME TikTokAssumption == UrlListCap \in Nat /\ CdnUrls \subseteq SafeUrls

\* An address that is absent, ill-typed, empty or too long is Missing. bitrateInfo
\* holds one list of addresses for each bit rate.
Videos == [playAddr : Urls \cup {Missing}, downloadAddr : Urls \cup {Missing},
           PlayAddrStruct : Seq(Urls \cup {Missing}),
           bitrateInfo : Seq(Seq(Urls \cup {Missing}))]

\* statusCode is absent, zero or not; video may be absent at any level of itemInfo.
Details == [statusCode : {0, 10204, Missing}, video : Videos \cup {Missing}]

\* An island that is absent, unclosed or not JSON has no detail, nor need a sound
\* one have any.
TikTokBodies == [utf8 : BOOLEAN, universal : Details \cup {Missing},
                 api_data : Details \cup {Missing}]

unsupported == ResolverError("UnsupportedUrl", FALSE)

------------------------------------------------------------------------------
Present(urls) == Only(urls, Urls)

\* Absent entries do not count towards the cap.
collect_url_list(urls) ==
  SubSeq(Present(urls), 1,
         IF Len(Present(urls)) < UrlListCap THEN Len(Present(urls)) ELSE UrlListCap)

\* The four sources of addresses, in order. The lists of all bit rates are
\* collected into one.
Raw(video) ==
  Present(<<video.playAddr, video.downloadAddr>>)
    \o collect_url_list(video.PlayAddrStruct)
    \o collect_url_list(FlattenSeq(video.bitrateInfo))

video_detail(body) == IF body.universal # Missing THEN body.universal
                      ELSE body.api_data

HasVideo(body) ==
  /\ body.utf8
  /\ video_detail(body) # Missing
  /\ video_detail(body).statusCode = 0
  /\ video_detail(body).video # Missing
  /\ Raw(video_detail(body).video) # << >>

\* Seeded bug: the bound is applied to the addresses, before the filter.
survivors_of_the_first(raw) ==
  Sieve(SubSeq(raw, 1, IF Len(raw) < Candidates THEN Len(raw) ELSE Candidates),
        CdnUrls, {<<u, u>> : u \in CdnUrls}, Candidates)

\* The loop over the addresses stops at the bound; until then it passes over what
\* is not on the CDN and what it has seen.
survivors(raw) == Sieve(raw, CdnUrls, {<<u, u>> : u \in CdnUrls}, Candidates)

tiktok_map(video) ==
  LET urls == survivors(Raw(video))
  IN  IF urls = << >> THEN nothing_to_resolve
      ELSE Answer([i \in 1..Len(urls) |->
                     [id |-> <<"number", i - 1>>, url |-> urls[i],
                      expires |-> Missing]], << >>, Missing)

\* An item without video is an error here, one without admitted address is not.
tiktok_parse_and_map(body) ==
  IF HasVideo(body) THEN Ok(tiktok_map(video_detail(body).video))
  ELSE Error(unsupported)
==============================================================================
