---------------------------- MODULE YouTubeProofs ----------------------------
(***************************************************************************)
(* For every set of pages, player scripts and answers of the host, every   *)
(* bound and every exclusive or: what one resolve call of the YouTube      *)
(* plugin asks, delivers and refuses, and what its cipher makes of a       *)
(* player script.                                                          *)
(***************************************************************************)
EXTENDS YouTubeSession, YouTubeCipher, FoldLemmas

------------------------------------------------------------------------------
(* The resolve call.                                                         *)

HostCalls == [op : {"watch", "player"}, reply : {Pending} \cup PageReplies \cup PlayerReplies]

ResolverErrors == [kind : ResolverErrorKinds, retryable : BOOLEAN]

Outcomes == {Pending} \cup [kind : {"error"}, error : ResolverErrors]
              \cup [kind : {"response"}, response : Responses]

\* What has been asked of the host and how it was answered, at every point of
\* resolve_public: the player script is asked for on a readable page only.
Conversation ==
  /\ calls \in Seq(HostCalls)
  /\ pc = "classify" => Len(calls) = 0
  /\ pc \in {"await_watch", "watch"} => Len(calls) = 1
  /\ pc \in {"await_player", "player"} => Len(calls) = 2
  /\ pc = "validate" => Len(calls) \in {1, 2}
  /\ pc = "done" => Len(calls) \in {0, 1, 2}
  /\ pc = "await_watch" => calls[1].reply = Pending
  /\ pc = "await_player" => calls[2].reply = Pending
  /\ Len(calls) # 0 /\ pc # "await_watch" => calls[1].reply \in PageReplies
  /\ Len(calls) = 2 /\ pc # "await_player" => calls[2].reply \in PlayerReplies
  /\ Len(calls) = 2 => Readable
  /\ pc = "validate" => Readable /\ (Len(calls) = 2 => Usable(calls[2].reply))
  /\ pc # "done" => outcome = Pending

\* A response is made from a page that can be read.
Provenance ==
  /\ response \in Responses
  /\ outcome \in Outcomes
  /\ pc = "validate" => response = map(Page)
  /\ outcome.kind = "response" =>
       /\ pc = "done" /\ Len(calls) # 0 /\ Readable
       /\ outcome.response = map(Page) /\ FinalGate(outcome.response)

Places == {"classify", "await_watch", "watch", "await_player", "player", "validate",
           "done"}

IInv == pc \in Places /\ source \in Sources /\ Conversation /\ Provenance

------------------------------------------------------------------------------
\* The plugin's two tables and the gate in front of them agree with the contract's
\* reading of an answer: a usable one is a success, and the error made of any other
\* invites a retry exactly when the failure may pass.
LEMMA AnswerTables ==
  ASSUME NEW Bodies, NEW r \in Replies(Bodies)
  PROVE  /\ r # Pending
         /\ AnswerClass(r) \in {"success", "transient", "refused"}
         /\ Usable(r) <=> AnswerClass(r) = "success"
         /\ Usable(r) => r.kind = "response" /\ r.body \in Bodies
         /\ ~Usable(r) => (FetchError(r).retryable <=> AnswerClass(r) = "transient")
         /\ ~Usable(r) => FetchError(r) \in ResolverErrors
<1> USE DEF ResolverErrors, ResolverErrorKinds, ResolverError, malformed, policy,
            private, unavailable
<1>1. CASE r \in [kind : {"error"}, error : HttpsErrors]
  <2>1. r.kind = "error" /\ r.error \in HttpsErrors /\ r # Pending
    BY <1>1 DEF Pending
  <2>2. checked_response(r) = r /\ ~Usable(r) /\ FetchError(r) = TransportError(r.error)
    BY <2>1 DEF checked_response, Usable, FetchError
  <2>3. AnswerClass(r) = IF r.error \in {"Timeout", "TransportFailure"}
                         THEN "transient" ELSE "refused"
    BY <2>1 DEF AnswerClass
  <2>4. /\ TransportError(r.error) \in ResolverErrors
        /\ TransportError(r.error).retryable <=> r.error \in {"Timeout", "TransportFailure"}
    BY <2>1 DEF HttpsErrors, TransportError
  <2> QED
    BY <2>1, <2>2, <2>3, <2>4
<1>2. CASE r.kind = "response" /\ r.status \in Nat /\ r.body \in Bodies
  <2>1. r # Pending
    BY <1>2 DEF Pending
  <2>2. CASE ~validate_https_response(r)
    <3>1. checked_response(r) = HostError("MalformedUpstream")
      BY <1>2, <2>2 DEF checked_response
    <3>2. ~Usable(r) /\ FetchError(r) = malformed
      BY <3>1 DEF Usable, FetchError, HostError, TransportError
    <3>3. AnswerClass(r) = "refused"
      BY <1>2, <2>1, <2>2 DEF AnswerClass
    <3> QED
      BY <2>1, <3>2, <3>3
  <2>3. CASE validate_https_response(r)
    <3>1. checked_response(r) = r
      BY <2>3 DEF checked_response
    <3>2. Usable(r) <=> r.status \in 200..299
      BY <1>2, <3>1 DEF Usable, StatusOk
    <3>3. FetchError(r) = status(r.status)
      BY <1>2, <3>1 DEF FetchError
    <3>4. /\ status(r.status) \in ResolverErrors
          /\ status(r.status).retryable <=> r.status = 429 \/ r.status \in 500..599
      BY <1>2 DEF status
    <3>5. AnswerClass(r) = IF r.status \in 200..299 THEN "success"
                           ELSE IF r.status = 429 \/ r.status \in 500..599
                                THEN "transient" ELSE "refused"
      BY <1>2, <2>1, <2>3 DEF AnswerClass
    <3> QED
      BY <1>2, <2>1, <3>2, <3>3, <3>4, <3>5
  <2> QED
    BY <2>2, <2>3
<1> QED
  BY <1>1, <1>2 DEF Replies

\* The same of the two replies of a call.
LEMMA ReplyTables ==
  ASSUME NEW r \in PageReplies \cup PlayerReplies
  PROVE  /\ r # Pending
         /\ AnswerClass(r) \in {"success", "transient", "refused"}
         /\ Usable(r) <=> AnswerClass(r) = "success"
         /\ Usable(r) /\ r \in PageReplies => r.body \in PageBodies
         /\ ~Usable(r) => (FetchError(r).retryable <=> AnswerClass(r) = "transient")
         /\ ~Usable(r) => FetchError(r) \in ResolverErrors
<1>1. r \in PageReplies => r \in Replies(PageBodies)
  BY YouTubeAssumption
<1>2. r \in PlayerReplies => r \in Replies(PlayerBodies)
  BY YouTubeAssumption
<1> QED
  BY <1>1, <1>2, AnswerTables

------------------------------------------------------------------------------
(* Reading a page: the rankings and the bound.                               *)

\* The formats of a list that are playable, of one kind or of all.
Kept(entries, passing) == Only(Selected(entries), passing)

LEMMA Orders == IsOrder(AsTall, Entries) /\ IsOrder(AsLoud, Entries)
<1>1. \A e \in Entries : e.height \in Nat /\ e.bitrate \in Nat
  BY DEF Entries
<1>2. IsOrder(AsTall, Entries)
  BY <1>1 DEF IsOrder, AsTall, Taller
<1>3. IsOrder(AsLoud, Entries)
  BY <1>1 DEF IsOrder, AsLoud, Louder
<1> QED
  BY <1>2, <1>3

\* What names a URL, or a cipher that decodes to one, is what Resolved keeps.
LEMMA PlayableOffers ==
  ASSUME NEW entries \in Seq(Entries)
  PROVE  /\ Offers(entries) = ToSet(entries) \cap Playable
         /\ Offers(entries) \subseteq Named
<1>1. ToSet(entries) \subseteq Entries
  BY DEF ToSet
<1>2. Missing \notin SafeUrls
  BY SdkAssumption, YouTubeAssumption
<1>3. \A e \in Entries : Resolved(e) # Missing <=> e.url # Missing \/ e.ciphered \in SafeUrls
  BY <1>2 DEF Resolved
<1> QED
  BY <1>1, <1>2, <1>3 DEF Offers, Playable, Named

\* A ranking is made of the offers of its kind, none before one that outranks it.
LEMMA RankedOffers ==
  ASSUME NEW entries \in Seq(Entries), NEW passing \in SUBSET Playable,
         NEW ahead, IsOrder(ahead, Entries)
  PROVE  LET ranked == Ranked(entries, passing, ahead)
         IN  /\ ranked \in Seq(Entries)
             /\ ToSet(ranked) = Offers(entries) \cap passing
             /\ \A i, j \in 1..Len(ranked) : i < j => <<ranked[i], ranked[j]>> \in ahead
<1> DEFINE list == Kept(entries, passing)
           ranked == StableSort(list, ahead)
<1>1. list \in Seq(Entries) /\ ToSet(list) = Offers(entries) \cap passing
  <2>1. /\ Selected(entries) \in Seq(Entries)
        /\ ToSet(Selected(entries)) = ToSet(entries) \cap Named
    BY OnlyElements DEF Selected
  <2>2. list \in Seq(Entries) /\ ToSet(list) = ToSet(Selected(entries)) \cap passing
    BY <2>1, OnlyElements DEF Kept
  <2> QED
    BY <2>1, <2>2, PlayableOffers
<1> HIDE DEF list
<1>2. /\ ranked \in Seq(Entries) /\ ToSet(ranked) = ToSet(list)
      /\ \A i, j \in 1..Len(ranked) : i < j => <<ranked[i], ranked[j]>> \in ahead
  BY <1>1, SortedElements
<1>3. Ranked(entries, passing, ahead) = ranked
  BY DEF Ranked, Kept, list, ranked
<1> HIDE DEF ranked
<1> QED
  BY <1>1, <1>2, <1>3
\* The muxed formats of an answer: none but offers, none before one that outranks it,
\* and none left out unless as many as may be delivered outrank it or equal it.
LEMMA ProgressiveBest ==
  ASSUME NEW page \in PageBodies
  PROVE  LET out == progressive(page)
             muxed == Offers(page.formats)
         IN  /\ out \in Seq(Entries) /\ Len(out) <= Candidates
             /\ ToSet(out) \subseteq muxed
             /\ muxed = {} <=> Len(out) = 0
             /\ \A i, j \in 1..Len(out) : i < j => ~Taller(out[j], out[i])
             /\ Len(out) = Candidates \/ ToSet(out) = muxed
             /\ \A e \in muxed \ ToSet(out), i \in 1..Len(out) : ~Taller(e, out[i])
<1> DEFINE ranked == Ranked(page.formats, Playable, AsTall)
           out == First(Candidates, ranked)
           muxed == Offers(page.formats)
<1>1. page.formats \in Seq(Entries) /\ Candidates \in Nat \ {0}
  BY SdkAssumption DEF PageBodies
<1>2. /\ ranked \in Seq(Entries) /\ ToSet(ranked) = Offers(page.formats) \cap Playable
      /\ \A i, j \in 1..Len(ranked) : i < j => <<ranked[i], ranked[j]>> \in AsTall
  BY <1>1, Orders, RankedOffers
<1>3. muxed = Offers(page.formats) \cap Playable
  BY <1>1, PlayableOffers
<1>4. progressive(page) = out
  BY DEF progressive
<1> HIDE DEF ranked, muxed
<1>5. /\ out \in Seq(Entries) /\ Len(out) <= Candidates
      /\ \A i \in 1..Len(out) : /\ i \in 1..Len(ranked) /\ i <= Candidates
                                /\ out[i] = ranked[i]
      /\ \A i \in 1..Len(ranked) : i <= Candidates => i \in 1..Len(out)
  BY <1>1, <1>2, FirstElements
<1> HIDE DEF out
<1>6. Len(out) \in Nat /\ Len(ranked) \in Nat
  BY <1>2, <1>5
<1>7. \A e : e \in ToSet(out) <=> \E i \in 1..Len(out) : out[i] = e
  BY <1>5 DEF ToSet
<1>8. \A e : e \in muxed <=> \E i \in 1..Len(ranked) : ranked[i] = e
  BY <1>2, <1>3 DEF ToSet, muxed
<1>9. \A i, j \in 1..Len(ranked) : i < j => ~Taller(ranked[j], ranked[i])
  BY <1>2 DEF AsTall
<1>10. ToSet(out) \subseteq muxed
  BY <1>5, <1>7, <1>8
<1>11. ASSUME NEW e \in muxed, e \notin ToSet(out)
       PROVE  Len(out) = Candidates /\ \A i \in 1..Len(out) : ~Taller(e, out[i])
  <2>1. PICK k \in 1..Len(ranked) : ranked[k] = e
    BY <1>8
  <2>2. k > Candidates
    <3>1. k \notin 1..Len(out)
      BY <1>5, <1>7, <1>11, <2>1
    <3> QED
      BY <1>1, <1>5, <1>6, <3>1
  <2>3. Candidates \in 1..Len(ranked)
    BY <1>1, <1>6, <2>2
  <2>4. Len(out) = Candidates
    <3>1. Candidates \in 1..Len(out)
      BY <1>1, <1>5, <2>3
    <3> QED
      BY <1>1, <1>5, <1>6, <3>1
  <2>5. ASSUME NEW i \in 1..Len(out) PROVE ~Taller(e, out[i])
    <3>1. i < k /\ i \in 1..Len(ranked) /\ out[i] = ranked[i]
      BY <1>1, <1>5, <2>2
    <3> QED
      BY <1>9, <2>1, <3>1
  <2> QED
    BY <2>4, <2>5
<1>12. Len(out) = Candidates \/ ToSet(out) = muxed
  BY <1>10, <1>11
<1>13. muxed = {} <=> Len(out) = 0
  <2>1. ASSUME Len(out) = 0 PROVE muxed = {}
    <3>1. ToSet(out) = {}
      BY <1>7, <2>1
    <3> QED
      BY <1>1, <1>12, <2>1, <3>1
  <2>2. ASSUME Len(out) # 0 PROVE muxed # {}
    <3>1. 1 \in 1..Len(out)
      BY <1>6, <2>2
    <3> QED
      BY <1>5, <1>8, <3>1
  <2> QED
    BY <2>1, <2>2
<1>14. \A i, j \in 1..Len(out) : i < j => ~Taller(out[j], out[i])
  BY <1>5, <1>9
<1>15. \A e \in muxed \ ToSet(out), i \in 1..Len(out) : ~Taller(e, out[i])
  BY <1>11
<1> QED
  BY <1>4, <1>5, <1>10, <1>12, <1>13, <1>14, <1>15 DEF muxed

\* The best of a ranking, where there is one.
LEMMA BestOfRanking ==
  ASSUME NEW entries \in Seq(Entries), NEW passing \in SUBSET Playable,
         NEW ahead, IsOrder(ahead, Entries)
  PROVE  LET best == First(1, Ranked(entries, passing, ahead))
             offers == Offers(entries) \cap passing
         IN  /\ best \in Seq(Entries)
             /\ Len(best) = IF offers = {} THEN 0 ELSE 1
             /\ offers # {} => /\ best[1] \in offers
                               /\ \A e \in offers : <<best[1], e>> \in ahead
<1> DEFINE ranked == Ranked(entries, passing, ahead)
           best == First(1, ranked)
           offers == Offers(entries) \cap passing
<1>1. /\ ranked \in Seq(Entries) /\ ToSet(ranked) = offers
      /\ \A i, j \in 1..Len(ranked) : i < j => <<ranked[i], ranked[j]>> \in ahead
  BY RankedOffers
<1> HIDE DEF ranked, offers
<1>2. /\ best \in Seq(Entries) /\ Len(best) <= 1
      /\ \A i \in 1..Len(best) : i \in 1..Len(ranked) /\ best[i] = ranked[i]
      /\ \A i \in 1..Len(ranked) : i <= 1 => i \in 1..Len(best)
  BY <1>1, FirstElements
<1> HIDE DEF best
<1>3. Len(best) \in Nat /\ Len(ranked) \in Nat
  BY <1>1, <1>2
<1>4. \A e : e \in offers <=> \E i \in 1..Len(ranked) : ranked[i] = e
  BY <1>1 DEF ToSet
<1>5. CASE offers = {}
  <2>1. Len(ranked) = 0
    <3>1. 1 \notin 1..Len(ranked)
      BY <1>4, <1>5
    <3> QED
      BY <1>3, <3>1
  <2>2. 1 \notin 1..Len(best)
    BY <1>2, <2>1
  <2>3. Len(best) = 0
    BY <1>3, <2>2
  <2> QED
    BY <1>2, <1>5, <2>3 DEF offers, best, ranked
<1>6. CASE offers # {}
  <2>1. 1 \in 1..Len(ranked)
    <3>1. PICK i \in 1..Len(ranked) : TRUE
      BY <1>4, <1>6
    <3> QED
      BY <1>3, <3>1
  <2>2. 1 \in 1..Len(best) /\ best[1] = ranked[1]
    BY <1>2, <2>1
  <2>3. Len(best) = 1
    <3>1. Len(best) <= 1 /\ Len(best) >= 1
      BY <1>2, <1>3, <2>2
    <3>2. \A n \in Nat : n <= 1 /\ n >= 1 => n = 1
      OBVIOUS
    <3> QED
      BY <1>3, <3>1, <3>2
  <2>4. ASSUME NEW e \in offers PROVE <<best[1], e>> \in ahead
    <3>1. PICK i \in 1..Len(ranked) : ranked[i] = e
      BY <1>4
    <3>2. CASE i = 1
      <4>1. e \in Entries
        BY <1>1, <3>1
      <4>2. best[1] = e
        BY <2>2, <3>1, <3>2
      <4> QED
        BY <4>1, <4>2 DEF IsOrder
    <3>3. CASE i # 1
      <4>1. 1 < i
        BY <1>3, <3>1, <3>3
      <4> QED
        BY <1>1, <2>1, <2>2, <3>1, <4>1
    <3> QED
      BY <3>2, <3>3
  <2>5. best[1] \in offers
    BY <1>4, <2>1, <2>2
  <2> QED
    BY <1>2, <1>6, <2>3, <2>4, <2>5 DEF offers, best, ranked
<1> QED
  BY <1>5, <1>6

Family(entries, f) == {e \in Offers(entries) : e.family = f}

\* The audio and the video of an answer without muxed formats.
LEMMA SeparateBest ==
  ASSUME NEW page \in PageBodies
  PROVE  LET sound == Family(page.adaptive, "audio")
             sight == Family(page.adaptive, "video")
             a == First(1, audio(page))
             v == First(1, video(page))
         IN  /\ a \in Seq(Entries) /\ v \in Seq(Entries)
             /\ Len(a) = IF sound = {} THEN 0 ELSE 1
             /\ Len(v) = IF sight = {} THEN 0 ELSE 1
             /\ sound # {} => a[1] \in sound /\ \A e \in sound : ~Louder(e, a[1])
             /\ sight # {} => v[1] \in sight /\ \A e \in sight : ~Taller(e, v[1])
<1> DEFINE Playing(f) == {e \in Playable : e.family = f}
<1>1. page.adaptive \in Seq(Entries)
  BY DEF PageBodies
<1>2. \A f : Family(page.adaptive, f) = Offers(page.adaptive) \cap Playing(f)
  BY <1>1, PlayableOffers DEF Family
<1>3. \A f : Playing(f) \in SUBSET Playable
  OBVIOUS
<1>4. /\ audio(page) = Ranked(page.adaptive, Playing("audio"), AsLoud)
      /\ video(page) = Ranked(page.adaptive, Playing("video"), AsTall)
  BY DEF audio, video
<1> HIDE DEF Playing
<1>5. LET best == First(1, Ranked(page.adaptive, Playing("audio"), AsLoud))
          offers == Offers(page.adaptive) \cap Playing("audio")
      IN  /\ best \in Seq(Entries)
          /\ Len(best) = IF offers = {} THEN 0 ELSE 1
          /\ offers # {} => /\ best[1] \in offers
                            /\ \A e \in offers : <<best[1], e>> \in AsLoud
  <2>1. Playing("audio") \in SUBSET Playable /\ IsOrder(AsLoud, Entries)
    BY <1>3, Orders
  <2> QED
    BY <1>1, <2>1, BestOfRanking
<1>6. LET best == First(1, Ranked(page.adaptive, Playing("video"), AsTall))
          offers == Offers(page.adaptive) \cap Playing("video")
      IN  /\ best \in Seq(Entries)
          /\ Len(best) = IF offers = {} THEN 0 ELSE 1
          /\ offers # {} => /\ best[1] \in offers
                            /\ \A e \in offers : <<best[1], e>> \in AsTall
  <2>1. Playing("video") \in SUBSET Playable /\ IsOrder(AsTall, Entries)
    BY <1>3, Orders
  <2> QED
    BY <1>1, <2>1, BestOfRanking
<1>7. \A x, y : /\ <<x, y>> \in AsLoud => ~Louder(y, x)
                /\ <<x, y>> \in AsTall => ~Taller(y, x)
  BY DEF AsLoud, AsTall
<1> QED
  BY <1>2, <1>4, <1>5, <1>6, <1>7

LEMMA FormatTyped ==
  ASSUME NEW e \in Playable
  PROVE  ResolvedFormat(e) \in ResolvedFormats
<1>1. Missing \notin SafeUrls
  BY SdkAssumption, YouTubeAssumption
<1>2. Resolved(e) \in SafeUrls
  BY <1>1 DEF Playable, Resolved, Entries
<1> QED
  BY <1>2 DEF Playable, Entries, ResolvedFormat, ResolvedFormats

\* What mapping::map answers is the best the page offers.
LEMMA MappedBest ==
  ASSUME NEW page \in PageBodies, page.text # "refused"
  PROVE  map(page) \in Responses /\ IsTheBest(page, map(page))
<1> DEFINE muxed == Offers(page.formats)
           sound == {e \in Offers(page.adaptive) : e.family = "audio"}
           sight == {e \in Offers(page.adaptive) : e.family = "video"}
           p == progressive(page)
           a == First(1, audio(page))
           v == First(1, video(page))
           c == chosen(page)
           out == map(page).formats
<1>1. /\ p \in Seq(Entries) /\ Len(p) <= Candidates
      /\ ToSet(p) \subseteq muxed
      /\ muxed = {} <=> Len(p) = 0
      /\ \A i, j \in 1..Len(p) : i < j => ~Taller(p[j], p[i])
      /\ Len(p) = Candidates \/ ToSet(p) = muxed
      /\ \A e \in muxed \ ToSet(p), i \in 1..Len(p) : ~Taller(e, p[i])
  BY ProgressiveBest
<1>2. /\ a \in Seq(Entries) /\ v \in Seq(Entries)
      /\ Len(a) = IF sound = {} THEN 0 ELSE 1
      /\ Len(v) = IF sight = {} THEN 0 ELSE 1
      /\ sound # {} => a[1] \in sound /\ \A e \in sound : ~Louder(e, a[1])
      /\ sight # {} => v[1] \in sight /\ \A e \in sight : ~Taller(e, v[1])
  BY SeparateBest DEF Family
<1>3. muxed \subseteq Playable /\ sound \subseteq Playable /\ sight \subseteq Playable
  BY PlayableOffers DEF PageBodies
<1>4. c = IF p # << >> THEN p ELSE a \o v
  BY DEF chosen
<1>5. /\ map(page).resolution = CASE c = << >> -> "unsupported"
                                  [] Len(c) = 1 -> "direct"
                                  [] Len(c) > 1 /\ p # << >> -> "candidates"
                                  [] OTHER -> "separated"
      /\ out = [i \in 1..Len(c) |-> ResolvedFormat(c[i])]
      /\ map(page).text = page.text
      /\ map(page) = [resolution |-> map(page).resolution, formats |-> out,
                      text |-> page.text]
  BY DEF map
<1>6. \A e : /\ ResolvedFormat(e).height = e.height
             /\ ResolvedFormat(e).bitrate = e.bitrate
  BY DEF ResolvedFormat
<1>7. \A e, f : /\ Taller(ResolvedFormat(e), f) <=> Taller(e, f)
                /\ Taller(e, ResolvedFormat(f)) <=> Taller(e, f)
                /\ Louder(e, ResolvedFormat(f)) <=> Louder(e, f)
  BY <1>6 DEF Taller, Louder
<1>8. page.text \in {"clean", "control"}
  BY DEF PageBodies
<1>9. \A e \in muxed : ResolvedFormat(e) \in AsFormats(muxed)
  BY DEF AsFormats
<1>10. \A s : AsFormats(s) = {ResolvedFormat(e) : e \in s}
  BY DEF AsFormats
<1> HIDE DEF muxed, sound, sight, p, a, v, c, out
<1>11. CASE muxed # {}
  <2>1. c = p /\ p # << >> /\ Len(p) \in Nat /\ Len(p) # 0
    BY <1>1, <1>4, <1>11
  <2>2. \A i \in 1..Len(p) : p[i] \in muxed /\ p[i] \in ToSet(p)
    BY <1>1 DEF ToSet
  <2>3. out \in [1..Len(p) -> ResolvedFormats]
    BY <1>3, <1>5, <2>1, <2>2, FormatTyped
  <2>4. out \in Seq(ResolvedFormats) /\ Len(out) = Len(p)
    BY <2>1, <2>3, MapTyped
  <2>5. \A i \in 1..Len(out) : out[i] = ResolvedFormat(p[i])
    BY <1>5, <2>1, <2>4
  <2>6. map(page) \in Responses
    BY <1>5, <1>8, <2>4 DEF Responses
  <2>7. out # << >>
    BY <2>1, <2>4
  <2>8. \A f : f \in ToSet(out) <=> \E i \in 1..Len(out) : out[i] = f
    BY <2>4 DEF ToSet
  <2>9. \A e : e \in ToSet(p) <=> \E i \in 1..Len(p) : p[i] = e
    BY <1>1 DEF ToSet
  <2>10. ToSet(out) \subseteq AsFormats(muxed)
    BY <1>9, <2>2, <2>4, <2>5, <2>8
  <2>11. \A e \in ToSet(p) : ResolvedFormat(e) \in ToSet(out)
    BY <2>4, <2>5, <2>8, <2>9
  <2>12. \A i, j \in 1..Len(out) : i < j => ~Taller(out[j], out[i])
    BY <1>1, <1>7, <2>4, <2>5
  <2>13. Len(out) = Candidates \/ ToSet(out) = AsFormats(muxed)
    <3>1. ASSUME ToSet(p) = muxed PROVE AsFormats(muxed) \subseteq ToSet(out)
      BY <1>10, <2>11, <3>1
    <3> QED
      BY <1>1, <2>4, <2>10, <3>1
  <2>14. ASSUME NEW f \in AsFormats(muxed) \ ToSet(out), NEW i \in 1..Len(out)
         PROVE  ~Taller(f, out[i])
    <3>1. PICK e \in muxed : f = ResolvedFormat(e)
      BY <1>10
    <3>2. e \notin ToSet(p)
      BY <2>11, <3>1
    <3>3. ~Taller(e, p[i])
      BY <1>1, <2>4, <3>1, <3>2
    <3> QED
      BY <1>7, <2>5, <3>1, <3>3
  <2> QED
    BY <1>11, <2>6, <2>7, <2>10, <2>12, <2>13, <2>14 DEF IsTheBest, muxed, out
<1>12. CASE muxed = {}
  <2>1. p = << >> /\ c = a \o v
    BY <1>1, <1>4, <1>12
  <2>2. /\ c \in Seq(Entries) /\ Len(c) = Len(a) + Len(v)
        /\ \A i \in 1..Len(a) : c[i] = a[i]
        /\ \A i \in 1..Len(v) : c[Len(a) + i] = v[i]
    BY <1>2, <2>1
  <2>3. /\ Len(c) = (IF sound = {} THEN 0 ELSE 1) + (IF sight = {} THEN 0 ELSE 1)
        /\ sound # {} => c[1] = a[1]
        /\ sight # {} => c[Len(c)] = v[1]
    BY <1>2, <2>2
  <2>4. \A i \in 1..Len(c) : c[i] \in Playable
    <3>1. sound = {} /\ sight # {} => Len(c) = 1 /\ c[1] = v[1]
      BY <2>3
    <3>2. sound # {} /\ sight # {} => Len(c) = 2 /\ c[1] = a[1] /\ c[2] = v[1]
      BY <2>3
    <3>3. sound # {} /\ sight = {} => Len(c) = 1 /\ c[1] = a[1]
      BY <2>3
    <3>4. sound = {} /\ sight = {} => Len(c) = 0
      BY <2>3
    <3> QED
      BY <1>2, <1>3, <3>1, <3>2, <3>3, <3>4
  <2>5. out \in [1..Len(c) -> ResolvedFormats]
    BY <1>5, <2>4, FormatTyped
  <2>6. Len(c) \in Nat /\ out \in Seq(ResolvedFormats) /\ Len(out) = Len(c)
    BY <2>2, <2>5, MapTyped
  <2>7. \A i \in 1..Len(c) : out[i] = ResolvedFormat(c[i])
    BY <1>5
  <2>8. map(page) \in Responses
    BY <1>5, <1>8, <2>6 DEF Responses
  <2>9. map(page).resolution = CASE Len(out) = 0 -> "unsupported"
                                 [] Len(out) = 1 -> "direct"
                                 [] Len(out) = 2 -> "separated"
    <3>1. Len(c) \in {0, 1, 2} /\ (c = << >> <=> Len(c) = 0)
      BY <2>2, <2>3
    <3> QED
      BY <1>5, <2>1, <2>6, <3>1
  <2>10. ASSUME sound # {}
         PROVE  out[1] \in AsFormats(sound) /\ \A e \in sound : ~Louder(e, out[1])
    <3>1. 1 \in 1..Len(c)
      BY <2>2, <2>3, <2>10
    <3>2. out[1] = ResolvedFormat(a[1])
      BY <2>3, <2>7, <2>10, <3>1
    <3> QED
      BY <1>2, <1>7, <1>10, <2>10, <3>2
  <2>11. ASSUME sight # {}
         PROVE  /\ out[Len(out)] \in AsFormats(sight)
                /\ \A e \in sight : ~Taller(e, out[Len(out)])
    <3>1. Len(c) \in 1..Len(c)
      BY <2>2, <2>3, <2>11
    <3>2. out[Len(out)] = ResolvedFormat(v[1])
      BY <2>3, <2>6, <2>7, <2>11, <3>1
    <3> QED
      BY <1>2, <1>7, <1>10, <2>11, <3>2
  <2>12. Len(out) = Cardinality({s \in {sound, sight} : s # {}})
    <3> DEFINE there == {s \in {sound, sight} : s # {}}
    <3>1. Len(out) = (IF sound = {} THEN 0 ELSE 1) + (IF sight = {} THEN 0 ELSE 1)
      BY <2>3, <2>6
    <3>2. there = (IF sound = {} THEN {} ELSE {sound}) \cup (IF sight = {} THEN {} ELSE {sight})
      OBVIOUS
    <3>3. sound # {} => sound # sight
      BY DEF sound, sight
    <3>4. Cardinality({}) = 0
      BY FS_EmptySet
    <3>5. /\ Cardinality({sound}) = 1 /\ Cardinality({sight}) = 1
          /\ IsFiniteSet({sight})
      BY FS_Singleton
    <3> HIDE DEF there
    <3>6. Len(out) = Cardinality(there)
      <4>1. CASE sound = {} /\ sight = {}
        <5>1. there = {} /\ Len(out) = 0
          BY <3>1, <3>2, <4>1
        <5> QED
          BY <3>4, <5>1
      <4>2. CASE sound # {} /\ sight = {}
        <5>1. there = {sound} /\ Len(out) = 1
          BY <3>1, <3>2, <4>2
        <5> QED
          BY <3>5, <5>1
      <4>3. CASE sound = {} /\ sight # {}
        <5>1. there = {sight} /\ Len(out) = 1
          BY <3>1, <3>2, <4>3
        <5> QED
          BY <3>5, <5>1
      <4>4. CASE sound # {} /\ sight # {}
        <5>1. there = {sight} \cup {sound} /\ Len(out) = 2
          BY <3>1, <3>2, <4>4
        <5>2. sound \notin {sight}
          BY <3>3, <4>4
        <5>3. Cardinality({sight} \cup {sound}) = 2
          BY <3>5, <5>2, FS_AddElement
        <5> QED
          BY <5>1, <5>3
      <4> QED
        BY <4>1, <4>2, <4>3, <4>4
    <3> QED
      BY <3>6 DEF there
  <2> QED
    BY <1>12, <2>8, <2>9, <2>10, <2>11, <2>12 DEF IsTheBest, muxed, sound, sight, out
<1> QED
  BY <1>11, <1>12

------------------------------------------------------------------------------
(* Where the call stands.                                                    *)

\* A call to the host is appended with its answer pending.
LEMMA CallsGrow ==
  ASSUME calls \in Seq(HostCalls), NEW op \in {"watch", "player"},
         calls' = Append(calls, [op |-> op, reply |-> Pending])
  PROVE  /\ calls' \in Seq(HostCalls)
         /\ Len(calls') = Len(calls) + 1 /\ Len(calls) \in Nat
         /\ \A i \in 1..Len(calls) : calls'[i] = calls[i]
         /\ calls'[Len(calls) + 1] = [op |-> op, reply |-> Pending]
<1>1. [op |-> op, reply |-> Pending] \in HostCalls
  BY DEF HostCalls
<1> QED
  BY <1>1

\* The answer of the host takes the place of the pending one.
LEMMA LastAnswered ==
  ASSUME calls \in Seq(HostCalls), Len(calls) # 0,
         NEW reply \in PageReplies \cup PlayerReplies,
         calls' = [calls EXCEPT ![Len(calls)].reply = reply]
  PROVE  /\ calls' \in Seq(HostCalls)
         /\ Len(calls') = Len(calls) /\ Len(calls) \in Nat
         /\ \A i \in 1..Len(calls) :
              /\ calls'[i].op = calls[i].op
              /\ i # Len(calls) => calls'[i] = calls[i]
         /\ calls'[Len(calls)].reply = reply
<1>1. /\ Len(calls) \in Nat /\ calls \in [1..Len(calls) -> HostCalls]
      /\ Len(calls) \in 1..Len(calls)
  OBVIOUS
<1>2. /\ calls' \in [1..Len(calls) -> HostCalls]
      /\ \A i \in 1..Len(calls) : /\ calls'[i].op = calls[i].op
                                   /\ i # Len(calls) => calls'[i] = calls[i]
      /\ calls'[Len(calls)].reply = reply
  BY <1>1 DEF HostCalls
<1> QED
  BY <1>1, <1>2

\* A page that can be read is one of those the host may answer.
LEMMA ReadablePage ==
  ASSUME calls[1].reply \in PageReplies, Readable
  PROVE  Page \in PageBodies /\ Page.text # "refused" /\ Page.playability = "OK"
<1>1. Usable(calls[1].reply) /\ select_ok(Page)
  BY DEF Readable
<1>2. Page \in PageBodies
  BY <1>1, ReplyTables DEF Page
<1> QED
  BY <1>1, <1>2 DEF select_ok

LEMMA InitIInv == Init => IInv
<1> SUFFICES ASSUME Init PROVE IInv
  OBVIOUS
<1>1. Len(<< >>) = 0 /\ << >> \in Seq(HostCalls) /\ << >> \in Seq(ResolvedFormats)
  OBVIOUS
<1>2. Conversation
  BY <1>1 DEF Init, Conversation
<1>3. response \in Responses /\ outcome \in Outcomes /\ outcome.kind # "response"
  BY <1>1 DEF Init, Unbuilt, Responses, Outcomes, Pending
<1> QED
  BY <1>2, <1>3 DEF Init, IInv, Places, Provenance

\* An error ends the call.
LEMMA ErrorStep ==
  ASSUME IInv, NEW e \in ResolverErrors, ReturnError(e),
         pc \in {"classify", "watch", "player", "validate"}
  PROVE  IInv'
<1>1. /\ pc' = "done" /\ outcome' = [kind |-> "error", error |-> e]
      /\ UNCHANGED <<source, calls, response>>
  BY DEF ReturnError
<1>2. Readable' <=> Readable
  BY <1>1 DEF Readable, Page
<1>3. outcome' \in Outcomes
  BY <1>1 DEF Outcomes
<1>4. Conversation'
  BY <1>1, <1>2 DEF IInv, Conversation
<1>5. Provenance'
  BY <1>1, <1>3 DEF IInv, Provenance
<1> QED
  BY <1>1, <1>4, <1>5 DEF IInv, Places

\* A readable page is mapped.
LEMMA BuildStep ==
  ASSUME IInv, BuildResponse, Readable, pc \in {"watch", "player"},
         Len(calls) = 2 => Usable(calls[2].reply)
  PROVE  IInv'
<1>1. /\ pc' = "validate" /\ response' = map(Page)
      /\ UNCHANGED <<source, calls, outcome>>
  BY DEF BuildResponse
<1>2. /\ Readable' /\ Page' = Page
  BY <1>1 DEF Readable, Page
<1>3. Len(calls) \in {1, 2} /\ calls[1].reply \in PageReplies /\ outcome = Pending
  BY DEF IInv, Conversation
<1>4. response' \in Responses
  BY <1>1, <1>3, ReadablePage, MappedBest
<1>5. Conversation'
  BY <1>1, <1>2, <1>3 DEF IInv, Conversation
<1>6. map(Page)' = map(Page)
  BY <1>2
<1>7. Provenance'
  BY <1>1, <1>3, <1>4, <1>6 DEF IInv, Provenance, Pending
<1> QED
  BY <1>1, <1>5, <1>7 DEF IInv, Places

\* Before anything is built, only the conversation changes.
LEMMA UnbuiltStep ==
  ASSUME IInv, UNCHANGED <<response, outcome>>, pc # "done",
         pc' \notin {"validate", "done"}
  PROVE  Provenance'
<1>1. outcome = Pending
  BY DEF IInv, Conversation
<1> QED
  BY <1>1 DEF IInv, Provenance, Pending

\* Every step of the call keeps the invariant.
LEMMA NextIInv == IInv /\ [Next]_vars => IInv'
<1> SUFFICES ASSUME IInv, [Next]_vars PROVE IInv'
  OBVIOUS
<1>0. /\ malformed \in ResolverErrors /\ invalid_input \in ResolverErrors
      /\ TransportError("InvalidRequest") \in ResolverErrors
      /\ \A page : select_error(page) \in ResolverErrors
  BY DEF ResolverErrors, ResolverErrorKinds, ResolverError, malformed, invalid_input,
         private, unavailable, select_error, TransportError
<1>1. CASE RejectSource
  BY <1>0, <1>1, ErrorStep DEF RejectSource
<1>2. CASE GetWatch
  <2>1. /\ calls' = Append(calls, [op |-> "watch", reply |-> Pending])
        /\ calls \in Seq(HostCalls) /\ Len(calls) = 0
        /\ pc = "classify" /\ pc' = "await_watch"
        /\ UNCHANGED <<source, response, outcome>>
    BY <1>2 DEF GetWatch, CallHost, IInv, Conversation
  <2>2. /\ calls' \in Seq(HostCalls) /\ Len(calls') = 1
        /\ calls'[1] = [op |-> "watch", reply |-> Pending]
    BY <2>1, CallsGrow
  <2>3. Provenance'
    BY <2>1, UnbuiltStep
  <2> QED
    BY <2>1, <2>2, <2>3 DEF IInv, Places, Conversation
<1>3. CASE \E reply \in PageReplies : WatchReturns(reply)
  <2>1. PICK reply \in PageReplies : WatchReturns(reply)
    BY <1>3
  <2>2. /\ calls \in Seq(HostCalls) /\ Len(calls) = 1 /\ outcome = Pending
    BY <2>1 DEF WatchReturns, IInv, Conversation
  <2>3. /\ calls' = [calls EXCEPT ![Len(calls)].reply = reply]
        /\ pc = "await_watch" /\ pc' = "watch"
        /\ UNCHANGED <<source, response, outcome>>
    BY <2>1 DEF WatchReturns, HostReturns
  <2>4. /\ calls' \in Seq(HostCalls) /\ Len(calls') = Len(calls)
        /\ calls'[Len(calls)].reply = reply
    <3>1. Len(calls) # 0
      BY <2>2
    <3> QED
      BY <2>2, <2>3, <3>1, LastAnswered
  <2>5. /\ Len(calls') = 1 /\ calls'[1].reply = reply
    BY <2>2, <2>4
  <2>6. Provenance'
    BY <2>3, UnbuiltStep
  <2>7. Conversation'
    <3>1. Len(calls') # 2
      BY <2>5
    <3> QED
      BY <2>2, <2>3, <2>4, <2>5, <3>1 DEF Conversation
  <2> QED
    BY <2>3, <2>6, <2>7 DEF IInv, Places
<1>4. CASE FailWatch
  <2>1. pc = "watch" /\ calls[1].reply \in PageReplies
    <3>1. pc = "watch" /\ Len(calls) = 1
      BY <1>4 DEF FailWatch, IInv, Conversation
    <3>2. Len(calls) # 0
      BY <3>1
    <3> QED
      BY <3>1, <3>2 DEF IInv, Conversation
  <2>2. FetchError(calls[1].reply) \in ResolverErrors
    BY <1>4, <2>1, ReplyTables DEF FailWatch
  <2> QED
    BY <1>4, <2>1, <2>2, ErrorStep DEF FailWatch
<1>5. CASE RejectPage
  BY <1>0, <1>5, ErrorStep DEF RejectPage
<1>6. CASE MapDirect
  <2>1. Len(calls) = 1
    BY <1>6 DEF MapDirect, IInv, Conversation
  <2> QED
    BY <1>6, <2>1, BuildStep DEF MapDirect
<1>7. CASE LackPlayer
  BY <1>0, <1>7, ErrorStep DEF LackPlayer
<1>8. CASE GetPlayer
  <2>1. /\ calls' = Append(calls, [op |-> "player", reply |-> Pending])
        /\ calls \in Seq(HostCalls) /\ Len(calls) = 1 /\ Readable
        /\ pc = "watch" /\ pc' = "await_player"
        /\ UNCHANGED <<source, response, outcome>>
        /\ calls[1].reply \in PageReplies /\ outcome = Pending
    BY <1>8 DEF GetPlayer, CallHost, IInv, Conversation
  <2>2. /\ calls' \in Seq(HostCalls) /\ Len(calls') = 2
        /\ calls'[1] = calls[1]
        /\ calls'[2] = [op |-> "player", reply |-> Pending]
    BY <2>1, CallsGrow
  <2>3. Readable'
    BY <2>1, <2>2 DEF Readable, Page
  <2>4. Provenance'
    BY <2>1, UnbuiltStep
  <2>5. Conversation'
    BY <2>1, <2>2, <2>3 DEF Conversation
  <2> QED
    BY <2>1, <2>4, <2>5 DEF IInv, Places
<1>9. CASE \E reply \in PlayerReplies : PlayerReturns(reply)
  <2>1. PICK reply \in PlayerReplies : PlayerReturns(reply)
    BY <1>9
  <2>2. /\ calls \in Seq(HostCalls) /\ Len(calls) = 2 /\ outcome = Pending
        /\ Readable /\ calls[1].reply \in PageReplies
    BY <2>1 DEF PlayerReturns, IInv, Conversation
  <2>3. /\ calls' = [calls EXCEPT ![Len(calls)].reply = reply]
        /\ pc = "await_player" /\ pc' = "player"
        /\ UNCHANGED <<source, response, outcome>>
    BY <2>1 DEF PlayerReturns, HostReturns
  <2>4. /\ calls' \in Seq(HostCalls) /\ Len(calls') = Len(calls)
        /\ \A i \in 1..Len(calls) : i # Len(calls) => calls'[i] = calls[i]
        /\ calls'[Len(calls)].reply = reply
    <3>1. Len(calls) # 0
      BY <2>2
    <3> QED
      BY <2>2, <2>3, <3>1, LastAnswered
  <2>5. /\ Len(calls') = 2 /\ calls'[2].reply = reply /\ calls'[1] = calls[1]
    BY <2>2, <2>4
  <2>6. Readable'
    BY <2>2, <2>5 DEF Readable, Page
  <2>7. Provenance'
    BY <2>3, UnbuiltStep
  <2>8. Conversation'
    BY <2>2, <2>3, <2>4, <2>5, <2>6 DEF Conversation
  <2> QED
    BY <2>3, <2>7, <2>8 DEF IInv, Places
<1>10. CASE FailPlayer
  <2>1. pc = "player" /\ calls[2].reply \in PlayerReplies
    BY <1>10 DEF FailPlayer, IInv, Conversation
  <2>2. ~Usable(calls[2].reply) => FetchError(calls[2].reply) \in ResolverErrors
    BY <2>1, ReplyTables
  <2> QED
    BY <1>0, <1>10, <2>1, <2>2, ErrorStep DEF FailPlayer
<1>11. CASE MapDecoded
  <2>1. pc = "player" /\ Readable
    BY <1>11 DEF MapDecoded, IInv, Conversation
  <2> QED
    BY <1>11, <2>1, BuildStep DEF MapDecoded
<1>12. CASE Return
  <2>1. CASE ReturnError(malformed)
    BY <1>0, <1>12, <2>1, ErrorStep DEF Return
  <2>2. CASE /\ FinalGate(response) /\ pc' = "done"
             /\ outcome' = [kind |-> "response", response |-> response]
             /\ UNCHANGED <<source, calls, response>>
    <3>1. Readable' /\ Page' = Page /\ Readable
      BY <1>12, <2>2 DEF Return, IInv, Conversation, Readable, Page
    <3>2. Conversation'
      BY <1>12, <2>2, <3>1 DEF Return, IInv, Conversation
    <3>3. response = map(Page) /\ response \in Responses /\ Len(calls) \in {1, 2}
      BY <1>12 DEF Return, IInv, Conversation, Provenance
    <3>4. outcome' \in Outcomes
      BY <2>2, <3>3 DEF Outcomes
    <3>5. map(Page)' = map(Page) /\ FinalGate(outcome.response)' = FinalGate(response)
      BY <2>2, <3>1 DEF FinalGate
    <3>6. Provenance'
      BY <2>2, <3>1, <3>3, <3>4, <3>5 DEF Provenance
    <3> QED
      BY <2>2, <3>2, <3>6 DEF IInv, Places
  <2> QED
    BY <1>12, <2>1, <2>2 DEF Return
<1>13. CASE UNCHANGED vars
  <2>1. Readable' = Readable /\ map(Page)' = map(Page)
    BY <1>13 DEF vars, Readable, Page
  <2> QED
    BY <1>13, <2>1 DEF vars, IInv, Conversation, Provenance, FinalGate
<1> QED
  BY <1>1, <1>2, <1>3, <1>4, <1>5, <1>6, <1>7, <1>8, <1>9, <1>10, <1>11, <1>12, <1>13
     DEF Next, Terminated

LEMMA SpecIInv == Spec => []IInv
BY InitIInv, NextIInv, PTL DEF Spec

------------------------------------------------------------------------------
\* The call's state keeps its type, whatever the pages, players and answers.
THEOREM TypeCorrect == Spec => []TypeOK
<1>1. IInv => TypeOK
  <2>1. ASSUME IInv PROVE Len(calls) <= 2
    <3>1. Len(calls) \in {0, 1, 2}
      BY <2>1 DEF IInv, Places, Conversation
    <3>2. \A n \in {0, 1, 2} : n <= 2
      OBVIOUS
    <3> QED
      BY <3>1, <3>2, Zenon
  <2> QED
    BY <2>1 DEF IInv, Places, Conversation, Provenance, TypeOK, HostCalls, Outcomes,
       ResolverErrors
<1> QED
  BY <1>1, SpecIInv, PTL

\* What a resolve call delivers is the best that the page it fetched offers, whatever
\* the formats, their ranks, their ciphers and the bound on candidates.
THEOREM BestIsDelivered == Spec => []DeliversTheBest
<1>1. IInv => DeliversTheBest
  <2> SUFFICES ASSUME IInv, outcome.kind = "response"
               PROVE  IsTheBest(Page, outcome.response)
    BY DEF DeliversTheBest
  <2>1. pc = "done" /\ Len(calls) # 0 /\ Readable /\ outcome.response = map(Page)
    BY DEF IInv, Provenance
  <2>2. calls[1].reply \in PageReplies
    BY <2>1 DEF IInv, Conversation
  <2> QED
    BY <2>1, <2>2, ReadablePage, MappedBest
<1> QED
  BY <1>1, SpecIInv, PTL

\* The player script is asked for only on a page that says the item is playable and
\* names it, when some format of the page has nothing but a cipher, and before the
\* call returned.
THEOREM PlayerIsNeeded == Spec => PlayerOnlyForACipher
<1> DEFINE Needed == Len(calls') = 2 /\ Len(calls) = 1 =>
             /\ Usable(calls[1].reply)
             /\ Page.playability = "OK" /\ Page.player_js_url = "player"
             /\ \E e \in ToSet(Page.formats) \cup ToSet(Page.adaptive) :
                  e.url = Missing /\ e.ciphered # Missing
             /\ outcome = Pending
<1>1. IInv /\ [Next]_vars => [Needed]_vars
  <2> SUFFICES ASSUME IInv, Next, Len(calls') = 2, Len(calls) = 1 PROVE Needed
    OBVIOUS
  <2>1. calls' # calls
    OBVIOUS
  <2>2. CASE GetPlayer
    <3>1. /\ Readable /\ needs_cipher(Page) /\ Page.player_js_url = "player"
          /\ pc = "watch"
      BY <2>2 DEF GetPlayer
    <3>2. calls[1].reply \in PageReplies /\ outcome = Pending
      BY <3>1 DEF IInv, Conversation
    <3>3. Page \in PageBodies /\ Page.playability = "OK" /\ Usable(calls[1].reply)
      BY <3>1, <3>2, ReadablePage DEF Readable
    <3>4. Page.formats \in Seq(Entries) /\ Page.adaptive \in Seq(Entries)
      BY <3>3 DEF PageBodies
    <3> DEFINE all == Page.formats \o Page.adaptive
    <3>5. all \in Seq(Entries) /\ ToSet(all) = ToSet(Page.formats) \cup ToSet(Page.adaptive)
      BY <3>4, JoinedElements
    <3>6. PICK e \in ToSet(Only(all, Named)) : e.url = Missing /\ e.ciphered # Missing
      BY <3>1 DEF needs_cipher, Selected
    <3> HIDE DEF all
    <3>7. ToSet(Only(all, Named)) = ToSet(all) \cap Named
      BY <3>5, OnlyElements
    <3>8. e \in ToSet(Page.formats) \cup ToSet(Page.adaptive)
      BY <3>5, <3>6, <3>7
    <3> QED
      BY <3>1, <3>2, <3>3, <3>6, <3>8
  <2>3. CASE GetWatch
    <3>1. Len(calls) = 0
      BY <2>3 DEF GetWatch, IInv, Conversation
    <3> QED
      BY <3>1
  <2>4. CASE \E reply \in PageReplies : WatchReturns(reply)
    <3>1. PICK reply \in PageReplies : WatchReturns(reply)
      BY <2>4
    <3>2. Len(calls') = Len(calls)
      <4>1. calls \in Seq(HostCalls) /\ Len(calls) # 0
        BY DEF IInv, Conversation
      <4> QED
        BY <3>1, <4>1, LastAnswered DEF WatchReturns, HostReturns
    <3> QED
      BY <3>2
  <2>5. CASE \E reply \in PlayerReplies : PlayerReturns(reply)
    <3>1. Len(calls) = 2
      BY <2>5 DEF PlayerReturns, IInv, Conversation
    <3> QED
      BY <3>1
  <2>6. CASE ~GetPlayer /\ ~GetWatch
               /\ ~(\E reply \in PageReplies : WatchReturns(reply))
               /\ ~(\E reply \in PlayerReplies : PlayerReturns(reply))
    <3>1. calls' = calls
      BY <2>6 DEF Next, Terminated, vars, RejectSource, FailWatch, RejectPage, MapDirect,
         LackPlayer, FailPlayer, MapDecoded, Return, ReturnError, BuildResponse
    <3> QED
      BY <2>1, <3>1
  <2> QED
    BY <2>2, <2>3, <2>4, <2>5, <2>6
<1> QED
  BY <1>1, SpecIInv, PTL DEF Spec, PlayerOnlyForACipher

------------------------------------------------------------------------------
(* The refinement: Asked and Verdict, seen through the calls and the outcome. *)

Askings == [op : {"watch", "player"},
            answer : {"none", "success", "transient", "refused"}]

\* The contract's view has one element per call, with the class of its answer.
LEMMA AskedShape ==
  ASSUME calls \in Seq(HostCalls)
  PROVE  /\ Asked \in Seq(Askings) /\ Len(Asked) = Len(calls) /\ Len(calls) \in Nat
         /\ \A i \in 1..Len(calls) :
              Asked[i] = [op |-> calls[i].op, answer |-> AnswerClass(calls[i].reply)]
<1>1. Len(calls) \in Nat /\ \A i \in 1..Len(calls) : calls[i] \in HostCalls
  OBVIOUS
<1>2. \A r : AnswerClass(r) \in {"none", "success", "transient", "refused"}
  BY DEF AnswerClass
<1>3. \A i \in 1..Len(calls) :
        [op |-> calls[i].op, answer |-> AnswerClass(calls[i].reply)] \in Askings
  BY <1>1, <1>2 DEF HostCalls, Askings
<1>4. Asked \in [1..Len(calls) -> Askings]
  BY <1>3 DEF Asked
<1>5. QED
  BY <1>1, <1>4 DEF Asked

\* A step that changes no call and not the outcome is a stutter of the contract.
LEMMA StutterStep ==
  ASSUME UNCHANGED <<calls, outcome>>
  PROVE  UNCHANGED <<Asked, Verdict>>
BY DEF Asked, Verdict

\* A call to the host is an Ask: every earlier answer was usable.
LEMMA AskStep ==
  ASSUME calls \in Seq(HostCalls), NEW op \in {"watch", "player"},
         calls' = Append(calls, [op |-> op, reply |-> Pending]),
         outcome = Pending, outcome' = Pending,
         \/ op = "watch" /\ Len(calls) = 0
         \/ op = "player" /\ Len(calls) = 1 /\ calls[1].reply \in PageReplies
                           /\ Usable(calls[1].reply)
  PROVE  Contract!Ask
<1> DEFINE asking == [op |-> op, answer |-> "none"]
<1>1. /\ Asked \in Seq(Askings) /\ Len(Asked) = Len(calls) /\ Len(calls) \in Nat
      /\ \A i \in 1..Len(calls) :
           Asked[i] = [op |-> calls[i].op, answer |-> AnswerClass(calls[i].reply)]
  BY AskedShape
<1>2. /\ calls' \in Seq(HostCalls) /\ Len(calls') = Len(calls) + 1
      /\ \A i \in 1..Len(calls) : calls'[i] = calls[i]
      /\ calls'[Len(calls) + 1] = [op |-> op, reply |-> Pending]
  BY <1>1, CallsGrow
<1>3. /\ Asked' = [i \in 1..Len(calls') |->
                    [op |-> calls'[i].op, answer |-> AnswerClass(calls'[i].reply)]]
      /\ AnswerClass(Pending) = "none"
  BY DEF Asked, AnswerClass
<1>4. /\ asking \in Askings
      /\ Append(Asked, asking) \in Seq(Askings)
      /\ Len(Append(Asked, asking)) = Len(calls) + 1
      /\ \A i \in 1..Len(calls) : Append(Asked, asking)[i] = Asked[i]
      /\ Append(Asked, asking)[Len(calls) + 1] = asking
  <2>1. asking \in Askings
    BY DEF Askings
  <2>2. QED
    BY <1>1, <2>1, AppendProperties
<1>5. Asked' = Append(Asked, asking)
  <2>1. \A i \in 1..(Len(calls) + 1) : i \in 1..Len(calls) \/ i = Len(calls) + 1
    BY <1>1
  <2>2. \A i \in 1..(Len(calls) + 1) :
          Append(Asked, asking)[i]
            = [op |-> calls'[i].op, answer |-> AnswerClass(calls'[i].reply)]
    BY <1>1, <1>2, <1>3, <1>4, <2>1
  <2>3. Append(Asked, asking) =
          [i \in 1..(Len(calls) + 1) |-> Append(Asked, asking)[i]]
    BY <1>1, <1>4
  <2>4. QED
    BY <1>2, <1>3, <2>2, <2>3
<1>6. /\ \A i \in 1..Len(Asked) : Asked[i].answer = "success"
      /\ Len(Asked) < 2 /\ op = <<"watch", "player">>[Len(Asked) + 1]
  <2>1. CASE op = "watch" /\ Len(calls) = 0
    BY <1>1, <2>1
  <2>2. CASE /\ op = "player" /\ Len(calls) = 1 /\ calls[1].reply \in PageReplies
             /\ Usable(calls[1].reply)
    <3>1. Len(Asked) = 1 /\ Asked[1].answer = AnswerClass(calls[1].reply)
      BY <1>1, <2>2
    <3>2. AnswerClass(calls[1].reply) = "success"
      BY <2>2, ReplyTables
    <3>3. QED
      BY <2>2, <3>1, <3>2
  <2>3. QED
    BY <2>1, <2>2
<1>7. Verdict = "pending" /\ Verdict' = "pending"
  BY DEF Verdict, Pending
<1>8. QED
  BY <1>5, <1>6, <1>7 DEF Contract!Ask, Contract!AllSucceeded

\* The host's answer is an Answer of the class the contract gives it.
LEMMA AnswerStep ==
  ASSUME calls \in Seq(HostCalls), NEW reply \in PageReplies \cup PlayerReplies,
         Len(calls) # 0, calls[Len(calls)].reply = Pending,
         calls' = [calls EXCEPT ![Len(calls)].reply = reply],
         UNCHANGED outcome
  PROVE  \E a \in Contract!Answers : Contract!Answer(a)
<1> DEFINE n == Len(calls)
<1>1. /\ Asked \in Seq(Askings) /\ Len(Asked) = n /\ n \in Nat
      /\ \A i \in 1..n :
           Asked[i] = [op |-> calls[i].op, answer |-> AnswerClass(calls[i].reply)]
  BY AskedShape
<1>2. n \in 1..n
  BY <1>1
<1>3. /\ Len(calls') = n
      /\ \A i \in 1..n : /\ calls'[i].op = calls[i].op
                          /\ i # n => calls'[i] = calls[i]
      /\ calls'[n].reply = reply
  BY <1>1, LastAnswered
<1>4. Asked' = [i \in 1..n |->
                 [op |-> calls'[i].op, answer |-> AnswerClass(calls'[i].reply)]]
  BY <1>3 DEF Asked
<1>5. Asked[n].answer = "none"
  <2>1. Asked[n] = [op |-> calls[n].op, answer |-> AnswerClass(calls[n].reply)]
    BY <1>1, <1>2
  <2>2. AnswerClass(calls[n].reply) = "none"
    BY DEF AnswerClass
  <2>3. QED
    BY <2>1, <2>2
<1>6. Asked' = [Asked EXCEPT ![n].answer = AnswerClass(reply)]
  <2>1. Asked = [i \in 1..n |->
                  [op |-> calls[i].op, answer |-> AnswerClass(calls[i].reply)]]
    BY DEF Asked
  <2>2. \A i \in 1..n : i # n =>
          Asked'[i] = [op |-> calls[i].op, answer |-> AnswerClass(calls[i].reply)]
    BY <1>3, <1>4
  <2>3. Asked'[n] = [op |-> calls[n].op, answer |-> AnswerClass(reply)]
    BY <1>2, <1>3, <1>4
  <2>4. QED
    BY <1>2, <1>4, <2>1, <2>2, <2>3
<1>7. AnswerClass(reply) \in Contract!Answers
  BY ReplyTables DEF Contract!Answers
<1>8. Verdict' = Verdict
  BY DEF Verdict
<1>9. Asked # << >>
  BY <1>1, <1>2
<1>10. QED
  BY <1>1, <1>5, <1>6, <1>7, <1>8, <1>9 DEF Contract!Answer

\* An error return is a Fail, if it invites a retry exactly when the last answer was
\* transient, where there is one, and the ones before it were usable.
LEMMA FailureStep ==
  ASSUME calls \in Seq(HostCalls), NEW e, outcome = Pending, ReturnError(e), UNCHANGED calls,
         \/ Len(calls) = 0 /\ ~e.retryable
         \/ /\ Len(calls) = 1 /\ calls[1].reply \in PageReplies
            /\ e.retryable <=> AnswerClass(calls[1].reply) = "transient"
         \/ /\ Len(calls) = 2 /\ calls[1].reply \in PageReplies /\ Usable(calls[1].reply)
            /\ calls[2].reply \in PlayerReplies
            /\ e.retryable <=> AnswerClass(calls[2].reply) = "transient"
  PROVE  Contract!Fail
<1>1. Asked' = Asked /\ Len(Asked) = Len(calls)
      /\ \A i \in 1..Len(calls) :
           Asked[i] = [op |-> calls[i].op, answer |-> AnswerClass(calls[i].reply)]
  BY AskedShape DEF Asked
<1>2. Verdict = "pending" /\ Verdict' = IF e.retryable THEN "retryable" ELSE "final"
  BY DEF Verdict, Pending, ReturnError
<1>3. /\ \A i \in 1..Len(Asked) : Asked[i].answer # "none"
      /\ e.retryable <=> \E i \in 1..Len(Asked) : Asked[i].answer = "transient"
  <2>1. CASE Len(calls) = 0 /\ ~e.retryable
    BY <1>1, <2>1
  <2>2. CASE /\ Len(calls) = 1 /\ calls[1].reply \in PageReplies
             /\ e.retryable <=> AnswerClass(calls[1].reply) = "transient"
    <3>1. Len(Asked) = 1 /\ Asked[1].answer = AnswerClass(calls[1].reply)
      BY <1>1, <2>2
    <3>2. AnswerClass(calls[1].reply) # "none"
      BY <2>2, ReplyTables
    <3>3. QED
      BY <2>2, <3>1, <3>2
  <2>3. CASE /\ Len(calls) = 2 /\ calls[1].reply \in PageReplies
             /\ Usable(calls[1].reply) /\ calls[2].reply \in PlayerReplies
             /\ e.retryable <=> AnswerClass(calls[2].reply) = "transient"
    <3>1. /\ Len(Asked) = 2 /\ Asked[1].answer = AnswerClass(calls[1].reply)
          /\ Asked[2].answer = AnswerClass(calls[2].reply)
      BY <1>1, <2>3
    <3>2. AnswerClass(calls[1].reply) = "success" /\ AnswerClass(calls[2].reply) # "none"
      BY <2>3, ReplyTables
    <3>3. QED
      BY <2>3, <3>1, <3>2
  <2>4. QED
    BY <2>1, <2>2, <2>3
<1>4. QED
  BY <1>1, <1>2, <1>3 DEF Contract!Fail

\* Every step of the call is a step of the contract or a stutter.
LEMMA StepRefines ==
  ASSUME IInv, [Next]_vars
  PROVE  [Contract!Next]_<<Asked, Verdict>>
<1>0. /\ calls \in Seq(HostCalls) /\ (pc # "done" => outcome = Pending)
      /\ pc = "watch" => Len(calls) = 1 /\ calls[1].reply \in PageReplies
      /\ pc = "player" =>
           /\ Len(calls) = 2 /\ calls[1].reply \in PageReplies
           /\ Usable(calls[1].reply) /\ calls[2].reply \in PlayerReplies
  <2>1. pc = "watch" => Len(calls) = 1
    BY DEF IInv, Conversation
  <2>2. pc = "player" => Len(calls) = 2
    BY DEF IInv, Conversation
  <2>3. pc \in {"watch", "player"} => Len(calls) # 0
    BY <2>1, <2>2
  <2> QED
    BY <2>1, <2>2, <2>3 DEF IInv, Conversation, Readable
<1>2. /\ ~malformed.retryable /\ ~invalid_input.retryable
      /\ ~TransportError("InvalidRequest").retryable
      /\ \A page : ~select_error(page).retryable
  BY DEF ResolverError, malformed, invalid_input, private, unavailable, select_error,
     TransportError
<1>3. CASE RejectSource
  <2>1. Len(calls) = 0 /\ pc = "classify"
    BY <1>3 DEF RejectSource, IInv, Conversation
  <2> QED
    BY <1>0, <1>2, <1>3, <2>1, FailureStep DEF RejectSource, ReturnError, Contract!Next
<1>4. CASE GetWatch
  <2>1. Len(calls) = 0 /\ outcome = Pending
    BY <1>0, <1>4 DEF GetWatch, IInv, Conversation
  <2> QED
    BY <1>0, <1>4, <2>1, AskStep DEF GetWatch, CallHost, Contract!Next
<1>5. CASE \E reply \in PageReplies : WatchReturns(reply)
  <2>1. Len(calls) = 1 /\ calls[Len(calls)].reply = Pending
    BY <1>5 DEF WatchReturns, IInv, Conversation
  <2>2. Len(calls) # 0
    BY <2>1
  <2> QED
    BY <1>0, <1>5, <2>1, <2>2, AnswerStep DEF WatchReturns, HostReturns, Contract!Next
<1>6. CASE FailWatch \/ RejectPage \/ LackPlayer
  <2>1. pc = "watch" /\ outcome = Pending
    BY <1>0, <1>6 DEF FailWatch, RejectPage, LackPlayer
  <2>2. Usable(calls[1].reply) => AnswerClass(calls[1].reply) = "success"
    BY <1>0, <2>1, ReplyTables
  <2>3. PICK e : /\ ReturnError(e) /\ UNCHANGED calls
                 /\ e.retryable <=> AnswerClass(calls[1].reply) = "transient"
    <3>1. CASE FailWatch
      BY <1>0, <2>1, <3>1, ReplyTables DEF FailWatch, ReturnError
    <3>2. CASE RejectPage
      BY <1>2, <2>2, <3>2 DEF RejectPage, ReturnError
    <3>3. CASE LackPlayer
      BY <1>2, <2>2, <3>3 DEF LackPlayer, Readable, ReturnError
    <3> QED
      BY <1>6, <3>1, <3>2, <3>3
  <2> QED
    BY <1>0, <2>1, <2>3, FailureStep DEF Contract!Next
<1>7. CASE MapDirect \/ MapDecoded \/ UNCHANGED vars
  BY <1>7, StutterStep DEF MapDirect, MapDecoded, BuildResponse, vars
<1>8. CASE GetPlayer
  <2>1. pc = "watch" /\ Usable(calls[1].reply)
    BY <1>8 DEF GetPlayer, Readable
  <2> QED
    BY <1>0, <1>8, <2>1, AskStep DEF GetPlayer, CallHost, Contract!Next
<1>9. CASE \E reply \in PlayerReplies : PlayerReturns(reply)
  <2>1. Len(calls) = 2 /\ calls[Len(calls)].reply = Pending
    BY <1>9 DEF PlayerReturns, IInv, Conversation
  <2>2. Len(calls) # 0
    BY <2>1
  <2> QED
    BY <1>0, <1>9, <2>1, <2>2, AnswerStep DEF PlayerReturns, HostReturns, Contract!Next
<1>10. CASE FailPlayer
  <2>1. pc = "player"
    BY <1>10 DEF FailPlayer
  <2>2. PICK e : /\ ReturnError(e) /\ UNCHANGED calls
                 /\ e.retryable <=> AnswerClass(calls[2].reply) = "transient"
    BY <1>0, <1>2, <1>10, <2>1, ReplyTables DEF FailPlayer, ReturnError
  <2> QED
    BY <1>0, <2>1, <2>2, FailureStep DEF Contract!Next
<1>11. CASE Return
  <2>1. /\ pc = "validate" /\ UNCHANGED calls /\ outcome = Pending
        /\ Len(calls) \in {1, 2} /\ Usable(calls[1].reply)
        /\ Len(calls) = 2 => Usable(calls[2].reply)
    BY <1>11 DEF Return, ReturnError, IInv, Conversation, Readable
  <2>2. /\ calls[1].reply \in PageReplies
        /\ Len(calls) = 2 => calls[2].reply \in PlayerReplies
    <3>1. Len(calls) # 0
      BY <2>1
    <3> QED
      BY <2>1, <3>1 DEF IInv, Conversation
  <2>3. /\ AnswerClass(calls[1].reply) = "success"
        /\ Len(calls) = 2 => AnswerClass(calls[2].reply) = "success"
    BY <2>1, <2>2, ReplyTables
  <2>4. CASE ReturnError(malformed)
    <3>1. CASE Len(calls) = 1
      BY <1>0, <1>2, <2>1, <2>2, <2>3, <2>4, <3>1, FailureStep DEF Contract!Next
    <3>2. CASE Len(calls) = 2
      BY <1>0, <1>2, <2>1, <2>2, <2>3, <2>4, <3>2, FailureStep DEF Contract!Next
    <3> QED
      BY <2>1, <3>1, <3>2
  <2>5. CASE outcome' = [kind |-> "response", response |-> response]
    <3>1. Verdict = "pending" /\ Verdict' = "delivered" /\ Asked' = Asked
      <4>1. Asked' = Asked
        BY <2>1 DEF Asked
      <4>2. outcome.kind = "pending" /\ outcome'.kind = "response"
        BY <2>1, <2>5 DEF Pending
      <4> QED
        BY <4>1, <4>2 DEF Verdict
    <3>2. Len(Asked) = Len(calls) /\ \A i \in 1..Len(Asked) : Asked[i].answer = "success"
      <4>1. /\ Len(Asked) = Len(calls)
            /\ \A i \in 1..Len(calls) :
                 Asked[i] = [op |-> calls[i].op, answer |-> AnswerClass(calls[i].reply)]
        BY <1>0, AskedShape
      <4>2. \A i \in 1..Len(calls) : i = 1 \/ (i = 2 /\ Len(calls) = 2)
        <5>1. \A n \in {1, 2} : \A i \in 1..n : i = 1 \/ (i = 2 /\ n = 2)
          OBVIOUS
        <5> QED
          BY <2>1, <5>1
      <4>3. \A i \in 1..Len(calls) : AnswerClass(calls[i].reply) = "success"
        BY <2>3, <4>2
      <4>4. ASSUME NEW i \in 1..Len(calls) PROVE Asked[i].answer = "success"
        <5>1. Asked[i] = [op |-> calls[i].op, answer |-> AnswerClass(calls[i].reply)]
          BY <4>1
        <5> QED
          BY <4>3, <5>1
      <4> QED
        BY <4>1, <4>4
    <3>3. Asked # << >>
      BY <2>1, <3>2
    <3> QED
      BY <3>1, <3>2, <3>3 DEF Contract!Next, Contract!Deliver, Contract!AllSucceeded
  <2> QED
    BY <1>11, <2>4, <2>5 DEF Return
<1> QED
  BY <1>3, <1>4, <1>5, <1>6, <1>7, <1>8, <1>9, <1>10, <1>11 DEF Next, Terminated

\* A resolve call of the YouTube plugin asks for at most a watch page and a player
\* script, the second only after the first succeeded, delivers only on successes, and
\* invites a retry exactly when the answer that stopped it may pass.
THEOREM KeepsContract == Spec => KeepsResolveContract
<1>1. Init => Contract!Init
  BY DEF Init, Contract!Init, Asked, Verdict, Pending
<1>2. IInv /\ [Next]_vars => [Contract!Next]_<<Asked, Verdict>>
  BY StepRefines
<1> QED
  BY <1>1, <1>2, SpecIInv, PTL DEF Spec, KeepsResolveContract, Contract!Spec, Contract!vars

------------------------------------------------------------------------------
(* The cipher. The argument that the packed strategy never guesses is about  *)
(* the base: if every call of a dispatcher works at run time, the only base  *)
(* the search can settle on is the one the identifier holds.                 *)

\* What the search state keeps: operations found by the packed strategy are an answer
\* of it to this script.
CipherInv ==
  /\ player \in Players
  /\ tried \in 0..4
  /\ phase = "extract" \/ tried = 0 => ops = << >>
  /\ ops # << >> /\ tried = 1 => ops \in Extracted("packed", player)

Pool == player.pools[find_packed_pool(player)]
Helper == player.objects[find_pool_indexed_helper(player, find_packed_pool(player))]

------------------------------------------------------------------------------
\* The first of some places is one of them.
LEMMA LeastIsIn ==
  ASSUME NEW S, S \subseteq Nat, Least(S) # 0
  PROVE  Least(S) \in S
<1>1. S # {}
  BY DEF Least
<1>2. PICK x \in S : \A y \in S : x <= y
  BY <1>1, LeastExists
<1> QED
  BY <1>1, <1>2 DEF Least

\* Where calls are found, pool and helper are the script's own.
LEMMA FoundInScript ==
  ASSUME player \in Players, NEW ident \in Idents, CallsBy(player, ident) # << >>
  PROVE  /\ find_packed_pool(player) \in 1..Len(player.pools)
         /\ find_pool_indexed_helper(player, find_packed_pool(player))
              \in 1..Len(player.objects)
         /\ CallsBy(player, ident) \in Seq(Sites)
<1> DEFINE pool == find_packed_pool(player)
           helper == find_pool_indexed_helper(player, pool)
<1>1. player \in PlayerScripts
  BY CipherAssumption
<1>2. /\ player.pools \in Seq(Seq(Tokens)) /\ player.objects \in Seq(Seq(Methods))
      /\ player.sites \in Seq(Seq([Idents -> Seq(Sites)]))
  BY <1>1 DEF PlayerScripts
<1>3. pool # 0 /\ helper # 0 /\ CallsBy(player, ident) = player.sites[helper][pool][ident]
  BY DEF CallsBy
<1>4. pool \in 1..Len(player.pools)
  <2>1. {i \in 1..Len(player.pools) : {"splice", "reverse"} \subseteq ToSet(player.pools[i])}
          \subseteq Nat
    BY <1>2
  <2>2. QED
    BY <1>3, <2>1, LeastIsIn DEF find_packed_pool
<1>5. helper \in 1..Len(player.objects)
  <2>1. {i \in 1..Len(player.objects) :
           Cardinality(Classified(player.objects[i], pool)) = 3} \subseteq Nat
    BY <1>2
  <2>2. QED
    BY <1>3, <2>1, LeastIsIn DEF find_pool_indexed_helper
<1>6. Len(player.sites) = Len(player.objects)
        /\ \A i \in 1..Len(player.sites) : Len(player.sites[i]) = Len(player.pools)
  BY ScriptAssumption
<1>7. player.sites[helper] \in Seq([Idents -> Seq(Sites)])
  BY <1>2, <1>5, <1>6
<1>8. player.sites[helper][pool] \in [Idents -> Seq(Sites)]
  BY <1>4, <1>5, <1>6, <1>7
<1>9. QED
  BY <1>3, <1>4, <1>5, <1>8

\* A pool index is dispatched to a method exactly if it is within the pool and the
\* key it names is that of a classified method; that method is the one the script calls.
LEMMA DispatchedAsNamed ==
  ASSUME player \in Players, find_packed_pool(player) \in 1..Len(player.pools),
         find_pool_indexed_helper(player, find_packed_pool(player))
           \in 1..Len(player.objects),
         NEW index \in Nat
  PROVE  /\ Dispatched(player, index) # Absent => index < Len(Pool)
         /\ index < Len(Pool) =>
              LET m == MethodOf(Helper, Pool[index + 1])
              IN  m # Absent /\ PackedKind(m, find_packed_pool(player)) # Absent =>
                    Dispatched(player, index) = PackedKind(m, find_packed_pool(player))
<1> DEFINE at == find_packed_pool(player)
           named == {n \in Classified(Helper, at) :
                       index < Len(Pool) /\ n.key = Pool[index + 1]}
<1>1. Dispatched(player, index) =
        IF named = {} THEN Absent ELSE PackedKind(CHOOSE n \in named : TRUE, at)
  BY DEF Dispatched, Pool, Helper
<1>2. ASSUME index < Len(Pool), MethodOf(Helper, Pool[index + 1]) # Absent,
             PackedKind(MethodOf(Helper, Pool[index + 1]), at) # Absent
      PROVE  Dispatched(player, index) = PackedKind(MethodOf(Helper, Pool[index + 1]), at)
  <2> DEFINE m == MethodOf(Helper, Pool[index + 1])
  <2>1. m \in ToSet(Helper) /\ m.key = Pool[index + 1]
    BY <1>2 DEF MethodOf
  <2>2. m \in named
    BY <1>2, <2>1 DEF Classified
  <2>3. \A n \in named : n = m
    <3>1. \A n, o \in ToSet(Helper) : n.key = o.key => n = o
      BY ScriptAssumption DEF Helper
    <3>2. QED
      BY <2>1, <3>1 DEF Classified
  <2>4. (CHOOSE n \in named : TRUE) = m
    BY <2>2, <2>3
  <2>5. QED
    BY <1>1, <2>2, <2>4
<1>3. QED
  BY <1>1, <1>2

------------------------------------------------------------------------------
\* If every call of a dispatcher works at run time, a base that the search settles on
\* is the one its identifier holds. A run-time base below the bound is a solution, and
\* the solution is unique. One above it has a bit that every constant has too, and that
\* no base below the bound can clear: then there is no solution.
LEMMA BaseIsTheRunTimeOne ==
  ASSUME player \in Players, NEW ident \in Idents,
         CallsBy(player, ident) # << >>,
         \A i \in 1..Len(CallsBy(player, ident)) : Honest(ident, CallsBy(player, ident)[i]),
         solve_shared_base(player, CallsBy(player, ident)) # Absent
  PROVE  solve_shared_base(player, CallsBy(player, ident)) = player.env[ident]
<1> DEFINE sites == CallsBy(player, ident)
           base == solve_shared_base(player, sites)
           real == player.env[ident]
           at == find_packed_pool(player)
<1>1. /\ at \in 1..Len(player.pools) /\ sites \in Seq(Sites)
      /\ find_pool_indexed_helper(player, at) \in 1..Len(player.objects)
  BY FoundInScript
<1>2. Len(sites) \in Nat /\ 1 \in 1..Len(sites)
        /\ \A i \in 1..Len(sites) : sites[i].konst \in Ints
  <2>1. ASSUME NEW s \in Seq(Sites), s # << >>
        PROVE  Len(s) \in Nat /\ 1 \in 1..Len(s)
    BY <2>1
  <2>2. ASSUME NEW s \in Seq(Sites), NEW i \in 1..Len(s)
        PROVE  s[i].konst \in Ints
    <3>1. s[i] \in Sites
      OBVIOUS
    <3>2. QED
      BY <3>1 DEF Sites
  <2>3. QED
    BY <1>1, <2>1, <2>2
<1>3. base \in Bases /\ Solutions(player, sites) = {base}
  BY DEF solve_shared_base
<1>4. Bases \subseteq Ints /\ Ints \subseteq Nat /\ real \in Ints
  <2>1. player \in PlayerScripts /\ Words \in Nat /\ SearchBound \in 1..Words
    BY CipherAssumption
  <2>2. player.env \in [Idents -> Ints]
    BY <2>1 DEF PlayerScripts
  <2>3. QED
    BY <2>1, <2>2 DEF Bases, Ints
<1>5. Len(Pool) \in Nat /\ Len(Pool) <= SearchBound
  <2>1. Pool \in Seq(Tokens)
    BY <1>1, CipherAssumption DEF PlayerScripts, Pool
  <2>2. Len(Pool) <= SearchBound
    BY <1>1, ScriptAssumption DEF Pool
  <2>3. QED
    BY <2>1, <2>2
<1>6. \A n \in Nat : n < Len(Pool) => n \in Bases
  BY <1>5, CipherAssumption DEF Bases
<1>7. \A i \in 1..Len(sites) :
        /\ Xor(real, sites[i].konst) \in Nat
        /\ Xor(real, sites[i].konst) < Len(Pool)
        /\ Dispatched(player, Xor(real, sites[i].konst)) # Absent
  <2> SUFFICES ASSUME NEW i \in 1..Len(sites)
               PROVE  /\ Xor(real, sites[i].konst) \in Nat
                      /\ Xor(real, sites[i].konst) < Len(Pool)
                      /\ Dispatched(player, Xor(real, sites[i].konst)) # Absent
    OBVIOUS
  <2> DEFINE index == Xor(real, sites[i].konst)
             m == MethodOf(Helper, Pool[index + 1])
  <2>1. index \in Nat
    BY <1>2, <1>4, XorAssumption
  <2>2. Honest(ident, sites[i])
    OBVIOUS
  <2>3. Invoked(ident, sites[i]) = IF index < Len(Pool) THEN m ELSE Absent
    BY DEF Invoked, Pool, Helper
  <2>4. index < Len(Pool) /\ m # Absent /\ PackedKind(m, at) # Absent
    BY <2>2, <2>3 DEF Honest
  <2>5. QED
    BY <1>1, <2>1, <2>4, DispatchedAsNamed
<1>8. real \in Bases
  <2> DEFINE k == sites[1].konst
  <2>1. k \in Ints /\ Xor(real, k) \in Bases
    BY <1>2, <1>6, <1>7
  <2>2. SUFFICES ASSUME real \notin Bases PROVE FALSE
    OBVIOUS
  <2>3. k \notin Bases
    <3>1. Xor(Xor(real, k), k) = real /\ Xor(real, k) \in Ints
      BY <1>4, <2>1, XorAssumption
    <3>2. Xor(Xor(real, k), k) \in Bases <=> k \in Bases
      BY <2>1, <3>1, XorAssumption
    <3>3. QED
      BY <2>2, <3>1, <3>2
  <2>4. Dispatched(player, Xor(base, k)) # Absent
    BY <1>2, <1>3 DEF Solutions
  <2>5. Xor(base, k) \in Nat /\ Xor(base, k) < Len(Pool)
    <3>1. Xor(base, k) \in Nat
      BY <1>3, <1>4, <2>1, XorAssumption
    <3>2. QED
      BY <1>1, <2>4, <3>1, DispatchedAsNamed
  <2>6. Xor(base, k) \in Bases
    BY <1>6, <2>5
  <2>7. QED
    BY <1>3, <1>4, <2>1, <2>3, <2>6, XorAssumption
<1>9. real \in Solutions(player, sites)
  BY <1>7, <1>8 DEF Solutions
<1>10. QED
  BY <1>3, <1>9

\* Operations that the packed strategy finds for an identifier are its calls, and what
\* each of them does at run time if all of them work.
LEMMA PackedOpsAreTheCalls ==
  ASSUME player \in Players, NEW ident \in Idents, NEW found,
         found = packed_ops(player, ident), found # << >>
  PROVE  LET sites == CallsBy(player, ident)
         IN  /\ Len(found) = Len(sites)
             /\ (\A i \in 1..Len(sites) : Honest(ident, sites[i])) =>
                  \A i \in 1..Len(sites) :
                    /\ found[i].kind = PackedKind(Invoked(ident, sites[i]),
                                                  find_packed_pool(player))
                    /\ found[i].kind # "reverse" => found[i].index = Passed(sites[i].arg)
<1> DEFINE sites == CallsBy(player, ident)
           base == solve_shared_base(player, sites)
           real == player.env[ident]
           at == find_packed_pool(player)
<1>1. /\ ~(Len(sites) < 2) /\ base # Absent
      /\ found = [i \in 1..Len(sites) |-> PackedOp(player, sites[i], base)]
  BY DEF packed_ops
<1>2. sites # << >>
  BY <1>1
<1>3. /\ at \in 1..Len(player.pools) /\ sites \in Seq(Sites)
      /\ find_pool_indexed_helper(player, at) \in 1..Len(player.objects)
  BY <1>2, FoundInScript
<1>4. /\ Len(found) = Len(sites)
      /\ \A i \in 1..Len(sites) : found[i] = PackedOp(player, sites[i], base)
  <2>1. ASSUME NEW s \in Seq(Sites) PROVE Len(s) \in Nat
    OBVIOUS
  <2>2. Len(sites) \in Nat
    BY <1>3, <2>1
  <2>3. QED
    BY <1>1, <2>2
<1>5. ASSUME \A i \in 1..Len(sites) : Honest(ident, sites[i]), NEW i \in 1..Len(sites)
      PROVE  /\ found[i].kind = PackedKind(Invoked(ident, sites[i]), at)
             /\ found[i].kind # "reverse" => found[i].index = Passed(sites[i].arg)
  <2> DEFINE index == Xor(real, sites[i].konst)
             m == MethodOf(Helper, Pool[index + 1])
  <2>1. base = real
    BY <1>1, <1>2, <1>5, BaseIsTheRunTimeOne
  <2>2. sites[i].konst \in Ints /\ sites[i].arg \in Args
    <3>1. ASSUME NEW s \in Seq(Sites), NEW j \in 1..Len(s) PROVE s[j] \in Sites
      OBVIOUS
    <3>2. sites[i] \in Sites
      BY <1>3, <3>1
    <3>3. QED
      BY <3>2 DEF Sites
  <2>3. index \in Nat
    <3>1. real \in Ints
      BY CipherAssumption DEF PlayerScripts
    <3>2. index \in Ints
      BY <2>2, <3>1, XorAssumption
    <3>3. Ints \subseteq Nat
      BY CipherAssumption DEF Ints
    <3>4. QED
      BY <3>2, <3>3
  <2>4. /\ Honest(ident, sites[i])
        /\ Invoked(ident, sites[i]) = IF index < Len(Pool) THEN m ELSE Absent
    BY <1>5 DEF Invoked, Pool, Helper
  <2>5. index < Len(Pool) /\ m # Absent /\ PackedKind(m, at) # Absent
    BY <2>4 DEF Honest
  <2>6. Dispatched(player, index) = PackedKind(m, at)
    BY <1>3, <2>3, <2>5, DispatchedAsNamed
  <2>7. found[i] = [kind |-> Dispatched(player, index),
                    index |-> IF Dispatched(player, index) = "reverse" THEN 0
                              ELSE eval_arg(sites[i].arg, real)]
    BY <1>4, <2>1 DEF PackedOp
  <2>8. eval_arg(sites[i].arg, real) = Passed(sites[i].arg)
    <3>1. sites[i].arg.form \in {"literal", "xor", "other"}
      BY <2>2 DEF Args
    <3>2. sites[i].arg.form = "xor" => sites[i].arg.ident = ident
      BY <2>4 DEF Honest
    <3>3. QED
      BY <3>1, <3>2 DEF eval_arg, Passed
  <2>9. QED
    BY <2>4, <2>5, <2>6, <2>7, <2>8
<1>6. QED
  BY <1>4, <1>5

------------------------------------------------------------------------------
\* The invariant holds before a strategy has been tried.
LEMMA InitCipherInv == CipherInit => CipherInv
BY DEF CipherInit, CipherInv

\* Every step of the search and of the signing keeps the invariant.
LEMMA NextCipherInv == CipherInv /\ [CipherNext]_cipher_vars => CipherInv'
<1> SUFFICES ASSUME CipherInv, [CipherNext]_cipher_vars PROVE CipherInv'
  OBVIOUS
<1>1. Len(Strategies) = 4 /\ Strategies[1] = "packed"
  BY DEF Strategies
<1>2. CASE TryStrategy
  <2>1. /\ tried \in 0..3 /\ tried' = tried + 1 /\ player' = player
        /\ ops' \in Extracted(Strategies[tried + 1], player)
        /\ phase' = "extract" => ops' = << >>
    BY <1>1, <1>2 DEF TryStrategy, CipherInv
  <2>2. tried' = 1 => ops' \in Extracted("packed", player)
    BY <1>1, <2>1
  <2>3. QED
    BY <2>1, <2>2 DEF CipherInv
<1>3. CASE NoStrategy
  BY <1>3 DEF NoStrategy, CipherInv
<1>4. CASE \E c \in Ciphers : Sign(c)
  BY <1>4 DEF Sign, CipherInv
<1>5. CASE UNCHANGED cipher_vars
  BY <1>5 DEF cipher_vars, CipherInv
<1>6. QED
  BY <1>2, <1>3, <1>4, <1>5 DEF CipherNext, Finished

\* Operations found by the packed strategy are those of one dispatcher, each with the
\* kind and the index the script would use, whatever the script's base, constants and
\* other dispatchers are: solve_shared_base fails rather than guess.
THEOREM PackedNeverGuesses == CipherSpec => []NeverGuesses
<1>1. CipherSpec => []CipherInv
  BY InitCipherInv, NextCipherInv, PTL DEF CipherSpec
<1>2. ASSUME CipherInv PROVE NeverGuesses
  <2>1. SUFFICES ASSUME ops # << >>, Strategies[tried] = "packed"
                 PROVE  NeverGuesses
    BY DEF NeverGuesses
  <2>2. tried = 1
    <3>1. tried \in {1, 2, 3, 4}
      BY <1>2, <2>1 DEF CipherInv
    <3>2. \A i \in {2, 3, 4} : Strategies[i] # "packed"
      BY DEF Strategies
    <3>3. QED
      BY <2>1, <3>1, <3>2
  <2>3. PICK ident \in majority_idents(player) : ops = packed_ops(player, ident)
    <3>1. Extracted("packed", player) =
            {packed_ops(player, ident) : ident \in majority_idents(player)}
      BY DEF Extracted
    <3>2. QED
      BY <1>2, <2>1, <2>2, <3>1 DEF CipherInv
  <2>4. player \in Players /\ ident \in Idents
    BY <1>2, <2>3 DEF CipherInv, majority_idents
  <2>5. QED
    BY <2>1, <2>3, <2>4, PackedOpsAreTheCalls DEF NeverGuesses
<1>3. QED
  BY <1>1, <1>2, PTL

------------------------------------------------------------------------------
(* What the strategies answer is a list of operations, and what is signed a  *)
(* list of pairs.                                                            *)

LEMMA Numbers ==
  /\ 0 \in Ints /\ Bases \subseteq Ints /\ Ints \subseteq Nat
  /\ \A a, b \in Ints : Xor(a, b) \in Ints
<1>1. Words \in Nat \ {0} /\ SearchBound \in 1..Words
  BY CipherAssumption
<1>2. \A w \in Nat \ {0} : 0 \in 0..(w - 1)
  OBVIOUS
<1>3. Ints \subseteq Nat /\ Bases \subseteq Ints
  BY <1>1 DEF Ints, Bases
<1> QED
  BY <1>1, <1>2, <1>3, XorAssumption DEF Ints

LEMMA PackedTyped ==
  ASSUME player \in Players, NEW ident \in Idents
  PROVE  packed_ops(player, ident) \in Seq(Ops)
<1> DEFINE sites == CallsBy(player, ident)
           base == solve_shared_base(player, sites)
           op == [i \in 1..Len(sites) |-> PackedOp(player, sites[i], base)]
           found == packed_ops(player, ident)
<1>0. << >> \in Seq(Ops)
  OBVIOUS
<1>1. SUFFICES ASSUME found # << >> PROVE found \in Seq(Ops)
  BY <1>0
<1>2. /\ ~(Len(sites) < 2) /\ base # Absent /\ found = op
      /\ \A i \in 1..Len(sites) : PackedOp(player, sites[i], base).index # Absent
  BY <1>1 DEF packed_ops
<1>3. sites # << >>
  BY <1>2
<1>4. sites \in Seq(Sites)
  BY <1>3, FoundInScript
<1>5. base \in Bases /\ Solutions(player, sites) = {base}
  BY <1>2 DEF solve_shared_base
<1>6. ASSUME NEW i \in 1..Len(sites) PROVE PackedOp(player, sites[i], base) \in Ops
  <2> DEFINE kind == Dispatched(player, Xor(base, sites[i].konst))
             index == IF kind = "reverse" THEN 0 ELSE eval_arg(sites[i].arg, base)
  <2>1. PackedOp(player, sites[i], base) = [kind |-> kind, index |-> index]
    BY DEF PackedOp
  <2>2. kind # Absent
    BY <1>5 DEF Solutions
  <2>3. kind \in Kinds
    BY <2>2 DEF Dispatched, PackedKind, Kinds
  <2> HIDE DEF kind, sites, base
  <2>4. sites[i].arg \in Args
    <3>1. sites[i] \in Sites
      BY <1>4
    <3> QED
      BY <3>1 DEF Sites
  <2>5. index # Absent
    BY <1>2, <2>1
  <2>6. index \in Ints
    BY <1>5, <2>4, <2>5, Numbers DEF eval_arg, Args
  <2> QED
    BY <2>1, <2>3, <2>6 DEF Ops
<1>7. Len(sites) \in Nat
  BY <1>4
<1> HIDE DEF sites, base
<1> QED
  BY <1>2, <1>6, <1>7, MapTyped

LEMMA SplitTyped ==
  ASSUME NEW strategy, NEW sites \in Seq(Calls), NEW object
  PROVE  SplitOps(strategy, sites, object) \in Seq(Ops)
<1> DEFINE kind(c) == LET m == MethodOf(object, c.method)
                      IN  IF m = Absent THEN Absent ELSE SplitKind(strategy, m)
           known == Only(sites, {c \in Calls : kind(c) # Absent})
           op == [i \in 1..Len(known) |->
                    [kind |-> kind(known[i]),
                     index |-> IF known[i].index = Absent THEN 0 ELSE known[i].index]]
<1>1. SplitOps(strategy, sites, object) = op
  BY DEF SplitOps
<1>2. \A m : SplitKind(strategy, m) \in Kinds \cup {Absent}
  BY DEF SplitKind, ExplodeKind, LegacyKind, Kinds
<1>3. \A c : kind(c) \in Kinds \cup {Absent}
  BY <1>2
<1> DEFINE passing == {c \in Calls : kind(c) # Absent}
<1>4. \A c \in passing : c \in Calls /\ kind(c) \in Kinds
  BY <1>3
<1> HIDE DEF kind, passing
<1>5. known \in Seq(Calls) /\ ToSet(known) = ToSet(sites) \cap passing
  BY OnlyElements DEF passing
<1> HIDE DEF known
<1>6. ASSUME NEW i \in 1..Len(known) PROVE op[i] \in Ops
  <2>1. known[i] \in passing
    BY <1>5 DEF ToSet
  <2>2. known[i].index \in Ints \cup {Absent}
    BY <2>1, <1>4 DEF Calls
  <2> QED
    BY <2>1, <2>2, <1>4, Numbers DEF Ops
<1>7. op \in [1..Len(known) -> Ops] /\ Len(known) \in Nat
  BY <1>5, <1>6
<1> HIDE DEF op
<1> QED
  BY <1>1, <1>7, MapTyped

LEMMA ExplodeTyped == ASSUME player \in Players PROVE explode_ops(player) \in Seq(Ops)
<1>1. player.callsite \in Callsites \cup {Absent}
  BY CipherAssumption DEF PlayerScripts
<1>2. SUFFICES ASSUME player.callsite # Absent
               PROVE  explode_ops(player) \in Seq(Ops)
  BY DEF explode_ops
<1>3. player.callsite.calls \in Seq(Calls)
  BY <1>1, <1>2 DEF Callsites
<1> DEFINE sites == Only(player.callsite.calls, {c \in Calls : c.on_split_var})
<1>4. sites \in Seq(Calls)
  BY <1>3, OnlyElements
<1>5. SplitOps("explode", sites, Container(player, sites)) \in Seq(Ops)
  BY <1>4, SplitTyped
<1>6. << >> \in Seq(Ops)
  OBVIOUS
<1> QED
  BY <1>5, <1>6 DEF explode_ops

LEMMA LegacyTyped == ASSUME player \in Players PROVE legacy_ops(player) \in Seq(Ops)
<1>1. player.callsite \in Callsites \cup {Absent}
  BY CipherAssumption DEF PlayerScripts
<1>2. SUFFICES ASSUME player.callsite # Absent
               PROVE  legacy_ops(player) \in Seq(Ops)
  BY DEF legacy_ops
<1>3. player.callsite.calls \in Seq(Calls)
  BY <1>1, <1>2 DEF Callsites
<1>4. SplitOps("legacy", player.callsite.calls, Container(player, player.callsite.calls))
        \in Seq(Ops)
  BY <1>3, SplitTyped
<1>5. << >> \in Seq(Ops)
  OBVIOUS
<1> QED
  BY <1>4, <1>5 DEF legacy_ops

LEMMA FqTyped == ASSUME player \in Players PROVE fq_ops(player) \in Seq(Ops)
<1>1. /\ player.fq \in [d : Ints, x : Ints] \cup {Absent} /\ player.block \in Seq(Sites)
  BY CipherAssumption DEF PlayerScripts
<1>2. << >> \in Seq(Ops)
  OBVIOUS
<1>3. SUFFICES ASSUME player.fq # Absent, {"splice", "reverse"} \subseteq ToSet(player.h)
               PROVE  fq_ops(player) \in Seq(Ops)
  BY <1>2 DEF fq_ops
<1> DEFINE v == Xor(player.fq.x, player.fq.d)
           kind(call) ==
             LET index == Xor(v, call.konst)
                 m == IF index < Len(player.h)
                      THEN MethodOf(player.uC, player.h[index + 1]) ELSE Absent
             IN  IF m = Absent THEN Absent ELSE UcKind(m, player.h)
           passing == {call \in Sites : kind(call) # Absent}
           known == Only(player.block, passing)
           op == [i \in 1..Len(known) |->
                    [kind |-> kind(known[i]),
                     index |-> IF known[i].arg.form = "other" THEN 0
                               ELSE eval_arg(known[i].arg, v)]]
<1>4. fq_ops(player) = op
  BY <1>3 DEF fq_ops
<1>5. v \in Ints
  BY <1>1, <1>3, Numbers
<1>6. \A m : UcKind(m, player.h) \in Kinds \cup {Absent}
  BY DEF UcKind, Kinds
<1>7. \A c : kind(c) \in Kinds \cup {Absent}
  BY <1>6
<1>8. \A c \in passing : c \in Sites /\ kind(c) \in Kinds
  BY <1>7
<1> HIDE DEF kind, passing, v
<1>9. known \in Seq(Sites) /\ ToSet(known) = ToSet(player.block) \cap passing
  BY <1>1, OnlyElements
<1> HIDE DEF known
<1>10. ASSUME NEW i \in 1..Len(known) PROVE op[i] \in Ops
  <2>1. known[i] \in passing
    BY <1>9 DEF ToSet
  <2>2. known[i].arg \in Args
    BY <2>1, <1>8 DEF Sites
  <2>3. known[i].arg.form # "other" => eval_arg(known[i].arg, v) \in Ints
    BY <1>5, <2>2, Numbers DEF eval_arg, Args
  <2> QED
    BY <2>1, <2>3, <1>8, Numbers DEF Ops
<1>11. op \in [1..Len(known) -> Ops] /\ Len(known) \in Nat
  BY <1>9, <1>10
<1> HIDE DEF op
<1> QED
  BY <1>4, <1>11, MapTyped

LEMMA ExtractedTyped ==
  ASSUME player \in Players, NEW strategy \in {"packed", "explode", "fq", "legacy"}
  PROVE  Extracted(strategy, player) \subseteq Seq(Ops)
<1>1. \A ident \in majority_idents(player) : packed_ops(player, ident) \in Seq(Ops)
  BY PackedTyped DEF majority_idents
<1> QED
  BY <1>1, ExplodeTyped, FqTyped, LegacyTyped DEF Extracted

\* An operation leaves a signature one.
LEMMA AppliedTyped ==
  ASSUME NEW sig \in Seq(Chars), NEW op \in Ops
  PROVE  Applied(sig, op) \in Seq(Chars)
<1>1. Len(sig) \in Nat /\ op.index \in Nat
  <2>1. op.index \in Ints
    BY DEF Ops
  <2>2. op.index \in Nat
    BY <2>1, Numbers
  <2>3. Len(sig) \in Nat
    OBVIOUS
  <2> QED
    BY <2>2, <2>3
<1>2. Reverse(sig) \in Seq(Chars)
  <2>1. \A i \in 1..Len(sig) : (Len(sig) - i) + 1 \in 1..Len(sig)
    BY <1>1
  <2>2. Reverse(sig) \in [1..Len(sig) -> Chars]
    BY <2>1 DEF Reverse
  <2> QED
    BY <1>1, <2>2, MapTyped
<1>3. ASSUME op.index < Len(sig)
      PROVE  SubSeq(sig, op.index + 1, Len(sig)) \in Seq(Chars)
  <2>1. 1 <= op.index + 1 /\ op.index + 1 \in Nat /\ op.index + 1 <= Len(sig)
    BY <1>1, <1>3
  <2> QED
    BY <1>1, <2>1, SubSeqProperties
<1>4. ASSUME sig # << >>
      PROVE  LET i == (op.index % Len(sig)) + 1
             IN  [sig EXCEPT ![1] = sig[i], ![i] = sig[1]] \in Seq(Chars)
  <2> DEFINE i == (op.index % Len(sig)) + 1
  <2>1. Len(sig) \in Nat \ {0}
    BY <1>4
  <2>2. i \in 1..Len(sig)
    BY <1>1, <2>1
  <2>3. 1 \in 1..Len(sig)
    BY <2>1
  <2> HIDE DEF i
  <2>4. sig \in [1..Len(sig) -> Chars]
    OBVIOUS
  <2>5. [sig EXCEPT ![1] = sig[i], ![i] = sig[1]] \in [1..Len(sig) -> Chars]
    BY <2>2, <2>3, <2>4
  <2>6. [sig EXCEPT ![1] = sig[i], ![i] = sig[1]] \in Seq(Chars)
    BY <1>1, <2>5, MapTyped
  <2> QED
    BY <2>6 DEF i
<1> QED
  BY <1>2, <1>3, <1>4 DEF Applied

\* What the signature is after each operation.
IsDeciphering(after, found, sig) ==
  /\ after[0] = sig /\ after[Len(found)] = decipher(found, sig)
  /\ \A i \in 1..Len(found) : after[i] = Applied(after[i - 1], found[i])

LEMMA DecipherLoop ==
  ASSUME NEW found \in Seq(Ops), NEW sig \in Seq(Chars)
  PROVE  \E after \in [0..Len(found) -> Seq(Chars)] : IsDeciphering(after, found, sig)
<1> DEFINE n == Len(found)
           Acc == Seq(Chars)
           step == [x \in Acc \X (1..n) |-> Applied(x[1], found[x[2]])]
           Reads(g) == g = [s \in SUBSET (DOMAIN found) |->
                              IF s = {} THEN sig
                              ELSE Applied(g[s \ {Max(s)}], found[Max(s)])]
           iter == CHOOSE g : Reads(g)
<1>1. n \in Nat /\ DOMAIN found = 1..n /\ sig \in Acc
  OBVIOUS
<1>2. step \in [Acc \X (1..n) -> Acc]
  <2>1. ASSUME NEW out \in Acc, NEW i \in 1..n PROVE Applied(out, found[i]) \in Acc
    BY AppliedTyped
  <2> QED
    BY <2>1
<1>3. \A out \in Acc, i \in 1..n : step[<<out, i>>] = Applied(out, found[i])
  OBVIOUS
<1>4. decipher(found, sig) = iter[DOMAIN found]
  BY DEF decipher, FoldLeft, MapThenFoldSet
<1> HIDE DEF step, Acc, n, Reads, iter
<1>5. PICK F \in [SUBSET (1..n) -> Acc] : IsFold(F, n, sig, step)
  BY <1>1, <1>2, FoldExists
<1> USE DEF Reads
<1>6. Reads(F)
  <2>1. ASSUME NEW s \in SUBSET (1..n), s # {}
        PROVE  F[s] = Applied(F[s \ {Max(s)}], found[Max(s)])
    BY <1>1, <1>3, <1>5, <2>1, MaxOfPlaces DEF IsFold
  <2> QED
    BY <1>1, <1>5, <2>1 DEF IsFold
<1>7. Reads(iter)
  BY <1>6 DEF iter
<1>8. Unfolds(iter, n, Acc, sig, step)
  BY <1>1, <1>3, <1>7, MaxOfPlaces DEF Unfolds
<1>9. IsLoop(Loop(iter, n), n, Acc, sig, step)
  <2> HIDE DEF Reads
  <2> QED
    BY <1>1, <1>2, <1>8, FoldIsLoop
<1> DEFINE after == Loop(iter, n)
<1>10. after[n] = iter[1..n]
  BY <1>1, PlacesUpTo DEF Loop
<1> HIDE DEF after
<1>11. \A i \in 1..n : after[i] = Applied(after[i - 1], found[i])
  BY <1>1, <1>3, <1>9, PlacesUpTo DEF IsLoop, after
<1>12. after \in [0..n -> Acc] /\ after[0] = sig
  BY <1>9 DEF IsLoop, after
<1>13. IsDeciphering(after, found, sig)
  BY <1>1, <1>4, <1>10, <1>11, <1>12 DEF IsDeciphering, n
<1> QED
  BY <1>12, <1>13 DEF Acc, n

LEMMA DecipherTyped ==
  ASSUME NEW found \in Seq(Ops), NEW sig \in Seq(Chars)
  PROVE  decipher(found, sig) \in Seq(Chars)
<1>1. PICK after \in [0..Len(found) -> Seq(Chars)] : IsDeciphering(after, found, sig)
  BY DecipherLoop
<1>2. Len(found) \in 0..Len(found)
  <2>1. Len(found) \in Nat
    OBVIOUS
  <2> QED
    BY <2>1
<1> QED
  BY <1>1, <1>2 DEF IsDeciphering

Values == Seq(Chars \cup {"yes"}) \cup {Absent}

\* A value that is set.
LEMMA QueryTyped ==
  ASSUME NEW query \in Seq(Pairs), NEW key \in Keys, NEW value \in Values
  PROVE  append_or_replace_query_param(query, key, value) \in Seq(Pairs)
<1> DEFINE n == Len(query)
           set == [i \in DOMAIN query |->
                     IF Holds(query[i], key) THEN [query[i] EXCEPT !.value = value]
                     ELSE query[i]]
           all == IF \E i \in DOMAIN query : Holds(query[i], key) THEN set
                  ELSE Append(set, [key |-> key, value |-> value])
           out == [i \in DOMAIN all |->
                     IF all[i].value = << >> THEN [all[i] EXCEPT !.value = Absent]
                     ELSE all[i]]
<1>1. append_or_replace_query_param(query, key, value) = out
  BY DEF append_or_replace_query_param
<1>2. n \in Nat /\ DOMAIN query = 1..n /\ \A i \in 1..n : query[i] \in Pairs
  OBVIOUS
<1>3. ASSUME NEW p \in Pairs, NEW x \in Values PROVE [p EXCEPT !.value = x] \in Pairs
  BY DEF Pairs, Values
<1>4. set \in [1..n -> Pairs]
  BY <1>2, <1>3
<1>5. [key |-> key, value |-> value] \in Pairs
  BY DEF Pairs, Values
<1> HIDE DEF set
<1>6. set \in Seq(Pairs)
  BY <1>2, <1>4, MapTyped
<1>7. all \in Seq(Pairs)
  BY <1>5, <1>6
<1> HIDE DEF all
<1>8. Absent \in Values
  BY DEF Values
<1>9. Len(all) \in Nat /\ DOMAIN all = 1..Len(all) /\ \A i \in 1..Len(all) : all[i] \in Pairs
  BY <1>7
<1>10. out \in [1..Len(all) -> Pairs]
  BY <1>3, <1>8, <1>9
<1> HIDE DEF out
<1> QED
  BY <1>1, <1>9, <1>10, MapTyped

LEMMA SignedTyped ==
  ASSUME NEW c \in Ciphers, NEW found \in Seq(Ops)
  PROVE  decode_signature_url(c, found) \in Seq(Pairs) \cup {Absent}
<1> DEFINE enc_sig == IF c.s # Absent THEN c.s ELSE c.sig
           sp == IF c.sp = Absent THEN "signature" ELSE c.sp
           signature == decipher(found, enc_sig)
           signed == append_or_replace_query_param(c.url, sp, signature)
<1>1. /\ c.s \in Seq(Chars) \cup {Absent} /\ c.sig \in Seq(Chars) \cup {Absent}
      /\ c.url \in Seq(Pairs) \cup {Absent} /\ c.sp \in Keys \cup {Absent}
  BY CipherAssumption DEF CipherFields
<1>2. SUFFICES ASSUME enc_sig # Absent, c.url # Absent
               PROVE  decode_signature_url(c, found) \in Seq(Pairs) \cup {Absent}
  BY DEF decode_signature_url
<1>3. enc_sig \in Seq(Chars) /\ c.url \in Seq(Pairs) /\ sp \in Keys /\ "ratebypass" \in Keys
  BY <1>1, <1>2, CipherAssumption
<1> HIDE DEF enc_sig, sp
<1>4. signature \in Seq(Chars)
  BY <1>3, DecipherTyped
<1> HIDE DEF signature
<1>5. signature \in Values /\ <<"yes">> \in Values
  BY <1>4 DEF Values
<1>6. signed \in Seq(Pairs)
  BY <1>3, <1>5, QueryTyped
<1> HIDE DEF signed
<1>7. append_or_replace_query_param(signed, "ratebypass", <<"yes">>) \in Seq(Pairs)
  BY <1>3, <1>5, <1>6, QueryTyped
<1>8. decode_signature_url(c, found) =
        IF \E i \in DOMAIN signed : Holds(signed[i], "ratebypass") THEN signed
        ELSE append_or_replace_query_param(signed, "ratebypass", <<"yes">>)
  BY <1>2 DEF decode_signature_url, signed, signature, sp, enc_sig
<1> QED
  BY <1>6, <1>7, <1>8
------------------------------------------------------------------------------
\* The operations found are well formed ones, however the script is written, and what
\* is signed is a list of query pairs.
THEOREM CipherTypeCorrect == CipherSpec => []CipherTypeOK
<1>1. CipherInit => CipherTypeOK
  <2>1. << >> \in Seq(Ops)
    OBVIOUS
  <2> QED
    BY <2>1 DEF CipherInit, CipherTypeOK
<1>2. CipherTypeOK /\ [CipherNext]_cipher_vars => CipherTypeOK'
  <2> SUFFICES ASSUME CipherTypeOK, [CipherNext]_cipher_vars PROVE CipherTypeOK'
    OBVIOUS
  <2>1. Len(Strategies) = 4
    BY DEF Strategies
  <2>2. CASE TryStrategy
    <3>1. /\ tried \in 0..3 /\ tried' = tried + 1 /\ tried' \in 0..4
          /\ ops' \in Extracted(Strategies[tried + 1], player)
      BY <2>1, <2>2 DEF TryStrategy, CipherTypeOK
    <3>2. Strategies[tried + 1] \in {"packed", "explode", "fq", "legacy"}
      BY <3>1 DEF Strategies
    <3>3. player \in Players
      BY DEF CipherTypeOK
    <3>4. ops' \in Seq(Ops)
      BY <3>1, <3>2, <3>3, ExtractedTyped
    <3> QED
      BY <2>1, <2>2, <3>1, <3>4 DEF TryStrategy, CipherTypeOK
  <2>3. CASE NoStrategy
    BY <2>1, <2>3 DEF NoStrategy, CipherTypeOK
  <2>4. ASSUME NEW c \in Ciphers, Sign(c) PROVE CipherTypeOK'
    <3>1. decode_signature_url(c, ops) \in Seq(Pairs) \cup {Absent}
      BY SignedTyped DEF CipherTypeOK
    <3> QED
      BY <2>1, <2>4, <3>1 DEF Sign, CipherTypeOK
  <2>5. CASE UNCHANGED cipher_vars
    BY <2>5 DEF cipher_vars, CipherTypeOK
  <2> QED
    BY <2>2, <2>3, <2>4, <2>5 DEF CipherNext, Finished
<1> QED
  BY <1>1, <1>2, PTL DEF CipherSpec

------------------------------------------------------------------------------
(* A regular player of packed generation: no base but the run-time one makes *)
(* all the calls work.  Another solution would map the three places of the   *)
(* methods' keys onto each other, two by two; but three is odd.              *)

\* What is used of exclusive or there.
LEMMA XorCancels ==
  ASSUME NEW a \in Ints, NEW b \in Ints, NEW k \in Ints, Xor(a, k) = Xor(b, k)
  PROVE  a = b
<1>1. Xor(Xor(a, k), k) = a /\ Xor(Xor(b, k), k) = b
  BY XorAssumption
<1> QED
  BY <1>1

LEMMA XorSwaps ==
  ASSUME NEW a \in Ints, NEW b \in Ints, NEW c \in Ints, NEW d \in Ints,
         Xor(a, b) = Xor(c, d)
  PROVE  Xor(a, d) = Xor(c, b)
<1>1. Xor(a, b) \in Ints /\ Xor(d, b) \in Ints
  BY XorAssumption
<1>2. a = Xor(Xor(c, d), b)
  BY XorAssumption
<1>3. Xor(Xor(c, d), b) = Xor(c, Xor(d, b))
  BY XorIsAssociative
<1>4. Xor(a, d) = Xor(c, Xor(Xor(d, b), d))
  BY <1>1, <1>2, <1>3, XorIsAssociative
<1>5. Xor(Xor(d, b), d) = b
  <2>1. Xor(d, b) = Xor(b, d)
    BY XorAssumption
  <2> QED
    BY <2>1, XorAssumption
<1> QED
  BY <1>4, <1>5

\* An index that is dispatched is the place of a classified method's key.
LEMMA DispatchedToAKey ==
  ASSUME NEW index, Dispatched(player, index) # Absent
  PROVE  /\ index < Len(Pool)
         /\ \E m \in Classified(Helper, find_packed_pool(player)) :
              m.key = Pool[index + 1]
BY DEF Dispatched, Pool, Helper

\* Three different members of a set of three are all there are.
LEMMA AllThree ==
  ASSUME NEW S, IsFiniteSet(S), Cardinality(S) = 3, NEW a \in S, NEW b \in S, NEW c \in S,
         a # b, a # c, b # c
  PROVE  S = {a, b, c}
<1>1. IsFiniteSet({a}) /\ Cardinality({a}) = 1
  BY FS_Singleton
<1>2. IsFiniteSet({a} \cup {b}) /\ Cardinality({a} \cup {b}) = 2
  <2>1. b \notin {a}
    OBVIOUS
  <2>2. IsFiniteSet({a} \cup {b}) /\ Cardinality({a} \cup {b}) = Cardinality({a}) + 1
    BY <1>1, <2>1, FS_AddElement, Zenon
  <2> QED
    BY <1>1, <2>2
<1>3. IsFiniteSet(({a} \cup {b}) \cup {c}) /\ Cardinality(({a} \cup {b}) \cup {c}) = 3
  <2>1. c \notin {a} \cup {b}
    OBVIOUS
  <2>2. /\ IsFiniteSet(({a} \cup {b}) \cup {c})
        /\ Cardinality(({a} \cup {b}) \cup {c}) = Cardinality({a} \cup {b}) + 1
    BY <1>2, <2>1, FS_AddElement, Zenon
  <2> QED
    BY <1>2, <2>2
<1>4. ({a} \cup {b}) \cup {c} = {a, b, c}
  OBVIOUS
<1>5. {a, b, c} \in SUBSET S /\ Cardinality({a, b, c}) = 3
  BY <1>3, <1>4
<1> QED
  BY <1>5, FS_Subset

\* A list has finitely many elements.
LEMMA ElementsFinite == ASSUME NEW S, NEW s \in Seq(S) PROVE IsFiniteSet(ToSet(s))
<1>1. s \in Surjection(1..Len(s), ToSet(s))
  BY DEF Surjection, ToSet
<1>2. IsFiniteSet(1..Len(s))
  BY FS_Interval
<1> QED
  BY <1>1, <1>2, FS_Surjection

\* What the calls of a regular dispatcher do at run time.
LEMMA RegularCalls ==
  ASSUME player \in Players, RegularPacked,
         NEW i \in 1..Len(CallsBy(player, player.dispatcher))
  PROVE  LET site == CallsBy(player, player.dispatcher)[i]
             x == Xor(player.env[player.dispatcher], site.konst)
             m == Invoked(player.dispatcher, site)
         IN  /\ site.konst \in Ints /\ player.env[player.dispatcher] \in Ints
             /\ x \in Nat /\ x < Len(Pool) /\ m.key = Pool[x + 1]
             /\ m \in Classified(Helper, find_packed_pool(player))
             /\ m = MethodOf(Helper, Pool[x + 1]) /\ m # Absent
             /\ m.does = PackedKind(m, find_packed_pool(player)) /\ m.does \in Kinds
             /\ m.does # "reverse" => Passed(site.arg) # Absent
             /\ \A j, k \in 1..Len(Pool) :
                  Pool[j] = Pool[k] /\ Pool[j] = m.key => j = k
<1> DEFINE ident == player.dispatcher
           sites == CallsBy(player, ident)
           at == find_packed_pool(player)
           x == Xor(player.env[ident], sites[i].konst)
           m == Invoked(ident, sites[i])
<1>1. player \in PlayerScripts
  BY CipherAssumption
<1>2. ident \in Idents /\ player.env[ident] \in Ints
  BY <1>1 DEF PlayerScripts
<1>3. /\ sites \in Seq(Sites) /\ at \in 1..Len(player.pools)
      /\ find_pool_indexed_helper(player, at) \in 1..Len(player.objects)
  BY <1>2, FoundInScript DEF RegularPacked
<1>4. sites[i] \in Sites /\ sites[i] \in ToSet(sites)
  BY <1>3 DEF ToSet
<1>5. sites[i].konst \in Ints
  BY <1>4 DEF Sites
<1>6. x \in Nat
  <2>1. x \in Ints
    BY <1>2, <1>5, XorAssumption
  <2> QED
    BY <2>1, Numbers
<1>7. /\ Honest(ident, sites[i])
      /\ m.does = PackedKind(m, at)
      /\ m.does # "reverse" => Passed(sites[i].arg) # Absent
      /\ \A j, k \in 1..Len(Pool) : Pool[j] = Pool[k] /\ Pool[j] = m.key => j = k
  BY <1>4 DEF RegularPacked, Pool
<1>8. m = IF x < Len(Pool) THEN MethodOf(Helper, Pool[x + 1]) ELSE Absent
  BY DEF Invoked, Pool, Helper
<1>9. m # Absent /\ PackedKind(m, at) # Absent
  BY <1>7 DEF Honest
<1>10. x < Len(Pool) /\ m = MethodOf(Helper, Pool[x + 1])
  BY <1>8, <1>9
<1>11. m \in ToSet(Helper) /\ m.key = Pool[x + 1]
  BY <1>9, <1>10 DEF MethodOf
<1>12. m \in Classified(Helper, at)
  BY <1>9, <1>11 DEF Classified
<1>13. m.does \in Kinds
  BY <1>7, <1>9 DEF PackedKind, Kinds
<1> QED
  BY <1>2, <1>5, <1>6, <1>7, <1>9, <1>10, <1>11, <1>12, <1>13

\* The base of a regular dispatcher is the only solution.
LEMMA OnlyTheRealBase ==
  ASSUME player \in Players, RegularPacked,
         NEW base \in Solutions(player, CallsBy(player, player.dispatcher))
  PROVE  base = player.env[player.dispatcher]
<1> DEFINE ident == player.dispatcher
           sites == CallsBy(player, ident)
           n == Len(sites)
           real == player.env[ident]
           at == find_packed_pool(player)
           x(i) == Xor(real, sites[i].konst)
           y(i) == Xor(base, sites[i].konst)
           m(i) == Invoked(ident, sites[i])
<1>1. \A i \in 1..n :
        /\ sites[i].konst \in Ints /\ real \in Ints
        /\ x(i) \in Nat /\ x(i) < Len(Pool) /\ m(i).key = Pool[x(i) + 1]
        /\ m(i) \in Classified(Helper, at) /\ m(i) = MethodOf(Helper, Pool[x(i) + 1])
        /\ \A j, k \in 1..Len(Pool) : Pool[j] = Pool[k] /\ Pool[j] = m(i).key => j = k
  BY RegularCalls
<1>2. base \in Ints /\ \A i \in 1..n : Dispatched(player, y(i)) # Absent
  BY Numbers DEF Solutions
<1>3. player \in PlayerScripts /\ ident \in Idents
  BY CipherAssumption DEF PlayerScripts
<1>4. /\ sites \in Seq(Sites) /\ at \in 1..Len(player.pools)
      /\ find_pool_indexed_helper(player, at) \in 1..Len(player.objects)
  BY <1>3, FoundInScript DEF RegularPacked
<1>5. Len(Pool) \in Nat
  BY <1>3, <1>4 DEF PlayerScripts, Pool
<1>6. /\ IsFiniteSet(Classified(Helper, at)) /\ Cardinality(Classified(Helper, at)) = 3
  <2>1. Helper \in Seq(Methods)
    BY <1>3, <1>4 DEF PlayerScripts, Helper
  <2>2. IsFiniteSet(ToSet(Helper))
    BY <2>1, ElementsFinite
  <2>3. IsFiniteSet(Classified(Helper, at))
    BY <2>2, FS_Subset DEF Classified
  <2>4. Cardinality(Classified(Helper, at)) = 3
    <3> DEFINE places == {i \in 1..Len(player.objects) :
                            Cardinality(Classified(player.objects[i], at)) = 3}
    <3>1. places \subseteq Nat
      OBVIOUS
    <3>2. find_pool_indexed_helper(player, at) = Least(places)
      BY DEF find_pool_indexed_helper
    <3>3. Least(places) # 0
      BY <1>4, <3>2
    <3>4. Least(places) \in places
      BY <3>1, <3>3, LeastIsIn
    <3> QED
      BY <3>2, <3>4 DEF Helper
  <2> QED
    BY <2>3, <2>4
<1>7. \A kind \in Kinds : \E i \in 1..n : m(i).does = kind
  <2>1. {Invoked(ident, c).does : c \in ToSet(sites)} = Kinds
    BY DEF RegularPacked
  <2>2. \A c \in ToSet(sites) : \E i \in 1..n : c = sites[i]
    BY <1>4 DEF ToSet
  <2> QED
    BY <2>1, <2>2
<1>8. PICK a \in 1..n, b \in 1..n, c \in 1..n :
        m(a).does = "reverse" /\ m(b).does = "splice" /\ m(c).does = "swap"
  BY <1>7 DEF Kinds
<1>9. m(a) # m(b) /\ m(a) # m(c) /\ m(b) # m(c)
  BY <1>8
<1>10. Classified(Helper, at) = {m(a), m(b), m(c)}
  BY <1>1, <1>6, <1>9, AllThree
<1>11. x(a) # x(b) /\ x(a) # x(c) /\ x(b) # x(c)
  BY <1>1, <1>9
<1>12. \A i, j \in 1..n : y(i) = x(j) => y(j) = x(i)
  BY <1>1, <1>2, XorSwaps
<1>13. \A i \in 1..n : y(i) = x(i) => base = real
  BY <1>1, <1>2, XorCancels
<1>14. \A i \in 1..n : y(i) \in Nat
  BY <1>1, <1>2, Numbers
<1> HIDE DEF x, y, m
<1>15. \A i \in 1..n : y(i) \in {x(a), x(b), x(c)}
  <2> SUFFICES ASSUME NEW i \in 1..n PROVE y(i) \in {x(a), x(b), x(c)}
    OBVIOUS
  <2>1. /\ y(i) < Len(Pool)
        /\ \E k \in Classified(Helper, at) : k.key = Pool[y(i) + 1]
    BY <1>2, DispatchedToAKey
  <2>2. PICK j \in {a, b, c} : m(j).key = Pool[y(i) + 1]
    BY <1>10, <2>1
  <2>3. j \in 1..n
    OBVIOUS
  <2>4. y(i) \in Nat /\ y(i) < Len(Pool) /\ x(j) \in Nat /\ x(j) < Len(Pool)
    BY <1>1, <1>14, <2>1, <2>3
  <2>5. y(i) + 1 \in 1..Len(Pool) /\ x(j) + 1 \in 1..Len(Pool)
    BY <1>5, <2>4
  <2>6. Pool[x(j) + 1] = Pool[y(i) + 1] /\ Pool[x(j) + 1] = m(j).key
    BY <1>1, <2>2, <2>3
  <2>7. x(j) + 1 = y(i) + 1
    BY <1>1, <2>3, <2>5, <2>6
  <2>8. x(j) = y(i)
    BY <2>7, <2>4
  <2> QED
    BY <2>8
<1>16. \E i \in 1..n : y(i) = x(i)
  BY <1>11, <1>12, <1>15
<1> QED
  BY <1>13, <1>16

------------------------------------------------------------------------------
(* In a regular player of any generation its own strategy finds the calls    *)
(* that the script performs.                                                 *)

\* A call as the script performs it, readable where it takes a number.
Steps == [does : Kinds, n : Ints \cup {Absent}]

Matches(found, steps) ==
  /\ steps \in Seq(Steps) /\ Len(found) = Len(steps) /\ found # << >>
  /\ \A i \in 1..Len(steps) :
       /\ found[i].kind = steps[i].does
       /\ steps[i].does # "reverse" => /\ steps[i].n \in Ints
                                       /\ found[i].index = steps[i].n

\* The strategy that a packed player is found by, whatever the HashMap's order.
LEMMA RegularPackedMatches ==
  ASSUME player \in Players, player.generation = "packed", RegularPacked
  PROVE  /\ majority_idents(player) = {player.dispatcher}
         /\ Matches(packed_ops(player, player.dispatcher), Performed)
<1> DEFINE ident == player.dispatcher
           sites == CallsBy(player, ident)
           n == Len(sites)
           real == player.env[ident]
           at == find_packed_pool(player)
           found == packed_ops(player, ident)
           steps == [i \in 1..n |-> [does |-> Invoked(ident, sites[i]).does,
                                     n |-> Passed(sites[i].arg)]]
<1>1. player \in PlayerScripts
  BY CipherAssumption
<1>2. ident \in Idents /\ real \in Ints /\ player.env \in [Idents -> Ints]
  BY <1>1 DEF PlayerScripts
<1>3. /\ sites \in Seq(Sites) /\ at \in 1..Len(player.pools) /\ sites # << >>
      /\ find_pool_indexed_helper(player, at) \in 1..Len(player.objects)
      /\ majority_idents(player) = {ident} /\ real \in Bases
      /\ \A c \in ToSet(sites) : Honest(ident, c)
  BY <1>2, FoundInScript DEF RegularPacked
<1>4. n \in Nat /\ n # 0
  BY <1>3
<1>5. Performed = steps
  BY DEF Performed
<1>6. \A i \in 1..n : sites[i] \in Sites /\ sites[i] \in ToSet(sites)
  BY <1>3 DEF ToSet
<1>7. \A i \in 1..n :
        LET x == Xor(real, sites[i].konst)
            m == Invoked(ident, sites[i])
        IN  /\ x \in Nat /\ x < Len(Pool) /\ m # Absent
            /\ m = MethodOf(Helper, Pool[x + 1])
            /\ m.does = PackedKind(m, at) /\ m.does \in Kinds
            /\ m.does # "reverse" => Passed(sites[i].arg) # Absent
  BY RegularCalls
<1>8. \A i \in 1..n : Passed(sites[i].arg) \in Ints \cup {Absent}
  <2> SUFFICES ASSUME NEW i \in 1..n PROVE Passed(sites[i].arg) \in Ints \cup {Absent}
    OBVIOUS
  <2>1. sites[i].arg \in Args /\ Honest(ident, sites[i])
    BY <1>3, <1>6 DEF Sites
  <2>2. sites[i].arg.form = "literal" => sites[i].arg.n \in Ints
    BY <2>1 DEF Args
  <2>3. sites[i].arg.form = "xor" =>
          sites[i].arg.n \in Ints /\ player.env[sites[i].arg.ident] \in Ints
    BY <1>2, <2>1 DEF Args, Honest
  <2> QED
    BY <2>2, <2>3, Numbers DEF Passed
<1>9. \A i \in 1..n : Dispatched(player, Xor(real, sites[i].konst))
                        = Invoked(ident, sites[i]).does
  <2> SUFFICES ASSUME NEW i \in 1..n
               PROVE  Dispatched(player, Xor(real, sites[i].konst))
                        = Invoked(ident, sites[i]).does
    OBVIOUS
  <2> DEFINE x == Xor(real, sites[i].konst)
             m == Invoked(ident, sites[i])
  <2>1. /\ x \in Nat /\ x < Len(Pool) /\ m = MethodOf(Helper, Pool[x + 1]) /\ m # Absent
        /\ PackedKind(m, at) = m.does /\ m.does \in Kinds
    BY <1>7
  <2>2. PackedKind(m, at) # Absent
    BY <2>1, CipherAssumption
  <2> HIDE DEF x, m
  <2>3. Dispatched(player, x) = PackedKind(m, at)
    BY <1>3, <2>1, <2>2, DispatchedAsNamed
  <2> QED
    BY <2>1, <2>3 DEF x, m
<1>10. Solutions(player, sites) = {real}
  <2>1. \A i \in 1..n : Invoked(ident, sites[i]).does # Absent
    BY <1>7, CipherAssumption
  <2>2. real \in Solutions(player, sites)
    BY <1>3, <1>9, <2>1 DEF Solutions
  <2>3. \A b \in Solutions(player, sites) : b = real
    BY OnlyTheRealBase
  <2> QED
    BY <2>2, <2>3
<1>11. solve_shared_base(player, sites) = real
  BY <1>3, <1>10 DEF solve_shared_base
<1>12. real # Absent
  BY <1>2, CipherAssumption
<1>13. n >= 2
  <2>1. {Invoked(ident, c).does : c \in ToSet(sites)} = Kinds
    BY DEF RegularPacked
  <2>2. ASSUME n = 1 PROVE FALSE
    <3>1. \A c \in ToSet(sites) : c = sites[1]
      BY <1>3, <2>2 DEF ToSet
    <3>2. \A k \in Kinds : k = Invoked(ident, sites[1]).does
      BY <2>1, <3>1
    <3> QED
      BY <3>2 DEF Kinds
  <2>3. \A k \in Nat : k # 0 /\ k # 1 => k >= 2
    OBVIOUS
  <2> QED
    BY <1>4, <2>2, <2>3
<1>14. \A i \in 1..n :
         PackedOp(player, sites[i], real)
           = [kind |-> Invoked(ident, sites[i]).does,
              index |-> IF Invoked(ident, sites[i]).does = "reverse" THEN 0
                        ELSE Passed(sites[i].arg)]
  <2> SUFFICES ASSUME NEW i \in 1..n
               PROVE  PackedOp(player, sites[i], real)
                        = [kind |-> Invoked(ident, sites[i]).does,
                           index |-> IF Invoked(ident, sites[i]).does = "reverse" THEN 0
                                     ELSE Passed(sites[i].arg)]
    OBVIOUS
  <2>1. sites[i].arg \in Args /\ Honest(ident, sites[i])
    BY <1>3, <1>6 DEF Sites
  <2>2. eval_arg(sites[i].arg, real) = Passed(sites[i].arg)
    BY <2>1 DEF eval_arg, Passed, Honest, Args
  <2> QED
    BY <1>9, <2>2 DEF PackedOp
<1>15. 0 # Absent
  BY Numbers, CipherAssumption
<1>16. \A i \in 1..n : PackedOp(player, sites[i], real).index # Absent
  <2> SUFFICES ASSUME NEW i \in 1..n PROVE PackedOp(player, sites[i], real).index # Absent
    OBVIOUS
  <2> DEFINE does == Invoked(ident, sites[i]).does
             index == IF does = "reverse" THEN 0 ELSE Passed(sites[i].arg)
  <2>1. PackedOp(player, sites[i], real) = [kind |-> does, index |-> index]
    BY <1>14
  <2>2. index # Absent
    BY <1>7, <1>15
  <2> HIDE DEF index, does
  <2> QED
    BY <2>1, <2>2
<1>17. found = [i \in 1..n |-> PackedOp(player, sites[i], real)]
  <2>1. ~(n < 2)
    BY <1>4, <1>13
  <2> QED
    BY <1>11, <1>12, <1>16, <2>1 DEF packed_ops
<1> HIDE DEF n
<1>18. Len(found) = n /\ found # << >>
  BY <1>4, <1>17
<1>19. steps \in [1..n -> Steps]
  BY <1>7, <1>8 DEF Steps
<1>20. steps \in Seq(Steps) /\ Len(steps) = n
  BY <1>4, <1>19, MapTyped
<1>21. \A i \in 1..n :
         /\ found[i].kind = steps[i].does
         /\ steps[i].does # "reverse" => steps[i].n \in Ints /\ found[i].index = steps[i].n
  <2> SUFFICES ASSUME NEW i \in 1..n
               PROVE  /\ found[i].kind = steps[i].does
                      /\ steps[i].does # "reverse" =>
                           steps[i].n \in Ints /\ found[i].index = steps[i].n
    OBVIOUS
  <2> DEFINE does == Invoked(ident, sites[i]).does
             index == IF does = "reverse" THEN 0 ELSE Passed(sites[i].arg)
  <2>1. steps[i] = [does |-> does, n |-> Passed(sites[i].arg)]
    OBVIOUS
  <2>2. found[i] = [kind |-> does, index |-> index]
    BY <1>14, <1>17
  <2>3. does # "reverse" => Passed(sites[i].arg) \in Ints
    BY <1>7, <1>8
  <2> HIDE DEF does, found, steps
  <2> QED
    BY <2>1, <2>2, <2>3
<1> HIDE DEF found, steps
<1>22. Matches(found, steps)
  BY <1>18, <1>20, <1>21 DEF Matches
<1> QED
  BY <1>3, <1>5, <1>22 DEF found

------------------------------------------------------------------------------
\* The older strategies, on calls of methods that look like what they do.
LEMMA MethodFound ==
  ASSUME NEW object \in Seq(Methods), NEW key, MethodOf(object, key) # Absent
  PROVE  MethodOf(object, key) \in Methods /\ MethodOf(object, key).does \in Kinds
<1>1. MethodOf(object, key) \in ToSet(object)
  BY DEF MethodOf
<1>2. MethodOf(object, key) \in Methods
  BY <1>1 DEF ToSet
<1> QED
  BY <1>2 DEF Methods

\* A call of a method the strategy can classify becomes the operation it performs.
LEMMA SplitOpsMatch ==
  ASSUME NEW strategy, NEW sites \in Seq(Calls), sites # << >>, NEW object \in Seq(Methods),
         \A i \in 1..Len(sites) :
           LET m == MethodOf(object, sites[i].method)
           IN  /\ m # Absent /\ SplitKind(strategy, m) = m.does
               /\ m.does # "reverse" => sites[i].index # Absent
  PROVE  Matches(SplitOps(strategy, sites, object),
                 [i \in 1..Len(sites) |-> [does |-> MethodOf(object, sites[i].method).does,
                                           n |-> sites[i].index]])
<1> DEFINE n == Len(sites)
           does(i) == MethodOf(object, sites[i].method).does
           kind(c) == LET m == MethodOf(object, c.method)
                      IN  IF m = Absent THEN Absent ELSE SplitKind(strategy, m)
           passing == {c \in Calls : kind(c) # Absent}
           known == Only(sites, passing)
           found == SplitOps(strategy, sites, object)
           steps == [i \in 1..n |-> [does |-> does(i), n |-> sites[i].index]]
<1>1. n \in Nat /\ n # 0 /\ \A i \in 1..n : sites[i] \in Calls
  OBVIOUS
<1>2. \A i \in 1..n : does(i) \in Kinds /\ kind(sites[i]) = does(i)
  BY MethodFound
<1>3. \A i \in 1..n : does(i) # "reverse" => sites[i].index # Absent
  OBVIOUS
<1>4. \A i \in 1..n : sites[i].index \in Ints \cup {Absent}
  BY <1>1 DEF Calls
<1>5. found = [i \in 1..Len(known) |->
                 [kind |-> kind(known[i]),
                  index |-> IF known[i].index = Absent THEN 0 ELSE known[i].index]]
  BY DEF SplitOps
<1> HIDE DEF does, kind, found
<1>6. known = sites
  <2>1. \A i \in 1..n : sites[i] \in passing
    <3> SUFFICES ASSUME NEW i \in 1..n PROVE sites[i] \in passing
      OBVIOUS
    <3>1. kind(sites[i]) # Absent
      BY <1>2, CipherAssumption
    <3> QED
      BY <1>1, <3>1
  <2> HIDE DEF passing
  <2>2. ToSet(sites) \subseteq passing
    BY <2>1 DEF ToSet
  <2> QED
    BY <2>2, OnlyAll
<1>7. found = [i \in 1..n |->
                 [kind |-> kind(sites[i]),
                  index |-> IF sites[i].index = Absent THEN 0 ELSE sites[i].index]]
  BY <1>5, <1>6
<1> HIDE DEF n, known, passing
<1>8. Len(found) = n /\ found # << >>
  BY <1>1, <1>7
<1>9. steps \in [1..n -> Steps]
  BY <1>2, <1>4 DEF Steps
<1>10. steps \in Seq(Steps) /\ Len(steps) = n
  <2> HIDE DEF steps
  <2> QED
    BY <1>1, <1>9, MapTyped
<1>11. \A i \in 1..n :
         /\ found[i].kind = steps[i].does
         /\ steps[i].does # "reverse" => steps[i].n \in Ints /\ found[i].index = steps[i].n
  <2> SUFFICES ASSUME NEW i \in 1..n
               PROVE  /\ found[i].kind = steps[i].does
                      /\ steps[i].does # "reverse" =>
                           steps[i].n \in Ints /\ found[i].index = steps[i].n
    OBVIOUS
  <2> DEFINE index == IF sites[i].index = Absent THEN 0 ELSE sites[i].index
  <2>1. steps[i] = [does |-> does(i), n |-> sites[i].index]
    OBVIOUS
  <2>2. found[i] = [kind |-> does(i), index |-> index]
    BY <1>2, <1>7
  <2>3. does(i) # "reverse" => sites[i].index \in Ints /\ index = sites[i].index
    BY <1>3, <1>4
  <2> HIDE DEF index, steps, found
  <2> QED
    BY <2>1, <2>2, <2>3
<1> HIDE DEF steps
<1>12. Matches(found, steps)
  BY <1>8, <1>10, <1>11 DEF Matches
<1> QED
  BY <1>12 DEF found, steps, does, n

\* Without a dispatcher the packed strategy finds nothing.
LEMMA NoPackedOps ==
  ASSUME NoDispatcher, NEW found \in Extracted("packed", player)
  PROVE  found = << >>
<1>1. PICK ident \in majority_idents(player) : found = packed_ops(player, ident)
  BY DEF Extracted
<1>2. CallsBy(player, ident) = << >>
  BY <1>1 DEF NoDispatcher, majority_idents
<1>3. Len(CallsBy(player, ident)) < 2
  BY <1>2
<1> QED
  BY <1>1, <1>3 DEF packed_ops

\* The strategy that a split player is found by.
LEMMA RegularSplitMatches ==
  ASSUME player \in Players, player.generation = "split", RegularSplit
  PROVE  Matches(IF player.callsite.expression THEN explode_ops(player)
                 ELSE legacy_ops(player), Performed)
<1> DEFINE sites == player.callsite.calls
           strategy == IF player.callsite.expression THEN "explode" ELSE "legacy"
           object == player.objects[sites[1].container]
<1>1. /\ player.callsite \in Callsites \cup {Absent}
      /\ player.objects \in Seq(Seq(Methods))
  BY CipherAssumption DEF PlayerScripts
<1>2. /\ player.callsite # Absent /\ sites # << >>
      /\ sites[1].container \in 1..Len(player.objects)
      /\ player.callsite.expression \/ player.callsite.var_a
  BY DEF RegularSplit
<1>3. sites \in Seq(Calls) /\ object \in Seq(Methods)
  BY <1>1, <1>2 DEF Callsites
<1>4. \A c \in ToSet(sites) :
        LET m == MethodOf(player.objects[c.container], c.method)
        IN  /\ c.container = sites[1].container /\ c.on_split_var /\ m # Absent
            /\ SplitKind(strategy, m) = m.does
            /\ m.does # "reverse" => c.index # Absent
  BY DEF RegularSplit
<1>5. \A i \in 1..Len(sites) : sites[i] \in ToSet(sites) /\ sites[i] \in Calls
  BY <1>3 DEF ToSet
<1>6. \A i \in 1..Len(sites) :
        LET m == MethodOf(object, sites[i].method)
        IN  /\ m # Absent /\ SplitKind(strategy, m) = m.does
            /\ m.does # "reverse" => sites[i].index # Absent
  BY <1>4, <1>5
<1>7. Matches(SplitOps(strategy, sites, object),
              [i \in 1..Len(sites) |-> [does |-> MethodOf(object, sites[i].method).does,
                                        n |-> sites[i].index]])
  <2> HIDE DEF strategy, sites, object
  <2> QED
    BY <1>2, <1>3, <1>6, SplitOpsMatch
<1>8. Performed = [i \in 1..Len(sites) |->
                     [does |-> MethodOf(object, sites[i].method).does,
                      n |-> sites[i].index]]
  <2>1. \A i \in 1..Len(sites) : sites[i].container = sites[1].container
    BY <1>4, <1>5
  <2>2. Performed = [i \in 1..Len(sites) |->
                       [does |-> MethodOf(player.objects[sites[i].container],
                                          sites[i].method).does,
                        n |-> sites[i].index]]
    BY DEF Performed
  <2> QED
    BY <2>1, <2>2
<1>9. Container(player, sites) = object
  BY <1>2 DEF Container
<1>10. CASE player.callsite.expression
  <2> DEFINE passing == {c \in Calls : c.on_split_var}
  <2>1. \A i \in 1..Len(sites) : sites[i] \in passing
    BY <1>4, <1>5
  <2>2. Only(sites, passing) = sites
    <3> HIDE DEF passing
    <3>1. ToSet(sites) \subseteq passing
      BY <1>3, <2>1 DEF ToSet
    <3> QED
      BY <1>3, <3>1, OnlyAll
  <2>3. explode_ops(player) = SplitOps("explode", sites, object)
    BY <1>2, <1>9, <1>10, <2>2 DEF explode_ops
  <2> QED
    BY <1>7, <1>8, <1>10, <2>3
<1>11. CASE ~player.callsite.expression
  <2>1. legacy_ops(player) = SplitOps("legacy", sites, object)
    BY <1>2, <1>9, <1>11 DEF legacy_ops
  <2> QED
    BY <1>7, <1>8, <1>11, <2>1
<1> QED
  BY <1>10, <1>11

------------------------------------------------------------------------------
\* The strategy that an fQ player is found by.
LEMMA RegularFqMatches ==
  ASSUME player \in Players, player.generation = "fq", RegularFq
  PROVE  Matches(fq_ops(player), Performed)
<1> DEFINE v == Xor(player.fq.x, player.fq.d)
           sites == player.block
           n == Len(sites)
           named(c) == MethodOf(player.uC, player.h[Xor(v, c.konst) + 1])
           kind(c) ==
             LET index == Xor(v, c.konst)
                 m == IF index < Len(player.h)
                      THEN MethodOf(player.uC, player.h[index + 1]) ELSE Absent
             IN  IF m = Absent THEN Absent ELSE UcKind(m, player.h)
           passing == {call \in Sites : kind(call) # Absent}
           known == Only(sites, passing)
           read(c) == IF c.arg.form = "other" THEN 0 ELSE eval_arg(c.arg, v)
           passed(c) == CASE c.arg.form = "literal" -> c.arg.n
                          [] c.arg.form = "xor" -> Xor(v, c.arg.n)
                          [] OTHER -> Absent
           found == fq_ops(player)
           steps == [i \in 1..n |-> [does |-> named(sites[i]).does, n |-> passed(sites[i])]]
<1>1. /\ player.fq \in [d : Ints, x : Ints] /\ sites \in Seq(Sites)
      /\ player.uC \in Seq(Methods) /\ sites # << >>
      /\ {"splice", "reverse"} \subseteq ToSet(player.h)
  BY CipherAssumption DEF PlayerScripts, RegularFq
<1>2. v \in Ints /\ v = Xor(player.fq.d, player.fq.x)
  BY <1>1, XorAssumption
<1>3. n \in Nat /\ n # 0 /\ \A i \in 1..n : sites[i] \in Sites /\ sites[i] \in ToSet(sites)
  BY <1>1 DEF ToSet
<1>4. \A c \in ToSet(sites) :
        /\ Xor(v, c.konst) < Len(player.h) /\ named(c) # Absent
        /\ UcKind(named(c), player.h) = named(c).does
        /\ named(c).does # "reverse" => c.arg.form # "other"
  BY <1>2 DEF RegularFq
<1>5. \A c \in ToSet(sites) : named(c).does \in Kinds /\ kind(c) = named(c).does
  BY <1>1, <1>4, MethodFound
<1>6. found = [i \in 1..Len(known) |-> [kind |-> kind(known[i]), index |-> read(known[i])]]
  BY <1>1, CipherAssumption DEF fq_ops, RegularFq
<1>7. Performed = steps
  BY <1>2 DEF Performed
<1>8. \A i \in 1..n : passed(sites[i]) \in Ints \cup {Absent}
  <2> SUFFICES ASSUME NEW i \in 1..n PROVE passed(sites[i]) \in Ints \cup {Absent}
    OBVIOUS
  <2>1. sites[i].arg \in Args
    BY <1>3 DEF Sites
  <2> QED
    BY <1>2, <2>1, Numbers DEF Args
<1>9. \A i \in 1..n : sites[i].arg.form # "other" =>
        passed(sites[i]) \in Ints /\ read(sites[i]) = passed(sites[i])
  <2> SUFFICES ASSUME NEW i \in 1..n, sites[i].arg.form # "other"
               PROVE  passed(sites[i]) \in Ints /\ read(sites[i]) = passed(sites[i])
    OBVIOUS
  <2>1. sites[i].arg \in Args
    BY <1>3 DEF Sites
  <2> QED
    BY <1>2, <2>1, Numbers DEF Args, eval_arg
<1> HIDE DEF kind, found, named, passed, read, v
<1>10. known = sites
  <2>1. \A i \in 1..n : sites[i] \in passing
    <3> SUFFICES ASSUME NEW i \in 1..n PROVE sites[i] \in passing
      OBVIOUS
    <3>1. kind(sites[i]) # Absent
      BY <1>3, <1>5, CipherAssumption
    <3> QED
      BY <1>3, <3>1
  <2> HIDE DEF passing
  <2>2. ToSet(sites) \subseteq passing
    BY <1>1, <2>1 DEF ToSet
  <2> QED
    BY <1>1, <2>2, OnlyAll
<1>11. found = [i \in 1..n |-> [kind |-> kind(sites[i]), index |-> read(sites[i])]]
  BY <1>6, <1>10
<1> HIDE DEF n, known, passing
<1>12. Len(found) = n /\ found # << >>
  BY <1>3, <1>11
<1>13. steps \in [1..n -> Steps]
  BY <1>3, <1>5, <1>8 DEF Steps
<1>14. steps \in Seq(Steps) /\ Len(steps) = n
  <2> HIDE DEF steps
  <2> QED
    BY <1>3, <1>13, MapTyped
<1>15. \A i \in 1..n :
         /\ found[i].kind = steps[i].does
         /\ steps[i].does # "reverse" => steps[i].n \in Ints /\ found[i].index = steps[i].n
  <2> SUFFICES ASSUME NEW i \in 1..n
               PROVE  /\ found[i].kind = steps[i].does
                      /\ steps[i].does # "reverse" =>
                           steps[i].n \in Ints /\ found[i].index = steps[i].n
    OBVIOUS
  <2> DEFINE does == named(sites[i]).does
             index == read(sites[i])
             number == passed(sites[i])
  <2>1. steps[i] = [does |-> does, n |-> number]
    OBVIOUS
  <2>2. found[i] = [kind |-> does, index |-> index]
    BY <1>3, <1>5, <1>11
  <2>3. does # "reverse" => number \in Ints /\ index = number
    BY <1>3, <1>4, <1>9
  <2> HIDE DEF does, index, number, steps, found
  <2> QED
    BY <2>1, <2>2, <2>3
<1> HIDE DEF steps
<1>16. Matches(found, steps)
  BY <1>12, <1>14, <1>15 DEF Matches
<1> QED
  BY <1>7, <1>16 DEF found

\* Which strategy finds a regular player's calls.
Own == CASE player.generation = "packed" -> 1
         [] player.generation = "split" -> IF player.callsite.expression THEN 2 ELSE 4
         [] player.generation = "fq" -> 3

\* The strategies before it find nothing, and it finds them all.
LEMMA OwnStrategy ==
  ASSUME player \in Players, Regular, NEW k \in 1..4,
         NEW found \in Extracted(Strategies[k], player)
  PROVE  /\ Own \in 1..4
         /\ k < Own => found = << >>
         /\ k = Own => Matches(found, Performed)
<1>1. player.generation \in {"packed", "split", "fq"}
  BY CipherAssumption DEF PlayerScripts
<1>2. /\ Strategies[1] = "packed" /\ Strategies[2] = "explode"
      /\ Strategies[3] = "fq" /\ Strategies[4] = "legacy"
  BY DEF Strategies
<1>3. k \in {1, 2, 3, 4}
  OBVIOUS
<1>4. /\ k = 1 => found \in Extracted("packed", player)
      /\ k = 2 => found = explode_ops(player)
      /\ k = 3 => found = fq_ops(player)
      /\ k = 4 => found = legacy_ops(player)
  BY <1>2 DEF Extracted
<1>5. CASE player.generation = "packed"
  <2>1. RegularPacked /\ Own = 1
    BY <1>5 DEF Regular, Own
  <2>2. k = 1 => found = packed_ops(player, player.dispatcher)
    <3>1. majority_idents(player) = {player.dispatcher}
      BY <1>5, <2>1, RegularPackedMatches
    <3> QED
      BY <1>4, <3>1 DEF Extracted
  <2> QED
    BY <1>3, <1>5, <2>1, <2>2, RegularPackedMatches
<1>6. CASE player.generation = "split"
  <2>1. RegularSplit /\ Own = IF player.callsite.expression THEN 2 ELSE 4
    BY <1>6 DEF Regular, Own
  <2>2. NoDispatcher /\ player.fq = Absent
    BY <2>1 DEF RegularSplit
  <2>3. k = 1 => found = << >>
    BY <1>4, <2>2, NoPackedOps
  <2>4. fq_ops(player) = << >>
    BY <2>2 DEF fq_ops
  <2>5. ~player.callsite.expression => explode_ops(player) = << >>
    BY DEF explode_ops
  <2>6. Matches(IF player.callsite.expression THEN explode_ops(player)
                ELSE legacy_ops(player), Performed)
    BY <1>6, <2>1, RegularSplitMatches
  <2> QED
    BY <1>3, <1>4, <2>1, <2>3, <2>4, <2>5, <2>6
<1>7. CASE player.generation = "fq"
  <2>1. RegularFq /\ Own = 3
    BY <1>7 DEF Regular, Own
  <2>2. NoDispatcher /\ player.callsite = Absent
    BY <2>1 DEF RegularFq
  <2>3. k = 1 => found = << >>
    BY <1>4, <2>2, NoPackedOps
  <2>4. explode_ops(player) = << >>
    BY <2>2 DEF explode_ops
  <2> QED
    BY <1>3, <1>4, <1>7, <2>1, <2>3, <2>4, RegularFqMatches
<1> QED
  BY <1>1, <1>5, <1>6, <1>7

------------------------------------------------------------------------------
(* Carried out, the operations make what the script makes.                   *)

\* An operation stands for a step that reads its number.
StandsFor(op, step) ==
  /\ op \in Ops /\ step \in Steps /\ op.kind = step.does
  /\ step.does # "reverse" => step.n \in Ints /\ op.index = step.n

\* A signature spliced away stays away; else an operation does what the script does.
LEMMA RunsAsApplied ==
  ASSUME NEW sig \in Seq(Chars), NEW op, NEW step, StandsFor(op, step)
  PROVE  Run(sig, step) = << >> \/ (sig # << >> /\ Run(sig, step) = Applied(sig, op))
<1> DEFINE n == Len(sig)
<1>1. n \in Nat /\ sig \in [1..n -> Chars]
  OBVIOUS
<1>2. CASE sig = << >>
  BY <1>2 DEF Run
<1>3. CASE sig # << >> /\ step.does = "reverse"
  <2>1. Run(sig, step) = [i \in 1..n |-> sig[n + 1 - i]]
    BY <1>3 DEF Run
  <2>2. Applied(sig, op) = Reverse(sig)
    BY <1>3 DEF Applied, StandsFor
  <2>3. Reverse(sig) = [i \in 1..n |-> sig[(n - i) + 1]]
    BY DEF Reverse
  <2>4. \A i \in 1..n : (n - i) + 1 = n + 1 - i
    BY <1>1
  <2> QED
    BY <1>3, <2>1, <2>2, <2>3, <2>4
<1>4. CASE sig # << >> /\ step.does = "splice"
  <2> DEFINE k == step.n
             rest == [i \in 1..(n - k) |-> sig[i + k]]
  <2>1. k \in Nat /\ op.kind = "splice" /\ op.index = k
    BY <1>4, Numbers DEF StandsFor
  <2>2. Run(sig, step) = [i \in 1..(IF k < n THEN n - k ELSE 0) |-> sig[i + k]]
    BY <1>4 DEF Run
  <2>3. CASE ~(k < n)
    BY <2>2, <2>3
  <2>4. CASE k < n
    <3>1. Applied(sig, op) = SubSeq(sig, k + 1, n)
      BY <2>1, <2>4 DEF Applied
    <3>2. /\ k + 1 \in Nat /\ 1 <= k + 1 /\ k + 1 <= n + 1 /\ n - (k + 1) + 1 = n - k
          /\ \A i \in 1..(n - k) : (k + 1) + i - 1 = i + k
      BY <1>1, <2>1, <2>4
    <3>3. SubSeq(sig, k + 1, n) = rest
      <4> DEFINE kept == SubSeq(sig, k + 1, n)
      <4>1. k + 1 \in Int /\ n \in Int /\ \A j \in (k + 1)..n : sig[j] \in Chars
        BY <1>1, <2>1
      <4>2. /\ kept \in Seq(Chars)
            /\ Len(kept) = IF k + 1 <= n THEN n - (k + 1) + 1 ELSE 0
            /\ \A j \in 1..(n - (k + 1) + 1) : kept[j] = sig[(k + 1) + j - 1]
        BY <4>1, SubSeqProperties
      <4>3. k + 1 <= n
        BY <1>1, <2>1, <2>4
      <4> HIDE DEF kept
      <4>4. Len(kept) = n - k /\ \A j \in 1..(n - k) : kept[j] = sig[j + k]
        BY <3>2, <4>2, <4>3
      <4>5. kept = [j \in 1..Len(kept) |-> kept[j]]
        BY <4>2
      <4> QED
        BY <4>4, <4>5 DEF kept
    <3>4. Run(sig, step) = rest
      BY <2>2, <2>4
    <3> QED
      BY <1>4, <3>1, <3>3, <3>4
  <2> QED
    BY <2>3, <2>4
<1>5. CASE sig # << >> /\ step.does = "swap"
  <2> DEFINE i == (op.index % n) + 1
             place == step.n % n
             swapped == [j \in 1..n |-> CASE j = 1 -> sig[i]
                                          [] j # 1 /\ j = i -> sig[1]
                                          [] OTHER -> sig[j]]
  <2>1. op.index = step.n /\ op.kind = "swap" /\ op.index \in Nat
    BY <1>5, Numbers DEF StandsFor
  <2>2. i = place + 1
    BY <2>1
  <2>3. Run(sig, step) = swapped
    BY <1>5, <2>2 DEF Run
  <2>4. Applied(sig, op) = [sig EXCEPT ![1] = sig[i], ![i] = sig[1]]
    BY <1>5, <2>1 DEF Applied
  <2>5. n \in Nat \ {0}
    BY <1>5
  <2>6. i \in 1..n /\ 1 \in 1..n
    BY <2>1, <2>5
  <2> HIDE DEF i
  <2>7. [sig EXCEPT ![1] = sig[i], ![i] = sig[1]] = swapped
    BY <1>1, <2>6
  <2> QED
    BY <1>5, <2>3, <2>4, <2>7
<1>6. step.does \in {"reverse", "splice", "swap"}
  BY DEF StandsFor, Steps, Kinds
<1> QED
  BY <1>2, <1>3, <1>4, <1>5, <1>6

\* What the signature is after each step of the script.
IsRunning(after, steps, sig) ==
  /\ after[0] = sig /\ after[Len(steps)] = FoldLeft(Run, sig, steps)
  /\ \A i \in 1..Len(steps) : after[i] = Run(after[i - 1], steps[i])

\* The script's steps are a loop too.
LEMMA RunLoop ==
  ASSUME NEW found \in Seq(Ops), NEW steps, Matches(found, steps), NEW sig \in Seq(Chars)
  PROVE  \E after \in [0..Len(steps) -> Seq(Chars)] : IsRunning(after, steps, sig)
<1> DEFINE n == Len(steps)
           Acc == Seq(Chars)
           step == [x \in Acc \X (1..n) |-> Run(x[1], steps[x[2]])]
           Reads(g) == g = [s \in SUBSET (DOMAIN steps) |->
                              IF s = {} THEN sig
                              ELSE Run(g[s \ {Max(s)}], steps[Max(s)])]
           iter == CHOOSE g : Reads(g)
<1>1. n \in Nat /\ DOMAIN steps = 1..n /\ sig \in Acc
  BY DEF Matches
<1>2. step \in [Acc \X (1..n) -> Acc]
  <2>1. ASSUME NEW out \in Acc, NEW i \in 1..n PROVE Run(out, steps[i]) \in Acc
    <3>1. StandsFor(found[i], steps[i])
      BY DEF Matches, StandsFor
    <3>2. Run(out, steps[i]) = << >> \/ Run(out, steps[i]) = Applied(out, found[i])
      BY <3>1, RunsAsApplied
    <3>3. Applied(out, found[i]) \in Acc
      BY <3>1, AppliedTyped DEF StandsFor
    <3>4. << >> \in Acc
      OBVIOUS
    <3> QED
      BY <3>2, <3>3, <3>4
  <2> QED
    BY <2>1
<1>3. \A out \in Acc, i \in 1..n : step[<<out, i>>] = Run(out, steps[i])
  OBVIOUS
<1>4. FoldLeft(Run, sig, steps) = iter[DOMAIN steps]
  BY DEF FoldLeft, MapThenFoldSet
<1> HIDE DEF step, Acc, n, Reads, iter
<1>5. PICK F \in [SUBSET (1..n) -> Acc] : IsFold(F, n, sig, step)
  BY <1>1, <1>2, FoldExists
<1> USE DEF Reads
<1>6. Reads(F)
  <2>1. ASSUME NEW s \in SUBSET (1..n), s # {}
        PROVE  F[s] = Run(F[s \ {Max(s)}], steps[Max(s)])
    BY <1>1, <1>3, <1>5, <2>1, MaxOfPlaces DEF IsFold
  <2> QED
    BY <1>1, <1>5, <2>1 DEF IsFold
<1>7. Reads(iter)
  BY <1>6 DEF iter
<1>8. Unfolds(iter, n, Acc, sig, step)
  BY <1>1, <1>3, <1>7, MaxOfPlaces DEF Unfolds
<1>9. IsLoop(Loop(iter, n), n, Acc, sig, step)
  <2> HIDE DEF Reads
  <2> QED
    BY <1>1, <1>2, <1>8, FoldIsLoop
<1> DEFINE after == Loop(iter, n)
<1>10. after[n] = iter[1..n]
  BY <1>1, PlacesUpTo DEF Loop
<1> HIDE DEF after
<1>11. \A i \in 1..n : after[i] = Run(after[i - 1], steps[i])
  BY <1>1, <1>3, <1>9, PlacesUpTo DEF IsLoop, after
<1>12. after \in [0..n -> Acc] /\ after[0] = sig
  BY <1>9 DEF IsLoop, after
<1>13. IsRunning(after, steps, sig)
  BY <1>1, <1>4, <1>10, <1>11, <1>12 DEF IsRunning, n
<1> QED
  BY <1>12, <1>13 DEF Acc, n

\* Operations that match the script's steps make the script's signature, unless the
\* script splices it away altogether.
LEMMA DeciphersAsRun ==
  ASSUME NEW found \in Seq(Ops), NEW steps, Matches(found, steps), NEW sig \in Seq(Chars),
         FoldLeft(Run, sig, steps) # << >>
  PROVE  decipher(found, sig) = FoldLeft(Run, sig, steps)
<1> DEFINE n == Len(steps)
<1>1. n \in Nat /\ Len(found) = n
  BY DEF Matches
<1>2. PICK run \in [0..n -> Seq(Chars)] : IsRunning(run, steps, sig)
  BY RunLoop
<1>3. PICK made \in [0..n -> Seq(Chars)] : IsDeciphering(made, found, sig)
  BY <1>1, DecipherLoop
<1> DEFINE T == {i \in 0..n : run[i] = << >> \/ run[i] = made[i]}
<1> HIDE DEF n
<1>4. 0 \in T
  BY <1>1, <1>2, <1>3 DEF IsRunning, IsDeciphering
<1>5. ASSUME NEW i \in 1..n, i - 1 \in T PROVE i \in T
  <2>1. i \in 0..n /\ i - 1 \in 0..n
    BY <1>1
  <2>2. run[i - 1] \in Seq(Chars) /\ run[i] = Run(run[i - 1], steps[i])
    BY <1>2, <2>1 DEF IsRunning, n
  <2>3. made[i] = Applied(made[i - 1], found[i])
    BY <1>1, <1>3 DEF IsDeciphering
  <2>4. StandsFor(found[i], steps[i])
    BY <1>1 DEF Matches, StandsFor, n
  <2>5. \/ run[i] = << >>
        \/ run[i - 1] # << >> /\ run[i] = Applied(run[i - 1], found[i])
    BY <2>2, <2>4, RunsAsApplied
  <2>6. run[i] = << >> \/ run[i] = made[i]
    BY <1>5, <2>3, <2>5
  <2> QED
    BY <2>1, <2>6
<1> HIDE DEF T
<1>6. \A i \in 0..n : i \in T
  BY <1>1, <1>4, <1>5, UpToBound
<1>7. run[n] = << >> \/ run[n] = made[n]
  BY <1>1, <1>6 DEF T
<1> QED
  BY <1>1, <1>2, <1>3, <1>7 DEF IsRunning, IsDeciphering, n

------------------------------------------------------------------------------
(* The URL.                                                                  *)

\* The pairs of one query as those of another, but for a key and for empty values; what
\* is added is under the key.
KeepsOthers(out, query, key) ==
  /\ Len(query) <= Len(out)
  /\ \A i \in 1..Len(query) :
       /\ out[i].key = query[i].key
       /\ \/ query[i].key = key
          \/ query[i].value \in {Absent, << >>} /\ out[i].value = Absent
          \/ out[i] = query[i]
  /\ \A i \in 1..Len(out) : i \in 1..Len(query) \/ out[i].key = key

\* A key that is set has the value wherever it stands, and stands somewhere.
Carries(out, key, value) ==
  /\ \A i \in 1..Len(out) : Holds(out[i], key) => out[i].value = value
  /\ \E i \in 1..Len(out) : Holds(out[i], key) /\ out[i].value = value

\* append_or_replace_query_param does both.
LEMMA QuerySet ==
  ASSUME NEW query \in Seq(Pairs), NEW key \in Keys,
         NEW value \in Seq(Chars \cup {"yes"}), value # << >>
  PROVE  LET out == append_or_replace_query_param(query, key, value)
         IN  /\ out \in Seq(Pairs) /\ KeepsOthers(out, query, key)
             /\ Carries(out, key, value)
<1> DEFINE n == Len(query)
           set == [i \in DOMAIN query |->
                     IF Holds(query[i], key) THEN [query[i] EXCEPT !.value = value]
                     ELSE query[i]]
           new == [key |-> key, value |-> value]
           held == \E i \in DOMAIN query : Holds(query[i], key)
           all == IF held THEN set ELSE Append(set, new)
           out == [i \in DOMAIN all |->
                     IF all[i].value = << >> THEN [all[i] EXCEPT !.value = Absent]
                     ELSE all[i]]
<1>1. append_or_replace_query_param(query, key, value) = out
  BY DEF append_or_replace_query_param
<1>2. n \in Nat /\ DOMAIN query = 1..n /\ \A i \in 1..n : query[i] \in Pairs
  OBVIOUS
<1>3. value \in Values /\ value # Absent /\ Absent \in Values /\ Absent # << >>
  <2>1. << >> \in Seq(Pairs)
    OBVIOUS
  <2> QED
    BY <2>1, AbsentAssumption DEF Values
<1>4. ASSUME NEW p \in Pairs, NEW x \in Values
      PROVE  /\ [p EXCEPT !.value = x] \in Pairs
             /\ [p EXCEPT !.value = x].key = p.key /\ [p EXCEPT !.value = x].value = x
  BY DEF Pairs, Values
<1>5. new \in Pairs /\ new.key = key /\ new.value = value
  BY <1>3 DEF Pairs, Values
<1>6. \A i \in 1..n :
        /\ set[i] \in Pairs /\ set[i].key = query[i].key
        /\ Holds(query[i], key) => set[i].value = value
        /\ ~Holds(query[i], key) => set[i] = query[i]
  <2> SUFFICES ASSUME NEW i \in 1..n
               PROVE  /\ set[i] \in Pairs /\ set[i].key = query[i].key
                      /\ Holds(query[i], key) => set[i].value = value
                      /\ ~Holds(query[i], key) => set[i] = query[i]
    OBVIOUS
  <2>1. query[i] \in Pairs
    BY <1>2
  <2>2. set[i] = IF Holds(query[i], key) THEN [query[i] EXCEPT !.value = value]
                 ELSE query[i]
    BY <1>2
  <2> HIDE DEF set
  <2> QED
    BY <1>3, <1>4, <2>1, <2>2
<1>7. set \in Seq(Pairs) /\ Len(set) = n
  <2>1. set \in [1..n -> Pairs]
    BY <1>2, <1>6
  <2> HIDE DEF set
  <2> QED
    BY <1>2, <2>1, MapTyped
<1> HIDE DEF set, new, held
<1>8. /\ all \in Seq(Pairs) /\ n <= Len(all)
      /\ \A i \in 1..n : all[i] = set[i]
      /\ \A i \in 1..Len(all) : i \in 1..n \/ (~held /\ i = n + 1 /\ all[i] = new)
      /\ ~held => n + 1 \in 1..Len(all) /\ all[n + 1] = new
  <2>1. CASE held
    BY <1>2, <1>7, <2>1
  <2>2. CASE ~held
    <3>1. all = Append(set, new)
      BY <2>2
    <3>2. /\ Append(set, new) \in Seq(Pairs) /\ Len(Append(set, new)) = n + 1
          /\ \A i \in 1..n : Append(set, new)[i] = set[i]
          /\ Append(set, new)[n + 1] = new
      BY <1>2, <1>5, <1>7, AppendProperties
    <3>3. \A i \in 1..(n + 1) : i \in 1..n \/ i = n + 1
      BY <1>2
    <3>4. n <= n + 1 /\ n + 1 \in 1..(n + 1)
      BY <1>2
    <3> HIDE DEF all
    <3> QED
      BY <2>2, <3>1, <3>2, <3>3, <3>4
  <2> QED
    BY <2>1, <2>2
<1> HIDE DEF all
<1> DEFINE m == Len(all)
<1>9. m \in Nat /\ DOMAIN all = 1..m /\ \A i \in 1..m : all[i] \in Pairs
  BY <1>8
<1>10. \A i \in 1..m :
         /\ out[i] \in Pairs /\ out[i].key = all[i].key
         /\ all[i].value = << >> => out[i].value = Absent
         /\ all[i].value # << >> => out[i] = all[i]
  <2> SUFFICES ASSUME NEW i \in 1..m
               PROVE  /\ out[i] \in Pairs /\ out[i].key = all[i].key
                      /\ all[i].value = << >> => out[i].value = Absent
                      /\ all[i].value # << >> => out[i] = all[i]
    OBVIOUS
  <2>1. out[i] = IF all[i].value = << >> THEN [all[i] EXCEPT !.value = Absent] ELSE all[i]
    BY <1>9
  <2>2. all[i] \in Pairs
    BY <1>9
  <2> HIDE DEF out
  <2> QED
    BY <1>3, <1>4, <2>1, <2>2
<1>11. out \in Seq(Pairs) /\ Len(out) = m
  <2>1. out \in [1..m -> Pairs]
    BY <1>9, <1>10
  <2> HIDE DEF out, m
  <2> QED
    BY <1>9, <2>1, MapTyped
<1> HIDE DEF out
<1>12. \A i \in 1..n : i \in 1..m
  BY <1>2, <1>8, <1>9
<1>13. \A i \in 1..n :
         /\ out[i].key = query[i].key
         /\ Holds(query[i], key) => out[i].value = value
         /\ ~Holds(query[i], key) =>
              \/ query[i].value = << >> /\ out[i].value = Absent
              \/ query[i].value # << >> /\ out[i] = query[i]
  BY <1>3, <1>6, <1>8, <1>10, <1>12
<1>14. \A i \in 1..m : i \in 1..n \/ (~held /\ out[i] = new)
  BY <1>5, <1>8, <1>10
<1>15. KeepsOthers(out, query, key)
  <2>1. \A i \in 1..n : query[i].key # key => ~Holds(query[i], key)
    BY DEF Holds
  <2>2. \A i \in 1..n :
          /\ out[i].key = query[i].key
          /\ \/ query[i].key = key
             \/ query[i].value \in {Absent, << >>} /\ out[i].value = Absent
             \/ out[i] = query[i]
    BY <1>13, <2>1
  <2>3. \A i \in 1..m : i \in 1..n \/ out[i].key = key
    BY <1>5, <1>14
  <2> QED
    BY <1>8, <1>11, <2>2, <2>3 DEF KeepsOthers
<1>16. Carries(out, key, value)
  <2>1. ASSUME NEW i \in 1..m, Holds(out[i], key) PROVE out[i].value = value
    <3>1. CASE i \in 1..n
      BY <1>13, <2>1, <3>1 DEF Holds
    <3>2. CASE out[i] = new
      BY <1>5, <3>2
    <3> QED
      BY <1>14, <3>1, <3>2
  <2>2. \E i \in 1..m : Holds(out[i], key) /\ out[i].value = value
    <3>1. CASE held
      <4>1. PICK i \in 1..n : Holds(query[i], key)
        BY <1>2, <3>1 DEF held
      <4>2. out[i].key = key /\ out[i].value = value
        BY <1>13, <4>1 DEF Holds
      <4> QED
        BY <1>3, <1>12, <4>2 DEF Holds
    <3>2. CASE ~held
      <4>1. n + 1 \in 1..m /\ all[n + 1] = new
        BY <1>8, <3>2
      <4>2. out[n + 1] = new
        BY <1>5, <1>10, <4>1
      <4> QED
        BY <1>3, <1>5, <4>1, <4>2 DEF Holds
    <3> QED
      BY <3>1, <3>2
  <2> QED
    BY <1>11, <2>1, <2>2 DEF Carries
<1> QED
  BY <1>1, <1>11, <1>15, <1>16

\* A key that is set leaves the rest of the query as it was.
LEMMA OthersKept ==
  ASSUME NEW query \in Seq(Pairs), NEW out \in Seq(Pairs), NEW key,
         KeepsOthers(out, query, key), NEW passing,
         \A p \in passing : p.key # key /\ p.value \notin {Absent, << >>}
  PROVE  Only(out, passing) = Only(query, passing)
<1>1. Len(query) <= Len(out)
  BY DEF KeepsOthers
<1>2. \A i \in 1..Len(query) :
        query[i] = out[i] \/ (query[i] \notin passing /\ out[i] \notin passing)
  BY DEF KeepsOthers
<1>3. \A i \in 1..Len(out) : i \in 1..Len(query) \/ out[i] \notin passing
  BY DEF KeepsOthers
<1> QED
  BY <1>1, <1>2, <1>3, OnlyAgrees

\* It keeps what another key carries.
LEMMA CarriedOn ==
  ASSUME NEW query \in Seq(Pairs), NEW out \in Seq(Pairs), NEW key, NEW set, set # key,
         KeepsOthers(out, query, set), NEW value, value \notin {Absent, << >>},
         Carries(query, key, value)
  PROVE  Carries(out, key, value)
<1>1. ASSUME NEW i \in 1..Len(out), Holds(out[i], key) PROVE out[i].value = value
  <2>1. i \in 1..Len(query) /\ out[i].value # Absent /\ out[i].key = key
    BY <1>1 DEF KeepsOthers, Holds
  <2>2. query[i].key = key /\ out[i] = query[i]
    BY <2>1 DEF KeepsOthers
  <2> QED
    BY <1>1, <2>1, <2>2 DEF Carries
<1>2. PICK i \in 1..Len(query) : Holds(query[i], key) /\ query[i].value = value
  BY DEF Carries
<1>3. out[i] = query[i]
  BY <1>2 DEF KeepsOthers, Holds
<1>4. i \in 1..Len(out)
  <2>1. Len(query) \in Nat /\ Len(out) \in Nat /\ Len(query) <= Len(out)
    BY DEF KeepsOthers
  <2> QED
    BY <2>1
<1> QED
  BY <1>1, <1>2, <1>3, <1>4 DEF Carries

\* The URL of a blob with a signature and a URL, if the operations leave a signature.
LEMMA SignedUrl ==
  ASSUME NEW c \in Ciphers, NEW found \in Seq(Ops), NEW signature,
         c.url # Absent, c.s # Absent \/ c.sig # Absent, signature # << >>,
         signature = decipher(found, IF c.s # Absent THEN c.s ELSE c.sig)
  PROVE  LET sp == IF c.sp = Absent THEN "signature" ELSE c.sp
             out == decode_signature_url(c, found)
             others(u) == Only(u, {p \in Pairs : /\ p.key \notin {sp, "ratebypass"}
                                                /\ p.value \notin {Absent, << >>}})
         IN  /\ out \in Seq(Pairs) /\ out # Absent
             /\ Carries(out, sp, signature)
             /\ \E i \in 1..Len(out) : Holds(out[i], "ratebypass")
             /\ others(out) = others(c.url)
<1> DEFINE enc_sig == IF c.s # Absent THEN c.s ELSE c.sig
           sp == IF c.sp = Absent THEN "signature" ELSE c.sp
           passing == {p \in Pairs : /\ p.key \notin {sp, "ratebypass"}
                                     /\ p.value \notin {Absent, << >>}}
           signed == append_or_replace_query_param(c.url, sp, signature)
           passed == append_or_replace_query_param(signed, "ratebypass", <<"yes">>)
           bypassed == \E i \in DOMAIN signed : Holds(signed[i], "ratebypass")
           out == decode_signature_url(c, found)
<1>1. /\ c.s \in Seq(Chars) \cup {Absent} /\ c.sig \in Seq(Chars) \cup {Absent}
      /\ c.url \in Seq(Pairs) /\ sp \in Keys /\ "ratebypass" \in Keys
  BY CipherAssumption DEF CipherFields
<1>2. enc_sig \in Seq(Chars) /\ enc_sig # Absent
  <2>1. enc_sig # Absent
    OBVIOUS
  <2> QED
    BY <1>1, <2>1
<1>3. out = IF bypassed THEN signed ELSE passed
  BY <1>2 DEF decode_signature_url
<1>4. signature \in Seq(Chars \cup {"yes"}) /\ <<"yes">> \in Seq(Chars \cup {"yes"})
  <2>1. signature \in Seq(Chars)
    BY <1>2, DecipherTyped
  <2>2. \A s \in Seq(Chars) : s \in Seq(Chars \cup {"yes"})
    OBVIOUS
  <2> QED
    BY <2>1, <2>2
<1>5. signature \notin {Absent, << >>} /\ <<"yes">> \notin {Absent, << >>}
  BY <1>4, AbsentAssumption
<1> HIDE DEF sp, signed, enc_sig, bypassed
<1>6. /\ signed \in Seq(Pairs) /\ KeepsOthers(signed, c.url, sp)
      /\ Carries(signed, sp, signature)
  BY <1>1, <1>4, <1>5, QuerySet DEF signed
<1> HIDE DEF passed, out
<1>7. /\ passed \in Seq(Pairs) /\ KeepsOthers(passed, signed, "ratebypass")
      /\ Carries(passed, "ratebypass", <<"yes">>)
  BY <1>1, <1>4, <1>5, <1>6, QuerySet DEF passed
<1> HIDE DEF passing
<1>8. Only(signed, passing) = Only(c.url, passing)
  BY <1>1, <1>6, OthersKept DEF passing
<1>9. Only(passed, passing) = Only(signed, passing)
  BY <1>6, <1>7, OthersKept DEF passing
<1>10. DOMAIN signed = 1..Len(signed)
  BY <1>6
<1>11. /\ out \in Seq(Pairs) /\ Carries(out, sp, signature)
       /\ \E i \in 1..Len(out) : Holds(out[i], "ratebypass")
       /\ Only(out, passing) = Only(c.url, passing)
  <2>1. CASE bypassed
    <3>1. out = signed /\ \E i \in 1..Len(signed) : Holds(signed[i], "ratebypass")
      BY <1>3, <1>10, <2>1 DEF bypassed
    <3> QED
      BY <1>6, <1>8, <3>1
  <2>2. CASE ~bypassed
    <3>1. out = passed
      BY <1>3, <2>2
    <3>2. sp # "ratebypass"
      BY <1>6, <1>10, <2>2 DEF Carries, bypassed
    <3>3. Carries(passed, sp, signature)
      BY <1>5, <1>6, <1>7, <3>2, CarriedOn
    <3>4. \E i \in 1..Len(passed) : Holds(passed[i], "ratebypass")
      BY <1>7 DEF Carries
    <3> QED
      BY <1>7, <1>8, <1>9, <3>1, <3>3, <3>4
  <2> QED
    BY <2>1, <2>2
<1>12. out # Absent
  BY <1>11, AbsentAssumption
<1> QED
  BY <1>11, <1>12 DEF sp, passing, out

------------------------------------------------------------------------------
(* The search, for a regular player.                                         *)

\* It is one of the four.
LEMMA OwnInRange ==
  ASSUME player \in Players, Regular
  PROVE  Own \in 1..4
<1>1. player.generation \in {"packed", "split", "fq"}
  BY CipherAssumption DEF PlayerScripts
<1> QED
  BY <1>1 DEF Own

\* The script stays what it is.
LEMMA SameScript ==
  ASSUME player' = player
  PROVE  Regular' = Regular /\ Own' = Own /\ Performed' = Performed
<1>1. RegularPacked' = RegularPacked
  BY DEF RegularPacked, Honest, Invoked, Passed
<1>2. RegularSplit' = RegularSplit
  BY DEF RegularSplit, NoDispatcher
<1>3. RegularFq' = RegularFq
  BY DEF RegularFq, NoDispatcher
<1>4. Performed' = Performed
  BY DEF Performed, Invoked, Passed
<1>5. Own' = Own
  BY DEF Own
<1>6. Regular' = Regular
  BY <1>1, <1>2, <1>3 DEF Regular
<1> QED
  BY <1>4, <1>5, <1>6

\* While nothing has been found in a regular player, the strategy that finds its calls is
\* still to come; what has been found are its calls; and what is signed is signed with them.
Found(sofar, found, own, steps) ==
  IF found = << >> THEN sofar < own ELSE Matches(found, steps)

SignatureInv ==
  /\ CipherTypeOK
  /\ phase \in {"extract", "failed"} <=> ops = << >>
  /\ phase = "failed" => tried = 4
  /\ Regular => Found(tried, ops, Own, Performed)
  /\ phase \in {"dropped", "signed"} =>
       /\ cipher \in Ciphers /\ url = decode_signature_url(cipher, ops)
       /\ phase = IF url = Absent THEN "dropped" ELSE "signed"

\* The invariant holds before a strategy has been tried, and each step keeps it.
LEMMA InitSignatureInv == CipherInit /\ CipherTypeOK => SignatureInv
<1> SUFFICES ASSUME CipherInit, CipherTypeOK PROVE SignatureInv
  OBVIOUS
<1>1. phase = "extract" /\ ops = << >> /\ tried = 0
  BY DEF CipherInit
<1>2. Regular => 0 < Own
  BY OwnInRange DEF CipherTypeOK
<1>3. Regular => Found(tried, ops, Own, Performed)
  BY <1>1, <1>2 DEF Found
<1> QED
  BY <1>1, <1>3 DEF SignatureInv

LEMMA NextSignatureInv ==
  SignatureInv /\ CipherTypeOK' /\ [CipherNext]_cipher_vars => SignatureInv'
<1> SUFFICES ASSUME SignatureInv, CipherTypeOK', [CipherNext]_cipher_vars
             PROVE  SignatureInv'
  OBVIOUS
<1>1. player' = player
  BY DEF CipherNext, TryStrategy, NoStrategy, Sign, Finished, cipher_vars
<1>2. Regular' = Regular /\ Own' = Own /\ Performed' = Performed
  BY <1>1, SameScript
<1>3. player \in Players /\ tried \in 0..4 /\ Len(Strategies) = 4
  BY DEF SignatureInv, CipherTypeOK, Strategies
<1>4. SUFFICES /\ phase' \in {"extract", "failed"} <=> ops' = << >>
               /\ phase' = "failed" => tried' = 4
               /\ Regular => Found(tried', ops', Own, Performed)
               /\ phase' \in {"dropped", "signed"} =>
                    /\ cipher' \in Ciphers /\ url' = decode_signature_url(cipher', ops')
                    /\ phase' = IF url' = Absent THEN "dropped" ELSE "signed"
  BY <1>2 DEF SignatureInv
<1>5. CASE TryStrategy
  <2>1. /\ phase = "extract" /\ tried < 4 /\ tried' = tried + 1
        /\ ops' \in Extracted(Strategies[tried + 1], player)
        /\ phase' = IF ops' = << >> THEN "extract" ELSE "sign"
    BY <1>3, <1>5 DEF TryStrategy
  <2>2. tried + 1 \in 1..4
    BY <1>3, <2>1
  <2>3. ASSUME Regular PROVE Found(tried', ops', Own, Performed)
    <3>1. tried < Own
      BY <2>1, <2>3 DEF SignatureInv, Found
    <3>2. /\ Own \in 1..4
          /\ tried + 1 < Own => ops' = << >>
          /\ tried + 1 = Own => Matches(ops', Performed)
      BY <1>3, <2>1, <2>2, <2>3, OwnStrategy
    <3>3. tried + 1 < Own \/ tried + 1 = Own
      BY <1>3, <3>1, <3>2
    <3>4. tried + 1 = Own => ops' # << >>
      BY <3>2 DEF Matches
    <3> QED
      BY <2>1, <3>2, <3>3, <3>4 DEF Found
  <2> QED
    BY <2>1, <2>3
<1>6. CASE NoStrategy
  BY <1>3, <1>6 DEF NoStrategy, SignatureInv
<1>7. ASSUME NEW c \in Ciphers, Sign(c)
      PROVE  /\ phase' \in {"extract", "failed"} <=> ops' = << >>
             /\ phase' = "failed" => tried' = 4
             /\ Regular => Found(tried', ops', Own, Performed)
             /\ phase' \in {"dropped", "signed"} =>
                  /\ cipher' \in Ciphers /\ url' = decode_signature_url(cipher', ops')
                  /\ phase' = IF url' = Absent THEN "dropped" ELSE "signed"
  <2>1. /\ phase = "sign" /\ cipher' = c /\ url' = decode_signature_url(c, ops)
        /\ phase' = IF url' = Absent THEN "dropped" ELSE "signed"
        /\ tried' = tried /\ ops' = ops
    BY <1>7 DEF Sign
  <2>2. ops # << >>
    BY <2>1 DEF SignatureInv
  <2>3. Regular => Found(tried, ops, Own, Performed)
    BY DEF SignatureInv
  <2> QED
    BY <2>1, <2>2, <2>3
<1>8. CASE UNCHANGED cipher_vars
  <2>1. /\ phase' = phase /\ tried' = tried /\ ops' = ops /\ cipher' = cipher /\ url' = url
    BY <1>8 DEF cipher_vars
  <2> QED
    BY <2>1 DEF SignatureInv
<1> QED
  BY <1>5, <1>6, <1>7, <1>8 DEF CipherNext, Finished

\* For a regular player of any generation, whatever its methods are called and wherever
\* they stand, the signed URL carries the signature that the script itself computes,
\* everywhere under the blob's key, and is otherwise the blob's URL with a rate bypass.
THEOREM RealSignaturePlayed == CipherSpec => []PlaysTheRealSignature
<1>1. CipherSpec => []CipherTypeOK
  BY CipherTypeCorrect
<1>2. SignatureInv => PlaysTheRealSignature
  <2> SUFFICES ASSUME SignatureInv, phase \in {"failed", "dropped", "signed"}, Regular
               PROVE  /\ phase # "failed"
                      /\ Signable /\ RealSignature # << >> =>
                           LET sp == IF cipher.sp = Absent THEN "signature" ELSE cipher.sp
                               others(u) ==
                                 Only(u, {p \in Pairs : /\ p.key \notin {sp, "ratebypass"}
                                                       /\ p.value \notin {Absent, << >>}})
                           IN  /\ phase = "signed"
                               /\ {p.value : p \in {q \in ToSet(url) : Holds(q, sp)}}
                                    = {RealSignature}
                               /\ \E p \in ToSet(url) : Holds(p, "ratebypass")
                               /\ others(url) = others(cipher.url)
    BY DEF PlaysTheRealSignature
  <2>1. player \in Players /\ ops \in Seq(Ops) /\ tried \in 0..4
    BY DEF SignatureInv, CipherTypeOK, Strategies
  <2>2. phase # "failed"
    <3>1. ASSUME phase = "failed" PROVE FALSE
      <4>1. tried = 4 /\ ops = << >> /\ Found(tried, ops, Own, Performed)
        BY <3>1 DEF SignatureInv
      <4>2. 4 < Own /\ Own \in 1..4
        BY <2>1, <4>1, OwnInRange DEF Found
      <4> QED
        BY <4>2
    <3> QED
      BY <3>1
  <2>3. /\ cipher \in Ciphers /\ url = decode_signature_url(cipher, ops)
        /\ phase = IF url = Absent THEN "dropped" ELSE "signed"
        /\ ops # << >> /\ Found(tried, ops, Own, Performed)
    BY <2>2 DEF SignatureInv
  <2>4. Matches(ops, Performed)
    BY <2>3 DEF Found
  <2>5. ASSUME Signable, RealSignature # << >>
        PROVE  LET sp == IF cipher.sp = Absent THEN "signature" ELSE cipher.sp
                   others(u) ==
                     Only(u, {p \in Pairs : /\ p.key \notin {sp, "ratebypass"}
                                           /\ p.value \notin {Absent, << >>}})
               IN  /\ phase = "signed"
                   /\ {p.value : p \in {q \in ToSet(url) : Holds(q, sp)}} = {RealSignature}
                   /\ \E p \in ToSet(url) : Holds(p, "ratebypass")
                   /\ others(url) = others(cipher.url)
    <3> DEFINE enc_sig == IF cipher.s # Absent THEN cipher.s ELSE cipher.sig
               sp == IF cipher.sp = Absent THEN "signature" ELSE cipher.sp
               passing == {p \in Pairs : /\ p.key \notin {sp, "ratebypass"}
                                         /\ p.value \notin {Absent, << >>}}
    <3>1. cipher.url # Absent /\ (cipher.s # Absent \/ cipher.sig # Absent)
      BY <2>5 DEF Signable
    <3>2. enc_sig \in Seq(Chars)
      BY <2>3, <3>1, CipherAssumption DEF CipherFields
    <3>3. decipher(ops, enc_sig) = RealSignature
      <4>1. RealSignature = FoldLeft(Run, enc_sig, Performed)
        BY DEF RealSignature
      <4> HIDE DEF enc_sig
      <4> QED
        BY <2>1, <2>4, <2>5, <3>2, <4>1, DeciphersAsRun
    <3>4. /\ url \in Seq(Pairs) /\ url # Absent
          /\ Carries(url, sp, RealSignature)
          /\ \E i \in 1..Len(url) : Holds(url[i], "ratebypass")
          /\ Only(url, passing) = Only(cipher.url, passing)
      BY <2>1, <2>3, <2>5, <3>1, <3>3, SignedUrl
    <3> HIDE DEF enc_sig, sp, passing
    <3>5. DOMAIN url = 1..Len(url) /\ \A i \in 1..Len(url) : url[i] \in ToSet(url)
      BY <3>4 DEF ToSet
    <3>6. \A p \in ToSet(url) : \E i \in 1..Len(url) : p = url[i]
      BY <3>5 DEF ToSet
    <3>7. {p.value : p \in {q \in ToSet(url) : Holds(q, sp)}} = {RealSignature}
      <4>1. \A p \in ToSet(url) : Holds(p, sp) => p.value = RealSignature
        BY <3>4, <3>6 DEF Carries
      <4>2. \E p \in ToSet(url) : Holds(p, sp) /\ p.value = RealSignature
        BY <3>4, <3>5 DEF Carries
      <4> QED
        BY <4>1, <4>2
    <3>8. \E p \in ToSet(url) : Holds(p, "ratebypass")
      BY <3>4, <3>5
    <3>9. phase = "signed"
      BY <2>3, <3>4
    <3> QED
      BY <3>4, <3>7, <3>8, <3>9 DEF sp, passing
  <2> QED
    BY <2>2, <2>5
<1>3. SignatureInv /\ CipherTypeOK' /\ [CipherNext]_cipher_vars => SignatureInv'
  BY NextSignatureInv
<1>4. CipherInit /\ CipherTypeOK => SignatureInv
  BY InitSignatureInv
<1> QED
  BY <1>1, <1>2, <1>3, <1>4, PTL DEF CipherSpec
==============================================================================
