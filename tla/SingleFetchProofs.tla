-------------------------- MODULE SingleFetchProofs --------------------------
(***************************************************************************)
(* For every set of pages, every bound and whatever the host answers: a    *)
(* resolve call of the X, TikTok or Bandcamp plugin keeps the contract of  *)
(* ResolveContract, and what it delivers is what the body offers: the best *)
(* renditions of a post, the addresses of an item in their order, the live *)
(* files of the current track.                                             *)
(***************************************************************************)
EXTENDS SingleFetch, FoldLemmas

Places == {"classify", "await", "judge", "validate", "done"}

\* What is known of the one retrieval at every point of resolve_public.
IInv ==
  /\ pc \in Places /\ plugin \in Plugins
  /\ pc \in {"classify", "await"} => reply = Pending
  /\ pc \in {"judge", "validate"} => reply \in Pages[plugin]
  /\ pc = "validate" => Fetched
  /\ pc # "done" => outcome = Pending

------------------------------------------------------------------------------
\* The transport and status tables of each plugin, behind the SDK's gate, agree with
\* the contract's reading of an answer: what fails the fetch makes an error that
\* invites a retry exactly when the failure may pass, and what is fetched is a
\* success. X refuses successes other than 200 for good.
LEMMA FetchTables ==
  ASSUME plugin \in Plugins, reply \in Pages[plugin]
  PROVE  /\ reply # Pending
         /\ AnswerClass \in {"success", "transient", "refused"}
         /\ Fetched => AnswerClass = "success"
         /\ ~Fetched => (FetchError.retryable <=> AnswerClass = "transient")
<1> DEFINE bodies == BodiesOf(plugin)
<1>0. reply \in Replies(bodies) /\ plugin \in {"x", "tiktok", "bandcamp"}
  BY SingleFetchAssumption
<1>1. CASE reply \in [kind : {"error"}, error : HttpsErrors]
  <2>1. reply.kind = "error" /\ reply.error \in HttpsErrors /\ reply # Pending
    BY <1>1 DEF Pending
  <2>2. checked_response(reply) = reply /\ ~Fetched
          /\ FetchError = TransportError(reply.error)
    BY <2>1 DEF checked_response, Fetched, FetchError
  <2>3. AnswerClass = IF reply.error \in {"Timeout", "TransportFailure"}
                      THEN "transient" ELSE "refused"
    BY <2>1 DEF AnswerClass
  <2>4. TransportError(reply.error).retryable
          <=> reply.error \in {"Timeout", "TransportFailure"}
    BY <2>1 DEF HttpsErrors, TransportError, x_transport, ResolverError, malformed,
                policy
  <2>5. QED
    BY <2>1, <2>2, <2>3, <2>4
<1>2. CASE reply.kind = "response" /\ reply.status \in Nat
  <2>1. reply # Pending
    BY <1>2 DEF Pending
  <2>2. CASE ~validate_https_response(reply)
    <3>1. checked_response(reply) = HostError("MalformedUpstream")
      BY <1>2, <2>2 DEF checked_response
    <3>2. ~Fetched /\ FetchError = TransportError("MalformedUpstream")
      BY <3>1 DEF Fetched, FetchError, HostError
    <3>3. AnswerClass = "refused"
      BY <1>2, <2>1, <2>2 DEF AnswerClass
    <3>4. TransportError("MalformedUpstream") = malformed
      BY DEF TransportError, x_transport
    <3>5. QED
      BY <2>1, <3>2, <3>3, <3>4 DEF malformed, ResolverError
  <2>3. CASE validate_https_response(reply)
    <3>1. checked_response(reply) = reply
      BY <2>3 DEF checked_response
    <3>2. Fetched => reply.status \in 200..299
      BY <1>2, <3>1 DEF Fetched, Accepted, x_status_ok, StatusOk
    <3>3. FetchError = StatusError(reply.status)
      BY <1>2, <3>1 DEF FetchError
    <3>4. /\ reply.status \in 200..299 => StatusError(reply.status) = malformed
          /\ reply.status \notin 200..299 => StatusError(reply.status) = status(reply.status)
      BY DEF StatusError
    <3>5. status(reply.status).retryable
            <=> reply.status = 429 \/ reply.status \in 500..599
      BY <1>2 DEF status, ResolverError, private, unavailable, malformed
    <3>6. AnswerClass = IF reply.status \in 200..299 THEN "success"
                        ELSE IF reply.status = 429 \/ reply.status \in 500..599
                             THEN "transient" ELSE "refused"
      BY <1>2, <2>1, <2>3 DEF AnswerClass
    <3>7. ~malformed.retryable
      BY DEF malformed, ResolverError
    <3>8. QED
      BY <2>1, <3>2, <3>3, <3>4, <3>5, <3>6, <3>7
  <2>4. QED
    BY <2>2, <2>3
<1>3. QED
  BY <1>0, <1>1, <1>2 DEF Replies

\* No page makes a parser or a mapping suggest a retry.
LEMMA RefusalsAreFinal ==
  ASSUME NEW body, plugin \in Plugins, parse_and_map(body).kind = "error"
  PROVE  ~parse_and_map(body).error.retryable
<1> USE DEF Error, Ok, ResolverError, malformed, private, unavailable, unsupported
<1>1. CASE plugin = "x"
  <2>1. parse_and_map(body) = x_parse_and_map(body)
    BY <1>1 DEF parse_and_map
  <2>2. QED
    BY <2>1 DEF x_parse_and_map
<1>2. CASE plugin = "tiktok"
  <2>1. parse_and_map(body) = tiktok_parse_and_map(body)
    BY <1>2 DEF parse_and_map
  <2>2. QED
    BY <2>1 DEF tiktok_parse_and_map
<1>3. CASE plugin = "bandcamp"
  <2>1. parse_and_map(body) = bandcamp_parse_and_map(body, now)
    BY <1>3 DEF parse_and_map
  <2>2. ASSUME NEW track, NEW refused, SelectTrack(track, refused, now).kind = "error"
        PROVE  ~SelectTrack(track, refused, now).error.retryable
    BY <2>2 DEF SelectTrack
  <2>3. QED
    BY <2>1, <2>2 DEF bandcamp_parse_and_map
<1>4. QED
  BY <1>1, <1>2, <1>3, SingleFetchAssumption

------------------------------------------------------------------------------
\* The inductive invariant holds before the call has done anything.
LEMMA InitIInv == Init => IInv
BY DEF Init, IInv, Places

\* Every step of the call, time passing included, keeps the invariant.
LEMMA NextIInv == IInv /\ [Next]_vars => IInv'
<1> SUFFICES ASSUME IInv, [Next]_vars PROVE IInv'
  OBVIOUS
<1> USE DEF IInv, Places
<1>1. CASE RejectSource \/ FailFetch \/ Refuse
  BY <1>1 DEF RejectSource, FailFetch, Refuse, ReturnError
<1>2. CASE Get
  BY <1>2 DEF Get
<1>3. CASE \E r \in Pages[plugin] : HostReturns(r)
  BY <1>3 DEF HostReturns
<1>4. CASE BuildResponse
  BY <1>4 DEF BuildResponse, Fetched, Accepted
<1>5. CASE Return
  BY <1>5 DEF Return, ReturnError
<1>6. CASE Tick
  BY <1>6 DEF Tick, Fetched, Accepted
<1>7. CASE UNCHANGED vars
  BY <1>7 DEF vars, Fetched, Accepted
<1>8. QED
  BY <1>1, <1>2, <1>3, <1>4, <1>5, <1>6, <1>7 DEF Next, Terminated

\* The invariant holds in every reachable state.
LEMMA SpecIInv == Spec => []IInv
BY InitIInv, NextIInv, PTL DEF Spec

------------------------------------------------------------------------------
\* An error that ends an answered call, or one that never asked, is a failure of the
\* contract, if it invites a retry exactly when the answer was transient.
LEMMA FailureStep ==
  ASSUME IInv, NEW e, pc \in {"classify", "judge", "validate"}, ReturnError(e),
         pc = "classify" => ~e.retryable,
         pc # "classify" => (e.retryable <=> AnswerClass = "transient")
  PROVE  Contract!Fail
<1>1. Verdict = "pending" /\ Verdict' = IF e.retryable THEN "retryable" ELSE "final"
  BY DEF ReturnError, IInv, Verdict, Pending
<1>2. CASE pc = "classify"
  <2>1. Asked = << >> /\ Asked' = << >>
    BY <1>2 DEF ReturnError, IInv, Asked
  <2>2. QED
    BY <1>1, <1>2, <2>1 DEF Contract!Fail
<1>3. CASE pc # "classify"
  <2>1. reply \in Pages[plugin] /\ reply # Pending
          /\ AnswerClass \in {"success", "transient", "refused"}
    BY <1>3, FetchTables DEF IInv
  <2>2. Asked = <<[op |-> "get", answer |-> AnswerClass]>> /\ Asked' = Asked
    BY <2>1 DEF ReturnError, Asked, AnswerClass
  <2>3. Len(Asked) = 1 /\ Asked[1].answer = AnswerClass
    BY <2>2
  <2>4. \A i \in 1..Len(Asked) : Asked[i].answer = AnswerClass
    BY <2>3
  <2>5. (\E i \in 1..Len(Asked) : Asked[i].answer = "transient")
          <=> AnswerClass = "transient"
    BY <2>3, <2>4
  <2>6. QED
    BY <1>1, <1>3, <2>1, <2>2, <2>4, <2>5 DEF Contract!Fail
<1>4. QED
  BY <1>2, <1>3

\* Every step of the call is a step of the contract or a stutter.
LEMMA StepRefines ==
  ASSUME IInv, [Next]_vars
  PROVE  [Contract!Next]_<<Asked, Verdict>>
<1>1. CASE RejectSource
  BY <1>1, FailureStep DEF RejectSource, invalid_input, ResolverError, Contract!Next
<1>2. CASE Get
  <2>1. Asked = << >> /\ Verdict = "pending" /\ Verdict' = "pending"
    BY <1>2 DEF Get, IInv, Asked, Verdict, Pending
  <2>2. AnswerClass' = "none"
    BY <1>2 DEF Get, IInv, AnswerClass
  <2>3. Asked' = <<[op |-> "get", answer |-> "none"]>>
    BY <1>2, <2>2 DEF Get, Asked
  <2>4. Append(Asked, [op |-> <<"get">>[Len(Asked) + 1], answer |-> "none"]) = Asked'
    BY <2>1, <2>3
  <2>5. Contract!AllSucceeded /\ Len(Asked) < Len(<<"get">>)
    BY <2>1 DEF Contract!AllSucceeded
  <2>6. QED
    BY <2>1, <2>4, <2>5 DEF Contract!Next, Contract!Ask
<1>3. CASE \E r \in Pages[plugin] : HostReturns(r)
  <2>1. /\ pc = "await" /\ reply' \in Pages[plugin] /\ pc' = "judge"
        /\ plugin' = plugin /\ plugin' \in Plugins
    BY <1>3 DEF HostReturns, IInv
  <2>2. reply' # Pending /\ AnswerClass' \in {"success", "transient", "refused"}
    <3>1. \A r \in Pages[plugin] : r # Pending
      BY SingleFetchAssumption, <2>1 DEF Replies, Pending
    <3>2. reply' # Pending
      BY <2>1, <3>1
    <3>3. AnswerClass' \in {"success", "transient", "refused"}
      BY <3>2 DEF AnswerClass
    <3>4. QED
      BY <3>2, <3>3
  <2>3. AnswerClass = "none"
    BY <2>1 DEF IInv, AnswerClass
  <2>4. /\ Asked = <<[op |-> "get", answer |-> "none"]>>
        /\ Asked' = <<[op |-> "get", answer |-> AnswerClass']>>
    BY <2>1, <2>2, <2>3 DEF Asked
  <2>5. /\ Len(Asked) = 1 /\ Asked[1].answer = "none" /\ Asked # << >>
        /\ Asked' = [Asked EXCEPT ![1].answer = AnswerClass']
    BY <2>4
  <2>6. Verdict' = Verdict
    BY <1>3 DEF HostReturns, Verdict
  <2>7. Contract!Answer(AnswerClass')
    BY <2>5, <2>6 DEF Contract!Answer
  <2>8. QED
    BY <2>2, <2>7 DEF Contract!Next, Contract!Answers
<1>4. CASE FailFetch
  BY <1>4, FailureStep, FetchTables DEF FailFetch, IInv, Contract!Next
<1>5. CASE Refuse
  <2>1. AnswerClass = "success" /\ pc = "judge"
    BY <1>5, FetchTables DEF Refuse, IInv
  <2>2. ~parse_and_map(reply.body).error.retryable
    BY <1>5, RefusalsAreFinal DEF Refuse, IInv
  <2>3. QED
    BY <1>5, <2>1, <2>2, FailureStep DEF Refuse, Contract!Next
<1>6. CASE Return
  <2>1. AnswerClass = "success" /\ pc = "validate" /\ reply # Pending
    BY <1>6, FetchTables DEF Return, IInv
  <2>2. CASE ReturnError(malformed)
    <3>1. ~malformed.retryable
      BY DEF malformed, ResolverError
    <3>2. QED
      BY <2>1, <2>2, <3>1, FailureStep DEF Contract!Next
  <2>3. CASE /\ outcome' = [kind |-> "response", response |-> response]
             /\ UNCHANGED reply
    <3>1. Verdict = "pending" /\ Verdict' = "delivered"
      BY <2>1, <2>3 DEF IInv, Verdict, Pending
    <3>2. Asked = <<[op |-> "get", answer |-> "success"]>> /\ Asked' = Asked
      BY <2>1, <2>3 DEF Asked, AnswerClass
    <3>3. Asked # << >> /\ \A i \in 1..Len(Asked) : Asked[i].answer = "success"
      BY <3>2
    <3>4. QED
      BY <3>1, <3>2, <3>3 DEF Contract!Next, Contract!Deliver, Contract!AllSucceeded
  <2>4. QED
    BY <1>6, <2>2, <2>3 DEF Return
<1>7. CASE BuildResponse \/ Tick \/ UNCHANGED vars
  <2>1. UNCHANGED <<reply, outcome>> /\ (pc' = "await" <=> pc = "await")
    BY <1>7 DEF BuildResponse, Tick, vars
  <2>2. QED
    BY <2>1 DEF Asked, AnswerClass, Verdict
<1>8. QED
  BY <1>1, <1>2, <1>3, <1>4, <1>5, <1>6, <1>7 DEF Next, Terminated

\* A resolve call of the X, TikTok or Bandcamp plugin makes at most one GET, delivers
\* only on its success, and invites a retry exactly when it failed in a way that may
\* pass, whatever the page holds.
THEOREM KeepsContract == Spec => KeepsResolveContract
<1>1. Init => Contract!Init
  BY DEF Init, Contract!Init, Asked, Verdict, Pending
<1>2. IInv /\ [Next]_vars => [Contract!Next]_<<Asked, Verdict>>
  BY StepRefines
<1>3. QED
  BY <1>1, <1>2, SpecIInv, PTL DEF Spec, KeepsResolveContract, Contract!Spec, Contract!vars
------------------------------------------------------------------------------
(* What a parser makes of a body.                                            *)

\* The renditions of an attachment, best first.
LEMMA VariantsOf ==
  ASSUME NEW media \in Attachments
  PROVE  /\ variants_of(media) \in Seq(Renditions)
         /\ Len(variants_of(media)) <= Candidates
         /\ ToSet(variants_of(media)) = OfferedBy(media)
         /\ \A i, j \in 1..Len(variants_of(media)) :
              i < j => variants_of(media)[i].bitrate >= variants_of(media)[j].bitrate
<1> DEFINE list == First(VariantEntries, media.variants)
           some == Only(list, Renditions)
           vs == StableSort(some, HigherBitrate)
<1>1. /\ media.variants \in Seq(Variants) /\ VariantEntries \in Nat
      /\ Candidates \in Nat /\ VariantEntries <= Candidates
  BY XAssumption, SdkAssumption DEF Attachments
<1>2. /\ list \in Seq(Variants) /\ Len(list) <= VariantEntries
      /\ \A i \in 1..Len(list) : /\ i \in 1..Len(media.variants) /\ i <= VariantEntries
                                 /\ list[i] = media.variants[i]
      /\ \A i \in 1..Len(media.variants) : i <= VariantEntries => i \in 1..Len(list)
  BY <1>1, FirstElements
<1>3. variants_of(media) = vs
  BY DEF variants_of
<1> HIDE DEF list
<1>4. PICK at : Picks(some, list, Renditions, at)
  BY <1>2, OnlyPicks
<1>5. some \in Seq(Variants)
  BY <1>2, OnlyPicks
<1>6. some \in Seq(Renditions)
  <2>1. \A a \in 1..Len(some) : some[a] \in Renditions
    BY <1>4 DEF Picks
  <2> HIDE DEF some
  <2> QED
    BY <1>5, <2>1
<1>7. IsOrder(HigherBitrate, Renditions)
  <2>1. \A r \in Renditions : r.bitrate \in Nat
    BY DEF Renditions
  <2> QED
    BY <2>1 DEF IsOrder, HigherBitrate
<1> HIDE DEF some
<1>8. vs \in Seq(Renditions) /\ \E to : Sorts(vs, some, Len(some), HigherBitrate, to)
  BY <1>6, <1>7, StableSorts
<1>9. PICK to : Sorts(vs, some, Len(some), HigherBitrate, to)
  BY <1>8
<1>10. /\ Len(vs) \in Nat /\ Len(some) \in Nat /\ Len(list) \in Nat
       /\ DOMAIN vs = 1..Len(vs)
  BY <1>2, <1>5, <1>8
<1> HIDE DEF vs
<1>11. Len(vs) <= Len(some)
  <2>1. to \in [1..Len(vs) -> 1..Len(some)] /\ \A a, b \in 1..Len(vs) : a # b => to[a] # to[b]
    BY <1>9 DEF Sorts
  <2> QED
    BY <1>10, <2>1, PlacesBound
<1>12. Len(some) <= Len(list)
  <2>1. at \in [1..Len(some) -> 1..Len(list)]
    BY <1>4 DEF Picks
  <2>2. \A a, b \in 1..Len(some) : a < b => at[a] < at[b]
    BY <1>4 DEF Picks
  <2>3. \A a, b \in 1..Len(some) : a # b => a < b \/ b < a
    OBVIOUS
  <2>4. \A a \in 1..Len(some) : at[a] \in Nat
    BY <2>1
  <2>5. \A a, b \in 1..Len(some) : a # b => at[a] # at[b]
    BY <2>2, <2>3, <2>4
  <2> QED
    BY <1>10, <2>1, <2>5, PlacesBound
<1>13. Len(vs) <= Candidates
  BY <1>1, <1>2, <1>10, <1>11, <1>12
<1>14. \A i, j \in 1..Len(vs) : i < j => vs[i].bitrate >= vs[j].bitrate
  BY <1>9 DEF Sorts, HigherBitrate
<1>15. ToSet(vs) = OfferedBy(media)
  <2>1. \A v : v \in ToSet(vs) <=> \E a \in 1..Len(vs) : vs[a] = v
    BY <1>10 DEF ToSet
  <2>2. \A a \in 1..Len(vs) : to[a] \in 1..Len(some) /\ vs[a] = some[to[a]]
    BY <1>9 DEF Sorts
  <2>3. \A b \in 1..Len(some) : \E a \in 1..Len(vs) : to[a] = b
    BY <1>9 DEF Sorts
  <2>4. \A b \in 1..Len(some) : /\ at[b] \in 1..Len(list) /\ some[b] = list[at[b]]
                                /\ some[b] \in Renditions
    BY <1>4 DEF Picks
  <2>5. \A k \in 1..Len(list) : list[k] \in Renditions =>
          \E b \in 1..Len(some) : at[b] = k
    BY <1>4 DEF Picks
  <2>6. \A i \in 1..Len(media.variants) : media.variants[i] \in Renditions
          <=> media.variants[i].mp4 /\ media.variants[i].url \in VideoHostUrls
    <3>1. \A v \in Variants : v \in Renditions <=> v.mp4 /\ v.url \in VideoHostUrls
      BY DEF Variants, Renditions
    <3> QED
      BY <1>1, <3>1
  <2>7. \A v : v \in OfferedBy(media)
          <=> \E i \in 1..Len(media.variants) :
                /\ i <= VariantEntries /\ media.variants[i] \in Renditions
                /\ v = media.variants[i]
    BY <2>6 DEF OfferedBy
  <2>8. ASSUME NEW v, v \in ToSet(vs) PROVE v \in OfferedBy(media)
    <3>1. PICK a \in 1..Len(vs) : vs[a] = v
      BY <2>1, <2>8
    <3>2. /\ at[to[a]] \in 1..Len(list) /\ v = list[at[to[a]]] /\ v \in Renditions
      BY <2>2, <2>4, <3>1
    <3> QED
      BY <1>2, <2>7, <3>2
  <2>9. ASSUME NEW v, v \in OfferedBy(media) PROVE v \in ToSet(vs)
    <3>1. PICK i \in 1..Len(list) : list[i] = v /\ v \in Renditions
      BY <1>2, <2>7, <2>9
    <3>2. PICK b \in 1..Len(some) : at[b] = i
      BY <2>5, <3>1
    <3>3. PICK a \in 1..Len(vs) : to[a] = b
      BY <2>3
    <3> QED
      BY <2>1, <2>2, <2>4, <3>1, <3>2, <3>3
  <2> QED
    BY <2>8, <2>9
<1> QED
  BY <1>3, <1>8, <1>13, <1>14, <1>15

\* A better rendition comes first, and one is left out only for one at least as good
\* that has its URL or its id.
LEMMA DistinctKeeps ==
  ASSUME NEW vs \in Seq(Renditions), Len(vs) <= Candidates
  PROVE  /\ distinct(vs) \in Seq(Renditions)
         /\ \A a \in 1..Len(distinct(vs)) : \E k \in 1..Len(vs) : distinct(vs)[a] = vs[k]
         /\ Len(vs) # 0 => Len(distinct(vs)) # 0 /\ distinct(vs)[1] = vs[1]
         /\ \A k \in 1..Len(vs) : \E a \in 1..Len(distinct(vs)), j \in 1..k :
              /\ distinct(vs)[a] = vs[j]
              /\ j = k \/ <<vs[j], vs[k]>> \in Repeats
<1> DEFINE out == distinct(vs)
           n == Len(vs)
<1>1. out = Sieve(vs, Renditions, Repeats, Candidates)
  BY DEF distinct
<1>2. /\ out \in Seq(Renditions)
      /\ \E at : Sieved(out, vs, n, Renditions, Repeats, Candidates, at)
  BY <1>1, SieveKept
<1>3. PICK at : Sieved(out, vs, n, Renditions, Repeats, Candidates, at)
  BY <1>2
<1>4. n \in Nat /\ Candidates \in Nat /\ n <= Candidates /\ Len(out) \in Nat
  BY <1>2, SdkAssumption
<1>5. \A k \in 1..n : vs[k] \in Renditions
  OBVIOUS
<1> HIDE DEF out, n
<1>6. \A k \in 1..n : \/ \E a \in 1..Len(out) : at[a] = k
                      \/ \E a \in 1..Len(out) : at[a] < k /\ <<out[a], vs[k]>> \in Repeats
  BY <1>2, <1>3, <1>4, <1>5, SieveRoom
<1>7. \A a \in 1..Len(out) : at[a] \in 1..n /\ out[a] = vs[at[a]]
  BY <1>3 DEF Sieved
<1>8. ASSUME n # 0 PROVE Len(out) # 0 /\ out[1] = vs[1]
  <2>1. 1 \in 1..n
    BY <1>4, <1>8
  <2>2. \A k \in 1..n : ~(k < 1)
    OBVIOUS
  <2>3. PICK a \in 1..Len(out) : at[a] = 1
    BY <1>6, <1>7, <2>1, <2>2
  <2>4. 1 \in 1..Len(out) /\ (a # 1 => 1 < a)
    BY <1>4
  <2>5. a = 1
    BY <1>3, <1>7, <2>2, <2>3, <2>4 DEF Sieved
  <2> QED
    BY <1>4, <1>7, <2>3, <2>4, <2>5
<1>9. ASSUME NEW k \in 1..n
      PROVE  \E a \in 1..Len(out), j \in 1..k :
               out[a] = vs[j] /\ (j = k \/ <<vs[j], vs[k]>> \in Repeats)
  <2>1. CASE \E a \in 1..Len(out) : at[a] = k
    <3>1. k \in 1..k
      OBVIOUS
    <3> QED
      BY <1>7, <2>1, <3>1
  <2>2. ASSUME NEW a \in 1..Len(out), at[a] < k, <<out[a], vs[k]>> \in Repeats
        PROVE  \E j \in 1..k : out[a] = vs[j] /\ <<vs[j], vs[k]>> \in Repeats
    <3>1. at[a] \in 1..k
      BY <1>7, <2>2
    <3> QED
      BY <1>7, <2>2, <3>1
  <2> QED
    BY <1>6, <2>1, <2>2
<1> QED
  BY <1>2, <1>7, <1>8, <1>9 DEF out, n
\* No text at all has no bytes.
LEMMA NoBytes == Bytes(<< >>) = 0
<1> DEFINE Add(sum, c) == sum + (IF c \in {"ascii", "control"} THEN 1 ELSE 2)
           Reads(g) == g = [s \in SUBSET (DOMAIN << >>) |->
                              IF s = {} THEN 0
                              ELSE Add(g[s \ {Max(s)}], << >>[Max(s)])]
           iter == CHOOSE g : Reads(g)
<1>1. Bytes(<< >>) = FoldLeft(Add, 0, << >>)
  BY DEF Bytes
<1>2. FoldLeft(Add, 0, << >>) = iter[DOMAIN << >>]
  BY DEF FoldLeft, MapThenFoldSet
<1>3. DOMAIN << >> = {}
  OBVIOUS
<1>4. Reads([s \in SUBSET {} |-> 0])
  <2>1. \A s \in SUBSET {} : s = {}
    OBVIOUS
  <2> QED
    BY <1>3, <2>1
<1>5. Reads(iter)
  BY <1>4
<1>6. iter[{}] = 0
  BY <1>3, <1>5
<1> QED
  BY <1>1, <1>2, <1>3, <1>6

\* A title that is cut is a text.
LEMMA TitleTyped ==
  ASSUME NEW text \in Texts
  PROVE  title_of(text) \in Texts
<1> DEFINE fits == {n \in 0..Len(text) : Bytes(SubSeq(text, 1, n)) <= TitleBytes}
           n == CHOOSE x \in fits : \A y \in fits : y <= x
<1>1. text \in Seq(Chars) /\ Len(text) \in Nat
  BY DEF Texts
<1>2. 0 \in fits
  <2>1. SubSeq(text, 1, 0) = << >>
    BY SubSeqEmpty
  <2>2. Bytes(SubSeq(text, 1, 0)) <= TitleBytes
    <3>1. Bytes(SubSeq(text, 1, 0)) = 0
      BY <2>1, NoBytes, Zenon
    <3>2. TitleBytes \in Nat
      BY MediaAssumption
    <3> QED
      BY <3>1, <3>2
  <2>3. 0 \in 0..Len(text)
    BY <1>1
  <2> QED
    BY <2>2, <2>3
<1>3. fits \in SUBSET (0..Len(text))
  OBVIOUS
<1> HIDE DEF fits
<1>4. \E x \in fits : \A y \in fits : y <= x
  BY <1>1, <1>2, <1>3, GreatestExists
<1>5. n \in fits
  BY <1>4
<1> HIDE DEF n
<1>6. n \in Int /\ \A i \in 1..n : text[i] \in Chars
  <2>1. n \in 0..Len(text)
    BY <1>3, <1>5
  <2>2. \A i \in 1..n : i \in 1..Len(text)
    BY <1>1, <2>1
  <2> QED
    BY <1>1, <2>1, <2>2
<1>7. SubSeq(text, 1, n) \in Seq(Chars)
  BY <1>6, SubSeqProperties
<1> QED
  BY <1>7 DEF title_of, Texts, n, fits

\* The statement that there is nothing to resolve is an answer.
LEMMA NothingTyped == nothing_to_resolve \in MediaResponses
BY DEF nothing_to_resolve, MediaResponses, Texts

\* An answer made of streams.
LEMMA AnswerTyped ==
  ASSUME NEW streams \in Seq(Streams), NEW title \in Texts,
         NEW thumbnail \in Urls \cup {Missing}
  PROVE  Answer(streams, title, thumbnail) \in MediaResponses
BY DEF Answer, MediaResponses

LEMMA XStreamTyped ==
  ASSUME NEW v \in Renditions
  PROVE  XStream(v) \in Streams
<1>1. v.url \in Urls /\ v.bitrate \in Nat
  BY XAssumption DEF Renditions
<1>2. LabelOf[v.url] \in Labels \cup {Missing}
  BY <1>1, XAssumption
<1>3. variant_id(v) \in CandidateIds
  BY <1>1, <1>2 DEF variant_id, CandidateIds
<1> QED
  BY <1>1, <1>3 DEF XStream, Streams

\* The attachment an X answer is made of: the first within the bound that has video.
Carriers(details) ==
  {k \in 1..Len(details) : k <= MediaDetailEntries /\ OfferedBy(details[k]) # {}}

LEMMA XCarrier ==
  ASSUME NEW body \in XBodies, body.mediaDetails # Missing
  PROVE  /\ body.mediaDetails \in Seq(Attachments)
         /\ WithVideo(body) = << >> <=> Carriers(body.mediaDetails) = {}
         /\ WithVideo(body) # << >> =>
              \E k \in Carriers(body.mediaDetails) :
                /\ Head(WithVideo(body)) = body.mediaDetails[k]
                /\ \A d \in Carriers(body.mediaDetails) : k <= d
<1> DEFINE details == body.mediaDetails
           list == First(MediaDetailEntries, details)
           some == {media \in ToSet(list) : variants_of(media) # << >>}
           out == Only(list, some)
<1>1. details \in Seq(Attachments) /\ MediaDetailEntries \in Nat
  BY XAssumption DEF XBodies
<1>2. /\ list \in Seq(Attachments)
      /\ \A i \in 1..Len(list) : /\ i \in 1..Len(details) /\ i <= MediaDetailEntries
                                 /\ list[i] = details[i]
      /\ \A i \in 1..Len(details) : i <= MediaDetailEntries => i \in 1..Len(list)
  BY <1>1, FirstElements
<1>3. WithVideo(body) = out
  BY DEF WithVideo
<1>4. \A media \in Attachments : variants_of(media) # << >> <=> OfferedBy(media) # {}
  <2>1. SUFFICES ASSUME NEW media \in Attachments
                 PROVE  variants_of(media) # << >> <=> OfferedBy(media) # {}
    OBVIOUS
  <2> DEFINE vs == variants_of(media)
  <2>2. vs \in Seq(Renditions) /\ ToSet(vs) = OfferedBy(media)
    BY VariantsOf
  <2> HIDE DEF vs
  <2>3. ToSet(vs) = {} <=> vs = << >>
    BY <2>2 DEF ToSet
  <2> QED
    BY <2>2, <2>3 DEF vs
<1>5. \A i \in 1..Len(list) : list[i] \in some <=> i \in Carriers(details)
  <2>1. \A i \in 1..Len(list) : list[i] \in Attachments /\ list[i] \in ToSet(list)
    BY <1>2 DEF ToSet
  <2> HIDE DEF list, details
  <2> QED
    BY <1>2, <1>4, <2>1 DEF Carriers
<1>6. \A k \in Carriers(details) : k \in 1..Len(list) /\ k \in Nat
  BY <1>2 DEF Carriers
<1> HIDE DEF list, some, details
<1>7. PICK at : Picks(out, list, some, at)
  BY <1>2, OnlyPicks
<1>8. out \in Seq(Attachments)
  BY <1>2, OnlyPicks
<1> HIDE DEF out
<1>9. \A a \in 1..Len(out) : at[a] \in 1..Len(list) /\ out[a] = list[at[a]] /\ out[a] \in some
  BY <1>7 DEF Picks
<1>10. \A k \in Carriers(details) : \E a \in 1..Len(out) : at[a] = k
  BY <1>5, <1>6, <1>7 DEF Picks
<1>11. out = << >> <=> Carriers(details) = {}
  <2>1. out = << >> => 1..Len(out) = {}
    OBVIOUS
  <2>2. out # << >> => 1 \in 1..Len(out)
    BY <1>8
  <2> QED
    BY <1>5, <1>9, <1>10, <2>1, <2>2
<1>12. ASSUME out # << >>
       PROVE  \E k \in Carriers(details) :
                Head(out) = details[k] /\ \A d \in Carriers(details) : k <= d
  <2>1. 1 \in 1..Len(out) /\ Head(out) = out[1]
    BY <1>8, <1>12
  <2>2. at[1] \in Carriers(details) /\ out[1] = details[at[1]]
    BY <1>2, <1>5, <1>9, <2>1
  <2>3. ASSUME NEW d \in Carriers(details) PROVE at[1] <= d
    <3>1. PICK a \in 1..Len(out) : at[a] = d
      BY <1>10
    <3>2. a = 1 \/ 1 < a
      OBVIOUS
    <3>3. 1 < a => at[1] < at[a]
      BY <1>7, <2>1 DEF Picks
    <3> QED
      BY <1>6, <2>2, <3>1, <3>2, <3>3
  <2> QED
    BY <2>1, <2>2, <2>3
<1> QED
  BY <1>1, <1>3, <1>11, <1>12 DEF details
\* An answer holds renditions of one attachment, the best at its head, and for each it
\* was offered one at least as good with the same URL or the same id.
TakesTheBest(media, streams) ==
  LET offered == OfferedBy(media)
      taken == {v \in offered : XStream(v) \in ToSet(streams)}
  IN  /\ ToSet(streams) = {XStream(v) : v \in taken}
      /\ \E v \in taken : /\ XStream(v) = streams[1]
                          /\ \A w \in offered : w.bitrate <= v.bitrate
      /\ \A w \in offered : \E v \in taken :
           /\ v.url = w.url \/ variant_id(v) = variant_id(w)
           /\ v.bitrate >= w.bitrate

LEMMA XStreamsOf ==
  ASSUME NEW media \in Attachments, OfferedBy(media) # {}, NEW streams,
         streams = [i \in 1..Len(distinct(variants_of(media))) |->
                      XStream(distinct(variants_of(media))[i])]
  PROVE  streams \in Seq(Streams) /\ TakesTheBest(media, streams)
<1> DEFINE vs == variants_of(media)
           out == distinct(vs)
           offered == OfferedBy(media)
           taken == {v \in offered : XStream(v) \in ToSet(streams)}
<1>1. /\ vs \in Seq(Renditions) /\ Len(vs) <= Candidates /\ ToSet(vs) = offered
      /\ \A i, j \in 1..Len(vs) : i < j => vs[i].bitrate >= vs[j].bitrate
  BY VariantsOf
<1>2. streams = [i \in 1..Len(out) |-> XStream(out[i])]
  OBVIOUS
<1> HIDE DEF vs
<1>3. /\ out \in Seq(Renditions)
      /\ \A a \in 1..Len(out) : \E k \in 1..Len(vs) : out[a] = vs[k]
      /\ Len(vs) # 0 => Len(out) # 0 /\ out[1] = vs[1]
      /\ \A k \in 1..Len(vs) : \E a \in 1..Len(out), j \in 1..k :
           out[a] = vs[j] /\ (j = k \/ <<vs[j], vs[k]>> \in Repeats)
  BY <1>1, DistinctKeeps
<1> HIDE DEF out
<1>4. Len(out) \in Nat /\ Len(vs) \in Nat /\ DOMAIN vs = 1..Len(vs)
  BY <1>1, <1>3
<1>5. /\ DOMAIN streams = 1..Len(out)
      /\ \A a \in 1..Len(out) : streams[a] = XStream(out[a])
  BY <1>2
<1>6. streams \in Seq(Streams)
  <2>1. ASSUME NEW a \in 1..Len(out) PROVE streams[a] \in Streams
    <3>1. out[a] \in Renditions
      BY <1>3
    <3>2. XStream(out[a]) \in Streams
      BY <3>1, XStreamTyped
    <3> QED
      BY <1>5, <3>2
  <2> DEFINE n == Len(out)
  <2>2. streams \in [1..n -> Streams]
    BY <1>2, <1>5, <2>1
  <2>3. n \in Nat
    BY <1>4
  <2> HIDE DEF n
  <2> QED
    BY <2>2, <2>3, MapTyped
<1>7. \A w : w \in offered <=> \E k \in 1..Len(vs) : w = vs[k]
  BY <1>1, <1>4 DEF ToSet
<1>8. \A s : s \in ToSet(streams) <=> \E a \in 1..Len(out) : s = XStream(out[a])
  BY <1>5 DEF ToSet
<1>9. \A a \in 1..Len(out) : out[a] \in taken
  BY <1>3, <1>7, <1>8
<1> HIDE DEF offered
<1>10. ToSet(streams) = {XStream(v) : v \in taken}
  BY <1>8, <1>9
<1>11. Len(vs) # 0 /\ 1 \in 1..Len(vs) /\ 1 \in 1..Len(out)
  <2>1. Len(vs) # 0
    BY <1>7 DEF offered
  <2> QED
    BY <1>3, <1>4, <2>1
<1>12. \A k \in 1..Len(vs) : vs[k].bitrate \in Nat
  <2>1. \A v \in Renditions : v.bitrate \in Nat
    BY DEF Renditions
  <2>2. \A k \in 1..Len(vs) : vs[k] \in Renditions
    BY <1>1
  <2> QED
    BY <2>1, <2>2
<1>13. \A w \in offered : w.bitrate <= out[1].bitrate
  <2>1. ASSUME NEW k \in 1..Len(vs) PROVE vs[k].bitrate <= vs[1].bitrate
    <3>1. CASE k = 1
      <4>1. vs[1].bitrate \in Nat
        BY <1>11, <1>12
      <4> QED
        BY <3>1, <4>1
    <3>2. CASE 1 < k
      <4>1. vs[1].bitrate >= vs[k].bitrate
        BY <1>1, <1>11, <3>2
      <4>2. vs[1].bitrate \in Nat /\ vs[k].bitrate \in Nat
        BY <1>11, <1>12
      <4> QED
        BY <4>1, <4>2
    <3> QED
      BY <3>1, <3>2
  <2> QED
    BY <1>3, <1>7, <1>11, <2>1
<1>14. ASSUME NEW w \in offered
       PROVE  \E v \in taken : /\ v.url = w.url \/ variant_id(v) = variant_id(w)
                               /\ v.bitrate >= w.bitrate
  <2>1. PICK k \in 1..Len(vs) : w = vs[k]
    BY <1>7
  <2>2. PICK a \in 1..Len(out), j \in 1..k :
          out[a] = vs[j] /\ (j = k \/ <<vs[j], vs[k]>> \in Repeats)
    BY <1>3
  <2>3. j \in 1..Len(vs) /\ (j = k \/ j < k)
    BY <1>4
  <2>4. vs[j].bitrate >= vs[k].bitrate
    <3>1. CASE j = k
      <4>1. vs[k].bitrate \in Nat
        BY <1>12
      <4> QED
        BY <3>1, <4>1
    <3> QED
      BY <1>1, <2>3, <3>1
  <2>5. vs[j].url = vs[k].url \/ variant_id(vs[j]) = variant_id(vs[k])
    BY <2>2 DEF Repeats
  <2> QED
    BY <1>9, <2>1, <2>2, <2>4, <2>5
<1>15. \E v \in taken : /\ XStream(v) = streams[1]
                        /\ \A w \in offered : w.bitrate <= v.bitrate
  BY <1>5, <1>9, <1>11, <1>13
<1>16. TakesTheBest(media, streams)
  BY <1>10, <1>14, <1>15 DEF TakesTheBest, offered
<1> QED
  BY <1>6, <1>16

\* What X makes of a body that it accepts.
XPromise(body, r) ==
  LET details == body.mediaDetails
      carriers == IF details = Missing THEN {} ELSE Carriers(details)
  IN  IF carriers = {} THEN r.resolution = "unsupported"
      ELSE TakesTheBest(details[CHOOSE c \in carriers : \A d \in carriers : c <= d],
                        r.streams)

LEMMA XMapped ==
  ASSUME NEW body \in XBodies, NEW r, x_parse_and_map(body) = Ok(r)
  PROVE  r \in MediaResponses /\ XPromise(body, r)
<1> DEFINE none == body.mediaDetails = Missing \/ WithVideo(body) = << >>
<1>1. IF none THEN r = nothing_to_resolve ELSE r = XSelection(body)
  BY DEF x_parse_and_map, Ok, Error
<1>2. body.mediaDetails # Missing =>
        (WithVideo(body) = << >> <=> Carriers(body.mediaDetails) = {})
  BY XCarrier
<1>3. CASE none
  BY <1>1, <1>2, <1>3, NothingTyped DEF XPromise, nothing_to_resolve
<1>4. CASE ~none
  <2> DEFINE details == body.mediaDetails
             carriers == Carriers(details)
  <2>1. PICK k \in carriers : /\ Head(WithVideo(body)) = details[k]
                              /\ \A d \in carriers : k <= d
    BY <1>4, XCarrier
  <2>2. details \in Seq(Attachments) /\ k \in 1..Len(details)
    BY <1>4, XCarrier DEF Carriers
  <2> DEFINE media == details[k]
  <2>3. media \in Attachments /\ OfferedBy(media) # {}
    BY <2>2 DEF Carriers
  <2> DEFINE kept == distinct(variants_of(media))
             streams == [i \in 1..Len(kept) |-> XStream(kept[i])]
             thumbnail == IF media.media_url_https \in ThumbnailHostUrls
                          THEN media.media_url_https ELSE Missing
  <2>4. r = Answer(streams, title_of(body.text), thumbnail)
    BY <1>1, <1>4, <2>1 DEF XSelection
  <2>5. streams \in Seq(Streams) /\ TakesTheBest(media, streams)
    BY <2>3, XStreamsOf
  <2>6. thumbnail \in Urls \cup {Missing}
    BY XAssumption
  <2>7. title_of(body.text) \in Texts
    BY TitleTyped DEF XBodies
  <2> HIDE DEF streams, thumbnail, media
  <2>8. r \in MediaResponses /\ r.streams = streams
    BY <2>4, <2>5, <2>6, <2>7, AnswerTyped DEF Answer
  <2>9. k = CHOOSE c \in carriers : \A d \in carriers : c <= d
    <3>1. carriers \in SUBSET Nat
      BY <2>2 DEF Carriers
    <3> HIDE DEF carriers
    <3> DEFINE c0 == CHOOSE c \in carriers : \A d \in carriers : c <= d
    <3>2. c0 \in carriers /\ \A d \in carriers : c0 <= d
      BY <2>1
    <3> HIDE DEF c0
    <3>3. k = c0
      BY <2>1, <3>1, <3>2
    <3> QED
      BY <3>3 DEF c0
  <2>10. XPromise(body, r)
    BY <1>4, <2>5, <2>8, <2>9 DEF XPromise, media
  <2> QED
    BY <2>8, <2>10
<1> QED
  BY <1>3, <1>4
\* The addresses of a page, before any is judged.
LEMMA RawTyped ==
  ASSUME NEW video \in Videos
  PROVE  Raw(video) \in Seq(Urls)
<1> DEFINE E == Urls \cup {Missing}
<1>1. \A list \in Seq(E) : Present(list) \in Seq(Urls)
  <2>1. SUFFICES ASSUME NEW list \in Seq(E) PROVE Present(list) \in Seq(Urls)
    OBVIOUS
  <2> DEFINE out == Only(list, Urls)
  <2>2. out \in Seq(E) /\ \E at : Picks(out, list, Urls, at)
    BY OnlyPicks
  <2>3. \A a \in 1..Len(out) : out[a] \in Urls
    BY <2>2 DEF Picks
  <2> HIDE DEF out
  <2>4. out \in Seq(Urls)
    BY <2>2, <2>3
  <2> QED
    BY <2>4 DEF Present, out
<1>2. \A list \in Seq(E) : collect_url_list(list) \in Seq(Urls)
  <2>1. SUFFICES ASSUME NEW list \in Seq(E) PROVE collect_url_list(list) \in Seq(Urls)
    OBVIOUS
  <2> DEFINE all == Present(list)
             n == IF Len(all) < UrlListCap THEN Len(all) ELSE UrlListCap
  <2>2. all \in Seq(Urls) /\ UrlListCap \in Nat
    BY <1>1, TikTokAssumption
  <2> HIDE DEF all
  <2>3. n \in Nat /\ n <= Len(all)
    BY <2>2
  <2> HIDE DEF n
  <2>4. \A i \in 1..n : all[i] \in Urls
    BY <2>2, <2>3
  <2>5. SubSeq(all, 1, n) \in Seq(Urls)
    BY <2>3, <2>4, SubSeqProperties
  <2> QED
    BY <2>5 DEF collect_url_list, all, n
<1>3. /\ <<video.playAddr, video.downloadAddr>> \in Seq(E)
      /\ video.PlayAddrStruct \in Seq(E) /\ video.bitrateInfo \in Seq(Seq(E))
  BY DEF Videos
<1>4. FlattenSeq(video.bitrateInfo) \in Seq(E)
  BY <1>3, FlattenTyped
<1> DEFINE r == Present(<<video.playAddr, video.downloadAddr>>)
           s == collect_url_list(video.PlayAddrStruct)
           t == collect_url_list(FlattenSeq(video.bitrateInfo))
<1>5. r \in Seq(Urls) /\ s \in Seq(Urls) /\ t \in Seq(Urls)
  BY <1>1, <1>2, <1>3, <1>4
<1>6. Raw(video) = r \o s \o t
  BY DEF Raw
<1> HIDE DEF r, s, t
<1>7. r \o s \in Seq(Urls)
  BY <1>5, ConcatProperties
<1>8. (r \o s) \o t \in Seq(Urls)
  BY <1>5, <1>7, ConcatProperties
<1> QED
  BY <1>6, <1>8

\* What TikTok makes of a page: every CDN address once, in the order of the page.
TikTokPromise(raw, streams) ==
  LET first(u) == CHOOSE i \in 1..Len(raw) :
                    raw[i] = u /\ \A j \in 1..(i - 1) : raw[j] # u
  IN  /\ \A i \in 1..Len(streams) : streams[i].url \in CdnUrls \cap ToSet(raw)
      /\ \A i, j \in 1..Len(streams) :
           i < j => first(streams[i].url) < first(streams[j].url)
      /\ \A u \in CdnUrls \cap ToSet(raw) :
           \/ \E i \in 1..Len(streams) : streams[i].url = u
           \/ Len(streams) = Candidates /\ first(u) > first(streams[Candidates].url)

\* The first place of an address.
FirstAt(raw, u) == CHOOSE i \in 1..Len(raw) :
                     raw[i] = u /\ \A j \in 1..(i - 1) : raw[j] # u

LEMMA IsFirstAt ==
  ASSUME NEW raw, NEW u, Len(raw) \in Nat, NEW m \in 1..Len(raw), raw[m] = u,
         \A j \in 1..Len(raw) : raw[j] = u => m <= j
  PROVE  FirstAt(raw, u) = m
<1> DEFINE Is(i) == raw[i] = u /\ \A j \in 1..(i - 1) : raw[j] # u
<1>1. Is(m)
  BY Len(raw) \in Nat
<1>2. \A i \in 1..Len(raw) : Is(i) => i = m
  <2>1. SUFFICES ASSUME NEW i \in 1..Len(raw), Is(i) PROVE i = m
    OBVIOUS
  <2>2. m <= i
    BY <2>1
  <2>3. m < i => m \in 1..(i - 1)
    OBVIOUS
  <2> QED
    BY <2>1, <2>2, <2>3
<1>3. FirstAt(raw, u) = CHOOSE i \in 1..Len(raw) : Is(i)
  BY DEF FirstAt
<1> HIDE DEF Is
<1> QED
  BY <1>1, <1>2, <1>3

LEMMA FirstAtExists ==
  ASSUME NEW raw, NEW u, Len(raw) \in Nat, NEW k \in 1..Len(raw), raw[k] = u
  PROVE  /\ FirstAt(raw, u) \in 1..Len(raw) /\ raw[FirstAt(raw, u)] = u
         /\ \A j \in 1..Len(raw) : raw[j] = u => FirstAt(raw, u) <= j
<1> DEFINE P == {i \in 1..Len(raw) : raw[i] = u}
<1>1. P \in SUBSET Nat /\ k \in P
  OBVIOUS
<1>2. \E x \in P : \A y \in P : x <= y
  <2> HIDE DEF P
  <2> QED
    BY <1>1, LeastExists
<1>3. PICK m \in P : \A y \in P : m <= y
  BY <1>2
<1>4. m \in 1..Len(raw) /\ raw[m] = u /\ \A j \in 1..Len(raw) : raw[j] = u => m <= j
  BY <1>3
<1>5. FirstAt(raw, u) = m
  BY <1>4, IsFirstAt
<1> QED
  BY <1>4, <1>5

LEMMA TikTokStreams ==
  ASSUME NEW raw \in Seq(Urls), NEW streams,
         streams = [i \in 1..Len(survivors(raw)) |->
                      [id |-> <<"number", i - 1>>, url |-> survivors(raw)[i],
                       expires |-> Missing]]
  PROVE  streams \in Seq(Streams) /\ TikTokPromise(raw, streams)
<1> DEFINE out == survivors(raw)
           same == {<<u, u>> : u \in CdnUrls}
           n == Len(raw)
<1>1. out = Sieve(raw, CdnUrls, same, Candidates)
  BY DEF survivors
<1>2. out \in Seq(Urls) /\ \E at : Sieved(out, raw, n, CdnUrls, same, Candidates, at)
  BY <1>1, SieveKept
<1>3. PICK at : Sieved(out, raw, n, CdnUrls, same, Candidates, at)
  BY <1>2
<1>4. streams = [i \in 1..Len(out) |-> [id |-> <<"number", i - 1>>, url |-> out[i],
                                        expires |-> Missing]]
  OBVIOUS
<1>5. n \in Nat /\ Len(out) \in Nat /\ DOMAIN raw = 1..n /\ Candidates \in Nat \ {0}
  BY <1>2, SdkAssumption
<1> HIDE DEF out
<1>6. \A u, v : <<u, v>> \in same <=> u = v /\ u \in CdnUrls
  OBVIOUS
<1> HIDE DEF same
<1>7. \A a \in 1..Len(out) : /\ at[a] \in 1..n /\ out[a] = raw[at[a]]
                             /\ out[a] \in CdnUrls
  BY <1>3 DEF Sieved
<1>8. \A a \in 1..Len(out), j \in 1..n : raw[j] = out[a] => at[a] <= j
  <2>1. \A a \in 1..Len(out), j \in 1..n : <<raw[j], out[a]>> \in same => at[a] <= j
    <3>1. \A i, j, k \in 1..n : <<raw[i], raw[j]>> \in same /\ <<raw[j], raw[k]>> \in same
                                  => <<raw[i], raw[k]>> \in same
      BY <1>6
    <3>2. \A i, j \in 1..n : <<raw[i], raw[j]>> \in same /\ raw[j] \in CdnUrls
                               => raw[i] \in CdnUrls
      BY <1>6
    <3> HIDE DEF n
    <3> QED
      BY <1>2, <1>3, <1>5, <3>1, <3>2, SieveFirst
  <2> QED
    BY <1>6, <1>7, <2>1
<1>9. ASSUME NEW a \in 1..Len(out) PROVE FirstAt(raw, out[a]) = at[a]
  <2>1. /\ at[a] \in 1..n /\ raw[at[a]] = out[a]
        /\ \A j \in 1..n : raw[j] = out[a] => at[a] <= j
    BY <1>7, <1>8
  <2> QED
    BY <1>5, <2>1, IsFirstAt
<1>10. /\ Len(streams) = Len(out) /\ 1..Len(streams) = 1..Len(out)
       /\ \A a \in 1..Len(out) : streams[a].url = out[a]
  BY <1>4, <1>5
<1>11. streams \in Seq(Streams)
  <2>1. ASSUME NEW a \in 1..Len(out)
        PROVE  [id |-> <<"number", a - 1>>, url |-> out[a], expires |-> Missing] \in Streams
    <3>1. a - 1 \in Nat /\ out[a] \in Urls
      BY <1>2
    <3> QED
      BY <3>1 DEF Streams, CandidateIds
  <2> DEFINE m == Len(out)
  <2>2. streams \in [1..m -> Streams] /\ m \in Nat
    BY <1>4, <1>5, <2>1
  <2> HIDE DEF m
  <2> QED
    BY <2>2, MapTyped
<1>12. \A i \in 1..Len(streams) : streams[i].url \in CdnUrls \cap ToSet(raw)
  <2>1. \A a \in 1..Len(out) : out[a] \in CdnUrls \cap ToSet(raw)
    BY <1>5, <1>7 DEF ToSet
  <2>2. \A a \in 1..Len(out) : streams[a].url \in CdnUrls \cap ToSet(raw)
    BY <1>10, <2>1
  <2> QED
    BY <1>10, <2>2
<1>13. \A i, j \in 1..Len(streams) :
         i < j => FirstAt(raw, streams[i].url) < FirstAt(raw, streams[j].url)
  <2>1. \A i, j \in 1..Len(out) : i < j => at[i] < at[j]
    BY <1>3 DEF Sieved
  <2>2. \A i \in 1..Len(out) : FirstAt(raw, streams[i].url) = at[i]
    BY <1>9, <1>10
  <2>3. \A i, j \in 1..Len(out) :
          i < j => FirstAt(raw, streams[i].url) < FirstAt(raw, streams[j].url)
    BY <2>1, <2>2
  <2> QED
    BY <1>10, <2>3
<1>14. ASSUME NEW u \in CdnUrls \cap ToSet(raw)
       PROVE  \/ \E i \in 1..Len(streams) : streams[i].url = u
              \/ /\ Len(streams) = Candidates
                 /\ FirstAt(raw, u) > FirstAt(raw, streams[Candidates].url)
  <2>1. PICK k \in 1..n : raw[k] = u
    BY <1>5 DEF ToSet
  <2> DEFINE f == FirstAt(raw, u)
  <2>2. f \in 1..n /\ raw[f] = u
    BY <1>5, <2>1, FirstAtExists
  <2> HIDE DEF f, n
  <2>3. \/ \E a \in 1..Len(out) : at[a] = f
        \/ \E a \in 1..Len(out) : at[a] < f /\ <<out[a], raw[f]>> \in same
        \/ Len(out) = Candidates /\ \A a \in 1..Len(out) : at[a] < f
    BY <1>3, <2>2 DEF Sieved
  <2>4. ASSUME NEW a \in 1..Len(out), out[a] = u
        PROVE  \E i \in 1..Len(streams) : streams[i].url = u
    BY <1>10, <2>4
  <2>5. CASE \/ \E a \in 1..Len(out) : at[a] = f
             \/ \E a \in 1..Len(out) : at[a] < f /\ <<out[a], raw[f]>> \in same
    <3>1. \E a \in 1..Len(out) : out[a] = u
      BY <1>6, <1>7, <2>2, <2>5
    <3> QED
      BY <2>4, <3>1
  <2>6. CASE Len(out) = Candidates /\ \A a \in 1..Len(out) : at[a] < f
    <3>1. Candidates \in 1..Len(out)
      BY <1>5, <2>6
    <3>2. at[Candidates] < f /\ at[Candidates] \in Nat /\ f \in Nat
      BY <1>5, <1>7, <2>2, <2>6, <3>1 DEF n
    <3>3. FirstAt(raw, streams[Candidates].url) = at[Candidates]
      BY <1>9, <1>10, <3>1
    <3> QED
      BY <1>10, <2>6, <3>2, <3>3 DEF f
  <2> QED
    BY <2>3, <2>5, <2>6
<1> QED
  BY <1>11, <1>12, <1>13, <1>14 DEF TikTokPromise, FirstAt

LEMMA TikTokMapped ==
  ASSUME NEW body \in TikTokBodies, NEW r, tiktok_parse_and_map(body) = Ok(r)
  PROVE  /\ r \in MediaResponses
         /\ video_detail(body).statusCode = 0
         /\ TikTokPromise(Raw(video_detail(body).video), r.streams)
<1> DEFINE detail == video_detail(body)
           raw == Raw(detail.video)
           urls == survivors(raw)
           streams == [i \in 1..Len(urls) |-> [id |-> <<"number", i - 1>>, url |-> urls[i],
                                               expires |-> Missing]]
<1>1. HasVideo(body) /\ r = tiktok_map(detail.video)
  BY DEF tiktok_parse_and_map, Ok, Error
<1>2. detail.statusCode = 0 /\ detail # Missing /\ detail.video # Missing
  BY <1>1 DEF HasVideo
<1>3. detail \in Details \cup {Missing}
  BY DEF TikTokBodies, video_detail
<1>4. detail.video \in Videos
  BY <1>2, <1>3 DEF Details
<1>5. raw \in Seq(Urls)
  BY <1>4, RawTyped
<1>6. r = IF urls = << >> THEN nothing_to_resolve ELSE Answer(streams, << >>, Missing)
  BY <1>1 DEF tiktok_map
<1> HIDE DEF raw, detail
<1>7. streams \in Seq(Streams) /\ TikTokPromise(raw, streams)
  BY <1>5, TikTokStreams
<1>8. CASE urls = << >>
  <2>1. streams = << >>
    <3>1. Len(urls) = 0
      BY <1>8
    <3> HIDE DEF urls
    <3> QED
      BY <3>1
  <2>2. r = nothing_to_resolve /\ r.streams = streams
    BY <1>6, <1>8, <2>1 DEF nothing_to_resolve
  <2> QED
    BY <1>2, <1>7, <2>2, NothingTyped DEF raw, detail
<1>9. CASE urls # << >>
  <2> HIDE DEF streams, urls
  <2>1. r = Answer(streams, << >>, Missing) /\ r.streams = streams
    BY <1>6, <1>9 DEF Answer
  <2>2. << >> \in Texts /\ Missing \in Urls \cup {Missing}
    BY DEF Texts
  <2> QED
    BY <1>2, <1>7, <2>1, <2>2, AnswerTyped DEF raw, detail
<1> QED
  BY <1>8, <1>9
\* Two identifiers are the same up to the width of an integer exactly when the plugin
\* reads the same i64.
LEMMA SameIdentifier ==
  ASSUME NEW m \in (-(IdRange \div 2))..(IdRange - 1),
         NEW n \in (-(IdRange \div 2))..(IdRange - 1)
  PROVE  /\ SameId(m, n) <=> as_i64(m) = as_i64(n)
         /\ as_i64(m) \in Int
<1> DEFINE R == IdRange
           H == IdRange \div 2
<1>1. R \in Nat \ {0} /\ H \in Nat /\ R = 2 * H
  BY BandcampAssumption
<1>2. /\ as_i64(m) = IF m >= H THEN m - R ELSE m
      /\ as_i64(n) = IF n >= H THEN n - R ELSE n
      /\ SameId(m, n) <=> (m - n) % R = 0
  BY DEF as_i64, SameId
<1>3. m \in (-H)..(R - 1) /\ n \in (-H)..(R - 1)
  OBVIOUS
<1> HIDE DEF R, H
<1>4. \A d \in Int : -R < d /\ d < R => (d % R = 0 <=> d = 0)
  BY <1>1
<1>5. \A d \in Int : 0 < d /\ d < 2 * R => (d % R = 0 <=> d = R)
  BY <1>1
<1>6. \A d \in Int : -(2 * R) < d /\ d < 0 => (d % R = 0 <=> d = -R)
  BY <1>1
<1>7. CASE (m >= H /\ n >= H) \/ (m < H /\ n < H)
  <2>1. m - n \in Int /\ -R < m - n /\ m - n < R
    BY <1>1, <1>3, <1>7
  <2>2. (m - n) % R = 0 <=> m - n = 0
    BY <1>4, <2>1
  <2> QED
    BY <1>1, <1>2, <1>3, <1>7, <2>2
<1>8. CASE m >= H /\ n < H
  <2>1. m - n \in Int /\ 0 < m - n /\ m - n < 2 * R
    BY <1>1, <1>3, <1>8
  <2>2. (m - n) % R = 0 <=> m - n = R
    BY <1>5, <2>1
  <2> QED
    BY <1>1, <1>2, <1>3, <1>8, <2>2
<1>9. CASE m < H /\ n >= H
  <2>1. m - n \in Int /\ -(2 * R) < m - n /\ m - n < 0
    BY <1>1, <1>3, <1>9
  <2>2. (m - n) % R = 0 <=> m - n = -R
    BY <1>6, <2>1
  <2> QED
    BY <1>1, <1>2, <1>3, <1>9, <2>2
<1> QED
  BY <1>1, <1>3, <1>7, <1>8, <1>9

\* A track that names the page's identifier, in the field that counts.
Names(track, id) ==
  \/ track.track_id # Missing /\ SameId(track.track_id, id)
  \/ track.track_id = Missing /\ track.id # Missing /\ SameId(track.id, id)

LEMMA NamedIsMatching ==
  ASSUME NEW track \in Tracks, NEW id \in JsonIds, id # Missing
  PROVE  Names(track, id) <=> entry_id(track) = as_i64(id)
<1>1. /\ track.track_id \in JsonIds /\ track.id \in JsonIds
  BY DEF Tracks
<1>2. \A m \in JsonIds \ {Missing} : /\ SameId(m, id) <=> as_i64(m) = as_i64(id)
                                     /\ as_i64(id) \in Int
  BY SameIdentifier DEF JsonIds
<1>3. Missing \notin Int
  BY MediaAssumption
<1>4. as_i64(id) \in Int
  BY SameIdentifier DEF JsonIds
<1> QED
  BY <1>1, <1>2, <1>3, <1>4 DEF Names, entry_id

\* A title keeps its type when its entities are decoded.
LEMMA DecodedTyped ==
  ASSUME NEW text \in Texts
  PROVE  decode_entities(text) \in Texts
<1> DEFINE n == Len(text)
           parts == [i \in 1..n |-> CASE text[i] = "wide" -> <<"mangled", "mangled">>
                                      [] text[i] = "escaped" -> <<"wide">>
                                      [] OTHER -> <<text[i]>>]
<1>1. text \in Seq(Chars) /\ n \in Nat /\ \A i \in 1..n : text[i] \in Chars
  BY DEF Texts
<1>2. /\ <<"mangled", "mangled">> \in Seq(Chars) /\ <<"wide">> \in Seq(Chars)
      /\ \A c \in Chars : <<c>> \in Seq(Chars)
  BY DEF Chars
<1>3. ASSUME NEW i \in 1..n
      PROVE  (CASE text[i] = "wide" -> <<"mangled", "mangled">>
                [] text[i] = "escaped" -> <<"wide">>
                [] OTHER -> <<text[i]>>) \in Seq(Chars)
  BY <1>1, <1>2
<1>4. parts \in [1..n -> Seq(Chars)]
  BY <1>3
<1>5. decode_entities(text) = FlattenSeq(parts)
  BY DEF decode_entities
<1> HIDE DEF parts, n
<1>6. parts \in Seq(Seq(Chars))
  BY <1>1, <1>4, MapTyped
<1> QED
  BY <1>5, <1>6, FlattenTyped DEF Texts

\* The first file of a list with a URL.
FileAt(file, u) == CHOOSE i \in 1..Len(file) :
                     /\ file[i].media = u
                     /\ \A j \in 1..(i - 1) : file[j].media # u

Alive(f, t) == /\ f.media # ""
               /\ parse_expiry(f.media) = Missing \/ parse_expiry(f.media) > t

BandcampFile(file, t, streams) ==
  /\ {s.url : s \in ToSet(streams)} = {f.media : f \in {g \in ToSet(file) : Alive(g, t)}}
  /\ \A i, j \in 1..Len(streams) :
       i < j => FileAt(file, streams[i].url) < FileAt(file, streams[j].url)

LEMMA IsFileAt ==
  ASSUME NEW file, NEW u, Len(file) \in Nat, NEW m \in 1..Len(file), file[m].media = u,
         \A j \in 1..Len(file) : file[j].media = u => m <= j
  PROVE  FileAt(file, u) = m
<1> DEFINE Is(i) == file[i].media = u /\ \A j \in 1..(i - 1) : file[j].media # u
<1>1. Is(m)
  BY Len(file) \in Nat
<1>2. \A i \in 1..Len(file) : Is(i) => i = m
  <2>1. SUFFICES ASSUME NEW i \in 1..Len(file), Is(i) PROVE i = m
    OBVIOUS
  <2>2. m <= i
    BY <2>1
  <2>3. m < i => m \in 1..(i - 1)
    OBVIOUS
  <2> QED
    BY <2>1, <2>2, <2>3
<1>3. FileAt(file, u) = CHOOSE i \in 1..Len(file) : Is(i)
  BY DEF FileAt
<1> HIDE DEF Is
<1> QED
  BY <1>1, <1>2, <1>3

\* An expiry that is no conflict is absent or a time.
LEMMA ExpiryTyped ==
  ASSUME NEW url \in Urls, parse_expiry(url) # Conflict
  PROVE  parse_expiry(url) \in Nat \cup {Missing}
<1>1. QueryOf[url] \in Queries
  BY BandcampAssumption
<1>2. QueryOf[url].ts \in Seq(Nat \cup {IllTyped})
  BY <1>1 DEF Queries
<1>3. Len(QueryOf[url].ts) = 1 /\ QueryOf[url].ts[1] # IllTyped => QueryOf[url].ts[1] \in Nat
  BY <1>2
<1> QED
  BY <1>3 DEF parse_expiry
LEMMA RetainedStreams ==
  ASSUME NEW file \in Seq(Files), \A f \in ToSet(file) : FileOk(f), NEW t \in Nat, NEW streams,
         streams = [i \in 1..Len(Retained(file, t)) |-> BandcampStream(Retained(file, t)[i])]
  PROVE  streams \in Seq(Streams) /\ BandcampFile(file, t, streams)
<1> DEFINE out == Retained(file, t)
           n == Len(file)
           passing == {f \in ToSet(file) : f.media # "" /\ ~Expired(f.media, t)}
           same == {p \in Files \X Files : p[1].media = p[2].media}
<1>1. out = Sieve(file, passing, same, n)
  BY DEF Retained
<1> HIDE DEF passing, same, out
<1>2. out \in Seq(Files) /\ \E at : Sieved(out, file, n, passing, same, n, at)
  BY <1>1, SieveKept
<1>3. PICK at : Sieved(out, file, n, passing, same, n, at)
  BY <1>2
<1>4. streams = [i \in 1..Len(out) |-> BandcampStream(out[i])]
  BY DEF out
<1>5. n \in Nat /\ Len(out) \in Nat /\ DOMAIN file = 1..n
  BY <1>2
<1>6. \A f \in ToSet(file) : f \in Files
  BY DEF ToSet
<1>7. \A f \in ToSet(file) : f.media # "" =>
        /\ f.media \in Urls
        /\ parse_expiry(f.media) \in Nat \cup {Missing}
  <2>1. ASSUME NEW f \in ToSet(file), f.media # ""
        PROVE  f.media \in Urls /\ parse_expiry(f.media) # Conflict
    BY <2>1, SdkAssumption DEF FileOk
  <2> QED
    BY <2>1, ExpiryTyped
<1>8. \A f : f \in passing <=> f \in ToSet(file) /\ Alive(f, t)
  <2>1. ASSUME NEW f \in ToSet(file), f.media # ""
        PROVE  ~Expired(f.media, t)
                 <=> parse_expiry(f.media) = Missing \/ parse_expiry(f.media) > t
    <3>1. CASE parse_expiry(f.media) = Missing
      BY <3>1 DEF Expired
    <3>2. CASE parse_expiry(f.media) # Missing
      <4>1. parse_expiry(f.media) \in Nat
        BY <1>7, <2>1, <3>2
      <4> QED
        BY <3>2, <4>1 DEF Expired
    <3> QED
      BY <3>1, <3>2
  <2> QED
    BY <2>1 DEF Alive, passing
<1>9. \A f, g : <<f, g>> \in same <=> f \in Files /\ g \in Files /\ f.media = g.media
  BY DEF same
<1>10. \A k \in 1..n : file[k] \in ToSet(file) /\ file[k] \in Files
  BY <1>5, <1>6 DEF ToSet
<1> HIDE DEF n
<1>11. \A a \in 1..Len(out) : /\ at[a] \in 1..n /\ out[a] = file[at[a]]
                              /\ out[a] \in passing
  BY <1>3 DEF Sieved
<1>12. \A a \in 1..Len(out), j \in 1..n : file[j].media = out[a].media => at[a] <= j
  <2>1. \A i, j, k \in 1..n : <<file[i], file[j]>> \in same /\ <<file[j], file[k]>> \in same
                                => <<file[i], file[k]>> \in same
    BY <1>9
  <2>2. \A i, j \in 1..n : <<file[i], file[j]>> \in same /\ file[j] \in passing
                             => file[i] \in passing
    BY <1>8, <1>9, <1>10 DEF Alive
  <2>3. \A a \in 1..Len(out), j \in 1..n : <<file[j], out[a]>> \in same => at[a] <= j
    BY <1>2, <1>3, <1>5, <2>1, <2>2, SieveFirst
  <2>4. \A a \in 1..Len(out) : out[a] \in Files
    BY <1>10, <1>11
  <2> QED
    BY <1>9, <1>10, <2>3, <2>4
<1>13. ASSUME NEW a \in 1..Len(out) PROVE FileAt(file, out[a].media) = at[a]
  <2>1. /\ at[a] \in 1..n /\ file[at[a]].media = out[a].media
        /\ \A j \in 1..n : file[j].media = out[a].media => at[a] <= j
    BY <1>11, <1>12
  <2> QED
    BY <1>5, <2>1, IsFileAt DEF n
<1>14. /\ Len(streams) = Len(out) /\ 1..Len(streams) = 1..Len(out)
       /\ DOMAIN streams = 1..Len(out)
       /\ \A a \in 1..Len(out) : streams[a].url = out[a].media
  <2>1. DOMAIN streams = 1..Len(out) /\ Len(streams) = Len(out)
    BY <1>4, <1>5
  <2>2. \A a \in 1..Len(out) : streams[a] = BandcampStream(out[a])
    BY <1>4
  <2> QED
    BY <2>1, <2>2 DEF BandcampStream
<1>15. streams \in Seq(Streams)
  <2>1. ASSUME NEW a \in 1..Len(out) PROVE BandcampStream(out[a]) \in Streams
    <3>1. out[a] \in ToSet(file) /\ out[a].media # ""
      BY <1>8, <1>11 DEF Alive
    <3>2. out[a].id \in FormatIds
      BY <1>6, <3>1 DEF Files
    <3> QED
      BY <1>7, <3>1, <3>2 DEF BandcampStream, Streams, CandidateIds
  <2> DEFINE m == Len(out)
  <2>2. streams \in [1..m -> Streams] /\ m \in Nat
    BY <1>4, <1>5, <2>1
  <2> HIDE DEF m
  <2> QED
    BY <2>2, MapTyped
<1>16. \A i, j \in 1..Len(streams) :
         i < j => FileAt(file, streams[i].url) < FileAt(file, streams[j].url)
  <2>1. \A i, j \in 1..Len(out) : i < j => at[i] < at[j]
    BY <1>3 DEF Sieved
  <2>2. \A i \in 1..Len(out) : FileAt(file, streams[i].url) = at[i]
    BY <1>13, <1>14
  <2>3. \A i, j \in 1..Len(out) :
          i < j => FileAt(file, streams[i].url) < FileAt(file, streams[j].url)
    BY <2>1, <2>2
  <2> QED
    BY <1>14, <2>3
<1>17. {s.url : s \in ToSet(streams)} = {f.media : f \in {g \in ToSet(file) : Alive(g, t)}}
  <2>1. ASSUME NEW a \in 1..Len(out)
        PROVE  \E g \in ToSet(file) : Alive(g, t) /\ streams[a].url = g.media
    BY <1>8, <1>11, <1>14
  <2>2. ASSUME NEW g \in ToSet(file), Alive(g, t)
        PROVE  \E a \in 1..Len(out) : streams[a].url = g.media
    <3>1. PICK k \in 1..n : file[k] = g
      BY <1>5 DEF ToSet
    <3>2. file[k] \in passing
      BY <1>8, <2>2, <3>1
    <3>3. \/ \E a \in 1..Len(out) : at[a] = k
          \/ \E a \in 1..Len(out) : at[a] < k /\ <<out[a], file[k]>> \in same
      <4>1. n <= n
        BY <1>5
      <4> QED
        BY <1>2, <1>3, <1>5, <3>2, <4>1, SieveRoom
    <3>4. \E a \in 1..Len(out) : out[a].media = g.media
      <4>1. CASE \E a \in 1..Len(out) : at[a] = k
        BY <1>11, <3>1, <4>1
      <4>2. CASE \E a \in 1..Len(out) : at[a] < k /\ <<out[a], file[k]>> \in same
        BY <1>9, <3>1, <4>2
      <4> QED
        BY <3>3, <4>1, <4>2
    <3> QED
      BY <1>14, <3>4
  <2>3. \A s : s \in ToSet(streams) <=> \E a \in 1..Len(out) : s = streams[a]
    BY <1>14 DEF ToSet
  <2>4. \A u : u \in {s.url : s \in ToSet(streams)}
               <=> \E a \in 1..Len(out) : u = streams[a].url
    <3>1. SUFFICES ASSUME NEW u
                   PROVE  u \in {s.url : s \in ToSet(streams)}
                            <=> \E a \in 1..Len(out) : u = streams[a].url
      OBVIOUS
    <3>2. ASSUME NEW s \in ToSet(streams), u = s.url
          PROVE  \E a \in 1..Len(out) : u = streams[a].url
      BY <2>3, <3>2
    <3>3. ASSUME NEW a \in 1..Len(out), u = streams[a].url
          PROVE  u \in {s.url : s \in ToSet(streams)}
      <4>1. streams[a] \in ToSet(streams)
        BY <2>3
      <4> QED
        BY <3>3, <4>1
    <3> QED
      BY <3>2, <3>3
  <2>5. \A u : u \in {f.media : f \in {g \in ToSet(file) : Alive(g, t)}}
               <=> \E g \in ToSet(file) : Alive(g, t) /\ u = g.media
    OBVIOUS
  <2>6. \A u : (\E a \in 1..Len(out) : u = streams[a].url)
               <=> \E g \in ToSet(file) : Alive(g, t) /\ u = g.media
    BY <2>1, <2>2
  <2> QED
    BY <2>4, <2>5, <2>6
<1> QED
  BY <1>15, <1>16, <1>17 DEF BandcampFile

\* What Bandcamp makes of a page: the streams of the one track that names the page's
\* identifier.
BandcampPromise(body, t, streams) ==
  LET current == {k \in 1..Len(body.trackinfo) :
                    Names(body.trackinfo[k], body.current_id)}
  IN  /\ Cardinality(current) = 1
      /\ BandcampFile(body.trackinfo[CHOOSE k \in current : TRUE].file, t, streams)

LEMMA BandcampMapped ==
  ASSUME NEW body \in BandcampBodies, NEW t \in Nat, NEW r,
         bandcamp_parse_and_map(body, t) = Ok(r)
  PROVE  r \in MediaResponses /\ BandcampPromise(body, t, r.streams)
<1> DEFINE list == body.trackinfo
           some == {track \in ToSet(list) : entry_id(track) = as_i64(body.current_id)}
           out == Only(list, some)
           track == out[1]
<1>1. /\ TrackinfoOk(body) /\ Missing \notin ToSet(list)
      /\ Len(out) = 1 /\ SelectTrack(track, body.artist_refused, t) = Ok(r)
  BY DEF bandcamp_parse_and_map, Matching, Ok, Error
<1>2. body.current_id \in JsonIds /\ body.current_id # Missing
  BY <1>1 DEF TrackinfoOk, BandcampBodies
<1>3. list \in Seq(Tracks)
  <2>1. list \in Seq(Tracks \cup {Missing})
    BY <1>1 DEF TrackinfoOk, BandcampBodies
  <2>2. \A i \in 1..Len(list) : list[i] \in Tracks
    BY <1>1, <2>1 DEF ToSet
  <2> HIDE DEF list
  <2> QED
    BY <2>1, <2>2
<1>4. Len(list) \in Nat /\ DOMAIN list = 1..Len(list)
  BY <1>3
<1>5. \A k \in 1..Len(list) : list[k] \in some <=> Names(list[k], body.current_id)
  <2>1. \A k \in 1..Len(list) : list[k] \in Tracks /\ list[k] \in ToSet(list)
    BY <1>3, <1>4 DEF ToSet
  <2> HIDE DEF list
  <2> QED
    BY <1>2, <2>1, NamedIsMatching
<1> HIDE DEF some, list
<1>6. PICK p : Picks(out, list, some, p)
  BY <1>3, OnlyPicks
<1> HIDE DEF out
<1> DEFINE current == {k \in 1..Len(list) : Names(list[k], body.current_id)}
<1>7. /\ p[1] \in 1..Len(list) /\ track = list[p[1]] /\ track \in some
      /\ \A k \in 1..Len(list) : list[k] \in some => k = p[1]
  <2>1. 1 \in 1..Len(out) /\ \A a \in 1..Len(out) : a = 1
    BY <1>1
  <2> QED
    BY <1>6, <2>1 DEF Picks
<1>8. current = {p[1]}
  BY <1>5, <1>7
<1>9. track \in Tracks
  BY <1>3, <1>7
<1> HIDE DEF track, current
<1>10. Cardinality(current) = 1 /\ list[CHOOSE k \in current : TRUE] = track
  BY <1>7, <1>8, FS_Singleton
<1>11. /\ FileListOk(track) /\ \A f \in ToSet(track.file) : FileOk(f)
       /\ selected_string_ok(track.title) /\ r = bandcamp_map(track, t)
  BY <1>1 DEF SelectTrack, Ok, Error
<1>12. track.file \in Seq(Files) /\ track.title \in Titles
  BY <1>9, <1>11 DEF Tracks, FileListOk
<1> DEFINE kept == Retained(track.file, t)
           streams == [i \in 1..Len(kept) |-> BandcampStream(kept[i])]
           title == IF track.title = Missing THEN << >> ELSE decode_entities(track.title)
<1>13. r = Answer(streams, title, Missing)
  BY <1>11 DEF bandcamp_map
<1>14. streams \in Seq(Streams) /\ BandcampFile(track.file, t, streams)
  BY <1>11, <1>12, RetainedStreams
<1>15. title \in Texts
  <2>1. << >> \in Texts
    BY DEF Texts
  <2>2. track.title # Missing => track.title \in Texts
    BY <1>11, <1>12 DEF selected_string_ok, Titles
  <2> QED
    BY <2>1, <2>2, DecodedTyped
<1>16. Missing \in Urls \cup {Missing}
  OBVIOUS
<1> HIDE DEF streams, title
<1>17. r \in MediaResponses /\ r.streams = streams
  BY <1>13, <1>14, <1>15, <1>16, AnswerTyped DEF Answer
<1> QED
  BY <1>10, <1>14, <1>17 DEF BandcampPromise, current, list
------------------------------------------------------------------------------
(* What is delivered, and the type of the call's state.                      *)

\* A response was made from the body that was fetched.
Mapped(r) ==
  /\ reply \in Pages[plugin] /\ reply.kind = "response"
  /\ parse_and_map(reply.body) = Ok(r)

Provenance ==
  /\ now \in Nat /\ clock \in Nat
  /\ pc = "validate" => Mapped(response)
  /\ outcome.kind = "response" => pc = "done" /\ Mapped(outcome.response)

LEMMA FetchedIsResponse ==
  ASSUME Fetched
  PROVE  reply.kind = "response"
BY DEF Fetched, checked_response, HostError

\* What a plugin builds is what its parse_and_map made of the page it was sent.
LEMMA BuiltIsMapped ==
  ASSUME IInv, BuildResponse
  PROVE  /\ reply \in Pages[plugin] /\ reply.kind = "response"
         /\ parse_and_map(reply.body) = Ok(response')
<1>1. reply \in Pages[plugin] /\ reply.kind = "response"
  BY FetchedIsResponse DEF BuildResponse, IInv
<1>2. parse_and_map(reply.body) = Ok(response')
  <2>1. parse_and_map(reply.body).kind = "response"
          /\ response' = parse_and_map(reply.body).response
    BY DEF BuildResponse
  <2>2. CASE plugin = "x"
    BY <2>1, <2>2 DEF parse_and_map, x_parse_and_map, Ok, Error
  <2>3. CASE plugin = "tiktok"
    BY <2>1, <2>3 DEF parse_and_map, tiktok_parse_and_map, Ok, Error
  <2>4. CASE plugin = "bandcamp"
    <3>1. ASSUME NEW track, NEW refused,
                 SelectTrack(track, refused, now).kind = "response"
          PROVE  SelectTrack(track, refused, now)
                   = Ok(SelectTrack(track, refused, now).response)
      BY <3>1 DEF SelectTrack, Ok, Error
    <3>2. parse_and_map(reply.body) = bandcamp_parse_and_map(reply.body, now)
      BY <2>4 DEF parse_and_map
    <3> QED
      BY <2>1, <3>1, <3>2 DEF bandcamp_parse_and_map, Ok, Error
  <2> QED
    BY <2>2, <2>3, <2>4, SingleFetchAssumption DEF IInv
<1> QED
  BY <1>1, <1>2

LEMMA NextProvenance == IInv /\ Provenance /\ [Next]_vars => Provenance'
<1> SUFFICES ASSUME IInv, Provenance, [Next]_vars PROVE Provenance'
  OBVIOUS
<1> USE DEF Provenance
<1>1. ASSUME NEW e, ReturnError(e) PROVE Provenance'
  BY <1>1 DEF ReturnError
<1>2. CASE Get
  BY <1>2 DEF Get, IInv, Pending
<1>3. CASE \E r \in Pages[plugin] : HostReturns(r)
  BY <1>3 DEF HostReturns, IInv, Pending
<1>4. CASE BuildResponse
  <2>1. /\ reply \in Pages[plugin] /\ reply.kind = "response"
        /\ parse_and_map(reply.body) = Ok(response')
    BY <1>4, BuiltIsMapped DEF IInv
  <2>2. /\ pc' = "validate" /\ outcome' = outcome /\ outcome = Pending
        /\ UNCHANGED <<plugin, reply, now, clock>>
    BY <1>4 DEF BuildResponse, IInv
  <2>3. Mapped(response)'
    BY <2>1, <2>2 DEF Mapped, parse_and_map
  <2> QED
    BY <2>2, <2>3 DEF Pending
<1>5. CASE Return
  <2>1. CASE \E e : ReturnError(e)
    BY <1>1, <2>1
  <2>2. CASE /\ pc' = "done" /\ outcome' = [kind |-> "response", response |-> response]
             /\ UNCHANGED <<plugin, source, clock, now, reply, response>>
    <3>1. Mapped(response) /\ outcome'.response = response
      BY <1>5, <2>2 DEF Return
    <3>2. Mapped(outcome.response)'
      BY <2>2, <3>1 DEF Mapped, parse_and_map
    <3> QED
      BY <2>2, <3>2
  <2> QED
    BY <1>5, <2>1, <2>2 DEF Return
<1>6. CASE Tick \/ UNCHANGED vars
  <2>1. /\ UNCHANGED <<pc, plugin, now, reply, response, outcome>> /\ clock' \in Nat
    BY <1>6 DEF Tick, vars
  <2> QED
    BY <2>1 DEF Mapped, parse_and_map
<1> QED
  BY <1>1, <1>2, <1>3, <1>4, <1>5, <1>6
  DEF Next, Terminated, RejectSource, FailFetch, Refuse

LEMMA SpecProvenance == Spec => [](IInv /\ Provenance)
<1>1. Init => IInv /\ Provenance
  BY InitIInv DEF Init, Provenance, Pending
<1>2. IInv /\ Provenance /\ [Next]_vars => (IInv /\ Provenance)'
  BY NextIInv, NextProvenance
<1> QED
  BY <1>1, <1>2, PTL DEF Spec

\* The body of an answer is one the plugin may be shown.
LEMMA BodyTyped ==
  ASSUME plugin \in Plugins, reply \in Pages[plugin], reply.kind = "response"
  PROVE  reply.body \in BodiesOf(plugin)
BY SingleFetchAssumption DEF Replies

LEMMA MappedTyped ==
  ASSUME plugin \in Plugins, now \in Nat, NEW r, Mapped(r)
  PROVE  /\ r \in MediaResponses
         /\ plugin = "x" => XPromise(reply.body, r)
         /\ plugin = "tiktok" =>
              /\ video_detail(reply.body).statusCode = 0
              /\ TikTokPromise(Raw(video_detail(reply.body).video), r.streams)
         /\ plugin = "bandcamp" => BandcampPromise(reply.body, now, r.streams)
<1>1. reply.body \in BodiesOf(plugin) /\ parse_and_map(reply.body) = Ok(r)
  BY BodyTyped DEF Mapped
<1>2. CASE plugin = "x"
  <2>1. reply.body \in XBodies /\ x_parse_and_map(reply.body) = Ok(r)
    BY <1>1, <1>2 DEF BodiesOf, parse_and_map
  <2> QED
    BY <1>2, <2>1, XMapped
<1>3. CASE plugin = "tiktok"
  <2>1. reply.body \in TikTokBodies /\ tiktok_parse_and_map(reply.body) = Ok(r)
    BY <1>1, <1>3 DEF BodiesOf, parse_and_map
  <2> QED
    BY <1>3, <2>1, TikTokMapped
<1>4. CASE plugin = "bandcamp"
  <2>1. reply.body \in BandcampBodies /\ bandcamp_parse_and_map(reply.body, now) = Ok(r)
    BY <1>1, <1>4 DEF BodiesOf, parse_and_map
  <2> QED
    BY <1>4, <2>1, BandcampMapped
<1> QED
  BY <1>2, <1>3, <1>4, SingleFetchAssumption

\* X delivers the best of what the first attachment with video offers, whatever the
\* post holds.
THEOREM XDeliversTheBest == Spec => []XTakesTheBest
<1>1. IInv /\ Provenance => XTakesTheBest
  <2> SUFFICES ASSUME IInv, Provenance, Delivers("x") PROVE XTakesTheBest
    BY DEF XTakesTheBest
  <2>1. XPromise(reply.body, outcome.response)
    BY MappedTyped DEF IInv, Provenance, Delivers, Delivered
  <2> QED
    BY <2>1 DEF XTakesTheBest, XPromise, TakesTheBest, Carriers, Out
<1> QED
  BY <1>1, SpecProvenance, PTL

\* TikTok delivers every CDN address of the page that fits, once and in order.
THEOREM TikTokDeliversThePage == Spec => []TikTokKeepsThePage
<1>1. IInv /\ Provenance => TikTokKeepsThePage
  <2> SUFFICES ASSUME IInv, Provenance, Delivers("tiktok") PROVE TikTokKeepsThePage
    BY DEF TikTokKeepsThePage
  <2>1. /\ video_detail(reply.body).statusCode = 0
        /\ TikTokPromise(Raw(video_detail(reply.body).video), outcome.response.streams)
    BY MappedTyped DEF IInv, Provenance, Delivers, Delivered
  <2> QED
    BY <2>1 DEF TikTokKeepsThePage, TikTokPromise, video_detail, Out
<1> QED
  BY <1>1, SpecProvenance, PTL

\* Bandcamp delivers the streams of the page's current track, and only those, that
\* had not expired when the call began.
THEOREM BandcampDeliversTheTrack == Spec => []BandcampPlaysTheCurrentTrack
<1>1. IInv /\ Provenance => BandcampPlaysTheCurrentTrack
  <2> SUFFICES ASSUME IInv, Provenance, Delivers("bandcamp")
               PROVE  BandcampPlaysTheCurrentTrack
    BY DEF BandcampPlaysTheCurrentTrack
  <2>1. BandcampPromise(reply.body, now, outcome.response.streams)
    BY MappedTyped DEF IInv, Provenance, Delivers, Delivered
  <2> QED
    BY <2>1 DEF BandcampPlaysTheCurrentTrack, BandcampPromise, BandcampFile, Names, Alive,
                FileAt, Out
<1> QED
  BY <1>1, SpecProvenance, PTL
ErrorRecords == [kind : ResolverErrorKinds, retryable : BOOLEAN]

LEMMA ErrorTables ==
  /\ malformed \in ErrorRecords /\ private \in ErrorRecords /\ unavailable \in ErrorRecords
  /\ policy \in ErrorRecords /\ invalid_input \in ErrorRecords /\ unsupported \in ErrorRecords
  /\ \A s : status(s) \in ErrorRecords
  /\ \A e \in HttpsErrors : TransportError(e) \in ErrorRecords
<1> USE DEF ErrorRecords, ResolverErrorKinds, ResolverError
<1>1. /\ malformed \in ErrorRecords /\ private \in ErrorRecords /\ unavailable \in ErrorRecords
      /\ policy \in ErrorRecords /\ invalid_input \in ErrorRecords
      /\ unsupported \in ErrorRecords
  BY DEF malformed, private, unavailable, policy, invalid_input, unsupported
<1>2. /\ ResolverError("RateLimited", TRUE) \in ErrorRecords
      /\ ResolverError("UpstreamFailure", TRUE) \in ErrorRecords
      /\ ResolverError("UpstreamFailure", FALSE) \in ErrorRecords
      /\ ResolverError("Timeout", TRUE) \in ErrorRecords
  OBVIOUS
<1> HIDE DEF ErrorRecords, ResolverErrorKinds, ResolverError
<1>3. \A s : status(s) \in ErrorRecords
  BY <1>1, <1>2 DEF status
<1>4. ASSUME NEW e \in HttpsErrors PROVE TransportError(e) \in ErrorRecords
  <2>1. x_transport(e) \in ErrorRecords
    BY <1>1, <1>2 DEF x_transport, HttpsErrors
  <2> QED
    BY <1>1, <1>2, <2>1 DEF TransportError
<1> QED
  BY <1>1, <1>3, <1>4

LEMMA FetchErrorTyped ==
  ASSUME plugin \in Plugins, reply \in Pages[plugin], ~Fetched
  PROVE  FetchError \in ErrorRecords
<1> DEFINE checked == checked_response(reply)
<1>1. reply \in Replies(BodiesOf(plugin))
  BY SingleFetchAssumption
<1>2. reply.kind = "error" => reply.error \in HttpsErrors
  BY <1>1 DEF Replies
<1>3. checked.kind = "error" => checked.error \in HttpsErrors
  BY <1>2 DEF checked_response, HostError, HttpsErrors
<1> HIDE DEF checked
<1>4. CASE checked.kind = "error"
  BY <1>3, <1>4, ErrorTables DEF FetchError, checked
<1>5. CASE checked.kind # "error"
  BY <1>5, ErrorTables DEF FetchError, StatusError, checked
<1> QED
  BY <1>4, <1>5

LEMMA RefusalTyped ==
  ASSUME plugin \in Plugins, NEW body, parse_and_map(body).kind = "error"
  PROVE  parse_and_map(body).error \in ErrorRecords
<1> USE ErrorTables DEF Error, Ok
<1>1. CASE plugin = "x"
  BY <1>1 DEF parse_and_map, x_parse_and_map
<1>2. CASE plugin = "tiktok"
  BY <1>2 DEF parse_and_map, tiktok_parse_and_map
<1>3. CASE plugin = "bandcamp"
  <2>1. ASSUME NEW track, NEW refused, SelectTrack(track, refused, now).kind = "error"
        PROVE  SelectTrack(track, refused, now).error \in ErrorRecords
    BY <2>1 DEF SelectTrack
  <2>2. parse_and_map(body) = bandcamp_parse_and_map(body, now)
    BY <1>3 DEF parse_and_map
  <2> QED
    BY <2>1, <2>2 DEF bandcamp_parse_and_map
<1> QED
  BY <1>1, <1>2, <1>3, SingleFetchAssumption

LEMMA InitTyped == Init => TypeOK
BY SingleFetchAssumption, NothingTyped DEF Init, TypeOK, Sources, Outcomes, Pending

LEMMA NextTyped == TypeOK /\ IInv /\ Provenance /\ [Next]_vars => TypeOK'
<1> SUFFICES ASSUME TypeOK, IInv, Provenance, [Next]_vars PROVE TypeOK'
  OBVIOUS
<1>1. ASSUME NEW e \in ErrorRecords, ReturnError(e) PROVE TypeOK'
  <2>1. outcome' \in Outcomes
    BY <1>1 DEF ReturnError, Outcomes, ErrorRecords
  <2> QED
    BY <1>1, <2>1 DEF ReturnError, TypeOK
<1>2. CASE RejectSource
  BY <1>1, <1>2, ErrorTables DEF RejectSource
<1>3. CASE Get
  <2>1. clock \in 0..MaxClock /\ clock \in 0..clock
    BY SingleFetchAssumption DEF TypeOK
  <2> QED
    BY <1>3, <2>1 DEF Get, TypeOK
<1>4. CASE \E r \in Pages[plugin] : HostReturns(r)
  BY <1>4 DEF HostReturns, TypeOK
<1>5. CASE FailFetch
  BY <1>1, <1>5, FetchErrorTyped DEF FailFetch, IInv
<1>6. CASE Refuse
  BY <1>1, <1>6, RefusalTyped DEF Refuse, IInv
<1>7. CASE BuildResponse
  <2>1. Mapped(response')
    BY <1>7, BuiltIsMapped DEF Mapped
  <2>2. response' \in MediaResponses
    BY <2>1, MappedTyped DEF IInv, Provenance
  <2> QED
    BY <1>7, <2>2 DEF BuildResponse, TypeOK
<1>8. CASE Return
  <2>1. CASE ReturnError(malformed)
    BY <1>1, <2>1, ErrorTables
  <2>2. CASE /\ pc' = "done" /\ outcome' = [kind |-> "response", response |-> response]
             /\ UNCHANGED <<plugin, source, clock, now, reply, response>>
    <3>1. outcome' \in Outcomes
      BY <2>2 DEF TypeOK, Outcomes
    <3> QED
      BY <2>2, <3>1 DEF TypeOK
  <2> QED
    BY <1>8, <2>1, <2>2 DEF Return
<1>9. CASE Tick
  <2>1. clock + 1 \in 0..MaxClock /\ now \in 0..(clock + 1)
    BY <1>9, SingleFetchAssumption DEF Tick, TypeOK
  <2> QED
    BY <1>9, <2>1 DEF Tick, TypeOK
<1>10. CASE UNCHANGED vars
  BY <1>10 DEF vars, TypeOK
<1> QED
  BY <1>2, <1>3, <1>4, <1>5, <1>6, <1>7, <1>8, <1>9, <1>10 DEF Next, Terminated

\* The call's state keeps its type: every answer of the three plugins is a response of
\* the contract, and every error has a kind of it.
THEOREM TypeCorrect == Spec => []TypeOK
<1>1. TypeOK /\ IInv /\ Provenance /\ [Next]_vars => TypeOK'
  BY NextTyped
<1> QED
  BY <1>1, InitTyped, SpecProvenance, PTL DEF Spec
==============================================================================
