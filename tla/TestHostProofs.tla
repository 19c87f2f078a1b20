--------------------------- MODULE TestHostProofs ---------------------------
(***************************************************************************)
(* Proofs about the two hosts that plugins are tested against.             *)
(*                                                                         *)
(* The fixture engine, for every set of requests, replies and scripts: the *)
(* inductive invariant is TypeOK with the split of the script into         *)
(* transcript and queue; everything else follows from it and from the fact *)
(* that the field-by-field comparison decides equality of requests.        *)
(*                                                                         *)
(* The mock client, for every queue and every sequence of calls: the queue *)
(* alone does not tell which position comes next; the invariant MockQueue  *)
(* ties it to the number of calls made, and MockFlag ties the mismatch     *)
(* flag to what they were.                                                 *)
(***************************************************************************)
EXTENDS FixtureEngine, MockClient, SequenceTheorems, TLAPS

IInv == TypeOK /\ TranscriptAndQueueSplitScript

------------------------------------------------------------------------------
\* first_mismatch (fixture.rs:233-258) answers None exactly for equal requests.
LEMMA MismatchDecidesEquality ==
  ASSUME NEW e \in RequestRecords, NEW a \in RequestRecords
  PROVE  FirstMismatch(e, a) = NoMismatch <=> e = a
<1> DEFINE differ == {i \in 1..Len(e.fields) : e.fields[i] # a.fields[i]}
<1>1. CASE e = a
  <2>1. differ = {}
    BY <1>1
  <2> QED
    BY <1>1, <2>1 DEF FirstMismatch, NoMismatch
<1>2. CASE /\ e.policy = a.policy /\ e.operation = a.operation
           /\ e.canonical_url = a.canonical_url
           /\ Len(e.fields) = Len(a.fields) /\ e # a
  <2>1. e.fields # a.fields
    BY <1>2 DEF RequestRecords
  <2>2. differ # {}
    BY <1>2, <2>1 DEF RequestRecords
  <2>3. PICK x, y, i : FirstMismatch(e, a) = FieldMismatch(x, y, i)
    BY <1>2, <2>2 DEF FirstMismatch
  <2> QED
    BY <1>2, <2>3 DEF FieldMismatch, NoMismatch
<1>3. CASE \/ e.policy # a.policy \/ e.operation # a.operation
           \/ e.canonical_url # a.canonical_url
           \/ Len(e.fields) # Len(a.fields)
  BY <1>3 DEF FirstMismatch, NoMismatch
<1> QED
  BY <1>1, <1>2, <1>3

\* A sequence is its first n elements and the last one appended.
LEMMA AppendLast ==
  ASSUME NEW S, NEW n \in Nat, NEW g \in [1..n + 1 -> S]
  PROVE  Append([i \in 1..n |-> g[i]], g[n + 1]) = g
<1> DEFINE s == [i \in 1..n |-> g[i]]
<1>1. s \in Seq(S) /\ Len(s) = n /\ \A i \in 1..n : s[i] = g[i]
  OBVIOUS
<1>2. g \in Seq(S) /\ Len(g) = n + 1 /\ g[n + 1] \in S
  OBVIOUS
<1> HIDE DEF s
<1>3. /\ Append(s, g[n + 1]) \in Seq(S)
      /\ Len(Append(s, g[n + 1])) = n + 1
      /\ \A i \in 1..n : Append(s, g[n + 1])[i] = s[i]
      /\ Append(s, g[n + 1])[n + 1] = g[n + 1]
  BY <1>1, <1>2, AppendProperties
<1>4. \A i \in 1..n + 1 : Append(s, g[n + 1])[i] = g[i]
  BY <1>1, <1>3
<1>5. Append(s, g[n + 1]) = g
  BY <1>2, <1>3, <1>4, SeqEqual
<1> QED
  BY <1>5 DEF s

\* A script is a sequence of exchanges.
LEMMA ScriptIsSeq ==
  ASSUME TypeOK
  PROVE  script \in Seq(Exchanges)
BY DataAssumption DEF TypeOK

\* The inductive invariant holds initially and is kept by every call.
LEMMA InitIInv == Init => IInv
<1> SUFFICES ASSUME Init PROVE IInv
  OBVIOUS
<1>1. script \in Seq(Exchanges)
  BY DataAssumption DEF Init
<1>2. SubSeq(script, 1, Len(script)) = script
  BY <1>1, SubSeqFull
<1> QED
  BY <1>1, <1>2 DEF Init, IInv, TypeOK, TranscriptAndQueueSplitScript

\* A match takes the front of the remainder and appends its observation.
LEMMA MatchedStep ==
  ASSUME IInv, NEW actual \in Requests, SendMatched(actual)
  PROVE  /\ IInv'
         /\ next_index + 1 \in 1..Len(script)
         /\ Head(pending) = script[next_index + 1]
<1> USE DEF IInv, TypeOK
<1> DEFINE front == script[next_index + 1]
<1>1. script \in Seq(Exchanges) /\ Len(script) \in Nat /\ next_index \in Nat
  BY ScriptIsSeq
<1>2. next_index + 1 \in 1..Len(script)
  BY <1>1, SubSeqEmpty DEF SendMatched, TranscriptAndQueueSplitScript
<1>3. /\ Head(pending) = front
      /\ Tail(pending) = SubSeq(script, next_index + 2, Len(script))
  <2>1. Len(script) \in next_index + 1..Len(script)
    BY <1>1, <1>2
  <2> QED
    BY <1>1, <1>2, <2>1, HeadTailOfSubSeq DEF TranscriptAndQueueSplitScript
<1>4. front \in Exchanges /\ Tail(pending) \in Seq(Exchanges)
  BY <1>1, <1>2, HeadTailProperties DEF SendMatched
<1>5. Append(observations, observe(next_index, front))
        = [i \in 1..next_index + 1 |-> observe(i - 1, script[i])]
  <2> DEFINE after == [i \in 1..next_index + 1 |-> observe(i - 1, script[i])]
             Seen == {observe(i - 1, script[i]) : i \in 1..next_index + 1}
  <2>1. after \in [1..next_index + 1 -> Seen]
    OBVIOUS
  <2>2. observations = [i \in 1..next_index |-> after[i]]
    BY <1>1 DEF TranscriptAndQueueSplitScript
  <2>3. after[next_index + 1] = observe(next_index, front)
    BY <1>1
  <2> HIDE DEF Seen, after
  <2>4. Append(observations, observe(next_index, front)) = after
    BY <1>1, <2>1, <2>2, <2>3, AppendLast
  <2> QED
    BY <2>4 DEF after
<1> QED
  BY <1>1, <1>2, <1>3, <1>4, <1>5 DEF SendMatched, TranscriptAndQueueSplitScript

\* Every call of the client keeps the invariant.
LEMMA NextIInv == IInv /\ [Next]_vars => IInv'
<1> SUFFICES ASSUME IInv, [Next]_vars PROVE IInv'
  OBVIOUS
<1> USE DEF IInv
<1>1. ASSUME NEW actual \in Requests, SendMatched(actual) PROVE IInv'
  BY <1>1, MatchedStep
<1>2. ASSUME NEW actual \in Requests, SendMismatched(actual) PROVE IInv'
  BY <1>2 DEF SendMismatched, TypeOK, TranscriptAndQueueSplitScript
<1>3. ASSUME NEW actual \in Requests, SendUnexpected(actual) PROVE IInv'
  BY <1>3 DEF SendUnexpected, TypeOK, TranscriptAndQueueSplitScript
<1>4. CASE FinishOk
  BY <1>4 DEF FinishOk, TypeOK, TranscriptAndQueueSplitScript
<1>5. CASE FinishFailed
  BY <1>5 DEF FinishFailed, TypeOK, TranscriptAndQueueSplitScript
<1>6. CASE UNCHANGED vars
  BY <1>6 DEF vars, TypeOK, TranscriptAndQueueSplitScript
<1> QED
  BY <1>1, <1>2, <1>3, <1>4, <1>5, <1>6 DEF Next

\* The invariant holds in every reachable state.
LEMMA SpecIInv == Spec => []IInv
BY InitIInv, NextIInv, PTL DEF Spec

\* Every call leaves the engine's state well typed.
THEOREM TypeCorrect == Spec => []TypeOK
BY SpecIInv, PTL DEF IInv

\* Transcript and queue are the two halves of the script at all times: send and
\* finish (fixture.rs:173-230) lose, repeat and reorder nothing.
THEOREM SplitCorrect == Spec => []TranscriptAndQueueSplitScript
BY SpecIInv, PTL DEF IInv

------------------------------------------------------------------------------
\* A failed call changes nothing and a successful send moves exactly one
\* exchange: first_mismatch is decided before pop_front (fixture.rs:174-202).
THEOREM AdvanceCorrect == Spec => OnlyMatchesAdvance
<1> DEFINE Advance == /\ result'.call = "send" /\ result'.ok
                      /\ result'.request = script[next_index + 1].request
                      /\ result'.reply = script[next_index + 1].reply
                      /\ next_index' = next_index + 1
<1>1. ASSUME IInv, [Next]_vars
      PROVE  Advance \/ UNCHANGED <<pending, next_index, observations>> \/ UNCHANGED vars
  <2>1. ASSUME NEW actual \in Requests, SendMatched(actual) PROVE Advance
    <3>1. /\ next_index + 1 \in 1..Len(script)
          /\ Head(pending) = script[next_index + 1]
      BY <1>1, <2>1, MatchedStep
    <3>2. script \in Seq(Exchanges)
      BY <1>1, ScriptIsSeq DEF IInv
    <3>3. script[next_index + 1].request \in RequestRecords
      <4>1. script[next_index + 1] \in Exchanges
        BY <3>1, <3>2, ElementOfSeq
      <4> QED
        BY <4>1, DataAssumption DEF Exchanges
    <3>4. script[next_index + 1].request = actual
      BY <2>1, <3>1, <3>3, MismatchDecidesEquality, DataAssumption DEF SendMatched
    <3> QED
      BY <2>1, <3>1, <3>4 DEF SendMatched
  <2> QED
    BY <1>1, <2>1 DEF Next, SendMismatched, SendUnexpected, FinishOk, FinishFailed
<1> QED
  BY <1>1, SpecIInv, PTL DEF Spec, OnlyMatchesAdvance

\* finish accepts exactly when the script has been replayed to its end, whatever
\* else was sent in between, and hands out the whole transcript; a refusal names
\* the first exchange left and counts what is left (FixtureEngine::finish,
\* fixture.rs:216-230).
THEOREM FinishCorrect == Spec => []FinishVerdict
<1>1. Init => FinishVerdict
  BY DEF Init, FinishVerdict
<1>2. ASSUME IInv, FinishVerdict, [Next]_vars PROVE FinishVerdict'
  <2>1. /\ script \in Seq(Exchanges) /\ Len(script) \in Nat
        /\ next_index \in Nat /\ next_index <= Len(script)
    BY <1>2, ScriptIsSeq DEF IInv, TypeOK, TranscriptAndQueueSplitScript
  <2>2. Len(pending) = Len(script) - next_index
    <3>1. \A i \in next_index + 1..Len(script) : script[i] \in Exchanges
      BY <2>1, ElementOfSeq
    <3> QED
      BY <1>2, <2>1, <3>1, SubSeqProperties DEF IInv, TranscriptAndQueueSplitScript
  <2>3. CASE \E actual \in Requests :
               SendMatched(actual) \/ SendMismatched(actual) \/ SendUnexpected(actual)
    BY <2>3 DEF SendMatched, SendMismatched, SendUnexpected, FinishVerdict
  <2>4. CASE FinishOk
    <3>1. next_index = Len(script)
      BY <2>1, <2>2, <2>4 DEF FinishOk
    <3>2. observations = [i \in 1..Len(script) |-> observe(i - 1, script[i])]
      BY <1>2, <3>1 DEF IInv, TranscriptAndQueueSplitScript
    <3> QED
      BY <2>4, <3>1, <3>2 DEF FinishOk, FinishVerdict
  <2>5. CASE FinishFailed
    BY <2>1, <2>2, <2>5 DEF FinishFailed, FinishVerdict, FixtureFailure, Queue
  <2>6. CASE UNCHANGED vars
    BY <1>2, <2>6 DEF vars, FinishVerdict
  <2> QED
    BY <1>2, <2>3, <2>4, <2>5, <2>6 DEF Next
<1> QED
  BY <1>1, <1>2, SpecIInv, PTL DEF Spec

\* The queue, the index and the transcript implement the scripted host.
THEOREM Refinement == Spec => ImplementsScriptedHost
<1>1. Init => Host!Init
  <2> SUFFICES ASSUME Init PROVE Host!Init
    OBVIOUS
  <2>1. Len(observations) = 0
    BY DEF Init
  <2> QED
    BY <2>1 DEF Init, Host!Init, Answer
<1>2. ASSUME IInv, IInv', [Next]_vars PROVE [Host!Next]_Host!vars
  <2>1. /\ script \in Seq(Exchanges) /\ Len(script) \in Nat
        /\ next_index \in Nat /\ next_index <= Len(script)
        /\ Len(observations) = next_index /\ Len(observations') = next_index'
        /\ Len(pending) = Len(script) - next_index
    <3>1. script \in Seq(Exchanges)
      BY <1>2, ScriptIsSeq DEF IInv
    <3>2. Len(observations) = next_index
      BY <1>2 DEF IInv, TypeOK, TranscriptAndQueueSplitScript
    <3>3. Len(observations') = next_index'
      BY <1>2 DEF IInv, TypeOK, TranscriptAndQueueSplitScript
    <3>4. \A i \in next_index + 1..Len(script) : script[i] \in Exchanges
      BY <1>2, <3>1, ElementOfSeq DEF IInv, TypeOK
    <3>5. Len(pending) = Len(script) - next_index
      BY <1>2, <3>1, <3>4, SubSeqProperties
      DEF IInv, TypeOK, TranscriptAndQueueSplitScript
    <3> QED
      BY <1>2, <3>1, <3>2, <3>3, <3>5 DEF IInv, TypeOK, TranscriptAndQueueSplitScript
  <2>2. ASSUME next_index < Len(script)
        PROVE  /\ Head(pending) = script[next_index + 1]
               /\ script[next_index + 1].request \in RequestRecords
    <3>1. Head(pending) = script[next_index + 1]
      BY <1>2, <2>1, <2>2, HeadTailOfSubSeq DEF IInv, TranscriptAndQueueSplitScript
    <3>2. script[next_index + 1] \in Exchanges
      BY <2>1, <2>2, ElementOfSeq
    <3> QED
      BY <3>1, <3>2, DataAssumption DEF Exchanges
  <2>3. ASSUME NEW actual \in Requests, SendMatched(actual) PROVE Host!Replay(actual)
    <3>1. next_index < Len(script) /\ Head(pending) = script[next_index + 1]
      BY <1>2, <2>3, <2>1, MatchedStep
    <3>2. script[next_index + 1].request = actual
      BY <2>2, <2>3, <3>1, MismatchDecidesEquality, DataAssumption DEF SendMatched
    <3> QED
      BY <2>1, <2>3, <3>1, <3>2 DEF SendMatched, Host!Replay, Answer
  <2>4. ASSUME NEW actual \in Requests, SendMismatched(actual) PROVE Host!Refuse(actual)
    <3>1. next_index < Len(script)
      BY <2>1, <2>4 DEF SendMismatched
    <3>2. script[next_index + 1].request # actual
      BY <2>2, <2>4, <3>1, MismatchDecidesEquality, DataAssumption DEF SendMismatched
    <3> QED
      BY <2>1, <2>4, <3>1, <3>2 DEF SendMismatched, Host!Refuse, Answer
  <2>5. ASSUME NEW actual \in Requests, SendUnexpected(actual) PROVE Host!Refuse(actual)
    BY <2>1, <2>5 DEF SendUnexpected, Host!Refuse, Answer
  <2>6. CASE FinishOk
    <3>1. (Len(observations) = Len(script)) = TRUE
      BY <2>1, <2>6 DEF FinishOk
    <3>2. Answer' = [call |-> "finish", ok |-> TRUE]
      BY <2>6 DEF FinishOk, Answer
    <3>3. Host!Finish
      BY <2>6, <3>1, <3>2 DEF FinishOk, Host!Finish
    <3> QED
      BY <3>3 DEF Host!Next
  <2>7. CASE FinishFailed
    <3>1. (Len(observations) = Len(script)) = FALSE
      BY <2>1, <2>7 DEF FinishFailed
    <3>2. Answer' = [call |-> "finish", ok |-> FALSE]
      BY <2>7 DEF FinishFailed, Answer
    <3>3. Host!Finish
      BY <2>7, <3>1, <3>2 DEF FinishFailed, Host!Finish
    <3> QED
      BY <3>3 DEF Host!Next
  <2>8. CASE UNCHANGED vars
    BY <2>8 DEF vars, Host!vars, Answer
  <2> QED
    BY <1>2, <2>3, <2>4, <2>5, <2>6, <2>7, <2>8 DEF Next, Host!Next
<1> QED
  BY <1>1, <1>2, SpecIInv, PTL DEF Spec, ImplementsScriptedHost, Host!Spec

\* A blank value has the length of the value it stands for.
LEMMA BlankKeepsLength ==
  ASSUME NEW v \in Values
  PROVE  ByteCount[Blank(v)] = ByteCount[v]
BY DEF Blank

\* A name and its blank are shown alike.
LEMMA NamesHideSpelling ==
  ASSUME NEW n \in Names
  PROVE  sanitize_name(BlankName(n)) = sanitize_name(n)
<1>1. CASE n.valid
  BY <1>1 DEF BlankName, sanitize_name, Names
<1>2. CASE ~n.valid
  <2>1. ~BlankName(n).valid
    BY <1>2 DEF BlankName
  <2> QED
    BY <1>2, <2>1 DEF sanitize_name
<1> QED
  BY <1>1, <1>2

\* A URL and its blank are shown alike.
LEMMA UrlsHideQueries ==
  ASSUME NEW u \in Urls
  PROVE  sanitize_url(BlankUrl(u)) = sanitize_url(u)
<1>1. CASE u.canonical
  BY <1>1 DEF BlankUrl, sanitize_url, Urls
<1>2. CASE ~u.canonical
  <2>1. ~BlankUrl(u).canonical
    BY <1>2 DEF BlankUrl
  <2> QED
    BY <1>2, <2>1 DEF sanitize_url
<1> QED
  BY <1>1, <1>2

\* Observed fields do not tell whether their values and names are blank.
LEMMA FieldsHideValues ==
  ASSUME NEW fields \in Seq(Fields)
  PROVE  ObserveFields(BlankFields(fields)) = ObserveFields(fields)
<1> DEFINE blank == BlankFields(fields)
<1>1. Len(fields) \in Nat /\ DOMAIN fields = 1..Len(fields)
  OBVIOUS
<1>2. DOMAIN blank = 1..Len(fields) /\ Len(blank) = Len(fields)
  BY <1>1 DEF BlankFields
<1>3. ASSUME NEW i \in 1..Len(fields)
      PROVE  /\ blank[i].category = fields[i].category
             /\ ByteCount[blank[i].value] = ByteCount[fields[i].value]
             /\ sanitize_name(blank[i].name) = sanitize_name(fields[i].name)
  <2>0. fields[i] \in Fields
    BY ElementOfSeq
  <2>1. fields[i] \in Fields /\ fields[i].value \in Values
          /\ fields[i].name \in Names
    BY <2>0 DEF Fields
  <2>2. blank[i] = [fields[i] EXCEPT !.value = Blank(@), !.name = BlankName(@)]
    BY DEF BlankFields
  <2>3. /\ blank[i].category = fields[i].category
        /\ blank[i].value = Blank(fields[i].value)
        /\ blank[i].name = BlankName(fields[i].name)
    BY <2>1, <2>2 DEF Fields
  <2>4. QED
    BY <2>1, <2>3, BlankKeepsLength, NamesHideSpelling
<1> HIDE DEF blank
<1>4. QED
  BY <1>2, <1>3 DEF ObserveFields, blank

\* Nor does a whole observation tell more of its exchange than the blank one.
LEMMA ObservationHidesValues ==
  ASSUME NEW x \in Exchanges, NEW k
  PROVE  observe(k, BlankExchange(x)) = observe(k, x)
<1> DEFINE y == BlankExchange(x)
<1>1. x.request \in RequestRecords /\ x.reply \in ReplyRecords
  BY DataAssumption DEF Exchanges
<1>2. /\ y.request = [x.request EXCEPT !.policy = BlankName(@),
                                     !.canonical_url = BlankUrl(@),
                                     !.fields = BlankFields(@)]
      /\ y.reply = IF x.reply.kind = "Response"
                   THEN [x.reply EXCEPT !.headers = BlankFields(@), !.body = Blank(@)]
                   ELSE [x.reply EXCEPT !.diagnostic = Blank(@)]
  BY DEF BlankExchange
<1> HIDE DEF y
<1>3. /\ y.request.policy = BlankName(x.request.policy)
      /\ y.request.operation = x.request.operation
      /\ y.request.canonical_url = BlankUrl(x.request.canonical_url)
      /\ y.request.fields = BlankFields(x.request.fields)
  BY <1>1, <1>2 DEF RequestRecords
<1>4. /\ sanitize_url(y.request.canonical_url) = sanitize_url(x.request.canonical_url)
      /\ sanitize_name(y.request.policy) = sanitize_name(x.request.policy)
  BY <1>1, <1>3, UrlsHideQueries, NamesHideSpelling DEF RequestRecords
<1>5. ObserveFields(y.request.fields) = ObserveFields(x.request.fields)
  BY <1>1, <1>3, FieldsHideValues DEF RequestRecords
<1>6. ObserveReply(y.reply) = ObserveReply(x.reply)
  <2>1. CASE x.reply.kind = "Response"
    <3>1. /\ x.reply.headers \in Seq(Fields) /\ x.reply.body \in Values
          /\ y.reply = [x.reply EXCEPT !.headers = BlankFields(@), !.body = Blank(@)]
          /\ x.reply \in [kind : {"Response"}, status : Statuses,
                          headers : Seq(Fields), body : Values]
      BY <1>1, <1>2, <2>1 DEF ReplyRecords
    <3>2. /\ y.reply.kind = "Response" /\ y.reply.status = x.reply.status
          /\ y.reply.headers = BlankFields(x.reply.headers)
          /\ y.reply.body = Blank(x.reply.body)
      BY <3>1
    <3>3. QED
      BY <2>1, <3>1, <3>2, FieldsHideValues, BlankKeepsLength DEF ObserveReply
  <2>2. CASE x.reply.kind # "Response"
    <3>1. /\ x.reply \in [kind : {"Error"}, diagnostic : Values]
          /\ y.reply = [x.reply EXCEPT !.diagnostic = Blank(@)]
      BY <1>1, <1>2, <2>2 DEF ReplyRecords
    <3>2. /\ y.reply.kind = "Error" /\ x.reply.diagnostic \in Values
          /\ y.reply.diagnostic = Blank(x.reply.diagnostic)
      BY <3>1
    <3>3. QED
      BY <2>2, <3>2, BlankKeepsLength DEF ObserveReply
  <2>3. QED
    BY <2>1, <2>2
<1>7. QED
  BY <1>3, <1>4, <1>5, <1>6 DEF observe, y

\* The transcript shows no value, query, unsafe name or URL of unsafe origin of an
\* exchange, whichever reply it got (observe, sanitize_url and sanitize_name).
THEOREM TranscriptCorrect == Spec => []TranscriptHidesValues
<1>1. IInv => TranscriptHidesValues
  <2> SUFFICES ASSUME IInv, NEW i \in 1..Len(observations)
               PROVE  observations[i] = observe(i - 1, BlankExchange(script[i]))
    BY DEF TranscriptHidesValues
  <2>1. /\ script \in Seq(Exchanges) /\ next_index \in Nat
        /\ next_index <= Len(script)
        /\ observations = [j \in 1..next_index |-> observe(j - 1, script[j])]
    BY ScriptIsSeq DEF IInv, TypeOK, TranscriptAndQueueSplitScript
  <2>2. i \in 1..next_index
    BY <2>1
  <2>3. observations[i] = observe(i - 1, script[i]) /\ script[i] \in Exchanges
    BY <2>1, <2>2
  <2>4. QED
    BY <2>3, ObservationHidesValues
<1>2. QED
  BY <1>1, SpecIInv, PTL

------------------------------------------------------------------------------
(* The mock client.                                                          *)

\* Call i of m was the one the script s expects at its place.
MockInPlace(s, m, i) == i <= Len(s) /\ Admits(s[i], m[i].request)

MockTypes == /\ queue \in Seq(ExpectedCalls)
             /\ made \in Seq([request : MockRequests, result : Results])
             /\ expected \in Seq(ExpectedCalls)
             /\ mismatch \in BOOLEAN

\* The rest of TypeOK, which nothing else depends on.
MockRecord == /\ queue \in Queues
              /\ Len(made) <= MaxCalls
              /\ observed \in Seq(MockOperations)

\* What is left in the queue is the script past the calls made.
MockQueue == /\ Len(expected) = IF Len(made) < Len(queue) THEN Len(queue) - Len(made)
                                                          ELSE 0
             /\ \A i \in 1..Len(expected) : expected[i] = queue[Len(made) + i]

MockFlag == mismatch <=> \E i \in 1..Len(made) : ~MockInPlace(queue, made, i)

MockIInv == MockTypes /\ MockQueue /\ MockFlag /\ AnsweredByPosition

LEMMA MockInitIInv ==
  ASSUME MockInit PROVE MockIInv
<1>1. /\ queue \in Seq(ExpectedCalls) /\ expected = queue
      /\ made = << >> /\ Len(made) = 0 /\ mismatch = FALSE
  BY MockAssumption DEF MockInit
<1>2. MockTypes
  <2>1. \A S : << >> \in Seq(S)
    OBVIOUS
  <2>2. made \in Seq([request : MockRequests, result : Results])
    BY <1>1, <2>1, Zenon
  <2> QED
    BY <1>1, <2>2, Zenon DEF MockTypes
<1>3. MockQueue
  BY <1>1 DEF MockQueue
<1>4. 1..Len(made) = {}
  BY <1>1
<1>5. MockFlag
  BY <1>1, <1>4 DEF MockFlag
<1>6. AnsweredByPosition
  BY <1>4 DEF AnsweredByPosition
<1> QED
  BY <1>2, <1>3, <1>5, <1>6 DEF MockIInv

\* The front of the queue is the expectation at the position of the next call.
LEMMA MockFront ==
  ASSUME MockIInv, NEW request \in MockRequests
  PROVE  Matched(request) <=> /\ Len(made) + 1 <= Len(queue)
                              /\ Admits(queue[Len(made) + 1], request)
<1>1. expected # << >> <=> Len(made) + 1 <= Len(queue)
  BY DEF MockIInv, MockTypes, MockQueue
<1>2. expected # << >> => Head(expected) = queue[Len(made) + 1]
  BY DEF MockIInv, MockTypes, MockQueue
<1> QED
  BY <1>1, <1>2 DEF Matched

\* What either answer to a call does to the queue and to the record of calls.
LEMMA MockTakes ==
  ASSUME MockIInv, NEW request \in MockRequests, NEW answer \in Results,
         Respond(request, answer),
         expected' = IF expected = << >> THEN << >> ELSE Tail(expected)
  PROVE  /\ made' \in Seq([request : MockRequests, result : Results])
         /\ Len(made') = Len(made) + 1
         /\ \A i \in 1..Len(made) : made'[i] = made[i]
         /\ made'[Len(made) + 1] = [request |-> request, result |-> answer]
         /\ expected' \in Seq(ExpectedCalls)
         /\ MockQueue'
<1>1. /\ made' \in Seq([request : MockRequests, result : Results])
      /\ Len(made') = Len(made) + 1
      /\ \A i \in 1..Len(made) : made'[i] = made[i]
      /\ made'[Len(made) + 1] = [request |-> request, result |-> answer]
  BY DEF Respond, MockIInv, MockTypes
<1>2. queue' = queue
  BY DEF Respond
<1>3. CASE expected = << >>
  <2>1. Len(queue) <= Len(made)
    BY <1>3 DEF MockIInv, MockTypes, MockQueue
  <2>2. expected' = << >>
    BY <1>3
  <2> QED
    BY <1>1, <1>2, <2>1, <2>2 DEF MockQueue, MockIInv, MockTypes
<1>4. CASE expected # << >>
  <2>1. expected' = Tail(expected)
    BY <1>4
  <2>2. /\ expected' \in Seq(ExpectedCalls)
        /\ Len(expected') = Len(expected) - 1
        /\ \A i \in 1..Len(expected') : expected'[i] = expected[i + 1]
    BY <1>4, <2>1 DEF MockIInv, MockTypes
  <2>3. Len(made) < Len(queue) /\ Len(expected) = Len(queue) - Len(made)
    BY <1>4 DEF MockIInv, MockTypes, MockQueue
  <2>4. \A i \in 1..Len(expected') : expected'[i] = queue'[Len(made') + i]
    <3>1. TAKE i \in 1..Len(expected')
    <3>2. expected[i + 1] = queue[Len(made) + (i + 1)]
      BY <2>2 DEF MockIInv, MockTypes, MockQueue
    <3> QED
      BY <1>1, <1>2, <2>2, <3>2 DEF MockIInv, MockTypes
  <2> QED
    BY <1>1, <1>2, <2>2, <2>3, <2>4 DEF MockQueue, MockIInv, MockTypes
<1> QED
  BY <1>1, <1>3, <1>4

LEMMA MockAccepts ==
  ASSUME MockIInv, NEW request \in MockRequests, Accept(request)
  PROVE  MockIInv'
<1> DEFINE answer == Head(expected).result
<1>1. /\ expected # << >> /\ Head(expected) \in ExpectedCalls
      /\ Head(expected) = queue[Len(made) + 1]
  BY DEF Accept, Matched, MockIInv, MockTypes, MockQueue
<1>2. answer \in Results
  BY <1>1 DEF ExpectedCalls
<1>3. /\ Respond(request, answer) /\ queue' = queue /\ mismatch' = mismatch
      /\ expected' = IF expected = << >> THEN << >> ELSE Tail(expected)
  BY <1>1 DEF Accept, Respond
<1> HIDE DEF answer
<1>4. /\ made' \in Seq([request : MockRequests, result : Results])
      /\ Len(made') = Len(made) + 1
      /\ \A i \in 1..Len(made) : made'[i] = made[i]
      /\ made'[Len(made) + 1] = [request |-> request, result |-> answer]
      /\ expected' \in Seq(ExpectedCalls) /\ MockQueue'
  BY <1>2, <1>3, MockTakes
<1>5. /\ Len(made) + 1 <= Len(queue)
      /\ Admits(queue[Len(made) + 1], request)
  BY MockFront DEF Accept
<1>6. MockTypes'
  BY <1>3, <1>4 DEF MockIInv, MockTypes
<1>7. MockFlag'
  <2>1. \A i \in 1..Len(made) : MockInPlace(queue', made', i) <=> MockInPlace(queue, made, i)
    BY <1>3, <1>4 DEF MockInPlace, Admits, MockIInv, MockTypes
  <2>2. MockInPlace(queue', made', Len(made) + 1)
    BY <1>3, <1>4, <1>5 DEF MockInPlace, Admits, MockIInv, MockTypes
  <2>3. 1..Len(made') = 1..Len(made) \cup {Len(made) + 1}
    BY <1>4 DEF MockIInv, MockTypes
  <2> QED
    BY <1>3, <2>1, <2>2, <2>3 DEF MockFlag, MockIInv
<1>8. AnsweredByPosition'
  <2>1. queue[Len(made) + 1].result = answer
    BY <1>1 DEF answer
  <2>2. \A i \in 1..Len(made) :
          made'[i].result = IF i <= Len(queue') /\ Admits(queue'[i], made'[i].request)
                            THEN queue'[i].result ELSE Refused
    BY <1>3, <1>4 DEF AnsweredByPosition, MockIInv, MockTypes, Admits
  <2>3. made'[Len(made) + 1].result = queue'[Len(made) + 1].result
    BY <1>3, <1>4, <2>1
  <2>4. Admits(queue'[Len(made) + 1], made'[Len(made) + 1].request)
    BY <1>3, <1>4, <1>5
  <2>5. \A i \in 1..Len(made') : i \in 1..Len(made) \/ i = Len(made) + 1
    BY <1>4 DEF MockIInv, MockTypes
  <2> QED
    BY <1>3, <1>4, <1>5, <2>2, <2>3, <2>4, <2>5 DEF AnsweredByPosition, Admits
<1> QED
  BY <1>4, <1>6, <1>7, <1>8 DEF MockIInv

LEMMA MockRejects ==
  ASSUME MockIInv, NEW request \in MockRequests, Reject(request)
  PROVE  MockIInv'
<1>1. Refused \in Results
  BY MockAssumption
<1>2. /\ Respond(request, Refused) /\ queue' = queue /\ mismatch' = TRUE
      /\ expected' = IF expected = << >> THEN << >> ELSE Tail(expected)
  BY DEF Reject, Respond
<1>3. /\ made' \in Seq([request : MockRequests, result : Results])
      /\ Len(made') = Len(made) + 1
      /\ \A i \in 1..Len(made) : made'[i] = made[i]
      /\ made'[Len(made) + 1] = [request |-> request, result |-> Refused]
      /\ expected' \in Seq(ExpectedCalls) /\ MockQueue'
  BY <1>1, <1>2, MockTakes
<1>4. ~(Len(made) + 1 <= Len(queue) /\ Admits(queue[Len(made) + 1], request))
  BY MockFront DEF Reject
<1>5. MockTypes'
  BY <1>2, <1>3 DEF MockIInv, MockTypes
<1>6. MockFlag'
  <2>1. ~MockInPlace(queue', made', Len(made) + 1)
    BY <1>2, <1>3, <1>4 DEF MockInPlace, Admits
  <2>2. Len(made) + 1 \in 1..Len(made')
    BY <1>3 DEF MockIInv, MockTypes
  <2> QED
    BY <1>2, <2>1, <2>2 DEF MockFlag
<1>7. AnsweredByPosition'
  <2>1. \A i \in 1..Len(made) :
          made'[i].result = IF i <= Len(queue') /\ Admits(queue'[i], made'[i].request)
                            THEN queue'[i].result ELSE Refused
    BY <1>2, <1>3 DEF AnsweredByPosition, MockIInv
  <2>2. \A i \in 1..Len(made') : i \in 1..Len(made) \/ i = Len(made) + 1
    BY <1>3 DEF MockIInv, MockTypes
  <2> QED
    BY <1>2, <1>3, <1>4, <2>1, <2>2 DEF AnsweredByPosition, Admits
<1> QED
  BY <1>3, <1>5, <1>6, <1>7 DEF MockIInv

LEMMA MockAlways == MockSpec => []MockIInv
<1>1. MockIInv /\ [MockNext]_mock_vars => MockIInv'
  <2> SUFFICES ASSUME MockIInv, [MockNext]_mock_vars PROVE MockIInv'
    OBVIOUS
  <2>1. CASE MockNext
    BY <2>1, MockAccepts, MockRejects DEF MockNext
  <2>2. CASE UNCHANGED mock_vars
    BY <2>2 DEF mock_vars, MockIInv, MockTypes, MockQueue, MockFlag, MockInPlace, AnsweredByPosition, Admits
  <2> QED
    BY <2>1, <2>2
<1> QED
  BY <1>1, MockInitIInv, PTL DEF MockSpec

\* What is recorded of the calls keeps to its types and its bound.
LEMMA MockRecordInvariance == MockSpec => []MockRecord
<1>1. MockInit => MockRecord
  BY MockAssumption DEF MockInit, MockRecord
<1>2. MockIInv /\ MockRecord /\ [MockNext]_mock_vars => MockRecord'
  <2> SUFFICES ASSUME MockIInv, MockRecord, [MockNext]_mock_vars PROVE MockRecord'
    OBVIOUS
  <2>1. ASSUME NEW request \in MockRequests, NEW answer, Respond(request, answer)
        PROVE  MockRecord'
    <3>1. request.op \in MockOperations
      BY DEF MockRequests, MockOperations, Posts
    <3>2. Len(made') = Len(made) + 1 /\ Len(made) < MaxCalls
      BY <2>1 DEF Respond, MockIInv, MockTypes
    <3> QED
      BY <2>1, <3>1, <3>2, MockAssumption DEF Respond, Observed, MockRecord, MockIInv, MockTypes
  <2>2. CASE MockNext
    BY <2>1, <2>2 DEF MockNext, Accept, Reject
  <2>3. CASE UNCHANGED mock_vars
    BY <2>3 DEF mock_vars, MockRecord
  <2> QED
    BY <2>2, <2>3
<1> QED
  BY <1>1, <1>2, MockAlways, PTL DEF MockSpec

\* The mock's queue, record and flag stay well typed.
THEOREM MockTypeCorrect == MockSpec => []MockTypeOK
<1>1. MockIInv /\ MockRecord => MockTypeOK
  BY DEF MockIInv, MockTypes, MockRecord, MockTypeOK
<1> QED
  BY <1>1, MockAlways, MockRecordInvariance, PTL

\* Every call is answered from its own position in the queue or refused.
THEOREM MockAnsweredCorrect == MockSpec => []AnsweredByPosition
<1>1. MockIInv => AnsweredByPosition
  BY DEF MockIInv
<1> QED
  BY <1>1, MockAlways, PTL

\* verify passes exactly for a plugin that made the expected calls and no other.
THEOREM MockVerifyCorrect == MockSpec => []VerifyMeansReplayed
<1>1. MockIInv => VerifyMeansReplayed
  <2> SUFFICES ASSUME MockIInv PROVE VerifyMeansReplayed
    OBVIOUS
  <2>1. (verify = "ok") <=> (~mismatch /\ expected = << >>)
    BY DEF verify
  <2>2. expected = << >> <=> Len(queue) <= Len(made)
    BY DEF MockIInv, MockTypes, MockQueue
  <2>3. ~mismatch <=> \A i \in 1..Len(made) :
                         i <= Len(queue) /\ Admits(queue[i], made[i].request)
    BY DEF MockIInv, MockFlag, MockInPlace
  <2>4. (~mismatch /\ Len(queue) <= Len(made)) =>
          Len(made) = Len(queue)
    <3>1. SUFFICES ASSUME ~mismatch, Len(queue) <= Len(made), Len(made) # Len(queue)
                   PROVE  FALSE
      BY DEF MockIInv, MockTypes
    <3>2. Len(made) \in 1..Len(made)
      BY <3>1 DEF MockIInv, MockTypes
    <3>3. Len(made) <= Len(queue)
      BY <2>3, <3>1, <3>2
    <3> QED
      BY <3>1, <3>3 DEF MockIInv, MockTypes
  <2>5. Len(made) = Len(queue) => \A i \in 1..Len(made) : i <= Len(queue)
    BY DEF MockIInv, MockTypes
  <2>6. Len(made) = Len(queue) => Len(queue) <= Len(made)
    BY DEF MockIInv, MockTypes
  <2> QED
    BY <2>1, <2>2, <2>3, <2>4, <2>5, <2>6 DEF VerifyMeansReplayed
<1> QED
  BY <1>1, MockAlways, PTL
==============================================================================
