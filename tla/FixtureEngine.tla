---------------------------- MODULE FixtureEngine ----------------------------
(***************************************************************************)
(* The test host's fixture engine (tools/bex-test-host/src/fixture.rs): an *)
(* owned queue of expected exchanges, matched front first against the      *)
(* requests a client sends, with a transcript of sanitized observations.   *)
(* A client may call send with any request and finish at any time, in any  *)
(* order and after any failure.                                            *)
(***************************************************************************)
EXTENDS Naturals, Sequences

CONSTANTS Words,        \* spellings of a policy, header, cookie or token name
          Hosts,        \* DNS hosts of a URL
          Values,       \* raw field values, response bodies and diagnostics
          ByteCount,    \* length in bytes of each value
          Categories,   \* field categories
          Statuses,     \* response statuses
          Requests,     \* requests a client may send or a script may expect
          Replies,      \* replies a script may hold
          Scripts       \* the scripts considered, sequences of exchanges

Operations == {"Get", "PostPublicGraphql"}

\* A name keeps apart the case it is spelled in and whether its lowercase form
\* matches [a-z0-9][a-z0-9._-]{0,63}.
Names == [word : Words, upper : BOOLEAN, valid : BOOLEAN]

\* A URL keeps apart whether its origin is canonical (https, a DNS host, no
\* userinfo and no port), its host, a short, another short or an oversized
\* path, and whether a query or fragment follows.
Urls == [canonical : BOOLEAN, host : Hosts,
         path : {"short", "other", "oversized"}, query : BOOLEAN]

Fields == [name : Names, category : Categories, value : Values]

RequestRecords == [policy : Names, operation : Operations,
                   canonical_url : Urls, fields : Seq(Fields)]

ReplyRecords ==
  [kind : {"Response"}, status : Statuses, headers : Seq(Fields), body : Values]
    \cup [kind : {"Error"}, diagnostic : Values]

Exchanges == [request : Requests, reply : Replies]

ASSUME DataAssumption ==
  /\ ByteCount \in [Values -> Nat]
  /\ Requests \subseteq RequestRecords
  /\ Replies \subseteq ReplyRecords
  /\ Scripts \subseteq Seq(Exchanges)

------------------------------------------------------------------------------
(* Matching: policy, operation, URL, field count, then field by field the    *)
(* name, the category and the value; the first difference is reported.       *)

NoMismatch == [at |-> "None"]

\* The parts of field i in which two requests differ, in the order the code
\* compares them.
FieldMismatch(e, a, i) ==
  IF e.name # a.name THEN [at |-> "FieldName", field |-> i - 1]
  ELSE IF e.category # a.category THEN [at |-> "FieldCategory", field |-> i - 1]
  ELSE [at |-> "FieldValue", field |-> i - 1]

\* Seeded bug: field values are not compared.
FirstMismatchSkipsValues(expected, actual) ==
  IF expected.policy # actual.policy THEN [at |-> "Policy"]
  ELSE IF expected.operation # actual.operation THEN [at |-> "Operation"]
  ELSE IF expected.canonical_url # actual.canonical_url
    THEN [at |-> "CanonicalUrl"]
  ELSE IF Len(expected.fields) # Len(actual.fields) THEN [at |-> "FieldCount"]
  ELSE NoMismatch

FirstMismatch(expected, actual) ==
  IF expected.policy # actual.policy THEN [at |-> "Policy"]
  ELSE IF expected.operation # actual.operation THEN [at |-> "Operation"]
  ELSE IF expected.canonical_url # actual.canonical_url
    THEN [at |-> "CanonicalUrl"]
  ELSE IF Len(expected.fields) # Len(actual.fields) THEN [at |-> "FieldCount"]
  ELSE LET differ == {i \in 1..Len(expected.fields) :
                        expected.fields[i] # actual.fields[i]}
       IN  IF differ = {} THEN NoMismatch
           ELSE LET i == CHOOSE i \in differ : \A j \in differ : i <= j
                IN  FieldMismatch(expected.fields[i], actual.fields[i], i)

------------------------------------------------------------------------------
(* The transcript: what an observation keeps of an exchange.                 *)

Redacted == [word |-> "<redacted>", upper |-> FALSE, valid |-> FALSE]

\* Seeded bug: a name is folded, never redacted.
SanitizeNameKeepsUnsafe(n) == [n EXCEPT !.upper = FALSE]

sanitize_name(n) ==
  IF n.valid THEN [n EXCEPT !.upper = FALSE] ELSE Redacted

\* Seeded bug: the query is left in the URL.
SanitizeUrlKeepsQuery(u) ==
  IF ~u.canonical THEN [shown |-> "redacted-url"] ELSE u

sanitize_url(u) ==
  IF ~u.canonical THEN [shown |-> "redacted-url"]
  ELSE IF u.path = "oversized" THEN [shown |-> "redacted-path", host |-> u.host]
  ELSE [shown |-> "url", host |-> u.host, path |-> u.path]

ObserveFields(fields) ==
  [i \in 1..Len(fields) |->
     [order |-> i - 1, name |-> sanitize_name(fields[i].name),
      category |-> fields[i].category, byte_count |-> ByteCount[fields[i].value]]]

ObserveReply(reply) ==
  IF reply.kind = "Response"
  THEN [outcome |-> "Returned", status |-> reply.status,
        response |-> ObserveFields(reply.headers),
        body_byte_count |-> ByteCount[reply.body]]
  ELSE [outcome |-> "Errored", response |-> << >>,
        diagnostic_byte_count |-> ByteCount[reply.diagnostic]]

observe(index, exchange) ==
  [index |-> index,
   policy |-> sanitize_name(exchange.request.policy),
   operation |-> exchange.request.operation,
   canonical_url |-> sanitize_url(exchange.request.canonical_url),
   request |-> ObserveFields(exchange.request.fields),
   reply |-> ObserveReply(exchange.reply)]

------------------------------------------------------------------------------
VARIABLES script,        \* the exchanges the engine was built with (history)
          pending,       \* the expectations not yet matched
          next_index,    \* the index reported by the next observation or failure
          observations,  \* the transcript
          result         \* the last call and what it returned (history)

vars == <<script, pending, next_index, observations, result>>

FixtureFailure(kind, index, coordinate) ==
  [kind |-> kind, index |-> index, coordinate |-> coordinate]

Queue(remaining) == [at |-> "Queue", remaining |-> remaining]

Init == /\ script \in Scripts
        /\ pending = script
        /\ next_index = 0
        /\ observations = << >>
        /\ result = [call |-> "none"]

\* Seeded bug: the observation is taken after the index has moved.
SendMatchedLateIndex(actual) ==
  /\ pending # << >>
  /\ FirstMismatch(Head(pending).request, actual) = NoMismatch
  /\ pending' = Tail(pending)
  /\ next_index' = next_index + 1
  /\ observations' = Append(observations, observe(next_index', Head(pending)))
  /\ result' = [call |-> "send", request |-> actual, ok |-> TRUE,
                reply |-> Head(pending).reply]
  /\ UNCHANGED script

SendMatched(actual) ==
  /\ pending # << >>
  /\ FirstMismatch(Head(pending).request, actual) = NoMismatch
  /\ pending' = Tail(pending)
  /\ next_index' = next_index + 1
  /\ observations' = Append(observations, observe(next_index, Head(pending)))
  /\ result' = [call |-> "send", request |-> actual, ok |-> TRUE,
                reply |-> Head(pending).reply]
  /\ UNCHANGED script

SendMismatched(actual) ==
  /\ pending # << >>
  /\ FirstMismatch(Head(pending).request, actual) # NoMismatch
  /\ result' = [call |-> "send", request |-> actual, ok |-> FALSE,
                failure |-> FixtureFailure("Mismatch", next_index,
                              FirstMismatch(Head(pending).request, actual))]
  /\ UNCHANGED <<script, pending, next_index, observations>>

\* Seeded bug: a refused extra call gives one exchange back.
SendUnexpectedRewinds(actual) ==
  /\ pending = << >>
  /\ result' = [call |-> "send", request |-> actual, ok |-> FALSE,
                failure |-> FixtureFailure("Unexpected", next_index, Queue(0))]
  /\ next_index' = next_index - 1
  /\ UNCHANGED <<script, pending, observations>>

SendUnexpected(actual) ==
  /\ pending = << >>
  /\ result' = [call |-> "send", request |-> actual, ok |-> FALSE,
                failure |-> FixtureFailure("Unexpected", next_index, Queue(0))]
  /\ UNCHANGED <<script, pending, next_index, observations>>

FinishOk ==
  /\ Len(pending) = 0
  /\ result' = [call |-> "finish", ok |-> TRUE, observations |-> observations]
  /\ UNCHANGED <<script, pending, next_index, observations>>

FinishFailed ==
  /\ Len(pending) > 0
  /\ result' = [call |-> "finish", ok |-> FALSE,
                failure |-> FixtureFailure(
                              IF Len(pending) = 1 THEN "Missing" ELSE "Unconsumed",
                              next_index, Queue(Len(pending)))]
  /\ UNCHANGED <<script, pending, next_index, observations>>

Next == \/ \E actual \in Requests : \/ SendMatched(actual)
                                    \/ SendMismatched(actual)
                                    \/ SendUnexpected(actual)
        \/ FinishOk
        \/ FinishFailed

Spec == Init /\ [][Next]_vars

------------------------------------------------------------------------------
TypeOK ==
  /\ script \in Scripts
  /\ pending \in Seq(Exchanges)
  /\ next_index \in Nat

\* The queue and the transcript are two halves of the script: what has been
\* observed is the part already replayed, in order and under its own index, and
\* what is pending is the rest. No sequence of matched, mismatched and finish
\* calls (FixtureEngine::send, finish) loses, repeats or reorders an exchange.
TranscriptAndQueueSplitScript ==
  /\ next_index <= Len(script)
  /\ observations = [i \in 1..next_index |-> observe(i - 1, script[i])]
  /\ pending = SubSeq(script, next_index + 1, Len(script))

\* finish accepts exactly when the whole script has been replayed, and then hands
\* out the whole transcript; otherwise it names the first exchange left and counts
\* what is left.  A guest that mismatched, or sent more than the script, and still
\* replayed all of it is accepted too: finish looks at the queue alone.
FinishVerdict ==
  result.call = "finish" =>
    /\ result.ok <=> next_index = Len(script)
    /\ result.ok =>
         result.observations = [i \in 1..Len(script) |-> observe(i - 1, script[i])]
    /\ ~result.ok =>
         /\ result.failure.index = next_index
         /\ result.failure.coordinate = Queue(Len(script) - next_index)
         /\ result.failure.kind = "Missing" <=> next_index = Len(script) - 1

\* The transcript carries no raw byte: it does not tell an exchange from one that
\* has other values, bodies and diagnostics of the same length, another query,
\* other capitals in its names, other names where a name is unsafe and another URL
\* where the origin is not canonical.
Blank(v) == CHOOSE w \in Values : ByteCount[w] = ByteCount[v]

BlankName(n) ==
  IF n.valid THEN [n EXCEPT !.upper = FALSE] ELSE CHOOSE m \in Names : ~m.valid

BlankUrl(u) ==
  IF u.canonical THEN [u EXCEPT !.query = FALSE] ELSE CHOOSE w \in Urls : ~w.canonical

BlankFields(fields) ==
  [i \in 1..Len(fields) |->
     [fields[i] EXCEPT !.value = Blank(@), !.name = BlankName(@)]]

BlankExchange(x) ==
  [request |-> [x.request EXCEPT !.policy = BlankName(@),
                                 !.canonical_url = BlankUrl(@),
                                 !.fields = BlankFields(@)],
   reply |-> IF x.reply.kind = "Response"
             THEN [x.reply EXCEPT !.headers = BlankFields(@), !.body = Blank(@)]
             ELSE [x.reply EXCEPT !.diagnostic = Blank(@)]]

TranscriptHidesValues ==
  \A i \in 1..Len(observations) :
    observations[i] = observe(i - 1, BlankExchange(script[i]))

\* A reply leaves the engine only by matching: a call that fails changes neither
\* the queue, the index nor the transcript, and a call that succeeds moves the
\* queue by exactly one; no step gives an exchange back.
OnlyMatchesAdvance ==
  [][ \/ /\ result'.call = "send" /\ result'.ok
         /\ result'.request = script[next_index + 1].request
         /\ result'.reply = script[next_index + 1].reply
         /\ next_index' = next_index + 1
      \/ UNCHANGED <<pending, next_index, observations>> ]_vars

\* The engine is a scripted host: see ScriptedHost. The queue, the index and the
\* failure coordinates are hidden; the transcript's length is how far the script
\* has been replayed.
Answer ==
  IF result.call = "none" \/ (result.call = "send" /\ result.ok) THEN result
  ELSE IF result.call = "send"
    THEN [call |-> "send", request |-> result.request, ok |-> FALSE]
  ELSE [call |-> "finish", ok |-> result.ok]

Host == INSTANCE ScriptedHost WITH consumed <- Len(observations), answer <- Answer

ImplementsScriptedHost == Host!Spec
==============================================================================
