------------------------ MODULE FacebookSessionProofs ------------------------
(***************************************************************************)
(* For every set of media URLs, every bound on candidates and whatever the *)
(* host answers: the fb_dtsg secret dies with the call it was copied for,  *)
(* a resolve call of the Facebook plugin keeps the contract of             *)
(* ResolveContract, what it delivers is what the page or the Tahoe answer  *)
(* offers, and the Tahoe call is made only when nothing else is left.      *)
(***************************************************************************)
EXTENDS FacebookSession, FoldLemmas, SequenceTheorems, TLAPS

\* What has been asked of the host, and how it was answered, at every point of
\* resolve_public.
Conversation ==
  /\ calls \in Seq(Calls)
  /\ pc = "classify" => calls = << >>
  /\ pc \in {"await_page", "page_status", "page", "tokens", "built"} =>
       Len(calls) = 1
  /\ pc \in {"await_tahoe", "tahoe_status"} => Len(calls) = 2
  /\ pc \in {"validate", "done"} => Len(calls) \in 0..2
  /\ pc = "validate" => calls # << >>
  /\ calls # << >> => calls[1].op = "get"
  /\ Len(calls) = 2 => calls[2].op = "tahoe" /\ Usable(calls[1].reply)
  /\ pc = "await_page" => calls[1].reply = Pending
  /\ pc = "await_tahoe" => calls[2].reply = Pending
  /\ calls # << >> /\ pc # "await_page" => calls[1].reply \in PageReplies
  /\ Len(calls) = 2 /\ pc # "await_tahoe" => calls[2].reply \in TahoeReplies
  /\ pc \in {"page", "tokens", "built", "validate"} =>
       \A i \in 1..Len(calls) : Usable(calls[i].reply)
  /\ pc # "done" => outcome = Pending

\* Where the secret is, and what it was copied for.
Custody ==
  /\ pc \in {"classify", "await_page", "page_status", "page"} => secret = "none"
  /\ pc = "tokens" => secret = "ephemeral"
  /\ pc \in {"built", "await_tahoe"} => secret = "call"
  /\ pc = "tahoe_status" => secret = "wiped"
  /\ pc \in {"validate", "done"} => secret \in {"none", "wiped"}
  /\ secret # "none" => /\ calls # << >> /\ Usable(calls[1].reply)
                        /\ NeedsTahoe /\ Page.tokens # "absent"
  /\ Len(calls) = 2 => secret # "none"

Places == {"classify", "await_page", "page_status", "page", "tokens", "built",
           "await_tahoe", "tahoe_status", "validate", "done"}

IInv == pc \in Places /\ Conversation /\ Custody

ResolverErrors == [kind : ResolverErrorKinds, retryable : BOOLEAN]

------------------------------------------------------------------------------
\* The plugin's two tables (error.rs:58-96) and the gate in front of them agree
\* with the contract's reading of an answer: a usable one is a success, and the
\* error made of any other invites a retry exactly when the failure may pass.
LEMMA AnswerTables ==
  ASSUME NEW Bodies, NEW r \in Answers(Bodies)
  PROVE  /\ r # Pending
         /\ AnswerClass(r) \in {"success", "transient", "refused"}
         /\ Usable(r) <=> AnswerClass(r) = "success"
         /\ ~Usable(r) => (RetrievalError(r).retryable <=> AnswerClass(r) = "transient")
         /\ Usable(r) => r.kind = "response" /\ r.body \in Bodies
         /\ ~Usable(r) => RetrievalError(r) \in ResolverErrors
<1> USE DEF ResolverErrors, ResolverErrorKinds, ResolverError, malformed, policy,
            private, unavailable
<1>1. CASE r \in [kind : {"error"}, error : HttpsErrors]
  <2>1. r.kind = "error" /\ r.error \in HttpsErrors /\ r # Pending
    BY <1>1 DEF Pending
  <2>2. checked_response(r) = r /\ ~Usable(r) /\ RetrievalError(r) = transport(r.error)
    BY <2>1 DEF checked_response, Usable, RetrievalError
  <2>3. AnswerClass(r) = IF r.error \in {"Timeout", "TransportFailure"}
                         THEN "transient" ELSE "refused"
    BY <2>1 DEF AnswerClass
  <2>4. /\ transport(r.error) \in ResolverErrors
        /\ transport(r.error).retryable <=> r.error \in {"Timeout", "TransportFailure"}
    BY <2>1 DEF HttpsErrors, transport
  <2>5. QED
    BY <2>1, <2>2, <2>3, <2>4
<1>2. CASE r.kind = "response" /\ r.status \in Nat /\ r.body \in Bodies
  <2>1. r # Pending
    BY <1>2 DEF Pending
  <2>2. CASE ~validate_https_response(r)
    <3>1. checked_response(r) = HostError("MalformedUpstream")
      BY <1>2, <2>2 DEF checked_response
    <3>2. ~Usable(r) /\ RetrievalError(r) = malformed
      BY <3>1 DEF Usable, RetrievalError, HostError, transport
    <3>3. AnswerClass(r) = "refused"
      BY <1>2, <2>1, <2>2 DEF AnswerClass
    <3>4. QED
      BY <2>1, <3>2, <3>3
  <2>3. CASE validate_https_response(r)
    <3>1. checked_response(r) = r
      BY <2>3 DEF checked_response
    <3>2. Usable(r) <=> r.status \in 200..299
      BY <1>2, <3>1 DEF Usable, StatusOk
    <3>3. RetrievalError(r) = status(r.status)
      BY <1>2, <3>1 DEF RetrievalError
    <3>4. /\ status(r.status) \in ResolverErrors
          /\ status(r.status).retryable <=> r.status = 429 \/ r.status \in 500..599
      BY <1>2 DEF status
    <3>5. AnswerClass(r) = IF r.status \in 200..299 THEN "success"
                           ELSE IF r.status = 429 \/ r.status \in 500..599
                                THEN "transient" ELSE "refused"
      BY <1>2, <2>1, <2>3 DEF AnswerClass
    <3>6. QED
      BY <1>2, <2>1, <3>2, <3>3, <3>4, <3>5
  <2>4. QED
    BY <2>2, <2>3
<1>3. QED
  BY <1>1, <1>2 DEF Answers

------------------------------------------------------------------------------
\* The inductive invariant holds before the call has done anything.
LEMMA InitIInv == Init => IInv
BY DEF Init, IInv, Places, Conversation, Custody

\* An error return ends the call; who holds the secret does not change.
LEMMA ErrorStep ==
  ASSUME IInv, pc \in {"classify", "page_status", "page", "tahoe_status", "validate"},
         pc' = "done", UNCHANGED <<source, calls, secret, response>>
  PROVE  IInv'
<1>1. /\ calls \in Seq(Calls) /\ Len(calls) \in 0..2
      /\ calls # << >> => calls[1].op = "get" /\ calls[1].reply \in PageReplies
      /\ Len(calls) = 2 => /\ calls[2].op = "tahoe" /\ Usable(calls[1].reply)
                           /\ calls[2].reply \in TahoeReplies
  <2>1. calls = << >> => Len(calls) = 0
    OBVIOUS
  <2>2. Len(calls) \in 0..2
    <3>1. /\ pc = "classify" => calls = << >>
          /\ pc \in {"page_status", "page"} => Len(calls) = 1
          /\ pc = "tahoe_status" => Len(calls) = 2
          /\ pc = "validate" => Len(calls) \in 0..2
      BY DEF IInv, Conversation
    <3>2. QED
      BY <2>1, <3>1
  <2>3. calls # << >> => calls[1].op = "get" /\ calls[1].reply \in PageReplies
    BY DEF IInv, Conversation
  <2>4. Len(calls) = 2 => /\ calls[2].op = "tahoe" /\ Usable(calls[1].reply)
                          /\ calls[2].reply \in TahoeReplies
    BY DEF IInv, Conversation
  <2>5. QED
    BY <2>2, <2>3, <2>4 DEF IInv, Conversation
<1>2. Conversation'
  BY <1>1 DEF Conversation
<1>3. Custody'
  BY DEF IInv, Custody, NeedsTahoe, Readable, PageMedia, Page
<1>4. QED
  BY <1>2, <1>3 DEF IInv, Places

\* A step that builds the response, from a point where every answer was usable,
\* and that leaves no secret in memory.
LEMMA BuildStep ==
  ASSUME IInv, pc \in {"page", "tokens", "tahoe_status"},
         \A i \in 1..Len(calls) : Usable(calls[i].reply),
         pc' = "validate", UNCHANGED <<source, calls, outcome>>,
         pc = "tokens" => secret' = "wiped",
         pc # "tokens" => secret' = secret
  PROVE  IInv'
<1>1. Conversation'
  BY DEF IInv, Conversation
<1>2. Custody'
  BY DEF IInv, Custody, Conversation, NeedsTahoe, Readable, PageMedia, Page
<1>3. QED
  BY <1>1, <1>2 DEF IInv, Places

\* A call to the host is appended with its answer pending.
LEMMA CallsGrow ==
  ASSUME calls \in Seq(Calls), NEW op \in {"get", "tahoe"},
         calls' = Append(calls, [op |-> op, reply |-> Pending])
  PROVE  /\ calls' \in Seq(Calls)
         /\ Len(calls') = Len(calls) + 1 /\ Len(calls) \in Nat
         /\ \A i \in 1..Len(calls) : calls'[i] = calls[i]
         /\ calls'[Len(calls) + 1] = [op |-> op, reply |-> Pending]
<1>1. [op |-> op, reply |-> Pending] \in Calls
  BY DEF Calls
<1>2. QED
  BY <1>1

\* The answer of the host takes the place of the pending one.
LEMMA LastAnswered ==
  ASSUME calls \in Seq(Calls), calls # << >>, NEW reply \in PageReplies \cup TahoeReplies,
         calls' = [calls EXCEPT ![Len(calls)].reply = reply]
  PROVE  /\ calls' \in Seq(Calls)
         /\ Len(calls') = Len(calls) /\ Len(calls) \in Nat
         /\ \A i \in 1..Len(calls) :
              /\ calls'[i].op = calls[i].op
              /\ i # Len(calls) => calls'[i] = calls[i]
         /\ calls'[Len(calls)].reply = reply
<1>1. /\ Len(calls) \in Nat /\ calls \in [1..Len(calls) -> Calls]
      /\ Len(calls) \in 1..Len(calls)
  OBVIOUS
<1>2. /\ calls' \in [1..Len(calls) -> Calls]
      /\ \A i \in 1..Len(calls) : /\ calls'[i].op = calls[i].op
                                   /\ i # Len(calls) => calls'[i] = calls[i]
      /\ calls'[Len(calls)].reply = reply
  BY <1>1 DEF Calls
<1>3. QED
  BY <1>1, <1>2

\* Every step of the call keeps the invariant.
LEMMA NextIInv == IInv /\ [Next]_vars => IInv'
<1> SUFFICES ASSUME IInv, [Next]_vars PROVE IInv'
  OBVIOUS
<1>1. CASE RejectSource \/ RefuseGet \/ FailPage \/ RejectPage \/ FailTahoe
  BY <1>1, ErrorStep DEF RejectSource, RefuseGet, FailPage, RejectPage, FailTahoe,
       ReturnError
<1>2. CASE SendGet
  <2>1. /\ calls' = Append(calls, [op |-> "get", reply |-> Pending])
        /\ calls \in Seq(Calls) /\ Len(calls) = 0
        /\ pc = "classify" /\ pc' = "await_page" /\ UNCHANGED <<secret, outcome>>
    BY <1>2 DEF SendGet, CallHost, IInv, Conversation
  <2>2. /\ calls' \in Seq(Calls) /\ Len(calls') = 1
        /\ calls'[1] = [op |-> "get", reply |-> Pending]
    BY <2>1, CallsGrow
  <2>3. QED
    BY <2>1, <2>2 DEF IInv, Places, Conversation, Custody
<1>3. CASE \E reply \in PageReplies : PageReturns(reply)
  <2>1. PICK reply \in PageReplies : PageReturns(reply)
    BY <1>3
  <2>2. /\ calls \in Seq(Calls) /\ Len(calls) = 1 /\ calls # << >>
        /\ calls[1].op = "get" /\ outcome = Pending /\ secret = "none"
    BY <2>1 DEF PageReturns, IInv, Conversation, Custody
  <2>3. calls' = [calls EXCEPT ![Len(calls)].reply = reply]
    BY <2>1 DEF PageReturns, HostReturns
  <2>4. /\ calls' \in Seq(Calls) /\ Len(calls') = Len(calls)
        /\ \A i \in 1..Len(calls) : calls'[i].op = calls[i].op
        /\ calls'[Len(calls)].reply = reply
    BY <2>2, <2>3, LastAnswered
  <2>5. /\ calls' \in Seq(Calls) /\ Len(calls') = 1
        /\ calls'[1].op = "get" /\ calls'[1].reply = reply
    BY <2>2, <2>4
  <2>6. pc' = "page_status" /\ outcome' = Pending /\ secret' = "none"
    BY <2>1, <2>2 DEF PageReturns, HostReturns
  <2>7. QED
    BY <2>5, <2>6 DEF IInv, Places, Conversation, Custody
<1>4. CASE AcceptPage
  <2>1. Len(calls) = 1 /\ Usable(calls[1].reply)
    BY <1>4 DEF AcceptPage, IInv, Conversation
  <2>2. \A i \in 1..Len(calls) : Usable(calls[i].reply)
    BY <2>1
  <2>3. Conversation'
    BY <1>4, <2>2 DEF AcceptPage, IInv, Conversation
  <2>4. QED
    BY <1>4, <2>3 DEF AcceptPage, IInv, Places, Custody
<1>5. CASE ReportUnplayable \/ MapPage \/ LackTokens \/ RefuseTokens \/ RefuseTahoe
  <2>1. \A i \in 1..Len(calls) : Usable(calls[i].reply)
    BY <1>5 DEF ReportUnplayable, MapPage, LackTokens, RefuseTokens, RefuseTahoe,
         IInv, Conversation
  <2>2. /\ pc \in {"page", "tokens"} /\ pc' = "validate"
        /\ UNCHANGED <<source, calls, outcome>>
        /\ pc = "tokens" => secret' = "wiped"
        /\ pc # "tokens" => secret' = secret
    BY <1>5 DEF ReportUnplayable, MapPage, LackTokens, RefuseTokens, RefuseTahoe, Build
  <2>3. QED
    BY <2>1, <2>2, BuildStep
<1>6. CASE CopySecret
  <2>1. /\ Len(calls) = 1 /\ pc = "page" /\ pc' = "tokens" /\ secret' = "ephemeral"
        /\ UNCHANGED <<calls, outcome>> /\ NeedsTahoe /\ Page.tokens # "absent"
        /\ \A i \in 1..Len(calls) : Usable(calls[i].reply)
    BY <1>6 DEF CopySecret, IInv, Conversation
  <2>2. Usable(calls[1].reply) /\ calls # << >>
    BY <2>1
  <2>3. Conversation'
    BY <2>1, <2>2 DEF IInv, Conversation
  <2>4. Custody'
    BY <2>1, <2>2 DEF Custody, NeedsTahoe, Readable, PageMedia, Page
  <2>5. QED
    BY <2>1, <2>3, <2>4 DEF IInv, Places
<1>7. CASE BuildTahoe
  BY <1>7 DEF BuildTahoe, IInv, Places, Conversation, Custody, NeedsTahoe, Readable,
       PageMedia, Page
<1>8. CASE SendTahoe
  <2>1. /\ calls' = Append(calls, [op |-> "tahoe", reply |-> Pending])
        /\ calls \in Seq(Calls) /\ Len(calls) = 1 /\ calls # << >>
        /\ pc = "built" /\ pc' = "await_tahoe" /\ UNCHANGED <<secret, outcome>>
    BY <1>8 DEF SendTahoe, CallHost, IInv, Conversation
  <2>2. /\ calls' \in Seq(Calls) /\ Len(calls') = 2 /\ calls' # << >>
        /\ calls'[1] = calls[1] /\ calls'[2] = [op |-> "tahoe", reply |-> Pending]
    BY <2>1, CallsGrow
  <2>3. /\ calls[1].op = "get" /\ calls[1].reply \in PageReplies
        /\ Usable(calls[1].reply) /\ outcome = Pending
    BY <2>1 DEF IInv, Conversation
  <2>4. Conversation'
    BY <2>1, <2>2, <2>3 DEF Conversation
  <2>5. Custody'
    BY <2>1, <2>2 DEF IInv, Custody, NeedsTahoe, Readable, PageMedia, Page
  <2>6. QED
    BY <2>1, <2>4, <2>5 DEF IInv, Places
<1>9. CASE \E reply \in TahoeReplies : TahoeReturns(reply)
  <2>1. PICK reply \in TahoeReplies : TahoeReturns(reply)
    BY <1>9
  <2>2. calls \in Seq(Calls) /\ Len(calls) = 2
    BY <2>1 DEF TahoeReturns, IInv, Conversation
  <2>3. calls # << >>
    BY <2>2
  <2>4. /\ calls[1].op = "get" /\ calls[2].op = "tahoe" /\ outcome = Pending
        /\ Usable(calls[1].reply) /\ calls[1].reply \in PageReplies
    BY <2>1, <2>2, <2>3 DEF TahoeReturns, IInv, Conversation
  <2>5. /\ calls' = [calls EXCEPT ![Len(calls)].reply = reply]
        /\ pc = "await_tahoe" /\ pc' = "tahoe_status" /\ secret' = "wiped"
        /\ outcome' = outcome
    BY <2>1 DEF TahoeReturns, HostReturns
  <2>6. /\ calls' \in Seq(Calls) /\ Len(calls') = 2
        /\ calls'[Len(calls)].reply = reply
    BY <2>2, <2>3, <2>5, LastAnswered
  <2>7. /\ calls' \in Seq(Calls) /\ Len(calls') = 2
        /\ calls'[1] = calls[1]
        /\ calls'[2].op = "tahoe" /\ calls'[2].reply = reply
    <3>1. \A i \in 1..Len(calls) : /\ calls'[i].op = calls[i].op
                                   /\ i # Len(calls) => calls'[i] = calls[i]
      BY <2>2, <2>3, <2>5, LastAnswered
    <3>2. Len(calls) = 2
      BY <2>2
    <3>3. calls'[1] = calls[1] /\ calls'[2].op = calls[2].op
      BY <3>1, <3>2
    <3>4. QED
      BY <2>4, <2>6, <3>2, <3>3
  <2>8. Conversation'
    BY <2>4, <2>5, <2>7 DEF Conversation
  <2>9. Custody'
    <3>1. secret = "call" /\ NeedsTahoe /\ Page.tokens # "absent"
      BY <2>5 DEF IInv, Custody
    <3>2. NeedsTahoe' /\ Page'.tokens # "absent"
      BY <2>7, <3>1 DEF NeedsTahoe, Readable, PageMedia, Page
    <3>3. QED
      BY <2>4, <2>5, <2>7, <3>2 DEF Custody
  <2>10. QED
    BY <2>5, <2>8, <2>9 DEF IInv, Places
<1>10. CASE MapTahoe
  <2>1. Len(calls) = 2 /\ Usable(calls[1].reply) /\ Usable(calls[2].reply)
    BY <1>10 DEF MapTahoe, IInv, Conversation
  <2>2. \A i \in 1..Len(calls) : Usable(calls[i].reply)
    BY <2>1
  <2>3. QED
    BY <1>10, <2>2, BuildStep DEF MapTahoe, Build
<1>11. CASE Return
  BY <1>11, ErrorStep DEF Return, ReturnError
<1>12. CASE UNCHANGED vars
  BY <1>12 DEF vars, IInv, Conversation, Custody, NeedsTahoe, Readable, PageMedia, Page
<1>13. QED
  BY <1>1, <1>2, <1>3, <1>4, <1>5, <1>6, <1>7, <1>8, <1>9, <1>10, <1>11, <1>12
     DEF Next, Terminated

\* The invariant holds in every reachable state.
LEMMA SpecIInv == Spec => []IInv
BY InitIInv, NextIInv, PTL DEF Spec

------------------------------------------------------------------------------
\* The fb_dtsg secret is copied only from a delivered page that needs the Tahoe
\* request, is held by the call only until the host answers it, and is wiped on
\* every way out of resolve.
THEOREM SecretDies == Spec => []SecretDiesWithItsCall
<1>1. \A r \in TahoeReplies : r # Pending
  BY ReplyAssumption, AnswerTables
<1>2. ASSUME IInv PROVE SecretDiesWithItsCall
  <2>1. secret \in {"ephemeral", "call"} => pc \in {"tokens", "built", "await_tahoe"}
    BY <1>2 DEF IInv, Places, Custody
  <2>2. Len(calls) = 2 =>
          pc \in {"await_tahoe", "tahoe_status", "validate", "done"}
    BY <1>2 DEF IInv, Places, Conversation
  <2>3. Len(calls) = 2 =>
          secret = IF calls[2].reply = Pending THEN "call" ELSE "wiped"
    BY <1>1, <1>2, <2>2 DEF IInv, Conversation, Custody
  <2>4. QED
    BY <1>2, <2>1, <2>3 DEF IInv, Custody, SecretDiesWithItsCall
<1>3. QED
  BY <1>2, SpecIInv, PTL

------------------------------------------------------------------------------
(* The refinement: Asked and Verdict, seen through the calls and the outcome. *)

Askings == [op : {"get", "tahoe"},
            answer : {"none", "success", "transient", "refused"}]

\* The contract's view has one element per call, with the class of its answer.
LEMMA AskedShape ==
  ASSUME calls \in Seq(Calls)
  PROVE  /\ Asked \in Seq(Askings) /\ Len(Asked) = Len(calls) /\ Len(calls) \in Nat
         /\ \A i \in 1..Len(calls) :
              Asked[i] = [op |-> calls[i].op, answer |-> AnswerClass(calls[i].reply)]
<1>1. Len(calls) \in Nat /\ \A i \in 1..Len(calls) : calls[i] \in Calls
  OBVIOUS
<1>2. \A r : AnswerClass(r) \in {"none", "success", "transient", "refused"}
  BY DEF AnswerClass
<1>3. \A i \in 1..Len(calls) :
        [op |-> calls[i].op, answer |-> AnswerClass(calls[i].reply)] \in Askings
  BY <1>1, <1>2 DEF Calls, Askings
<1>4. Asked \in [1..Len(calls) -> Askings]
  BY <1>3 DEF Asked
<1>5. QED
  BY <1>1, <1>4 DEF Asked

\* An answered call whose answer is usable counts as a success; no answered call
\* counts as pending.
LEMMA AskedClasses ==
  ASSUME IInv, NEW i \in 1..Len(calls), calls[i].reply \in PageReplies \cup TahoeReplies
  PROVE  /\ Asked[i].answer \in {"success", "transient", "refused"}
         /\ Usable(calls[i].reply) <=> Asked[i].answer = "success"
         /\ ~Usable(calls[i].reply) =>
              (RetrievalError(calls[i].reply).retryable <=> Asked[i].answer = "transient")
<1>1. Asked[i].answer = AnswerClass(calls[i].reply)
  <2>1. calls \in Seq(Calls)
    BY DEF IInv, Conversation
  <2>2. Asked[i] = [op |-> calls[i].op, answer |-> AnswerClass(calls[i].reply)]
    BY <2>1, AskedShape
  <2>3. QED
    BY <2>2
<1>2. \/ calls[i].reply \in Answers(PageBodies)
      \/ calls[i].reply \in Answers(TahoeBodyRecords)
  BY ReplyAssumption
<1>3. QED
  BY <1>1, <1>2, AnswerTables

\* A step that neither calls the host nor returns is a stutter of the contract.
LEMMA StutterStep ==
  ASSUME UNCHANGED <<calls, outcome>>
  PROVE  UNCHANGED <<Asked, Verdict>>
BY DEF Asked, Verdict

\* A call to the host is an Ask: every earlier answer was usable.
LEMMA AskStep ==
  ASSUME IInv, NEW op \in {"get", "tahoe"},
         calls' = Append(calls, [op |-> op, reply |-> Pending]),
         outcome = Pending, outcome' = Pending,
         \/ op = "get" /\ Len(calls) = 0
         \/ op = "tahoe" /\ Len(calls) = 1 /\ calls[1].reply \in PageReplies
                         /\ Usable(calls[1].reply)
  PROVE  Contract!Ask
<1> DEFINE asking == [op |-> op, answer |-> "none"]
<1>1. /\ Asked \in Seq(Askings) /\ Len(Asked) = Len(calls) /\ Len(calls) \in Nat
      /\ calls \in Seq(Calls)
      /\ \A i \in 1..Len(calls) :
           Asked[i] = [op |-> calls[i].op, answer |-> AnswerClass(calls[i].reply)]
  BY AskedShape DEF IInv, Conversation
<1>2. /\ calls' \in Seq(Calls) /\ Len(calls') = Len(calls) + 1
      /\ \A i \in 1..Len(calls) : calls'[i] = calls[i]
      /\ calls'[Len(calls) + 1] = [op |-> op, reply |-> Pending]
  BY <1>1, CallsGrow
<1>3. /\ Asked' = [i \in 1..Len(calls') |->
                    [op |-> calls'[i].op, answer |-> AnswerClass(calls'[i].reply)]]
      /\ AnswerClass(Pending) = "none"
  BY DEF Asked, AnswerClass
<1>4. /\ asking \in Askings
      /\ Append(Asked, asking) \in Seq(Askings)
      /\ Len(Append(Asked, asking)) = Len(calls) + 1
      /\ \A i \in 1..Len(calls) : Append(Asked, asking)[i] = Asked[i]
      /\ Append(Asked, asking)[Len(calls) + 1] = asking
  <2>1. asking \in Askings
    BY DEF Askings
  <2>2. QED
    BY <1>1, <2>1, AppendProperties
<1>5. Asked' = Append(Asked, asking)
  <2>1. \A i \in 1..(Len(calls) + 1) : i \in 1..Len(calls) \/ i = Len(calls) + 1
    BY <1>1
  <2>2. \A i \in 1..(Len(calls) + 1) :
          Append(Asked, asking)[i]
            = [op |-> calls'[i].op, answer |-> AnswerClass(calls'[i].reply)]
    BY <1>1, <1>2, <1>3, <1>4, <2>1
  <2>3. Append(Asked, asking) =
          [i \in 1..(Len(calls) + 1) |-> Append(Asked, asking)[i]]
    BY <1>1, <1>4
  <2>4. QED
    BY <1>2, <1>3, <2>2, <2>3
<1>6. /\ \A i \in 1..Len(Asked) : Asked[i].answer = "success"
      /\ Len(Asked) < 2 /\ op = <<"get", "tahoe">>[Len(Asked) + 1]
  BY <1>1, AskedClasses
<1>7. Verdict = "pending" /\ Verdict' = "pending"
  BY DEF Verdict, Pending
<1>8. QED
  BY <1>5, <1>6, <1>7 DEF Contract!Ask, Contract!AllSucceeded

\* The host's answer is an Answer of the class the contract gives it.
LEMMA AnswerStep ==
  ASSUME IInv, NEW reply \in PageReplies \cup TahoeReplies,
         calls # << >>, calls[Len(calls)].reply = Pending,
         calls' = [calls EXCEPT ![Len(calls)].reply = reply],
         UNCHANGED outcome
  PROVE  \E a \in Contract!Answers : Contract!Answer(a)
<1> DEFINE n == Len(calls)
<1>1. /\ Asked \in Seq(Askings) /\ Len(Asked) = n /\ n \in Nat
      /\ calls \in Seq(Calls)
      /\ \A i \in 1..n :
           Asked[i] = [op |-> calls[i].op, answer |-> AnswerClass(calls[i].reply)]
  BY AskedShape DEF IInv, Conversation
<1>2. n \in 1..n
  BY <1>1
<1>3. /\ Len(calls') = n
      /\ \A i \in 1..n : /\ calls'[i].op = calls[i].op
                          /\ i # n => calls'[i] = calls[i]
      /\ calls'[n].reply = reply
  BY <1>1, LastAnswered
<1>4. Asked' = [i \in 1..n |->
                 [op |-> calls'[i].op, answer |-> AnswerClass(calls'[i].reply)]]
  BY <1>3 DEF Asked
<1>5. Asked[n].answer = "none"
  <2>1. Asked[n] = [op |-> calls[n].op, answer |-> AnswerClass(calls[n].reply)]
    BY <1>1, <1>2
  <2>2. AnswerClass(calls[n].reply) = "none"
    BY DEF AnswerClass
  <2>3. QED
    BY <2>1, <2>2
<1>6. Asked' = [Asked EXCEPT ![n].answer = AnswerClass(reply)]
  <2>1. Asked = [i \in 1..n |->
                  [op |-> calls[i].op, answer |-> AnswerClass(calls[i].reply)]]
    BY DEF Asked
  <2>2. \A i \in 1..n : i # n =>
          Asked'[i] = [op |-> calls[i].op, answer |-> AnswerClass(calls[i].reply)]
    BY <1>3, <1>4
  <2>3. Asked'[n] = [op |-> calls[n].op, answer |-> AnswerClass(reply)]
    BY <1>2, <1>3, <1>4
  <2>4. QED
    BY <1>2, <1>4, <2>1, <2>2, <2>3
<1>7. AnswerClass(reply) \in Contract!Answers
  BY ReplyAssumption, AnswerTables DEF Contract!Answers
<1>8. Verdict' = Verdict
  BY DEF Verdict
<1>9. Asked # << >>
  BY <1>1, <1>2
<1>10. QED
  BY <1>1, <1>5, <1>6, <1>7, <1>8, <1>9 DEF Contract!Answer

\* An error return is a Fail, if it invites a retry exactly when an answer was
\* transient.
LEMMA FailureStep ==
  ASSUME IInv, NEW e, outcome = Pending, outcome' = [kind |-> "error", error |-> e],
         UNCHANGED calls,
         \A i \in 1..Len(calls) : calls[i].reply \in PageReplies \cup TahoeReplies,
         e.retryable <=> \E i \in 1..Len(calls) : Asked[i].answer = "transient"
  PROVE  Contract!Fail
<1>1. Asked' = Asked /\ Len(Asked) = Len(calls)
  BY AskedShape DEF Asked, IInv, Conversation
<1>2. Verdict = "pending"
  BY DEF Verdict, Pending
<1>3. Verdict' = IF e.retryable THEN "retryable" ELSE "final"
  BY DEF Verdict
<1>4. \A i \in 1..Len(Asked) : Asked[i].answer # "none"
  BY <1>1, AskedClasses
<1>5. QED
  BY <1>1, <1>2, <1>3, <1>4 DEF Contract!Fail

\* Every step of the call is a step of the contract or a stutter.
LEMMA StepRefines ==
  ASSUME IInv, [Next]_vars
  PROVE  [Contract!Next]_<<Asked, Verdict>>
<1> USE DEF ResolverError, malformed, private, policy, invalid_input
<1>0. /\ calls \in Seq(Calls) /\ (pc # "done" => outcome = Pending)
      /\ Len(calls) = Len(Asked)
  BY AskedShape DEF IInv, Conversation
<1>1. CASE RejectSource \/ RefuseGet
  <2>1. Len(calls) = 0
    BY <1>1 DEF RejectSource, RefuseGet, IInv, Conversation
  <2>2. PICK e : /\ outcome' = [kind |-> "error", error |-> e]
                 /\ e.retryable = FALSE
                 /\ outcome = Pending /\ UNCHANGED calls
    BY <1>0, <1>1 DEF RejectSource, RefuseGet, ReturnError, transport
  <2>3. QED
    BY <2>1, <2>2, FailureStep DEF Contract!Next
<1>2. CASE SendGet
  <2>1. Len(calls) = 0 /\ outcome = Pending
    BY <1>0, <1>2 DEF SendGet, IInv, Conversation
  <2>2. QED
    BY <1>2, <2>1, AskStep DEF SendGet, CallHost, Contract!Next
<1>3. CASE \E reply \in PageReplies : PageReturns(reply)
  <2>1. Len(calls) = 1 /\ calls[Len(calls)].reply = Pending
    BY <1>3 DEF PageReturns, IInv, Conversation
  <2>2. calls # << >>
    BY <2>1
  <2>3. QED
    BY <1>3, <2>1, <2>2, AnswerStep DEF PageReturns, HostReturns, Contract!Next
<1>4. CASE FailPage
  <2>1. /\ Len(calls) = 1 /\ calls[1].reply \in PageReplies /\ outcome = Pending
        /\ ~Usable(calls[1].reply) /\ UNCHANGED calls
        /\ outcome' = [kind |-> "error", error |-> RetrievalError(calls[1].reply)]
    BY <1>0, <1>4 DEF FailPage, ReturnError, IInv, Conversation
  <2>2. \A i \in 1..Len(calls) : i = 1
    BY <2>1
  <2>3. RetrievalError(calls[1].reply).retryable <=> Asked[1].answer = "transient"
    BY <2>1, AskedClasses
  <2>4. QED
    BY <2>1, <2>2, <2>3, FailureStep DEF Contract!Next
<1>5. CASE RejectPage
  <2>1. /\ Len(calls) = 1 /\ calls[1].reply \in PageReplies /\ outcome = Pending
        /\ Usable(calls[1].reply)
    BY <1>0, <1>5 DEF RejectPage, IInv, Conversation
  <2>2. PICK e : /\ outcome' = [kind |-> "error", error |-> e]
                 /\ e.retryable = FALSE /\ UNCHANGED calls
    BY <1>5 DEF RejectPage, ReturnError
  <2>3. \A i \in 1..Len(calls) : i = 1
    BY <2>1
  <2>4. Asked[1].answer = "success"
    BY <2>1, AskedClasses
  <2>5. QED
    BY <2>1, <2>2, <2>3, <2>4, FailureStep DEF Contract!Next
<1>6. CASE \/ AcceptPage \/ ReportUnplayable \/ MapPage \/ LackTokens \/ CopySecret
           \/ RefuseTokens \/ BuildTahoe \/ RefuseTahoe \/ MapTahoe
           \/ UNCHANGED vars
  BY <1>6, StutterStep DEF AcceptPage, ReportUnplayable, MapPage, LackTokens, CopySecret,
     RefuseTokens, BuildTahoe, RefuseTahoe, MapTahoe, Build, vars
<1>7. CASE SendTahoe
  <2>1. /\ Len(calls) = 1 /\ outcome = Pending
        /\ calls[1].reply \in PageReplies /\ Usable(calls[1].reply)
    BY <1>0, <1>7 DEF SendTahoe, IInv, Conversation
  <2>2. QED
    BY <1>7, <2>1, AskStep DEF SendTahoe, CallHost, Contract!Next
<1>8. CASE \E reply \in TahoeReplies : TahoeReturns(reply)
  <2>1. Len(calls) = 2 /\ calls[Len(calls)].reply = Pending
    BY <1>8 DEF TahoeReturns, IInv, Conversation
  <2>2. calls # << >>
    BY <2>1
  <2>3. QED
    BY <1>8, <2>1, <2>2, AnswerStep DEF TahoeReturns, HostReturns, Contract!Next
<1>9. CASE FailTahoe
  <2>1. /\ Len(calls) = 2 /\ outcome = Pending /\ Usable(calls[1].reply)
        /\ calls[1].reply \in PageReplies /\ calls[2].reply \in TahoeReplies
    BY <1>0, <1>9 DEF FailTahoe, IInv, Conversation
  <2>2. 1 \in 1..Len(calls) /\ 2 \in 1..Len(calls)
        /\ \A i \in 1..Len(calls) : i = 1 \/ i = 2
    BY <2>1
  <2>3. Asked[1].answer = "success"
    BY <2>1, <2>2, AskedClasses
  <2>4. PICK e : /\ outcome' = [kind |-> "error", error |-> e] /\ UNCHANGED calls
                 /\ \/ ~Usable(calls[2].reply) /\ e = RetrievalError(calls[2].reply)
                    \/ Usable(calls[2].reply) /\ e = malformed
    BY <1>9 DEF FailTahoe, ReturnError
  <2>5. e.retryable <=> Asked[2].answer = "transient"
    BY <2>1, <2>2, <2>4, AskedClasses
  <2>6. QED
    BY <2>1, <2>2, <2>3, <2>4, <2>5, FailureStep DEF Contract!Next
<1>10. CASE Return
  <2>1. /\ \A i \in 1..Len(calls) : calls[i].reply \in PageReplies \cup TahoeReplies
        /\ \A i \in 1..Len(calls) : Usable(calls[i].reply)
        /\ outcome = Pending /\ calls # << >> /\ UNCHANGED calls
    <3>1. outcome = Pending /\ calls # << >> /\ UNCHANGED calls
      BY <1>0, <1>10 DEF Return, IInv, Conversation
    <3>2. \A i \in 1..Len(calls) : Usable(calls[i].reply)
      BY <1>10 DEF Return, IInv, Conversation
    <3>3. /\ Len(calls) \in 0..2
          /\ calls[1].reply \in PageReplies
          /\ Len(calls) = 2 => calls[2].reply \in TahoeReplies
      BY <3>1, <1>10 DEF Return, IInv, Conversation
    <3>4. \A i \in 1..Len(calls) : i = 1 \/ (i = 2 /\ Len(calls) = 2)
      BY <3>3
    <3>5. \A i \in 1..Len(calls) : calls[i].reply \in PageReplies \cup TahoeReplies
      BY <3>3, <3>4
    <3>6. QED
      BY <3>1, <3>2, <3>5
  <2>2. \A i \in 1..Len(calls) : Asked[i].answer = "success"
    BY <2>1, AskedClasses
  <2>3. CASE outcome' = [kind |-> "error", error |-> malformed]
    <3>1. ~malformed.retryable
      OBVIOUS
    <3>2. QED
      BY <2>1, <2>2, <2>3, <3>1, FailureStep DEF Contract!Next
  <2>4. CASE outcome' = [kind |-> "response", response |-> response]
    <3>1. Verdict = "pending" /\ Verdict' = "delivered" /\ Asked' = Asked
      BY <2>1, <2>4 DEF Verdict, Pending, Asked
    <3>2. Asked # << >>
      BY <1>0, <2>1
    <3>3. Contract!Deliver
      BY <1>0, <2>2, <3>1, <3>2 DEF Contract!Deliver, Contract!AllSucceeded
    <3>4. QED
      BY <3>3 DEF Contract!Next
  <2>5. QED
    BY <1>10, <2>3, <2>4 DEF Return, ReturnError
<1>11. QED
  BY <1>1, <1>2, <1>3, <1>4, <1>5, <1>6, <1>7, <1>8, <1>9, <1>10 DEF Next, Terminated

\* A resolve call of the Facebook plugin asks for at most one GET and one Tahoe
\* POST, the second only after the first succeeded, delivers only on successes,
\* and invites a retry exactly when the answer that stopped it may pass.
THEOREM KeepsContract == Spec => KeepsResolveContract
<1>1. Init => Contract!Init
  BY DEF Init, Contract!Init, Asked, Verdict, Pending
<1>2. IInv /\ [Next]_vars => [Contract!Next]_<<Asked, Verdict>>
  BY StepRefines
<1>3. QED
  BY <1>1, <1>2, SpecIInv, PTL DEF Spec, KeepsResolveContract, Contract!Spec, Contract!vars

------------------------------------------------------------------------------
(* What Collect makes of the URLs it reads.                                 *)

\* What the loop of collect_one over a list holds after its first n URLs: the safe
\* ones among them, each once, in the order in which they first occur.
Keeps(out, found, n) ==
  /\ out \in Seq(SafeUrls)
  /\ \A a \in 1..Len(out) : \E k \in 1..n : found[k] = out[a]
  /\ \A k \in 1..n : found[k] \in SafeUrls => \E a \in 1..Len(out) : out[a] = found[k]
  /\ \A a, b \in 1..Len(out) : a < b =>
       \A k \in 1..n : found[k] = out[b] => \E j \in 1..(k - 1) : found[j] = out[a]

\* The fold of Collect is that loop.
LEMMA CollectLoop ==
  ASSUME NEW found \in Seq(Urls)
  PROVE  \E kept \in [0..Len(found) -> Seq(SafeUrls)] :
           /\ kept[0] = << >> /\ kept[Len(found)] = FoldLeft(collect_one, << >>, found)
           /\ \A i \in 1..Len(found) : kept[i] = collect_one(kept[i - 1], found[i])
<1> DEFINE n == Len(found)
           Acc == Seq(SafeUrls)
           step == [x \in Acc \X (1..n) |-> collect_one(x[1], found[x[2]])]
           Reads(g) == g = [s \in SUBSET (DOMAIN found) |->
                              IF s = {} THEN << >>
                              ELSE collect_one(g[s \ {Max(s)}], found[Max(s)])]
           iter == CHOOSE g : Reads(g)
<1>1. n \in Nat /\ DOMAIN found = 1..n /\ << >> \in Acc
  OBVIOUS
<1>2. step \in [Acc \X (1..n) -> Acc]
  <2>1. ASSUME NEW out \in Acc, NEW i \in 1..n PROVE collect_one(out, found[i]) \in Acc
    BY AppendProperties DEF collect_one
  <2> QED
    BY <2>1
<1>3. \A out \in Acc, i \in 1..n : step[<<out, i>>] = collect_one(out, found[i])
  OBVIOUS
<1> HIDE DEF step, Acc, n, Reads, iter
<1>4. PICK F \in [SUBSET (1..n) -> Acc] : IsFold(F, n, << >>, step)
  <2>1. n \in Nat /\ << >> \in Acc
    BY <1>1
  <2> QED
    BY <2>1, <1>2, FoldExists
<1> USE DEF Reads
<1>5. Reads(F)
  <2>1. ASSUME NEW s \in SUBSET (1..n), s # {}
        PROVE  F[s] = collect_one(F[s \ {Max(s)}], found[Max(s)])
    BY <1>1, <1>3, <1>4, <2>1, MaxOfPlaces DEF IsFold
  <2> QED
    BY <1>1, <1>4, <2>1 DEF IsFold
<1>6. Reads(iter)
  BY <1>5 DEF iter
<1>7. FoldLeft(collect_one, << >>, found) = iter[DOMAIN found]
  BY DEF FoldLeft, MapThenFoldSet, collect_one, iter, Reads
<1>8. Unfolds(iter, n, Acc, << >>, step)
  BY <1>1, <1>3, <1>6, MaxOfPlaces DEF Unfolds
<1>9. IsLoop(Loop(iter, n), n, Acc, << >>, step)
  <2> HIDE DEF Reads
  <2> QED
    BY <1>1, <1>2, <1>8, FoldIsLoop
<1> DEFINE kept == Loop(iter, n)
<1>10. kept[n] = iter[1..n]
  BY <1>1, PlacesUpTo DEF Loop
<1> HIDE DEF kept
<1>11. \A i \in 1..n : kept[i] = collect_one(kept[i - 1], found[i])
  BY <1>1, <1>3, <1>9, PlacesUpTo DEF IsLoop, kept
<1> QED
  BY <1>1, <1>7, <1>9, <1>10, <1>11 DEF Acc, n, IsLoop, kept

\* What the loop keeps.
LEMMA CollectKeeps ==
  ASSUME NEW found \in Seq(Urls)
  PROVE  Keeps(FoldLeft(collect_one, << >>, found), found, Len(found))
<1> DEFINE n == Len(found)
<1>0. n \in Nat
  OBVIOUS
<1>1. PICK kept \in [0..n -> Seq(SafeUrls)] :
        /\ kept[0] = << >> /\ kept[n] = FoldLeft(collect_one, << >>, found)
        /\ \A i \in 1..n : kept[i] = collect_one(kept[i - 1], found[i])
  BY CollectLoop
<1> DEFINE T == {i \in 0..n : Keeps(kept[i], found, i)}
<1>2. Keeps(kept[0], found, 0)
  BY <1>1 DEF Keeps
<1>3. ASSUME NEW i \in 1..n, Keeps(kept[i - 1], found, i - 1)
      PROVE  Keeps(kept[i], found, i)
  <2> DEFINE out == kept[i - 1]
             url == found[i]
  <2>1. out \in Seq(SafeUrls) /\ url \in Urls /\ i \in Nat /\ i # 0
    BY <1>1, PlacesUpTo
  <2>2. kept[i] = collect_one(out, url)
    BY <1>1
  <2>3. \A k \in 1..i : k \in 1..(i - 1) \/ k = i
    BY <2>1
  <2>4. 1..(i - 1) \subseteq 1..i /\ i \in 1..i
    BY <2>1
  <2> HIDE DEF out
  <2>5. CASE url \in SafeUrls /\ \A a \in 1..Len(out) : out[a] # url
    <3>1. kept[i] = Append(out, url)
      BY <2>2, <2>5 DEF collect_one
    <3>2. /\ kept[i] \in Seq(SafeUrls) /\ Len(kept[i]) = Len(out) + 1
          /\ \A a \in 1..Len(out) : kept[i][a] = out[a]
          /\ kept[i][Len(out) + 1] = url
      BY <2>1, <2>5, <3>1, AppendProperties
    <3>3. Len(out) \in Nat /\ \A a \in 1..Len(kept[i]) : a \in 1..Len(out) \/ a = Len(out) + 1
      BY <2>1, <3>2
    <3>4. \A k \in 1..(i - 1) : found[k] # url
      BY <1>3, <2>5 DEF Keeps, out
    <3>5. \A a \in 1..Len(kept[i]) : \E k \in 1..i : found[k] = kept[i][a]
      BY <1>3, <2>4, <3>2, <3>3 DEF Keeps, out
    <3>6. \A k \in 1..i : found[k] \in SafeUrls =>
                            \E a \in 1..Len(kept[i]) : kept[i][a] = found[k]
      <4>1. Len(out) + 1 \in 1..Len(kept[i]) /\ 1..Len(out) \subseteq 1..Len(kept[i])
        BY <3>2, <3>3
      <4>2. \A k \in 1..(i - 1) : found[k] \in SafeUrls =>
                                    \E a \in 1..Len(out) : out[a] = found[k]
        BY <1>3 DEF Keeps, out
      <4> QED
        BY <2>3, <3>2, <4>1, <4>2
    <3>7. ASSUME NEW a \in 1..Len(kept[i]), NEW b \in 1..Len(kept[i]), a < b,
                 NEW k \in 1..i, found[k] = kept[i][b]
          PROVE  \E j \in 1..(k - 1) : found[j] = kept[i][a]
      <4>1. a \in 1..Len(out) /\ kept[i][a] = out[a]
        BY <3>2, <3>3, <3>7
      <4>2. CASE k = i
        BY <1>3, <4>1, <4>2 DEF Keeps, out
      <4>3. CASE k \in 1..(i - 1)
        <5>1. b \in 1..Len(out) /\ kept[i][b] = out[b]
          BY <3>2, <3>3, <3>4, <3>7, <4>3
        <5> QED
          BY <1>3, <3>7, <4>1, <4>3, <5>1 DEF Keeps, out
      <4> QED
        BY <2>3, <4>2, <4>3
    <3> QED
      BY <3>2, <3>5, <3>6, <3>7 DEF Keeps
  <2>6. CASE ~(url \in SafeUrls /\ \A a \in 1..Len(out) : out[a] # url)
    <3>1. kept[i] = out
      BY <2>2, <2>6 DEF collect_one
    <3>2. \A a \in 1..Len(out) : \E k \in 1..i : found[k] = out[a]
      BY <1>3, <2>4 DEF Keeps, out
    <3>3. \A k \in 1..i : found[k] \in SafeUrls => \E a \in 1..Len(out) : out[a] = found[k]
      BY <1>3, <2>3, <2>6 DEF Keeps, out
    <3>4. ASSUME NEW a \in 1..Len(out), NEW b \in 1..Len(out), a < b,
                 NEW k \in 1..i, found[k] = out[b]
          PROVE  \E j \in 1..(k - 1) : found[j] = out[a]
      <4>1. CASE k = i
        BY <1>3, <3>4, <4>1 DEF Keeps, out
      <4>2. CASE k \in 1..(i - 1)
        BY <1>3, <3>4, <4>2 DEF Keeps, out
      <4> QED
        BY <2>3, <4>1, <4>2
    <3>5. Keeps(out, found, i)
      BY <2>1, <3>2, <3>3, <3>4 DEF Keeps
    <3> QED
      BY <3>1, <3>5
  <2> QED
    BY <2>5, <2>6
<1>4. \A i \in 0..n : i \in T
  <2>1. 0 \in T /\ \A i \in 1..n : i - 1 \in T => i \in T
    BY <1>0, <1>2, <1>3, PlacesUpTo
  <2> HIDE DEF T
  <2> QED
    BY <1>0, <2>1, UpToBound
<1> QED
  BY <1>0, <1>1, <1>4

\* A list of streams answers a list of URLs on offer: the safe ones among them, each
\* once, in the order in which they first occur, all of them or as many as are allowed.
Matches(streams, offered) ==
  /\ streams \in Seq(SafeUrls) /\ Len(streams) <= Candidates
  /\ \A a \in 1..Len(streams) : \E k \in 1..Len(offered) : offered[k] = streams[a]
  /\ \A a, b \in 1..Len(streams) : a < b =>
       \A k \in 1..Len(offered) : offered[k] = streams[b] =>
         \E j \in 1..(k - 1) : offered[j] = streams[a]
  /\ \/ Len(streams) = Candidates
     \/ \A k \in 1..Len(offered) : offered[k] \in SafeUrls =>
          \E a \in 1..Len(streams) : streams[a] = offered[k]

\* Collect answers the list it reads, and finds nothing only where nothing is safe.
LEMMA CollectMatches ==
  ASSUME NEW found \in Seq(Urls)
  PROVE  /\ Matches(Collect(found), found)
         /\ Collect(found) = << >> => \A k \in 1..Len(found) : found[k] \notin SafeUrls
<1> DEFINE kept == FoldLeft(collect_one, << >>, found)
<1>1. Keeps(kept, found, Len(found))
  BY CollectKeeps
<1>2. Collect(found) = IF Len(kept) <= Candidates THEN kept ELSE SubSeq(kept, 1, Candidates)
  BY DEF Collect
<1>3. Candidates \in Nat /\ Candidates # 0
  BY SdkAssumption
<1> HIDE DEF kept
<1>4. CASE Len(kept) <= Candidates
  BY <1>1, <1>2, <1>4 DEF Keeps, Matches
<1>5. CASE ~(Len(kept) <= Candidates)
  <2> DEFINE out == SubSeq(kept, 1, Candidates)
  <2>1. kept \in Seq(SafeUrls) /\ Len(kept) \in Nat
    BY <1>1 DEF Keeps
  <2>2. 1..Candidates \subseteq 1..Len(kept)
    BY <1>3, <1>5, <2>1
  <2>3. /\ out \in Seq(SafeUrls) /\ Len(out) = Candidates
        /\ \A a \in 1..Candidates : out[a] = kept[a]
    BY <1>3, <1>5, <2>1, SubSeqProperties
  <2> HIDE DEF out
  <2>4. \A a \in 1..Len(out) : \E k \in 1..Len(found) : found[k] = out[a]
    BY <1>1, <2>2, <2>3 DEF Keeps
  <2>5. \A a, b \in 1..Len(out) : a < b =>
          \A k \in 1..Len(found) : found[k] = out[b] =>
            \E j \in 1..(k - 1) : found[j] = out[a]
    <3>1. \A a, b \in 1..Len(kept) : a < b =>
            \A k \in 1..Len(found) : found[k] = kept[b] =>
              \E j \in 1..(k - 1) : found[j] = kept[a]
      BY <1>1 DEF Keeps
    <3>2. SUFFICES ASSUME NEW a \in 1..Len(out), NEW b \in 1..Len(out), a < b,
                          NEW k \in 1..Len(found), found[k] = out[b]
                   PROVE  \E j \in 1..(k - 1) : found[j] = out[a]
      OBVIOUS
    <3>3. /\ a \in 1..Len(kept) /\ b \in 1..Len(kept)
          /\ out[a] = kept[a] /\ out[b] = kept[b]
      BY <2>2, <2>3
    <3> QED
      BY <3>1, <3>2, <3>3
  <2>6. Matches(out, found)
    BY <1>3, <2>3, <2>4, <2>5 DEF Matches
  <2>7. out # << >>
    BY <1>3, <2>3
  <2> QED
    BY <1>2, <1>5, <2>6, <2>7 DEF out
<1> QED
  BY <1>4, <1>5

\* Where the elements of a concatenation are.
LEMMA InConcatenation ==
  ASSUME NEW first \in Seq(Urls), NEW found \in Seq(Urls)
  PROVE  /\ Len(first \o found) = Len(first) + Len(found)
         /\ \A k \in 1..Len(first) : (first \o found)[k] = first[k]
         /\ \A k \in 1..Len(found) : /\ Len(first) + k \in 1..Len(first \o found)
                                     /\ (first \o found)[Len(first) + k] = found[k]
         /\ \A k \in 1..Len(first \o found) :
              \/ k \in 1..Len(first)
              \/ /\ k - Len(first) \in 1..Len(found)
                 /\ (first \o found)[k] = found[k - Len(first)]
<1>1. /\ Len(first) \in Nat /\ Len(found) \in Nat
      /\ Len(first \o found) = Len(first) + Len(found)
  OBVIOUS
<1>2. \A k \in 1..Len(first) : (first \o found)[k] = first[k]
  OBVIOUS
<1>3. \A k \in 1..Len(found) : /\ Len(first) + k \in 1..Len(first \o found)
                               /\ (first \o found)[Len(first) + k] = found[k]
  OBVIOUS
<1>4. ASSUME NEW k \in 1..Len(first \o found), k \notin 1..Len(first)
      PROVE  /\ k - Len(first) \in 1..Len(found)
             /\ (first \o found)[k] = found[k - Len(first)]
  <2>1. k - Len(first) \in 1..Len(found) /\ Len(first) + (k - Len(first)) = k
    BY <1>1, <1>4
  <2> QED
    BY <1>3, <2>1
<1> QED
  BY <1>1, <1>2, <1>3, <1>4

\* The streams of a list answer it still when URLs that are not safe come before it.
LEMMA MatchesAfter ==
  ASSUME NEW streams, NEW found \in Seq(Urls), Matches(streams, found),
         NEW first \in Seq(Urls), \A k \in 1..Len(first) : first[k] \notin SafeUrls
  PROVE  Matches(streams, first \o found)
<1> DEFINE m == Len(first)
           all == first \o found
           total == Len(all)
<1>1. m \in Nat /\ total \in Nat
  OBVIOUS
<1>2. \A k \in 1..m : k \in 1..total /\ all[k] \notin SafeUrls
  BY InConcatenation
<1>3. \A k \in 1..Len(found) : m + k \in 1..total /\ all[m + k] = found[k]
  BY InConcatenation
<1>4. \A k \in 1..total : k \in 1..m \/ (k - m \in 1..Len(found) /\ all[k] = found[k - m])
  BY InConcatenation
<1>5. streams \in Seq(SafeUrls) /\ \A a \in 1..Len(streams) : streams[a] \in SafeUrls
  BY DEF Matches
<1> HIDE DEF all, m, total
<1>6. \A a \in 1..Len(streams) : \E k \in 1..total : all[k] = streams[a]
  <2>1. \A a \in 1..Len(streams) : \E k \in 1..Len(found) : found[k] = streams[a]
    BY DEF Matches
  <2> QED
    BY <1>3, <2>1
<1>7. ASSUME NEW a \in 1..Len(streams), NEW b \in 1..Len(streams), a < b,
             NEW k \in 1..total, all[k] = streams[b]
      PROVE  \E j \in 1..(k - 1) : all[j] = streams[a]
  <2>1. k - m \in 1..Len(found) /\ found[k - m] = streams[b]
    BY <1>2, <1>4, <1>5, <1>7
  <2>2. PICK j \in 1..(k - m - 1) : found[j] = streams[a]
    <3>1. \A i \in 1..Len(found) : found[i] = streams[b] =>
            \E j \in 1..(i - 1) : found[j] = streams[a]
      BY <1>7 DEF Matches
    <3> QED
      BY <2>1, <3>1
  <2>3. m + j \in 1..(k - 1)
    BY <1>1, <2>2
  <2>4. j \in 1..Len(found)
    BY <1>1, <2>1, <2>2
  <2> QED
    BY <1>3, <2>2, <2>3, <2>4
<1>8. \/ Len(streams) = Candidates
      \/ \A k \in 1..total : all[k] \in SafeUrls =>
           \E a \in 1..Len(streams) : streams[a] = all[k]
  <2>1. \/ Len(streams) = Candidates
        \/ \A k \in 1..Len(found) : found[k] \in SafeUrls =>
             \E a \in 1..Len(streams) : streams[a] = found[k]
    BY DEF Matches
  <2> QED
    BY <1>2, <1>4, <2>1
<1>9. Len(streams) <= Candidates
  BY DEF Matches
<1> QED
  BY <1>5, <1>6, <1>7, <1>8, <1>9 DEF Matches, all, total

------------------------------------------------------------------------------
(* What is delivered, and from where.                                        *)

\* A response answers what was on offer, and calls an item unsupported exactly when
\* it names no stream.
Faithful(r) ==
  /\ Offered \in Seq(Urls)
  /\ Matches(r.streams, Offered)
  /\ r.resolution = "unsupported" <=> r.streams = << >>

Outcomes == {Pending}
              \cup [kind : {"error"}, error : ResolverErrors]
              \cup [kind : {"response"}, response : ResolveResponses]

\* What has been built answers what the host has delivered so far, and the Tahoe
\* call is built from a page with good tokens.
Provenance ==
  /\ source \in Sources /\ response \in ResolveResponses /\ outcome \in Outcomes
  /\ pc = "validate" => Faithful(response)
  /\ outcome.kind = "response" =>
       /\ pc = "done" /\ calls # << >>
       /\ outcome.response = response /\ Faithful(response)
  /\ pc \in {"built", "await_tahoe", "tahoe_status"} => Page.tokens = "good"

\* The first of some places in a sequence.
LEMMA FirstPlace ==
  ASSUME NEW indexes \in SUBSET Nat, indexes # {}
  PROVE  FirstOf(indexes) \in indexes /\ \A j \in indexes : FirstOf(indexes) <= j
<1>1. \E i \in indexes : \A j \in indexes : i <= j
  BY LeastExists
<1> QED
  BY <1>1 DEF FirstOf

\* The media object of a page lists URLs.
LEMMA MediaTyped ==
  ASSUME NEW blocks \in Seq(Blocks), HasMedia(blocks)
  PROVE  MediaOf(blocks) \in Media
<1> DEFINE key == IF LeadsToMedia(blocks, "video_data") THEN "video_data"
                                                        ELSE "creation_story"
           indexes == BlocksWith(blocks, key)
<1>1. LeadsToMedia(blocks, key)
  BY DEF HasMedia
<1>2. indexes # {} /\ indexes \in SUBSET Nat /\ indexes \subseteq 1..Len(blocks)
  BY <1>1 DEF LeadsToMedia, BlocksWith
<1> HIDE DEF indexes
<1>3. FirstOf(indexes) \in 1..Len(blocks)
  BY <1>2, FirstPlace
<1>4. blocks[FirstOf(indexes)] \in Blocks
  BY <1>3
<1>5. blocks[FirstOf(indexes)].media \in Media
  BY <1>4 DEF Blocks
<1> QED
  BY <1>5 DEF MediaOf, indexes

\* The URLs of a page that was delivered, and of the answer to the Tahoe POST.
LEMMA BodiesTyped ==
  ASSUME IInv
  PROVE  /\ calls # << >> /\ pc # "await_page" /\ Usable(calls[1].reply)
              => /\ Page \in PageBodies
                 /\ HasMedia(Page.blocks) => PageMedia \in Media
         /\ Len(calls) = 2 /\ pc # "await_tahoe" /\ Usable(calls[2].reply)
              => TahoeBody \in TahoeBodyRecords
<1>1. ASSUME calls # << >>, pc # "await_page", Usable(calls[1].reply)
      PROVE  /\ Page \in PageBodies
             /\ HasMedia(Page.blocks) => PageMedia \in Media
  <2>1. calls[1].reply \in Answers(PageBodies)
    BY <1>1, ReplyAssumption DEF IInv, Conversation
  <2>2. Page \in PageBodies
    BY <1>1, <2>1, AnswerTables DEF Page
  <2>3. Page.blocks \in Seq(Blocks)
    BY <2>2 DEF PageBodies
  <2> QED
    BY <2>2, <2>3, MediaTyped DEF PageMedia
<1>2. ASSUME Len(calls) = 2, pc # "await_tahoe", Usable(calls[2].reply)
      PROVE  TahoeBody \in TahoeBodyRecords
  <2>1. calls[2].reply \in Answers(TahoeBodyRecords)
    BY <1>2, ReplyAssumption DEF IInv, Conversation
  <2> QED
    BY <1>2, <2>1, AnswerTables DEF TahoeBody
<1> QED
  BY <1>1, <1>2

\* What is on offer while the page is judged, and when Tahoe has answered.
LEMMA OfferedNow ==
  ASSUME IInv, calls # << >>, Usable(calls[1].reply), pc # "await_page",
         Len(calls) = 2 => pc # "await_tahoe" /\ Usable(calls[2].reply)
  PROVE  /\ HasMedia(Page.blocks) => PageMedia.progressive \in Seq(Urls)
         /\ ~HasMedia(Page.blocks) /\ Len(calls) = 1 => Offered = << >>
         /\ HasMedia(Page.blocks) /\ Len(calls) = 1 => Offered = PageMedia.progressive
         /\ Len(calls) = 2 => /\ TahoeBody.urls \in Seq(Urls)
                              /\ HasMedia(Page.blocks)
                              /\ Offered = PageMedia.progressive \o TahoeBody.urls
         /\ Len(calls) \in 1..2 => Offered \in Seq(Urls)
<1>1. HasMedia(Page.blocks) => PageMedia.progressive \in Seq(Urls)
  BY BodiesTyped DEF Media
<1>2. Len(calls) = 2 => TahoeBody.urls \in Seq(Urls)
  BY BodiesTyped DEF TahoeBodyRecords
<1>3. Len(calls) = 2 => HasMedia(Page.blocks)
  BY DEF IInv, Custody, NeedsTahoe
<1>4. \A s \in Seq(Urls) : s \o << >> = s
  OBVIOUS
<1>5. << >> \o << >> = << >>
  BY <1>4
<1>6. CASE Len(calls) = 2
  <2>1. HasMedia(Page.blocks) /\ Len(calls) # 1
    BY <1>3, <1>6
  <2>2. Offered = PageMedia.progressive \o TahoeBody.urls
    BY <1>6, <2>1 DEF Offered
  <2>3. \A s, t \in Seq(Urls) : s \o t \in Seq(Urls)
    OBVIOUS
  <2>4. Offered \in Seq(Urls)
    BY <1>1, <1>2, <1>6, <2>1, <2>2, <2>3
  <2> QED
    BY <1>1, <1>2, <1>6, <2>1, <2>2, <2>4
<1>7. CASE Len(calls) # 2 /\ HasMedia(Page.blocks)
  <2>1. Offered = PageMedia.progressive \o << >>
    BY <1>7 DEF Offered
  <2> QED
    BY <1>1, <1>4, <1>7, <2>1
<1>8. CASE Len(calls) # 2 /\ ~HasMedia(Page.blocks)
  <2>1. Offered = << >> \o << >>
    BY <1>8 DEF Offered
  <2>2. << >> \in Seq(Urls)
    OBVIOUS
  <2> QED
    BY <1>5, <1>8, <2>1, <2>2
<1> QED
  BY <1>6, <1>7, <1>8

\* An item with nothing safe on offer is rightly called unsupported.
LEMMA NothingOffered ==
  ASSUME NEW found \in Seq(Urls), Collect(found) = << >>
  PROVE  Matches(<< >>, found) /\ \A k \in 1..Len(found) : found[k] \notin SafeUrls
BY CollectMatches

\* What is played is read off the list it was collected from.
LEMMA MappedResponse ==
  ASSUME NEW found \in Seq(Urls), Collect(found) # << >>,
         NEW text \in {"none", "clean", "control"}
  PROVE  LET r == map_progressive(Collect(found), text)
         IN  /\ r \in ResolveResponses /\ r.streams = Collect(found)
             /\ r.streams # << >> /\ r.resolution # "unsupported"
<1>1. Collect(found) \in Seq(SafeUrls)
  BY CollectMatches DEF Matches
<1>2. Collect(found) \in Seq(Urls)
  BY <1>1, SdkAssumption
<1> QED
  BY <1>2 DEF map_progressive, ResolveResponses

\* An error return delivers nothing.
LEMMA ErrorProvenance ==
  ASSUME IInv, Provenance, NEW e \in ResolverErrors, ReturnError(e),
         UNCHANGED <<source, calls, response>>
  PROVE  Provenance'
<1>1. outcome' = [kind |-> "error", error |-> e] /\ pc' = "done"
  BY DEF ReturnError
<1>2. outcome' \in Outcomes /\ outcome'.kind = "error"
  BY <1>1 DEF Outcomes
<1> QED
  BY <1>1, <1>2 DEF Provenance

\* Nor does a step that neither builds nor returns.
LEMMA UnbuiltProvenance ==
  ASSUME IInv, Provenance, UNCHANGED <<source, response, outcome>>, pc # "done",
         pc' \notin {"validate", "done"},
         pc' \in {"built", "await_tahoe", "tahoe_status"} => Page'.tokens = "good"
  PROVE  Provenance'
<1>1. outcome = Pending
  BY DEF IInv, Conversation
<1> QED
  BY <1>1 DEF Provenance, Pending

\* A step that builds a response faithful to what is on offer.
LEMMA BuildProvenance ==
  ASSUME IInv, Provenance, NEW r \in ResolveResponses, Build(r), pc # "done", Faithful(r)
  PROVE  Provenance'
<1>1. /\ pc' = "validate" /\ response' = r /\ outcome = Pending
      /\ UNCHANGED <<source, calls, outcome>>
  BY DEF Build, IInv, Conversation
<1>2. Offered' = Offered
  BY <1>1 DEF Offered, PageMedia, Page, TahoeBody
<1>3. Faithful(response)'
  BY <1>1, <1>2 DEF Faithful
<1> QED
  BY <1>1, <1>3 DEF Provenance, Pending

\* unsupported_response is built only when nothing safe is on offer.
LEMMA UnsupportedStep ==
  ASSUME IInv, Provenance, Build(unsupported_response),
         ReportUnplayable \/ LackTokens \/ RefuseTokens \/ RefuseTahoe
  PROVE  Provenance'
<1>1. /\ pc \in {"page", "tokens"} /\ Len(calls) = 1
      /\ \A i \in 1..Len(calls) : Usable(calls[i].reply)
      /\ HasMedia(Page.blocks) => Collect(PageMedia.progressive) = << >>
  <2>1. pc \in {"page", "tokens"}
    BY DEF ReportUnplayable, LackTokens, RefuseTokens, RefuseTahoe
  <2>2. HasMedia(Page.blocks) => Collect(PageMedia.progressive) = << >>
    BY DEF ReportUnplayable, NothingPlayable, LackTokens, RefuseTokens, RefuseTahoe,
       NeedsTahoe, IInv, Custody
  <2> QED
    BY <2>1, <2>2 DEF IInv, Conversation
<1>2. calls # << >> /\ Usable(calls[1].reply) /\ Len(calls) # 2
  BY <1>1
<1>3. Matches(<< >>, Offered)
  <2>1. CASE HasMedia(Page.blocks)
    BY <1>1, <1>2, <2>1, OfferedNow, NothingOffered
  <2>2. CASE ~HasMedia(Page.blocks)
    <3>1. Offered = << >>
      BY <1>1, <1>2, <2>2, OfferedNow
    <3>2. 1..Len(<< >>) = {} /\ << >> \in Seq(SafeUrls) /\ Len(<< >>) = 0
      OBVIOUS
    <3> QED
      BY <3>1, <3>2, SdkAssumption DEF Matches
  <2> QED
    BY <2>1, <2>2
<1>4. Faithful(unsupported_response)
  BY <1>1, <1>2, <1>3, OfferedNow DEF Faithful, unsupported_response
<1>5. unsupported_response \in ResolveResponses
  BY DEF unsupported_response, ResolveResponses
<1> QED
  BY <1>1, <1>4, <1>5, BuildProvenance

\* What the page or the Tahoe answer offers is what is played.
LEMMA MappedStep ==
  ASSUME IInv, Provenance, MapPage \/ MapTahoe
  PROVE  Provenance'
<1>1. CASE MapPage
  <2>1. /\ pc = "page" /\ Len(calls) = 1 /\ HasMedia(Page.blocks)
        /\ \A i \in 1..Len(calls) : Usable(calls[i].reply)
        /\ Collect(PageMedia.progressive) # << >>
        /\ Build(map_progressive(Collect(PageMedia.progressive), PageMedia.title))
    BY <1>1 DEF MapPage, IInv, Conversation
  <2>2. calls # << >> /\ Usable(calls[1].reply) /\ Len(calls) # 2
    BY <2>1
  <2>3. Offered = PageMedia.progressive /\ PageMedia.progressive \in Seq(Urls)
    BY <2>1, <2>2, OfferedNow
  <2>4. PageMedia.title \in {"none", "clean", "control"}
    BY <2>1, <2>2, BodiesTyped DEF Media
  <2> DEFINE r == map_progressive(Collect(PageMedia.progressive), PageMedia.title)
  <2>5. /\ r \in ResolveResponses /\ r.streams = Collect(PageMedia.progressive)
        /\ r.streams # << >> /\ r.resolution # "unsupported"
    BY <2>1, <2>3, <2>4, MappedResponse
  <2>6. Build(r) /\ pc # "done"
    BY <2>1
  <2> HIDE DEF r
  <2>7. Faithful(r)
    BY <2>3, <2>5, CollectMatches DEF Faithful
  <2> QED
    BY <2>5, <2>6, <2>7, BuildProvenance
<1>2. CASE MapTahoe
  <2>1. pc = "tahoe_status" /\ Len(calls) = 2 /\ Usable(calls[2].reply)
        /\ Build(IF Collect(TahoeBody.urls) = << >> THEN unsupported_response
                 ELSE map_progressive(Collect(TahoeBody.urls), "none"))
    BY <1>2 DEF MapTahoe, IInv, Conversation
  <2>2. Usable(calls[1].reply) /\ Collect(PageMedia.progressive) = << >>
    BY <2>1 DEF IInv, Conversation, Custody, NeedsTahoe
  <2>3. calls # << >>
    BY <2>1
  <2>4. /\ TahoeBody.urls \in Seq(Urls) /\ PageMedia.progressive \in Seq(Urls)
        /\ Offered = PageMedia.progressive \o TahoeBody.urls
    BY <2>1, <2>2, <2>3, OfferedNow
  <2>5. Matches(Collect(TahoeBody.urls), Offered)
    BY <2>2, <2>4, CollectMatches, NothingOffered, MatchesAfter
  <2> DEFINE r == IF Collect(TahoeBody.urls) = << >> THEN unsupported_response
                  ELSE map_progressive(Collect(TahoeBody.urls), "none")
  <2>6. /\ r \in ResolveResponses /\ r.streams = Collect(TahoeBody.urls)
        /\ r.resolution = "unsupported" <=> r.streams = << >>
    <3>1. CASE Collect(TahoeBody.urls) = << >>
      BY <3>1 DEF unsupported_response, ResolveResponses
    <3>2. CASE Collect(TahoeBody.urls) # << >>
      BY <2>4, <3>2, MappedResponse
    <3> QED
      BY <3>1, <3>2
  <2>7. Build(r) /\ pc # "done"
    BY <2>1
  <2> HIDE DEF r
  <2>8. Faithful(r)
    BY <2>1, <2>2, <2>3, <2>5, <2>6, OfferedNow DEF Faithful
  <2> QED
    BY <2>6, <2>7, <2>8, BuildProvenance
<1> QED
  BY <1>1, <1>2

\* The response leaves resolve as it was built, or not at all.
LEMMA ReturnProvenance ==
  ASSUME IInv, Provenance, Return
  PROVE  Provenance'
<1>1. malformed \in ResolverErrors
  BY DEF malformed, ResolverError, ResolverErrors, ResolverErrorKinds
<1>2. CASE ReturnError(malformed)
  BY <1>1, <1>2, ErrorProvenance DEF Return
<1>3. CASE pc' = "done" /\ outcome' = [kind |-> "response", response |-> response]
  <2>1. UNCHANGED <<source, calls, response>> /\ Faithful(response) /\ calls # << >>
    BY DEF Return, Provenance, IInv, Conversation
  <2>2. Offered' = Offered
    BY <2>1 DEF Offered, PageMedia, Page, TahoeBody
  <2>3. Faithful(response)'
    BY <2>1, <2>2 DEF Faithful
  <2>4. outcome' \in Outcomes /\ outcome'.kind = "response" /\ outcome'.response = response
    BY <1>3 DEF Outcomes, Provenance
  <2> QED
    BY <1>3, <2>1, <2>3, <2>4 DEF Provenance
<1> QED
  BY <1>2, <1>3 DEF Return

\* Every step keeps the account of what is delivered.
LEMMA NextProvenance == IInv /\ Provenance /\ [Next]_vars => Provenance'
<1> SUFFICES ASSUME IInv, Provenance, [Next]_vars PROVE Provenance'
  OBVIOUS
<1>1. CASE RejectSource \/ RefuseGet \/ FailPage \/ RejectPage \/ FailTahoe
  <2>1. /\ malformed \in ResolverErrors /\ private \in ResolverErrors
        /\ invalid_input \in ResolverErrors /\ transport("InvalidRequest") \in ResolverErrors
    BY DEF malformed, private, invalid_input, policy, transport, ResolverError,
       ResolverErrors, ResolverErrorKinds
  <2>2. FailPage => RetrievalError(calls[1].reply) \in ResolverErrors
    <3>1. FailPage => Len(calls) = 1 /\ pc # "await_page"
      BY DEF FailPage, IInv, Conversation
    <3>2. FailPage => calls # << >>
      BY <3>1
    <3>3. FailPage => calls[1].reply \in Answers(PageBodies)
      BY <3>1, <3>2, ReplyAssumption DEF IInv, Conversation
    <3> QED
      BY <3>3, AnswerTables DEF FailPage
  <2>3. FailTahoe /\ ~Usable(calls[2].reply) => RetrievalError(calls[2].reply) \in ResolverErrors
    <3>1. FailTahoe => Len(calls) = 2 /\ pc # "await_tahoe"
      BY DEF FailTahoe, IInv, Conversation
    <3>2. FailTahoe => calls[2].reply \in Answers(TahoeBodyRecords)
      BY <3>1, ReplyAssumption DEF IInv, Conversation
    <3> QED
      BY <3>2, AnswerTables
  <2>4. \E e \in ResolverErrors : ReturnError(e)
    <3>1. CASE RejectSource \/ RefuseGet
      BY <2>1, <3>1 DEF RejectSource, RefuseGet
    <3>2. CASE FailPage
      BY <2>2, <3>2 DEF FailPage
    <3>3. CASE RejectPage
      <4>1. ReturnError(malformed) \/ ReturnError(private)
        BY <3>3 DEF RejectPage
      <4> QED
        BY <2>1, <4>1
    <3>4. CASE FailTahoe
      <4>1. \/ ~Usable(calls[2].reply) /\ ReturnError(RetrievalError(calls[2].reply))
            \/ ReturnError(malformed)
        BY <3>4 DEF FailTahoe
      <4> QED
        BY <2>1, <2>3, <3>4, <4>1
    <3> QED
      BY <1>1, <3>1, <3>2, <3>3, <3>4
  <2>5. UNCHANGED <<source, calls, response>>
    BY <1>1 DEF RejectSource, RefuseGet, FailPage, RejectPage, FailTahoe
  <2> QED
    BY <2>4, <2>5, ErrorProvenance
<1>2. CASE \/ SendGet \/ AcceptPage \/ CopySecret
           \/ \E reply \in PageReplies : PageReturns(reply)
  BY <1>2, UnbuiltProvenance DEF SendGet, CallHost, PageReturns, HostReturns, AcceptPage,
     CopySecret
<1>3. CASE BuildTahoe
  BY <1>3, UnbuiltProvenance DEF BuildTahoe, Page
<1>4. CASE SendTahoe
  <2>1. calls \in Seq(Calls) /\ Len(calls) = 1 /\ Page.tokens = "good"
    BY <1>4 DEF SendTahoe, IInv, Conversation, Provenance
  <2>2. calls'[1] = calls[1]
    BY <1>4, <2>1, CallsGrow DEF SendTahoe, CallHost
  <2> QED
    BY <1>4, <2>1, <2>2, UnbuiltProvenance DEF SendTahoe, CallHost, Page
<1>5. CASE \E reply \in TahoeReplies : TahoeReturns(reply)
  <2>1. PICK reply \in TahoeReplies : TahoeReturns(reply)
    BY <1>5
  <2>2. calls \in Seq(Calls) /\ Len(calls) = 2 /\ Page.tokens = "good"
    BY <2>1 DEF TahoeReturns, IInv, Conversation, Provenance
  <2>3. calls'[1] = calls[1]
    <3>0. Len(calls) = 2
      BY <2>2
    <3>1. calls # << >> /\ 1 # Len(calls)
      BY <3>0
    <3>2. 1 \in 1..Len(calls)
      BY <3>0
    <3> QED
      BY <2>1, <2>2, <3>1, <3>2, LastAnswered DEF TahoeReturns, HostReturns
  <2> QED
    BY <2>1, <2>2, <2>3, UnbuiltProvenance DEF TahoeReturns, HostReturns, Page
<1>6. CASE ReportUnplayable \/ LackTokens \/ RefuseTokens \/ RefuseTahoe
  BY <1>6, UnsupportedStep DEF ReportUnplayable, LackTokens, RefuseTokens, RefuseTahoe
<1>7. CASE MapPage \/ MapTahoe
  BY <1>7, MappedStep
<1>8. CASE Return
  BY <1>8, ReturnProvenance
<1>9. CASE UNCHANGED vars
  <2>1. Offered' = Offered /\ Page' = Page
    BY <1>9 DEF vars, Offered, PageMedia, Page, TahoeBody
  <2>2. Faithful(response)' <=> Faithful(response)
    BY <1>9, <2>1 DEF vars, Faithful
  <2> QED
    BY <1>9, <2>1, <2>2 DEF vars, Provenance
<1> QED
  BY <1>1, <1>2, <1>3, <1>4, <1>5, <1>6, <1>7, <1>8, <1>9 DEF Next, Terminated

LEMMA SpecProvenance == Spec => []Provenance
<1>1. Init => Provenance
  BY DEF Init, Provenance, Outcomes, Pending, unsupported_response, ResolveResponses
<1> QED
  BY <1>1, NextProvenance, SpecIInv, PTL DEF Spec

\* Every variable of the call keeps its type, whatever the host answers.
THEOREM TypeCorrect == Spec => []TypeOK
<1>1. IInv /\ Provenance => TypeOK
  <2> SUFFICES ASSUME IInv, Provenance PROVE TypeOK
    OBVIOUS
  <2>1. calls \in Seq(Calls) /\ Len(calls) <= 2
    <3>1. calls = << >> => Len(calls) = 0
      OBVIOUS
    <3>2. Len(calls) \in 0..2
      <4>1. Len(calls) = 0 \/ Len(calls) = 1 \/ Len(calls) = 2 \/ Len(calls) \in 0..2
        BY <3>1 DEF IInv, Places, Conversation
      <4> QED
        BY <4>1
    <3>3. \A m \in 0..2 : m <= 2
      OBVIOUS
    <3>4. Len(calls) <= 2
      BY <3>2, <3>3
    <3> QED
      BY <3>4 DEF IInv, Conversation
  <2>2. secret \in {"none", "ephemeral", "call", "wiped"}
    BY DEF IInv, Places, Custody
  <2> QED
    BY <2>1, <2>2 DEF TypeOK, IInv, Places, Provenance, Outcomes, ResolverErrors
<1> QED
  BY <1>1, SpecIInv, SpecProvenance, PTL

\* Streams that answer an offer are safe and on offer, in the order in which they
\* were first offered, and all of them unless the bound is reached.
LEMMA FaithfulStreams ==
  ASSUME NEW streams, Offered \in Seq(Urls), Matches(streams, Offered)
  PROVE  /\ ToSet(streams) \subseteq SafeOffers
         /\ \A i, j \in 1..Len(streams) :
              i < j => FirstOffer(streams[i]) < FirstOffer(streams[j])
         /\ ToSet(streams) = SafeOffers \/ Len(streams) = Candidates
<1>1. /\ streams \in Seq(SafeUrls)
      /\ \A a \in 1..Len(streams) : streams[a] \in SafeUrls
      /\ \A a \in 1..Len(streams) : \E k \in 1..Len(Offered) : Offered[k] = streams[a]
  BY DEF Matches
<1>2. ToSet(streams) \subseteq SafeOffers
  BY <1>1 DEF ToSet, SafeOffers
<1>3. ASSUME NEW a \in 1..Len(streams)
      PROVE  /\ FirstOffer(streams[a]) \in 1..Len(Offered)
             /\ Offered[FirstOffer(streams[a])] = streams[a]
             /\ \A k \in 1..Len(Offered) :
                  Offered[k] = streams[a] => FirstOffer(streams[a]) <= k
  <2> DEFINE indexes == {i \in 1..Len(Offered) : Offered[i] = streams[a]}
  <2>1. indexes \in SUBSET Nat /\ indexes # {}
    BY <1>1
  <2>2. FirstOf(indexes) \in indexes /\ \A j \in indexes : FirstOf(indexes) <= j
    <3> HIDE DEF indexes
    <3> QED
      BY <2>1, FirstPlace
  <2> QED
    BY <2>2 DEF FirstOffer
<1>4. ASSUME NEW i \in 1..Len(streams), NEW j \in 1..Len(streams), i < j
      PROVE  FirstOffer(streams[i]) < FirstOffer(streams[j])
  <2> DEFINE k == FirstOffer(streams[j])
             l == FirstOffer(streams[i])
  <2>1. k \in 1..Len(Offered) /\ Offered[k] = streams[j]
    BY <1>3
  <2> HIDE DEF k, l
  <2>2. PICK m \in 1..(k - 1) : Offered[m] = streams[i]
    BY <1>4, <2>1 DEF Matches
  <2>3. k \in Nat /\ m \in Nat /\ m < k /\ m \in 1..Len(Offered)
    BY <2>1, <2>2
  <2>4. l \in Nat /\ l <= m
    BY <1>3, <2>2, <2>3 DEF l
  <2>5. l < k
    BY <2>3, <2>4
  <2> QED
    BY <2>5 DEF k, l
<1>5. Len(streams) = Candidates \/ SafeOffers \subseteq ToSet(streams)
  BY DEF Matches, ToSet, SafeOffers
<1> QED
  BY <1>2, <1>4, <1>5

\* What the plugin delivers is what the page, then Tahoe, offered: the safe URLs, each
\* once, in their order, all of them or as many as an answer may name; and an item is
\* called unsupported only when there is none.
THEOREM DeliversTheOffer == Spec => []AnswerMatchesOffer
<1>1. Provenance => AnswerMatchesOffer
  BY FaithfulStreams DEF Provenance, Faithful, AnswerMatchesOffer
<1> QED
  BY <1>1, SpecProvenance, PTL

\* The Tahoe POST is sent once at most, and only as a last resort.
THEOREM TahoeComesLast == Spec => TahoeIsLastResort
<1>1. ASSUME IInv, Provenance, [Next]_vars, Len(calls') = 2, Len(calls) = 1
      PROVE  SendTahoe
  <2>1. calls \in Seq(Calls) /\ Len(calls') # Len(calls)
    BY <1>1 DEF IInv, Conversation
  <2>2. calls' # calls
    BY <2>1
  <2>3. \A reply : calls' # [calls EXCEPT ![Len(calls)].reply = reply]
    <3>1. \A reply : Len([calls EXCEPT ![Len(calls)].reply = reply]) = Len(calls)
      BY <2>1
    <3> QED
      BY <2>1, <3>1
  <2>4. pc # "classify"
    BY <1>1 DEF IInv, Conversation
  <2> QED
    BY <1>1, <2>2, <2>3, <2>4 DEF Next, vars, Terminated, RejectSource, RefuseGet, SendGet, CallHost,
       PageReturns, TahoeReturns, HostReturns, FailPage, AcceptPage, RejectPage,
       ReportUnplayable, MapPage, LackTokens, CopySecret, RefuseTokens, BuildTahoe,
       RefuseTahoe, FailTahoe, MapTahoe, Return, ReturnError, Build
<1>2. ASSUME IInv, Provenance, SendTahoe
      PROVE  /\ Usable(calls[1].reply) /\ ~Page.login_wall /\ Page.tokens = "good"
             /\ SafeOffers = {} /\ ~PageMedia.has_dash_hls /\ outcome = Pending
  <2>1. /\ pc = "built" /\ Len(calls) = 1 /\ outcome = Pending
        /\ NeedsTahoe /\ Page.tokens = "good"
        /\ \A i \in 1..Len(calls) : Usable(calls[i].reply)
    BY <1>2 DEF SendTahoe, IInv, Conversation, Custody, Provenance
  <2>2. calls # << >> /\ Usable(calls[1].reply) /\ Len(calls) # 2
    BY <2>1
  <2>3. /\ Readable /\ HasMedia(Page.blocks) /\ ~PageMedia.has_dash_hls
        /\ Collect(PageMedia.progressive) = << >>
    BY <2>1 DEF NeedsTahoe
  <2>4. Offered = PageMedia.progressive /\ PageMedia.progressive \in Seq(Urls)
    BY <1>2, <2>1, <2>2, <2>3, OfferedNow
  <2>5. \A k \in 1..Len(Offered) : Offered[k] \notin SafeUrls
    BY <2>3, <2>4, NothingOffered
  <2>6. SafeOffers = {}
    BY <2>5 DEF SafeOffers, ToSet
  <2> QED
    BY <2>1, <2>2, <2>3, <2>6 DEF Readable
<1> QED
  BY <1>1, <1>2, SpecIInv, SpecProvenance, PTL DEF Spec, TahoeIsLastResort
==============================================================================
