---------------------------- MODULE ScriptedHost ----------------------------
(***************************************************************************)
(* What the test host's fixture engine promises a test, without a queue,   *)
(* an index or a transcript: the exchanges of a script are replayed in     *)
(* order, each reply at most once and only to the very request it was      *)
(* scripted for; a refused call costs nothing; and a clean finish is given *)
(* only when the whole script has been replayed.                           *)
(***************************************************************************)
EXTENDS Naturals, Sequences

CONSTANTS Requests,  \* requests a client may send or a script may expect
          Replies,   \* replies a script may hold
          Scripts    \* the scripts considered, sequences of exchanges

VARIABLES script,    \* the exchanges the host was built with
          consumed,  \* how many of them have been replayed
          answer     \* the last call and what it returned

vars == <<script, consumed, answer>>

Init == /\ script \in Scripts
        /\ consumed = 0
        /\ answer = [call |-> "none"]

Replay(actual) ==
  /\ consumed < Len(script)
  /\ script[consumed + 1].request = actual
  /\ consumed' = consumed + 1
  /\ answer' = [call |-> "send", request |-> actual, ok |-> TRUE,
                reply |-> script[consumed + 1].reply]
  /\ UNCHANGED script

Refuse(actual) ==
  /\ consumed < Len(script) => script[consumed + 1].request # actual
  /\ answer' = [call |-> "send", request |-> actual, ok |-> FALSE]
  /\ UNCHANGED <<script, consumed>>

Finish ==
  /\ answer' = [call |-> "finish", ok |-> consumed = Len(script)]
  /\ UNCHANGED <<script, consumed>>

Next == \/ \E actual \in Requests : Replay(actual) \/ Refuse(actual)
        \/ Finish

Spec == Init /\ [][Next]_vars
=============================================================================
