--------------------------- MODULE ResolveContract ---------------------------
(***************************************************************************)
(* What one call of a resolver plugin promises its host: it asks for a     *)
(* fixed list of retrievals, each only after every earlier one succeeded;  *)
(* it delivers only on top of retrievals that all succeeded; and an error  *)
(* it returns invites a retry exactly when the retrieval that stopped it   *)
(* failed in a way that may pass.                                          *)
(***************************************************************************)
EXTENDS Naturals, Sequences

CONSTANT Script      \* the operations of the plugin, in the order it may ask

VARIABLES asked,     \* the retrievals asked for and how each was answered
          verdict    \* what the call returned

vars == <<asked, verdict>>

Answers == {"success", "transient", "refused"}
Verdicts == {"pending", "delivered", "retryable", "final"}

Init == asked = << >> /\ verdict = "pending"

AllSucceeded == \A i \in 1..Len(asked) : asked[i].answer = "success"

Ask ==
  /\ verdict = "pending"
  /\ AllSucceeded
  /\ Len(asked) < Len(Script)
  /\ asked' = Append(asked, [op |-> Script[Len(asked) + 1], answer |-> "none"])
  /\ UNCHANGED verdict

Answer(a) ==
  /\ asked # << >>
  /\ asked[Len(asked)].answer = "none"
  /\ asked' = [asked EXCEPT ![Len(asked)].answer = a]
  /\ UNCHANGED verdict

Deliver ==
  /\ verdict = "pending"
  /\ asked # << >>
  /\ AllSucceeded
  /\ verdict' = "delivered"
  /\ UNCHANGED asked

\* A retrieval that succeeded, or none at all, can only be followed by a final
\* error: what the plugin then objects to will not go away.
Fail ==
  /\ verdict = "pending"
  /\ \A i \in 1..Len(asked) : asked[i].answer # "none"
  /\ verdict' = IF \E i \in 1..Len(asked) : asked[i].answer = "transient"
                THEN "retryable" ELSE "final"
  /\ UNCHANGED asked

Next == Ask \/ (\E a \in Answers : Answer(a)) \/ Deliver \/ Fail

Spec == Init /\ [][Next]_vars
==============================================================================
