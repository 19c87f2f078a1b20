----------------------------- MODULE MCMockClient -----------------------------
(***************************************************************************)
(* Queues of up to two calls of each operation, a plugin that makes up to  *)
(* three, two field values, and three secrets of two lengths.              *)
(***************************************************************************)
EXTENDS MockClient

CONSTANTS u, v, short, long, same, ok

MCVisible == {u, v}
MCSecrets == {short, long, same}
MCLengthOf == [s \in MCSecrets |-> IF s = short THEN 1 ELSE 2]

Get(x, r) == [op |-> "get", visible |-> x, result |-> r]
Post(op, l, r) == [op |-> op, visible |-> u, length |-> l, result |-> r]

Calls == {Get(u, ok), Get(v, ok), Get(u, Refused),
          Post("post-public-graphql", 2, ok), Post("post-tahoe", 1, ok)}

MCQueues == {<< >>} \cup {<<x>> : x \in Calls} \cup {<<x, y>> : x, y \in Calls}
==============================================================================
