-------------------------- MODULE MCReleasePipeline --------------------------
(***************************************************************************)
(* A small instance: three runs for one tag with v and one without, on a   *)
(* commit that passes and one that does not build.                         *)
(***************************************************************************)
EXTENDS ReleasePipeline

CONSTANTS pack, catalog

MCShipped == [c \in Commits |-> IF c = "broken" THEN {catalog} ELSE {pack, catalog}]
==============================================================================
