--------------------------- MODULE MCStageRelease ---------------------------
(***************************************************************************)
(* Two asset names, one stray file, two good packages and a broken one;    *)
(* catalogs that bind one or two packages, use one name twice, name a      *)
(* path, lack a digest, bind the broken package, or are of another schema. *)
(***************************************************************************)
EXTENDS StageRelease, TLC

CONSTANTS p1, p2, broken

MCAssetNames == {"x.bex", "y.bex"}
MCOtherNames == {"../x.bex"}
MCStrays == {"notes"}
MCPackages == {p1, p2, broken}
MCArchives == {p1, p2}

Bind(n, p) == [asset_name |-> n, package |-> p]
Catalog(plugins) == [schema_version |-> "1", plugins |-> plugins]

MCCatalogs ==
  {Catalog(<<Bind("x.bex", p1)>>),
   Catalog(<<Bind("x.bex", p1), Bind("y.bex", p2)>>),
   Catalog(<<Bind("x.bex", p1), Bind("x.bex", p2)>>),
   Catalog(<<Bind("y.bex", p1), Bind("../x.bex", p2)>>),
   Catalog(<<Bind("y.bex", p2), Bind("x.bex", Missing)>>),
   Catalog(<<Bind("x.bex", broken)>>),
   Catalog(<< >>),
   [Catalog(<<Bind("x.bex", p1)>>) EXCEPT !.schema_version = "2"]}
=============================================================================
