------------------------------ MODULE MCPackAll ------------------------------
(***************************************************************************)
(* Two plugin directories; manifests of both revisions, one that declares  *)
(* an unknown abi, one with a policy that is not accepted, one without a   *)
(* name, one that is not well formed; components of each revision, one of  *)
(* both, one with an export too many, of a version that no revision has,   *)
(* one cut off after its header, and a file that is no component.          *)
(***************************************************************************)
EXTENDS PackAll

CONSTANTS Names   \* the asset name of ids 1 and 2

MCIds == {1, 2}
MCAssetName == [i \in MCIds |-> Names[i]]
Distinct == <<"direct.bex", "x.bex">>
Colliding == <<"x.bex", "x.bex">>

Legacy(id) == [id |-> id, well_formed |-> TRUE, named |-> TRUE, abi |-> Missing,
               network_policy |-> Missing]
Current(id) == [Legacy(id) EXCEPT !.abi = "media-url-resolver@2.0.0",
                                  !.network_policy = "x-syndication-v1"]

MCManifests ==
  "direct-url" :> {Legacy(1), [Legacy(1) EXCEPT !.named = FALSE],
                   [Legacy(1) EXCEPT !.well_formed = FALSE],
                   [Legacy(1) EXCEPT !.abi = "media-url-resolver@3.0.0"]}
  @@ "x" :> {Current(2), Legacy(2),
             [Current(2) EXCEPT !.network_policy = "x-private-v1"],
             [Current(2) EXCEPT !.id = Missing]}

Component(imports, exports) ==
  [header |-> TRUE, parses |-> TRUE, imports |-> imports, exports |-> exports]

Wasi == [package |-> "wasi:io/", name |-> "streams@0.2.0"]
C1 == Component(<<Wasi>>, <<Interface("resolver@1.0.0")>>)
C2 == Component(<<Interface("https-client@2.0.0")>>, <<Interface("resolver@2.0.0")>>)
Mixed == Component(<<Interface("https-client@2.0.0")>>, <<Interface("resolver@1.0.0")>>)
Unknown == Component(<<Wasi>>, <<Interface("resolver@1.0.0"), Interface("resolver@3.0.0")>>)
CutOff == [C1 EXCEPT !.parses = FALSE]
NotOne == [CutOff EXCEPT !.header = FALSE]
MCComponents == {C1, C2, Mixed, Unknown, CutOff, NotOne}

\* An earlier run packed the second plugin alone.
Old == Package(Current(2), C2, V2)
MCOutputs ==
  {[Nothing EXCEPT !["x.bex"] = Old,
                   ![IndexFile] = <<[dir |-> "x", id |-> 2, asset_name |-> "x.bex",
                                     package |-> Old, wit |-> V2.abi]>>]}

MCBuilds ==
  "direct-url" :> {<<Absent, C1, Absent>>, <<C1, Absent, C2>>, <<Absent, Absent, Mixed>>,
                   <<CutOff, C1, Absent>>, <<Absent, Unknown, C1>>,
                   <<Absent, Absent, Absent>>}
  @@ "x" :> {<<Absent, C2, Absent>>, <<C1, C2, Absent>>, <<Absent, Mixed, C2>>}
==============================================================================
