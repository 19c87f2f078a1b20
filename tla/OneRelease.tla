----------------------------- MODULE OneRelease -----------------------------
(***************************************************************************)
(* What the release workflow promises the clients of a tag (README.md,     *)
(* Releases): a release appears at once, with everything that its commit   *)
(* ships, from a commit that passed every check, and never changes again.  *)
(***************************************************************************)
CONSTANTS Tags,       \* the tags that may be released
          Commits,    \* the commits that pass every check
          Shipped,    \* what each of them ships
          Unreleased  \* stands for a tag without release

VARIABLE releases     \* the release of each tag, as the clients see it

Init == releases = [t \in Tags |-> Unreleased]

Release(t, c) ==
  /\ releases[t] = Unreleased
  /\ releases' = [releases EXCEPT ![t] = [commit |-> c, assets |-> Shipped[c]]]

Next == \E t \in Tags, c \in Commits : Release(t, c)

Spec == Init /\ [][Next]_releases
=============================================================================
