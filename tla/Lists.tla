-------------------------------- MODULE Lists --------------------------------
(***************************************************************************)
(* What several components do with a list, as folds: a filter, a loop that *)
(* takes the first of those that clash, and a stable sort.  A test is      *)
(* given as the set of the elements that pass it, and a relation of two    *)
(* elements as a set of pairs.                                             *)
(***************************************************************************)
EXTENDS SequencesExt, Integers

\* take and truncate: as many of the first as there are.
First(n, list) == SubSeq(list, 1, IF Len(list) < n THEN Len(list) ELSE n)

\* filter and retain: the elements that pass, in order.
Only(list, passing) ==
  LET keep(kept, e) == IF e \in passing THEN Append(kept, e) ELSE kept
  IN  FoldLeft(keep, << >>, list)

\* A loop that pushes an element when it passes, unless it clashes with one pushed
\* before it or there are as many as there may be.
Sieve(list, passing, clash, cap) ==
  LET keep(kept, e) ==
        IF /\ e \in passing /\ Len(kept) # cap
           /\ \A i \in 1..Len(kept) : <<kept[i], e>> \notin clash
        THEN Append(kept, e) ELSE kept
  IN  FoldLeft(keep, << >>, list)

\* sort_by: an element comes after those that may stay ahead of it, so equals keep
\* their order.
Inserted(sorted, e, ahead) ==
  Only(sorted, {x \in ToSet(sorted) : <<x, e>> \in ahead}) \o <<e>>
    \o Only(sorted, {x \in ToSet(sorted) : <<x, e>> \notin ahead})

StableSort(list, ahead) ==
  LET insert(sorted, e) == Inserted(sorted, e, ahead)
  IN  FoldLeft(insert, << >>, list)
==============================================================================
