----------------------------- MODULE FoldLemmas -----------------------------
(***************************************************************************)
(* FoldLeft, seen as a loop: what it holds after each element.  A model    *)
(* reads a list with a fold wherever the code reads it with a for loop, so *)
(* a property of the result is an invariant of that loop; it is proved by  *)
(* induction on the number of elements read.                               *)
(*                                                                         *)
(* The steps of a fold are given as a function of what is accumulated and  *)
(* of the place of the element, with the set of what can be accumulated.   *)
(*                                                                         *)
(* With them, for lists of every length: what Only, Sieve, StableSort and  *)
(* First of Lists return, how a filter stands to the list it was made of,  *)
(* and what lists joined or flattened hold.                                *)
(***************************************************************************)
EXTENDS Lists, FiniteSetTheorems, SequenceTheorems, WellFoundedInduction, TLAPS

------------------------------------------------------------------------------
\* Every nonempty set of numbers has a least one.
LEMMA LeastExists ==
  ASSUME NEW S \in SUBSET Nat, S # {}
  PROVE  \E x \in S : \A y \in S : x <= y
<1> DEFINE Below == {ss \in Nat \X Nat : ss[1] < ss[2]}
<1>1. IsWellFoundedOn(Below, Nat)
  BY NatLessThanWellFounded DEF OpToRel
<1>2. \E x \in S : \A y \in S : ~(<<y, x>> \in Below)
  <2> HIDE DEF Below
  <2> QED
    BY <1>1, WFMin
<1>3. PICK x \in S : \A y \in S : ~(<<y, x>> \in Below)
  BY <1>2
<1>4. ASSUME NEW y \in S PROVE x <= y
  <2>1. x \in Nat /\ y \in Nat /\ ~(<<y, x>> \in Below)
    BY <1>3
  <2>2. ~(y < x)
    BY <2>1
  <2> QED
    BY <2>1, <2>2
<1> QED
  BY <1>4

LEMMA PlacesUpTo ==
  ASSUME NEW n \in Nat
  PROVE  /\ 1..0 = {} /\ 0 \in 0..n /\ n \in 0..n
         /\ \A i \in 1..n : i \in 0..n /\ i - 1 \in 0..n
OBVIOUS

\* Induction on the natural numbers up to a bound, for a set of numbers.
LEMMA UpToBound ==
  ASSUME NEW n \in Nat, NEW T, 0 \in T,
         \A i \in 1..n : i - 1 \in T => i \in T
  PROVE  \A i \in 0..n : i \in T
<1> DEFINE rest == {i \in 0..n : i \notin T}
<1>1. SUFFICES ASSUME rest # {} PROVE FALSE
  OBVIOUS
<1>2. rest \in SUBSET Nat
  OBVIOUS
<1>3. \E i \in rest : \A j \in rest : i <= j
  <2> HIDE DEF rest
  <2> QED
    BY <1>1, <1>2, LeastExists
<1>4. PICK i \in rest : \A j \in rest : i <= j
  BY <1>3
<1>5. i \in 0..n /\ i # 0
  OBVIOUS
<1>6. i \in 1..n /\ i - 1 \in 0..n /\ ~(i <= i - 1)
  BY <1>5
<1>7. i - 1 \in rest
  BY <1>6
<1> QED
  BY <1>4, <1>6, <1>7

\* Every nonempty set of places has a greatest place.
LEMMA MaxOfPlaces ==
  ASSUME NEW n \in Nat, NEW s \in SUBSET (1..n), s # {}
  PROVE  Max(s) \in s /\ \A i \in s : i <= Max(s)
<1> DEFINE HasMax(m) == \A r \in SUBSET (1..m) :
                          r # {} => \E i \in r : \A j \in r : i >= j
           T == {m \in 0..n : HasMax(m)}
<1>1. HasMax(0)
  <2>1. \A r \in SUBSET (1..0) : r = {}
    OBVIOUS
  <2> QED
    BY <2>1
<1>2. ASSUME NEW m \in 1..n, HasMax(m - 1) PROVE HasMax(m)
  <2>1. ASSUME NEW r \in SUBSET (1..m), r # {}
        PROVE  \E i \in r : \A j \in r : i >= j
    <3>1. CASE m \in r
      BY <3>1
    <3>2. CASE m \notin r
      <4>1. r \in SUBSET (1..(m - 1))
        BY <3>2
      <4> QED
        BY <1>2, <2>1, <4>1
    <3> QED
      BY <3>1, <3>2
  <2> QED
    BY <2>1
<1>3. HasMax(n)
  <2> HIDE DEF HasMax
  <2>1. 0 \in T /\ \A i \in 1..n : i - 1 \in T => i \in T
    BY <1>1, <1>2
  <2>2. \A i \in 0..n : i \in T
    <3> HIDE DEF T
    <3> QED
      BY <2>1, UpToBound
  <2> QED
    BY <2>2
<1>4. \E i \in s : \A j \in s : i >= j
  BY <1>3
<1>5. Max(s) \in s /\ \A j \in s : Max(s) >= j
  BY <1>4 DEF Max
<1> QED
  BY <1>5

LEMMA LastPlace ==
  ASSUME NEW n \in Nat \ {0}, NEW s \in SUBSET (1..n), n \in s
  PROVE  Max(s) = n
<1>1. Max(s) \in s /\ n <= Max(s)
  BY MaxOfPlaces
<1>2. Max(s) \in 1..n
  BY <1>1
<1> QED
  BY <1>1, <1>2

\* The places up to one, without the last of them.
LEMMA Before ==
  ASSUME NEW n \in Nat, NEW i \in 1..n
  PROVE  /\ 1..i \in SUBSET (1..n) /\ 1..i # {}
         /\ Max(1..i) = i
         /\ (1..i) \ {Max(1..i)} = 1..(i - 1)
<1>1. 1..i \in SUBSET (1..n) /\ i \in 1..i
  OBVIOUS
<1>2. Max(1..i) \in 1..i /\ i <= Max(1..i)
  BY <1>1, MaxOfPlaces
<1>3. Max(1..i) = i
  BY <1>2
<1> QED
  BY <1>1, <1>3

------------------------------------------------------------------------------
\* A fold over n elements, as a recursive function on the sets of their places, and
\* as the loop that it is: what has been accumulated after each element.
IsFold(F, n, base, step) ==
  \A s \in SUBSET (1..n) :
    F[s] = IF s = {} THEN base ELSE step[<<F[s \ {Max(s)}], Max(s)>>]

\* As IsFold, of a function not known to accumulate in Acc.
Unfolds(iter, n, Acc, base, step) ==
  /\ iter[{}] = base
  /\ \A s \in SUBSET (1..n) :
       s # {} /\ iter[s \ {Max(s)}] \in Acc =>
         iter[s] = step[<<iter[s \ {Max(s)}], Max(s)>>]

\* What is held after each element.
Loop(iter, n) == [i \in 0..n |-> iter[1..i]]

IsLoop(after, n, Acc, base, step) ==
  /\ after \in [0..n -> Acc] /\ after[0] = base
  /\ \A i \in 1..n : after[i] = step[<<after[i - 1], i>>]

\* The recursion has a solution.
LEMMA FoldExists ==
  ASSUME NEW n \in Nat, NEW Acc, NEW base \in Acc,
         NEW step \in [Acc \X (1..n) -> Acc]
  PROVE  \E F \in [SUBSET (1..n) -> Acc] : IsFold(F, n, base, step)
<1> DEFINE Folds(F, m) ==
             /\ F \in [SUBSET (1..m) -> Acc]
             /\ \A s \in SUBSET (1..m) :
                  F[s] = IF s = {} THEN base ELSE step[<<F[s \ {Max(s)}], Max(s)>>]
           Exists(m) == \E F : Folds(F, m)
           T == {m \in 0..n : Exists(m)}
<1>1. Exists(0)
  <2> DEFINE F == [s \in SUBSET (1..0) |-> base]
  <2>1. \A s \in SUBSET (1..0) : s = {}
    OBVIOUS
  <2>2. F \in [SUBSET (1..0) -> Acc] /\ \A s \in SUBSET (1..0) : F[s] = base
    OBVIOUS
  <2>3. Folds(F, 0)
    BY <2>1, <2>2
  <2> QED
    BY <2>3
<1>2. ASSUME NEW m \in 1..n, Exists(m - 1) PROVE Exists(m)
  <2>0. ASSUME NEW s \in SUBSET (1..m), m \in s PROVE Max(s) = m
    BY <2>0, LastPlace
  <2> DEFINE Low == SUBSET (1..(m - 1))
  <2>1. PICK F : Folds(F, m - 1)
    BY <1>2
  <2> DEFINE G == [s \in SUBSET (1..m) |->
                     IF m \in s THEN step[<<F[s \ {m}], m>>] ELSE F[s]]
  <2>2. \A s \in SUBSET (1..m) : s \ {m} \in Low /\ (m \notin s => s \in Low)
    OBVIOUS
  <2>3. G \in [SUBSET (1..m) -> Acc]
    <3>1. ASSUME NEW s \in SUBSET (1..m) PROVE G[s] \in Acc
      BY <2>1, <2>2
    <3> QED
      BY <3>1
  <2>4. ASSUME NEW s \in SUBSET (1..m)
        PROVE  G[s] = IF s = {} THEN base ELSE step[<<G[s \ {Max(s)}], Max(s)>>]
    <3>1. CASE m \in s
      <4>1. Max(s) = m
        BY <2>0, <3>1
      <4>2. s \ {m} \in SUBSET (1..m) /\ G[s \ {m}] = F[s \ {m}]
        OBVIOUS
      <4> QED
        BY <3>1, <4>1, <4>2
    <3>2. CASE m \notin s /\ s # {}
      <4>1. s \in Low /\ s \ {Max(s)} \in SUBSET (1..m) /\ m \notin s \ {Max(s)}
        BY <2>2, <3>2
      <4>2. G[s] = F[s] /\ G[s \ {Max(s)}] = F[s \ {Max(s)}]
        BY <3>2, <4>1
      <4> QED
        BY <2>1, <3>2, <4>1, <4>2
    <3>3. CASE s = {}
      BY <2>1, <2>2, <3>3
    <3> QED
      BY <3>1, <3>2, <3>3
  <2> HIDE DEF G
  <2>5. Folds(G, m)
    BY <2>3, <2>4
  <2> HIDE DEF Folds
  <2> QED
    BY <2>5
<1>3. Exists(n)
  <2> HIDE DEF Exists
  <2>1. 0 \in T /\ \A i \in 1..n : i - 1 \in T => i \in T
    BY <1>1, <1>2
  <2>2. \A i \in 0..n : i \in T
    <3> HIDE DEF T
    <3> QED
      BY <2>1, UpToBound
  <2> QED
    BY <2>2
<1> QED
  BY <1>3 DEF IsFold

\* The fold over the first places is what the loop holds after them.
LEMMA FoldIsLoop ==
  ASSUME NEW n \in Nat, NEW Acc, NEW base \in Acc,
         NEW step \in [Acc \X (1..n) -> Acc], NEW iter, Unfolds(iter, n, Acc, base, step)
  PROVE  IsLoop(Loop(iter, n), n, Acc, base, step)
<1> DEFINE after == [i \in 0..n |-> iter[1..i]]
           T == {i \in 0..n : after[i] \in Acc}
<1>1. after[0] = base
  <2>1. 1..0 = {} /\ 0 \in 0..n /\ n \in 0..n
    BY PlacesUpTo
  <2> QED
    BY <2>1 DEF Unfolds
<1>2. ASSUME NEW i \in 1..n, after[i - 1] \in Acc
      PROVE  after[i] = step[<<after[i - 1], i>>]
  <2>1. i \in 0..n /\ i - 1 \in 0..n
    BY PlacesUpTo
  <2>2. after[i] = iter[1..i] /\ after[i - 1] = iter[1..(i - 1)]
    BY <2>1
  <2>3. /\ 1..i \in SUBSET (1..n) /\ 1..i # {} /\ Max(1..i) = i
        /\ (1..i) \ {Max(1..i)} = 1..(i - 1)
    BY Before
  <2> HIDE DEF after
  <2>4. iter[1..i] = step[<<iter[(1..i) \ {Max(1..i)}], Max(1..i)>>]
    BY <1>2, <2>2, <2>3 DEF Unfolds
  <2> QED
    BY <2>2, <2>3, <2>4
<1>3. \A i \in 0..n : after[i] \in Acc
  <2> HIDE DEF after
  <2>1. ASSUME NEW i \in 1..n, after[i - 1] \in Acc PROVE after[i] \in Acc
    BY <1>2, <2>1
  <2>2. 0 \in T /\ \A i \in 1..n : i - 1 \in T => i \in T
    BY <1>1, <2>1, PlacesUpTo
  <2>3. \A i \in 0..n : i \in T
    <3> HIDE DEF T
    <3> QED
      BY <2>2, UpToBound
  <2> QED
    BY <2>3
<1>4. after \in [0..n -> Acc]
  BY <1>3
<1>5. \A i \in 1..n : after[i] = step[<<after[i - 1], i>>]
  <2> HIDE DEF after
  <2> QED
    BY <1>2, <1>3, PlacesUpTo
<1>6. Loop(iter, n) = after
  BY DEF Loop
<1> HIDE DEF after
<1> QED
  BY <1>1, <1>4, <1>5, <1>6 DEF IsLoop

------------------------------------------------------------------------------
(* A sieve: a loop that keeps some of the elements of a list.                 *)

\* A loop over a list that appends an element when it passes, when what has been kept
\* is not full, and when it clashes with nothing kept before.
IsSieve(kept, list, n, passing, clash, cap) ==
  /\ kept[0] = << >>
  /\ \A i \in 1..n :
       kept[i] = IF /\ list[i] \in passing /\ Len(kept[i - 1]) # cap
                    /\ \A a \in 1..Len(kept[i - 1]) :
                         <<kept[i - 1][a], list[i]>> \notin clash
                 THEN Append(kept[i - 1], list[i]) ELSE kept[i - 1]

\* What it has kept of the first n elements, and from which places: passing elements
\* of which none clashes with an earlier one, in the order of the list, and every
\* passing element but those that clash with one kept from an earlier place, or that
\* come after all that are kept once these are as many as there may be.
Sieved(out, list, n, passing, clash, cap, at) ==
  /\ at \in [1..Len(out) -> 1..n]
  /\ \A a \in 1..Len(out) : out[a] = list[at[a]] /\ out[a] \in passing /\ a <= at[a]
  /\ \A a, b \in 1..Len(out) : a < b => at[a] < at[b] /\ <<out[a], out[b]>> \notin clash
  /\ \A k \in 1..n : list[k] \in passing =>
       \/ \E a \in 1..Len(out) : at[a] = k
       \/ \E a \in 1..Len(out) : at[a] < k /\ <<out[a], list[k]>> \in clash
       \/ Len(out) = cap /\ \A a \in 1..Len(out) : at[a] < k

\* An element that is kept.
LEMMA SieveKeeps ==
  ASSUME NEW Elements, NEW out \in Seq(Elements), NEW list, NEW i \in Nat \ {0},
         NEW passing, NEW clash, NEW cap, NEW at,
         Sieved(out, list, i - 1, passing, clash, cap, at),
         list[i] \in Elements, list[i] \in passing, Len(out) # cap,
         \A a \in 1..Len(out) : <<out[a], list[i]>> \notin clash
  PROVE  \E to : Sieved(Append(out, list[i]), list, i, passing, clash, cap, to)
<1> DEFINE n == Len(out)
           new == Append(out, list[i])
           to == [a \in 1..(n + 1) |-> IF a = n + 1 THEN i ELSE at[a]]
<1>1. /\ n \in Nat /\ Len(new) = n + 1 /\ new[n + 1] = list[i]
      /\ \A a \in 1..n : new[a] = out[a]
  BY AppendProperties
<1>2. /\ \A a \in 1..(n + 1) : a \in 1..n \/ a = n + 1
      /\ \A a \in 1..n : a \in 1..(n + 1) /\ a # n + 1 /\ a < n + 1
      /\ n + 1 \in 1..(n + 1) /\ ~(n + 1 < n + 1)
  BY <1>1
<1>3. /\ to[n + 1] = i
      /\ \A a \in 1..n : to[a] = at[a]
  BY <1>2
<1>4. \A a \in 1..n : /\ at[a] \in 1..(i - 1) /\ at[a] < i /\ at[a] \in 1..i
                      /\ out[a] = list[at[a]] /\ out[a] \in passing /\ a <= at[a]
  BY DEF Sieved
<1>5. to \in [1..(n + 1) -> 1..i]
  BY <1>2, <1>4
<1> HIDE DEF to, new
<1>6. n + 1 <= i
  <2>1. CASE n = 0
    BY <2>1
  <2>2. CASE n # 0
    <3>1. n \in 1..n
      BY <1>1, <2>2
    <3>2. n <= at[n] /\ at[n] \in 1..(i - 1)
      BY <1>4, <3>1
    <3> HIDE DEF n
    <3> QED
      BY <1>1, <3>2
  <2> QED
    BY <2>1, <2>2
<1>7. \A a \in 1..(n + 1) : new[a] = list[to[a]] /\ new[a] \in passing /\ a <= to[a]
  BY <1>1, <1>2, <1>3, <1>4, <1>6
<1>8. ASSUME NEW a \in 1..(n + 1), NEW b \in 1..(n + 1), a < b
      PROVE  to[a] < to[b] /\ <<new[a], new[b]>> \notin clash
  <2>1. a \in 1..n
    <3> HIDE DEF n
    <3> QED
      BY <1>1, <1>8
  <2>2. CASE b \in 1..n
    BY <1>1, <1>3, <1>8, <2>1, <2>2 DEF Sieved
  <2>3. CASE b = n + 1
    BY <1>1, <1>3, <1>4, <2>1, <2>3
  <2> QED
    BY <1>2, <2>2, <2>3
<1>9. ASSUME NEW k \in 1..i, list[k] \in passing
      PROVE  \/ \E a \in 1..(n + 1) : to[a] = k
             \/ \E a \in 1..(n + 1) : to[a] < k /\ <<new[a], list[k]>> \in clash
  <2>1. CASE k = i
    BY <1>2, <1>3, <2>1
  <2>2. CASE k # i
    <3>1. k \in 1..(i - 1)
      BY <2>2
    <3>2. \/ \E a \in 1..n : at[a] = k
          \/ \E a \in 1..n : at[a] < k /\ <<out[a], list[k]>> \in clash
      BY <1>9, <3>1 DEF Sieved
    <3> QED
      BY <1>1, <1>2, <1>3, <3>2
  <2> QED
    BY <2>1, <2>2
<1>10. Sieved(new, list, i, passing, clash, cap, to)
  BY <1>1, <1>5, <1>7, <1>8, <1>9 DEF Sieved
<1> QED
  BY <1>10 DEF new

\* An element that is passed over.
LEMMA SieveSkips ==
  ASSUME NEW Elements, NEW out \in Seq(Elements), NEW list, NEW i \in Nat \ {0},
         NEW passing, NEW clash, NEW cap, NEW at,
         Sieved(out, list, i - 1, passing, clash, cap, at),
         \/ list[i] \notin passing \/ Len(out) = cap
         \/ \E a \in 1..Len(out) : <<out[a], list[i]>> \in clash
  PROVE  Sieved(out, list, i, passing, clash, cap, at)
<1>1. /\ 1..(i - 1) \subseteq 1..i
      /\ \A k \in 1..i : k \in 1..(i - 1) \/ k = i
      /\ \A k \in 1..(i - 1) : k < i
  OBVIOUS
<1>2. at \in [1..Len(out) -> 1..i]
  BY <1>1 DEF Sieved
<1>3. \A a \in 1..Len(out) : at[a] < i
  BY <1>1 DEF Sieved
<1>4. ASSUME NEW k \in 1..i, list[k] \in passing
      PROVE  \/ \E a \in 1..Len(out) : at[a] = k
             \/ \E a \in 1..Len(out) : at[a] < k /\ <<out[a], list[k]>> \in clash
             \/ Len(out) = cap /\ \A a \in 1..Len(out) : at[a] < k
  <2>1. CASE k = i
    BY <1>3, <1>4, <2>1
  <2>2. CASE k \in 1..(i - 1)
    BY <1>4, <2>2 DEF Sieved
  <2> QED
    BY <1>1, <2>1, <2>2
<1> QED
  BY <1>2, <1>4 DEF Sieved

LEMMA SieveSieves ==
  ASSUME NEW Elements, NEW list \in Seq(Elements),
         NEW kept \in [0..Len(list) -> Seq(Elements)],
         NEW passing, NEW clash, NEW cap,
         IsSieve(kept, list, Len(list), passing, clash, cap)
  PROVE  \E at : Sieved(kept[Len(list)], list, Len(list), passing, clash, cap, at)
<1> DEFINE n == Len(list)
           Done(i) == \E at : Sieved(kept[i], list, i, passing, clash, cap, at)
           T == {i \in 0..n : Done(i)}
<1>1. n \in Nat
  OBVIOUS
<1>2. Done(0)
  <2>1. /\ Len(kept[0]) = 0 /\ 1..0 = {}
        /\ [a \in {} |-> a] \in [1..0 -> 1..0]
    BY DEF IsSieve
  <2>2. Sieved(kept[0], list, 0, passing, clash, cap, [a \in {} |-> a])
    BY <2>1 DEF Sieved
  <2> QED
    BY <2>2
<1>3. ASSUME NEW i \in 1..n, Done(i - 1) PROVE Done(i)
  <2>1. PICK at : Sieved(kept[i - 1], list, i - 1, passing, clash, cap, at)
    BY <1>3
  <2>2. /\ i \in Nat \ {0} /\ kept[i - 1] \in Seq(Elements) /\ list[i] \in Elements
    BY <1>1, PlacesUpTo
  <2>3. kept[i] = IF /\ list[i] \in passing /\ Len(kept[i - 1]) # cap
                     /\ \A a \in 1..Len(kept[i - 1]) :
                          <<kept[i - 1][a], list[i]>> \notin clash
                  THEN Append(kept[i - 1], list[i]) ELSE kept[i - 1]
    BY DEF IsSieve
  <2>4. CASE /\ list[i] \in passing /\ Len(kept[i - 1]) # cap
             /\ \A a \in 1..Len(kept[i - 1]) : <<kept[i - 1][a], list[i]>> \notin clash
    <3>1. kept[i] = Append(kept[i - 1], list[i])
      BY <2>3, <2>4
    <3>2. \E to : Sieved(Append(kept[i - 1], list[i]), list, i, passing, clash, cap, to)
      <4> DEFINE out == kept[i - 1]
      <4>1. /\ out \in Seq(Elements) /\ list[i] \in passing /\ Len(out) # cap
            /\ \A a \in 1..Len(out) : <<out[a], list[i]>> \notin clash
            /\ Sieved(out, list, i - 1, passing, clash, cap, at)
        BY <2>1, <2>2, <2>4
      <4> HIDE DEF out
      <4>2. \E to : Sieved(Append(out, list[i]), list, i, passing, clash, cap, to)
        BY <2>2, <4>1, SieveKeeps
      <4> QED
        BY <4>2 DEF out
    <3> QED
      BY <3>1, <3>2
  <2>5. CASE ~(/\ list[i] \in passing /\ Len(kept[i - 1]) # cap
               /\ \A a \in 1..Len(kept[i - 1]) :
                    <<kept[i - 1][a], list[i]>> \notin clash)
    <3>1. kept[i] = kept[i - 1]
      BY <2>3, <2>5
    <3> QED
      BY <2>1, <2>2, <2>5, <3>1, SieveSkips
  <2> QED
    BY <2>4, <2>5
<1>4. Done(n)
  <2> HIDE DEF Done
  <2>1. 0 \in T /\ \A i \in 1..n : i - 1 \in T => i \in T
    BY <1>1, <1>2, <1>3, PlacesUpTo
  <2>2. \A i \in 0..n : i \in T
    <3> HIDE DEF T, n
    <3> QED
      BY <1>1, <2>1, UpToBound
  <2> QED
    BY <1>1, <2>2
<1> QED
  BY <1>4

\* What a sieve has kept after each element.
LEMMA SieveLoop ==
  ASSUME NEW Elements, NEW list \in Seq(Elements), NEW passing, NEW clash, NEW cap
  PROVE  \E kept \in [0..Len(list) -> Seq(Elements)] :
           /\ IsSieve(kept, list, Len(list), passing, clash, cap)
           /\ kept[Len(list)] = Sieve(list, passing, clash, cap)
<1> DEFINE n == Len(list)
           Acc == Seq(Elements)
           Keep(kept, e) == IF /\ e \in passing /\ Len(kept) # cap
                               /\ \A i \in 1..Len(kept) : <<kept[i], e>> \notin clash
                            THEN Append(kept, e) ELSE kept
           step == [x \in Acc \X (1..n) |-> Keep(x[1], list[x[2]])]
           Reads(g) == g = [s \in SUBSET (DOMAIN list) |->
                              IF s = {} THEN << >>
                              ELSE Keep(g[s \ {Max(s)}], list[Max(s)])]
           iter == CHOOSE g : Reads(g)
<1>1. n \in Nat /\ DOMAIN list = 1..n /\ << >> \in Acc
  OBVIOUS
<1>2. step \in [Acc \X (1..n) -> Acc]
  <2>1. ASSUME NEW out \in Acc, NEW i \in 1..n PROVE Keep(out, list[i]) \in Acc
    <3>1. list[i] \in Elements
      OBVIOUS
    <3>2. Append(out, list[i]) \in Acc
      BY <3>1, AppendProperties
    <3> HIDE DEF Acc
    <3> QED
      BY <3>2
  <2> HIDE DEF Keep
  <2> QED
    BY <2>1
<1>3. \A out \in Acc, i \in 1..n : step[<<out, i>>] = Keep(out, list[i])
  <2> HIDE DEF Keep
  <2> QED
    OBVIOUS
<1>7. FoldLeft(Keep, << >>, list) = iter[DOMAIN list]
  BY DEF FoldLeft, MapThenFoldSet
<1>8. Sieve(list, passing, clash, cap) = FoldLeft(Keep, << >>, list)
  BY DEF Sieve
<1> HIDE DEF step, Acc, n, Reads, iter, Keep
<1>4. PICK F \in [SUBSET (1..n) -> Acc] : IsFold(F, n, << >>, step)
  <2>1. n \in Nat /\ << >> \in Acc
    BY <1>1
  <2> QED
    BY <2>1, <1>2, FoldExists
<1> USE DEF Reads
<1>5. Reads(F)
  <2>1. ASSUME NEW s \in SUBSET (1..n), s # {}
        PROVE  F[s] = Keep(F[s \ {Max(s)}], list[Max(s)])
    BY <1>1, <1>3, <1>4, <2>1, MaxOfPlaces DEF IsFold
  <2> QED
    BY <1>1, <1>4, <2>1 DEF IsFold
<1>6. Reads(iter)
  BY <1>5 DEF iter
<1>9. Unfolds(iter, n, Acc, << >>, step)
  BY <1>1, <1>3, <1>6, MaxOfPlaces DEF Unfolds
<1>10. IsLoop(Loop(iter, n), n, Acc, << >>, step)
  <2> HIDE DEF Reads
  <2> QED
    BY <1>1, <1>2, <1>9, FoldIsLoop
<1> DEFINE kept == Loop(iter, n)
<1>11. kept[n] = iter[1..n]
  BY <1>1, PlacesUpTo DEF Loop
<1> HIDE DEF kept
<1>12. \A i \in 1..n : kept[i] = Keep(kept[i - 1], list[i])
  BY <1>1, <1>3, <1>10, PlacesUpTo DEF IsLoop, kept
<1>13. kept \in [0..n -> Acc] /\ kept[0] = << >>
  BY <1>10 DEF IsLoop, kept
<1>14. kept[n] = Sieve(list, passing, clash, cap)
  BY <1>1, <1>7, <1>8, <1>11
<1>15. IsSieve(kept, list, n, passing, clash, cap)
  BY <1>12, <1>13 DEF IsSieve, Keep
<1> QED
  BY <1>13, <1>14, <1>15 DEF Acc, n

\* A sieve keeps passing elements of which none clashes with another, and leaves one
\* out only for one it keeps from before, or for want of room.
LEMMA SieveKept ==
  ASSUME NEW Elements, NEW list \in Seq(Elements), NEW passing, NEW clash, NEW cap
  PROVE  /\ Sieve(list, passing, clash, cap) \in Seq(Elements)
         /\ \E at : Sieved(Sieve(list, passing, clash, cap), list, Len(list),
                           passing, clash, cap, at)
<1> DEFINE n == Len(list)
<1>1. n \in 0..n
  OBVIOUS
<1>2. PICK kept \in [0..n -> Seq(Elements)] :
        /\ IsSieve(kept, list, n, passing, clash, cap)
        /\ kept[n] = Sieve(list, passing, clash, cap)
  BY SieveLoop
<1>3. \E at : Sieved(kept[n], list, n, passing, clash, cap, at)
  BY <1>2, SieveSieves
<1> QED
  BY <1>1, <1>2, <1>3

\* What a sieve keeps comes from the first place where the list has its like: when to
\* clash is to be alike, and like elements pass together.
LEMMA SieveFirst ==
  ASSUME NEW Elements, NEW out \in Seq(Elements), NEW list, NEW n \in Nat,
         NEW passing, NEW clash, NEW cap, NEW at,
         Sieved(out, list, n, passing, clash, cap, at),
         \A i, j, k \in 1..n : <<list[i], list[j]>> \in clash /\ <<list[j], list[k]>> \in clash
                                 => <<list[i], list[k]>> \in clash,
         \A i, j \in 1..n : <<list[i], list[j]>> \in clash /\ list[j] \in passing
                              => list[i] \in passing
  PROVE  \A a \in 1..Len(out), j \in 1..n :
           <<list[j], out[a]>> \in clash => at[a] <= j
<1>1. SUFFICES ASSUME NEW a \in 1..Len(out), NEW j \in 1..n,
                      <<list[j], out[a]>> \in clash, j < at[a]
               PROVE  FALSE
  <2>1. \A a \in 1..Len(out) : at[a] \in 1..n
    BY DEF Sieved
  <2> QED
    BY <2>1
<1>2. \A b \in 1..Len(out) : /\ at[b] \in 1..n /\ out[b] = list[at[b]]
                             /\ out[b] \in passing
  BY DEF Sieved
<1>3. \A b \in 1..Len(out) : at[b] < at[a] => <<out[b], out[a]>> \notin clash
  <2>1. ASSUME NEW b \in 1..Len(out), at[b] < at[a]
        PROVE  <<out[b], out[a]>> \notin clash
    <3>1. b < a
      <4>1. a < b => at[a] < at[b]
        BY DEF Sieved
      <4>2. ~(a < b) /\ a # b
        BY <1>2, <2>1, <4>1
      <4> QED
        BY <4>2
    <3> QED
      BY <3>1 DEF Sieved
  <2> QED
    BY <2>1
<1>4. list[j] \in passing
  BY <1>1, <1>2
<1>5. CASE \E b \in 1..Len(out) : at[b] = j
  BY <1>1, <1>2, <1>3, <1>5
<1>6. ASSUME NEW b \in 1..Len(out), at[b] < j, <<out[b], list[j]>> \in clash
      PROVE  FALSE
  <2>1. at[b] < at[a]
    BY <1>1, <1>2, <1>6
  <2>2. <<list[at[b]], list[j]>> \in clash /\ <<list[j], list[at[a]]>> \in clash
    BY <1>1, <1>2, <1>6
  <2>3. <<list[at[b]], list[at[a]]>> \in clash
    BY <1>2, <2>2
  <2> QED
    BY <1>2, <1>3, <2>1, <2>3
<1>7. CASE \A b \in 1..Len(out) : at[b] < j
  BY <1>1, <1>2, <1>7
<1> QED
  BY <1>4, <1>5, <1>6, <1>7 DEF Sieved

\* There is room for all that pass when the list is no longer than what may be kept.
LEMMA SieveRoom ==
  ASSUME NEW Elements, NEW out \in Seq(Elements), NEW list, NEW n \in Nat,
         NEW passing, NEW clash, NEW cap \in Nat, NEW at,
         Sieved(out, list, n, passing, clash, cap, at), n <= cap
  PROVE  \A k \in 1..n : list[k] \in passing =>
           \/ \E a \in 1..Len(out) : at[a] = k
           \/ \E a \in 1..Len(out) : at[a] < k /\ <<out[a], list[k]>> \in clash
<1>1. SUFFICES ASSUME NEW k \in 1..n, Len(out) = cap,
                      \A a \in 1..Len(out) : at[a] < k
               PROVE  FALSE
  BY DEF Sieved
<1>2. cap \in 1..Len(out)
  BY <1>1
<1>3. at[cap] < k /\ cap <= at[cap] /\ at[cap] \in 1..n
  BY <1>1, <1>2 DEF Sieved
<1> QED
  BY <1>3

\* As many places as there are, at most.
LEMMA PlacesBound ==
  ASSUME NEW m \in Nat, NEW n \in Nat, NEW at \in [1..m -> 1..n],
         \A a, b \in 1..m : a # b => at[a] # at[b]
  PROVE  m <= n
<1>1. at \in Injection(1..m, 1..n)
  BY DEF Injection, IsInjective
<1>2. IsFiniteSet(1..n) /\ Cardinality(1..n) = n /\ Cardinality(1..m) = m
  BY FS_Interval
<1> QED
  BY <1>1, <1>2, FS_Injection

\* A function of the places of a list is a list.
LEMMA MapTyped ==
  ASSUME NEW n \in Nat, NEW S, NEW f \in [1..n -> S]
  PROVE  f \in Seq(S) /\ Len(f) = n
OBVIOUS

------------------------------------------------------------------------------
(* A filter.                                                                 *)

\* What a filter has kept after each element.
IsFilter(kept, list, n, passing) ==
  /\ kept[0] = << >> /\ kept[n] = Only(list, passing)
  /\ \A i \in 1..n :
       kept[i] = IF list[i] \in passing THEN Append(kept[i - 1], list[i])
                 ELSE kept[i - 1]

LEMMA OnlyLoop ==
  ASSUME NEW Elements, NEW list \in Seq(Elements), NEW passing
  PROVE  \E kept \in [0..Len(list) -> Seq(Elements)] :
           IsFilter(kept, list, Len(list), passing)
<1> DEFINE n == Len(list)
           Acc == Seq(Elements)
           Keep(kept, e) == IF e \in passing THEN Append(kept, e) ELSE kept
           step == [x \in Acc \X (1..n) |-> Keep(x[1], list[x[2]])]
           Reads(g) == g = [s \in SUBSET (DOMAIN list) |->
                              IF s = {} THEN << >>
                              ELSE Keep(g[s \ {Max(s)}], list[Max(s)])]
           iter == CHOOSE g : Reads(g)
<1>1. n \in Nat /\ DOMAIN list = 1..n /\ << >> \in Acc
  OBVIOUS
<1>2. step \in [Acc \X (1..n) -> Acc]
  <2>1. ASSUME NEW out \in Acc, NEW i \in 1..n PROVE Keep(out, list[i]) \in Acc
    BY AppendProperties
  <2> QED
    BY <2>1
<1>3. \A out \in Acc, i \in 1..n : step[<<out, i>>] = Keep(out, list[i])
  OBVIOUS
<1>7. FoldLeft(Keep, << >>, list) = iter[DOMAIN list]
  BY DEF FoldLeft, MapThenFoldSet
<1>8. Only(list, passing) = FoldLeft(Keep, << >>, list)
  BY DEF Only
<1> HIDE DEF step, Acc, n, Reads, iter, Keep
<1>4. PICK F \in [SUBSET (1..n) -> Acc] : IsFold(F, n, << >>, step)
  <2>1. n \in Nat /\ << >> \in Acc
    BY <1>1
  <2> QED
    BY <2>1, <1>2, FoldExists
<1> USE DEF Reads
<1>5. Reads(F)
  <2>1. ASSUME NEW s \in SUBSET (1..n), s # {}
        PROVE  F[s] = Keep(F[s \ {Max(s)}], list[Max(s)])
    BY <1>1, <1>3, <1>4, <2>1, MaxOfPlaces DEF IsFold
  <2> QED
    BY <1>1, <1>4, <2>1 DEF IsFold
<1>6. Reads(iter)
  BY <1>5 DEF iter
<1>9. Unfolds(iter, n, Acc, << >>, step)
  BY <1>1, <1>3, <1>6, MaxOfPlaces DEF Unfolds
<1>10. IsLoop(Loop(iter, n), n, Acc, << >>, step)
  <2> HIDE DEF Reads
  <2> QED
    BY <1>1, <1>2, <1>9, FoldIsLoop
<1> DEFINE kept == Loop(iter, n)
<1>11. kept[n] = iter[1..n]
  BY <1>1, PlacesUpTo DEF Loop
<1> HIDE DEF kept
<1>12. \A i \in 1..n : kept[i] = Keep(kept[i - 1], list[i])
  BY <1>1, <1>3, <1>10, PlacesUpTo DEF IsLoop, kept
<1> QED
  BY <1>1, <1>7, <1>8, <1>10, <1>11, <1>12 DEF Acc, n, IsLoop, IsFilter, kept, Keep

\* Where in a list the elements that pass are, in their order.
Picks(out, list, passing, at) ==
  /\ at \in [1..Len(out) -> 1..Len(list)]
  /\ \A a \in 1..Len(out) : out[a] = list[at[a]] /\ out[a] \in passing
  /\ \A a, b \in 1..Len(out) : a < b => at[a] < at[b]
  /\ \A k \in 1..Len(list) : list[k] \in passing => \E a \in 1..Len(out) : at[a] = k

LEMMA OnlyPicks ==
  ASSUME NEW Elements, NEW list \in Seq(Elements), NEW passing
  PROVE  /\ Only(list, passing) \in Seq(Elements)
         /\ \E at : Picks(Only(list, passing), list, passing, at)
<1> DEFINE n == Len(list)
<1>1. n \in Nat
  OBVIOUS
<1>2. PICK kept \in [0..n -> Seq(Elements)] : IsFilter(kept, list, n, passing)
  BY OnlyLoop
<1>3. \A i \in 0..n : Len(kept[i]) # -1
  <2>1. \A s \in Seq(Elements) : Len(s) # -1
    OBVIOUS
  <2> QED
    BY <1>2, <2>1
<1>4. IsSieve(kept, list, n, passing, {}, -1)
  <2>1. ASSUME NEW i \in 1..n
        PROVE  kept[i] = IF /\ list[i] \in passing /\ Len(kept[i - 1]) # -1
                            /\ \A a \in 1..Len(kept[i - 1]) :
                                 <<kept[i - 1][a], list[i]>> \notin {}
                         THEN Append(kept[i - 1], list[i]) ELSE kept[i - 1]
    <3>1. Len(kept[i - 1]) # -1
      BY <1>1, <1>3, PlacesUpTo
    <3> QED
      BY <1>2, <3>1 DEF IsFilter
  <2> QED
    BY <1>2, <2>1 DEF IsSieve, IsFilter
<1>5. PICK at : Sieved(kept[n], list, n, passing, {}, -1, at)
  BY <1>2, <1>4, SieveSieves
<1>6. n \in 0..n
  BY <1>1
<1>7. Picks(kept[n], list, passing, at)
  BY <1>3, <1>5, <1>6 DEF Sieved, Picks
<1> QED
  BY <1>2, <1>6, <1>7 DEF IsFilter

\* A filter keeps the elements that pass, and no other.
LEMMA OnlyElements ==
  ASSUME NEW Elements, NEW list \in Seq(Elements), NEW passing
  PROVE  /\ Only(list, passing) \in Seq(Elements)
         /\ ToSet(Only(list, passing)) = ToSet(list) \cap passing
<1>1. PICK at : Picks(Only(list, passing), list, passing, at)
  BY OnlyPicks
<1>2. Only(list, passing) \in Seq(Elements)
  BY OnlyPicks
<1> DEFINE out == Only(list, passing)
<1>3. DOMAIN out = 1..Len(out) /\ DOMAIN list = 1..Len(list)
  BY <1>2
<1> HIDE DEF out
<1>4. ToSet(out) = ToSet(list) \cap passing
  <2>1. \A a \in 1..Len(out) : out[a] = list[at[a]] /\ at[a] \in 1..Len(list) /\ out[a] \in passing
    BY <1>1 DEF Picks, out
  <2>2. \A k \in 1..Len(list) : list[k] \in passing =>
          \E a \in 1..Len(out) : out[a] = list[k]
    BY <1>1 DEF Picks, out
  <2> QED
    BY <1>3, <2>1, <2>2 DEF ToSet
<1> QED
  BY <1>2, <1>4 DEF out

\* A filter that every element passes returns the list itself.
LEMMA OnlyAll ==
  ASSUME NEW Elements, NEW list \in Seq(Elements), NEW passing,
         ToSet(list) \subseteq passing
  PROVE  Only(list, passing) = list
<1> DEFINE n == Len(list)
           front(i) == [j \in 1..i |-> list[j]]
<1>1. n \in Nat /\ list = front(n) /\ \A i \in 1..n : list[i] \in Elements
  OBVIOUS
<1>2. \A i \in 1..n : list[i] \in passing
  BY DEF ToSet
<1>3. PICK kept \in [0..n -> Seq(Elements)] : IsFilter(kept, list, n, passing)
  BY OnlyLoop
<1> DEFINE T == {i \in 0..n : kept[i] = front(i)}
<1>4. 0 \in T
  <2>1. front(0) = << >>
    BY DEF front
  <2> QED
    BY <1>1, <1>3, <2>1 DEF IsFilter
<1>5. ASSUME NEW i \in 1..n, i - 1 \in T PROVE i \in T
  <2>1. /\ i \in 0..n /\ i - 1 \in Nat /\ (i - 1) + 1 = i
        /\ \A j \in 1..(i - 1) : j \in 1..n
    BY <1>1
  <2>2. kept[i] = Append(front(i - 1), list[i])
    BY <1>2, <1>3, <1>5 DEF IsFilter
  <2>3. front(i - 1) \in Seq(Elements) /\ Len(front(i - 1)) = i - 1
    <3>1. front(i - 1) \in [1..(i - 1) -> Elements]
      BY <1>1, <2>1
    <3> HIDE DEF front
    <3> QED
      BY <2>1, <3>1, MapTyped
  <2> DEFINE out == Append(front(i - 1), list[i])
  <2>4. /\ out \in Seq(Elements) /\ Len(out) = i
        /\ \A j \in 1..(i - 1) : out[j] = front(i - 1)[j]
        /\ out[i] = list[i]
    <3> HIDE DEF front
    <3> QED
      BY <1>1, <2>1, <2>3, AppendProperties
  <2>5. \A j \in 1..(i - 1) : front(i - 1)[j] = list[j]
    OBVIOUS
  <2>6. \A j \in 1..i : j \in 1..(i - 1) \/ j = i
    BY <2>1
  <2> HIDE DEF out
  <2>7. out = [j \in 1..i |-> out[j]]
    BY <2>4
  <2>8. \A j \in 1..i : out[j] = list[j]
    BY <2>4, <2>5, <2>6
  <2>9. out = front(i)
    BY <2>7, <2>8
  <2> QED
    BY <2>1, <2>2, <2>9 DEF out
<1>6. n \in 0..n
  BY <1>1
<1> HIDE DEF T
<1>7. \A i \in 0..n : i \in T
  BY <1>1, <1>4, <1>5, UpToBound
<1>8. kept[n] = front(n)
  BY <1>6, <1>7 DEF T
<1> QED
  BY <1>1, <1>3, <1>8 DEF IsFilter

\* A filter returns the same of two lists that differ only in elements that fail.
LEMMA OnlyAgrees ==
  ASSUME NEW Elements, NEW s \in Seq(Elements), NEW t \in Seq(Elements), NEW passing,
         Len(s) <= Len(t),
         \A i \in 1..Len(s) : s[i] = t[i] \/ (s[i] \notin passing /\ t[i] \notin passing),
         \A i \in 1..Len(t) : i \in 1..Len(s) \/ t[i] \notin passing
  PROVE  Only(s, passing) = Only(t, passing)
<1> DEFINE m == Len(s)
           n == Len(t)
<1>1. m \in Nat /\ n \in Nat /\ m <= n
  OBVIOUS
<1>2. PICK a \in [0..m -> Seq(Elements)] : IsFilter(a, s, m, passing)
  BY OnlyLoop
<1>3. PICK b \in [0..n -> Seq(Elements)] : IsFilter(b, t, n, passing)
  BY OnlyLoop
<1> DEFINE T == {i \in 0..n : IF i <= m THEN b[i] = a[i] ELSE b[i] = a[m]}
<1> HIDE DEF m, n
<1>4. 0 \in T
  BY <1>1, <1>2, <1>3 DEF IsFilter
<1>5. ASSUME NEW i \in 1..n, i - 1 \in T PROVE i \in T
  <2>1. i \in Nat /\ i \in 0..n /\ i - 1 \in 0..n
    BY <1>1
  <2>2. b[i] = IF t[i] \in passing THEN Append(b[i - 1], t[i]) ELSE b[i - 1]
    BY <1>3 DEF IsFilter
  <2>3. CASE i <= m
    <3>1. i \in 1..m /\ i - 1 <= m
      BY <1>1, <2>1, <2>3
    <3>2. a[i] = IF s[i] \in passing THEN Append(a[i - 1], s[i]) ELSE a[i - 1]
      BY <1>2, <3>1 DEF IsFilter
    <3>3. b[i - 1] = a[i - 1]
      BY <1>5, <3>1
    <3>4. s[i] = t[i] \/ (s[i] \notin passing /\ t[i] \notin passing)
      BY <3>1 DEF m
    <3>5. b[i] = a[i]
      BY <2>2, <3>2, <3>3, <3>4
    <3> QED
      BY <2>1, <2>3, <3>5
  <2>4. CASE ~(i <= m)
    <3>1. i \notin 1..m /\ (i - 1 <= m => i - 1 = m)
      BY <1>1, <2>1, <2>4
    <3>2. t[i] \notin passing
      BY <3>1 DEF m, n
    <3>3. b[i - 1] = a[m]
      BY <1>5, <3>1
    <3>4. b[i] = a[m]
      BY <2>2, <3>2, <3>3
    <3> QED
      BY <2>1, <2>4, <3>4
  <2> QED
    BY <2>3, <2>4
<1> HIDE DEF T
<1>6. \A i \in 0..n : i \in T
  BY <1>1, <1>4, <1>5, UpToBound
<1>7. n \in 0..n /\ (n <= m => n = m)
  BY <1>1
<1>8. b[n] = a[m]
  BY <1>6, <1>7 DEF T
<1> QED
  BY <1>2, <1>3, <1>8 DEF IsFilter, m, n

------------------------------------------------------------------------------
(* A stable sort.                                                            *)

\* Any two elements are in order, one way or the other.
IsOrder(ahead, Elements) ==
  /\ \A x, y \in Elements : <<x, y>> \in ahead \/ <<y, x>> \in ahead
  /\ \A x, y, z \in Elements : <<x, y>> \in ahead /\ <<y, z>> \in ahead => <<x, z>> \in ahead

\* A list holds the first n elements of another, each from a place of its own, in order.
Sorts(out, list, n, ahead, at) ==
  /\ at \in [1..Len(out) -> 1..n]
  /\ \A a \in 1..Len(out) : out[a] = list[at[a]]
  /\ \A a, b \in 1..Len(out) : a # b => at[a] # at[b]
  /\ \A k \in 1..n : \E a \in 1..Len(out) : at[a] = k
  /\ \A a, b \in 1..Len(out) : a < b => <<out[a], out[b]>> \in ahead

\* Where the elements of a list with one put in between are.
LEMMA InBetween ==
  ASSUME NEW Elements, NEW first \in Seq(Elements), NEW rest \in Seq(Elements),
         NEW e \in Elements
  PROVE  LET new == first \o <<e>> \o rest
             m == Len(first)
         IN  /\ new \in Seq(Elements) /\ Len(new) = m + 1 + Len(rest)
             /\ \A a \in 1..m : a \in 1..Len(new) /\ new[a] = first[a]
             /\ m + 1 \in 1..Len(new) /\ new[m + 1] = e
             /\ \A b \in 1..Len(rest) : /\ m + 1 + b \in 1..Len(new)
                                        /\ new[m + 1 + b] = rest[b]
             /\ \A a \in 1..Len(new) : \/ a \in 1..m \/ a = m + 1
                                       \/ a - m - 1 \in 1..Len(rest)
<1> DEFINE front == first \o <<e>>
           new == front \o rest
           m == Len(first)
<1>1. m \in Nat /\ Len(rest) \in Nat /\ <<e>> \in Seq(Elements) /\ Len(<<e>>) = 1
  OBVIOUS
<1>2. /\ front \in Seq(Elements) /\ Len(front) = m + 1
      /\ \A a \in 1..m : front[a] = first[a]
      /\ front[m + 1] = e
  BY <1>1, ConcatProperties
<1> HIDE DEF front
<1>3. /\ new \in Seq(Elements) /\ Len(new) = m + 1 + Len(rest)
      /\ \A a \in 1..(m + 1) : new[a] = front[a]
  <2>1. new \in Seq(Elements) /\ Len(new) = Len(front) + Len(rest)
    BY <1>2, ConcatProperties
  <2>2. \A a \in 1..Len(front) : new[a] = front[a]
    <3>1. ASSUME NEW a \in 1..Len(front) PROVE new[a] = front[a]
      <4>1. a \in 1..(Len(front) + Len(rest)) /\ a <= Len(front)
        BY <1>1, <1>2
      <4> QED
        BY <1>2, <4>1, ConcatProperties
    <3> QED
      BY <3>1
  <2> QED
    BY <1>2, <2>1, <2>2
<1>4. \A b \in 1..Len(rest) : new[m + 1 + b] = rest[b]
  <2>1. SUFFICES ASSUME NEW b \in 1..Len(rest) PROVE new[m + 1 + b] = rest[b]
    OBVIOUS
  <2>2. /\ m + 1 + b \in 1..(Len(front) + Len(rest)) /\ ~(m + 1 + b <= Len(front))
        /\ m + 1 + b - Len(front) = b
    BY <1>1, <1>2
  <2> QED
    BY <1>1, <1>2, <2>2, ConcatProperties
<1> HIDE DEF new
<1>5. /\ \A a \in 1..m : a \in 1..Len(new) /\ a \in 1..(m + 1)
      /\ m + 1 \in 1..Len(new) /\ m + 1 \in 1..(m + 1)
      /\ \A b \in 1..Len(rest) : m + 1 + b \in 1..Len(new)
      /\ \A a \in 1..Len(new) : a \in 1..m \/ a = m + 1 \/ a - m - 1 \in 1..Len(rest)
  BY <1>1, <1>3
<1>6. /\ \A a \in 1..m : new[a] = first[a]
      /\ new[m + 1] = e
  BY <1>2, <1>3, <1>5
<1> QED
  BY <1>3, <1>4, <1>5, <1>6 DEF new, front

\* The places of m elements, one more, and r more.
LEMMA ThreeParts ==
  ASSUME NEW m \in Nat, NEW r \in Nat
  PROVE  /\ \A a \in 1..(m + 1 + r) :
              \/ a \in 1..m \/ a = m + 1
              \/ a - m - 1 \in 1..r /\ a = m + 1 + (a - m - 1)
         /\ \A a \in 1..m : a \in 1..(m + 1 + r)
         /\ m + 1 \in 1..(m + 1 + r)
         /\ \A b \in 1..r : m + 1 + b \in 1..(m + 1 + r)
OBVIOUS

\* What stays ahead of an element, the element, and what comes after it.
Between(new, to, m, r, out, at, p, q, e, i) ==
  /\ Len(new) = m + 1 + r
  /\ \A a \in 1..m : new[a] = out[p[a]] /\ to[a] = at[p[a]]
  /\ new[m + 1] = e /\ to[m + 1] = i
  /\ \A b \in 1..r : new[m + 1 + b] = out[q[b]] /\ to[m + 1 + b] = at[q[b]]

\* The places of the elements ahead, and of those after.
Parts(p, q, m, r, out, e, ahead) ==
  /\ p \in [1..m -> 1..Len(out)] /\ q \in [1..r -> 1..Len(out)]
  /\ \A a, b \in 1..m : a < b => p[a] < p[b]
  /\ \A a, b \in 1..r : a < b => q[a] < q[b]
  /\ \A a \in 1..m : <<out[p[a]], e>> \in ahead
  /\ \A b \in 1..r : <<out[q[b]], e>> \notin ahead
  /\ \A c \in 1..Len(out) : \/ \E a \in 1..m : p[a] = c
                            \/ \E b \in 1..r : q[b] = c

LEMMA BetweenSorts ==
  ASSUME NEW Elements, NEW out \in Seq(Elements), NEW list, NEW i \in Nat \ {0},
         NEW ahead, IsOrder(ahead, Elements), NEW at,
         Sorts(out, list, i - 1, ahead, at), list[i] \in Elements,
         NEW m \in Nat, NEW r \in Nat, NEW p, NEW q,
         Parts(p, q, m, r, out, list[i], ahead),
         NEW new, NEW to \in [1..(m + 1 + r) -> 1..i],
         Between(new, to, m, r, out, at, p, q, list[i], i)
  PROVE  Sorts(new, list, i, ahead, to)
<1> DEFINE C == 1..Len(out)
           e == list[i]
           N == m + 1 + r
<1>1. \A c \in C : /\ at[c] \in 1..(i - 1) /\ at[c] # i
                   /\ out[c] = list[at[c]] /\ out[c] \in Elements
  <2>1. at \in [C -> 1..(i - 1)] /\ \A c \in C : out[c] = list[at[c]]
    BY DEF Sorts
  <2>2. \A c \in C : out[c] \in Elements
    OBVIOUS
  <2>3. \A k \in 1..(i - 1) : k # i
    OBVIOUS
  <2> HIDE DEF C
  <2> QED
    BY <2>1, <2>2, <2>3
<1>2. \A c, d \in C : c # d => at[c] # at[d]
  BY DEF Sorts
<1>3. \A c, d \in C : c < d => <<out[c], out[d]>> \in ahead
  BY DEF Sorts
<1>4. \A c \in C : c \in Nat
  OBVIOUS
<1> HIDE DEF C
<1>5. \A a \in 1..m : /\ p[a] \in C /\ new[a] = out[p[a]] /\ to[a] = at[p[a]]
                      /\ <<out[p[a]], e>> \in ahead
  BY DEF Parts, Between, C
<1>6. new[m + 1] = e /\ to[m + 1] = i
  BY DEF Between
<1>7. \A b \in 1..r : /\ q[b] \in C /\ new[m + 1 + b] = out[q[b]]
                      /\ to[m + 1 + b] = at[q[b]] /\ <<out[q[b]], e>> \notin ahead
  BY DEF Parts, Between, C
<1> HIDE DEF e
<1>8. \A b \in 1..r : <<e, out[q[b]]>> \in ahead
  BY <1>1, <1>7 DEF IsOrder, e
<1>9. \A a \in 1..N : \/ a \in 1..m \/ a = m + 1
                      \/ \E b \in 1..r : a = m + 1 + b
  BY ThreeParts
<1>10. Len(new) = N
  BY DEF Between
<1>11. \A a \in 1..N : new[a] = list[to[a]]
  <2>1. ASSUME NEW a \in 1..m PROVE new[a] = list[to[a]]
    BY <1>1, <1>5
  <2>2. new[m + 1] = list[to[m + 1]]
    BY <1>6 DEF e
  <2>3. ASSUME NEW b \in 1..r PROVE new[m + 1 + b] = list[to[m + 1 + b]]
    <3>1. q[b] \in C /\ new[m + 1 + b] = out[q[b]] /\ to[m + 1 + b] = at[q[b]]
      BY <1>7
    <3> QED
      BY <1>1, <3>1
  <2> QED
    BY <1>9, <2>1, <2>2, <2>3
<1>12. ASSUME NEW k \in 1..i PROVE \E a \in 1..N : to[a] = k
  <2>1. CASE k = i
    BY <1>6, <2>1, ThreeParts
  <2>2. CASE k # i
    <3>1. PICK c \in C : at[c] = k
      <4>1. k \in 1..(i - 1)
        BY <2>2
      <4> QED
        BY <4>1 DEF Sorts, C
    <3>2. CASE \E a \in 1..m : p[a] = c
      BY <1>5, <3>1, <3>2, ThreeParts
    <3>3. CASE \E b \in 1..r : q[b] = c
      BY <1>7, <3>1, <3>3, ThreeParts
    <3> QED
      BY <3>1, <3>2, <3>3 DEF Parts, C
  <2> QED
    BY <2>1, <2>2
<1> DEFINE InOrder(a, b) == to[a] # to[b] /\ <<new[a], new[b]>> \in ahead
<1>13. ASSUME NEW a \in 1..m, NEW b \in 1..m, a < b PROVE InOrder(a, b)
  <2>1. p[a] < p[b] /\ p[a] \in C /\ p[b] \in C
    BY <1>5, <1>13 DEF Parts
  <2>2. p[a] # p[b]
    BY <1>4, <2>1
  <2>3. at[p[a]] # at[p[b]]
    BY <1>2, <2>1, <2>2
  <2>4. <<out[p[a]], out[p[b]]>> \in ahead
    BY <1>3, <2>1
  <2>5. /\ to[a] = at[p[a]] /\ to[b] = at[p[b]]
        /\ new[a] = out[p[a]] /\ new[b] = out[p[b]]
    BY <1>5
  <2> QED
    BY <2>3, <2>4, <2>5
<1>14. ASSUME NEW a \in 1..m PROVE InOrder(a, m + 1)
  <2>1. at[p[a]] # i
    BY <1>1, <1>5
  <2>2. <<out[p[a]], e>> \in ahead
    BY <1>5
  <2>3. to[a] = at[p[a]] /\ new[a] = out[p[a]]
    BY <1>5
  <2> QED
    BY <1>6, <2>1, <2>2, <2>3
<1>15. ASSUME NEW a \in 1..m, NEW b \in 1..r PROVE InOrder(a, m + 1 + b)
  <2>1. p[a] # q[b]
    BY <1>5, <1>7
  <2>2. /\ <<out[p[a]], e>> \in ahead /\ <<e, out[q[b]]>> \in ahead
        /\ out[p[a]] \in Elements /\ out[q[b]] \in Elements /\ e \in Elements
    BY <1>1, <1>5, <1>7, <1>8 DEF e
  <2>3. <<out[p[a]], out[q[b]]>> \in ahead
    BY <2>2 DEF IsOrder
  <2>4. at[p[a]] # at[q[b]]
    BY <1>2, <1>5, <1>7, <2>1
  <2>5. /\ to[a] = at[p[a]] /\ new[a] = out[p[a]]
        /\ to[m + 1 + b] = at[q[b]] /\ new[m + 1 + b] = out[q[b]]
    BY <1>5, <1>7
  <2> QED
    BY <2>3, <2>4, <2>5
<1>16. ASSUME NEW b \in 1..r PROVE InOrder(m + 1, m + 1 + b)
  <2>1. at[q[b]] # i
    BY <1>1, <1>7
  <2>2. <<e, out[q[b]]>> \in ahead
    BY <1>8
  <2>3. to[m + 1 + b] = at[q[b]] /\ new[m + 1 + b] = out[q[b]]
    BY <1>7
  <2> QED
    BY <1>6, <2>1, <2>2, <2>3
<1>17. ASSUME NEW a \in 1..r, NEW b \in 1..r, a < b PROVE InOrder(m + 1 + a, m + 1 + b)
  <2>1. q[a] < q[b] /\ q[a] \in C /\ q[b] \in C
    BY <1>7, <1>17 DEF Parts
  <2>2. q[a] # q[b]
    BY <1>4, <2>1
  <2>3. at[q[a]] # at[q[b]]
    BY <1>2, <2>1, <2>2
  <2>4. <<out[q[a]], out[q[b]]>> \in ahead
    BY <1>3, <2>1
  <2>5. /\ to[m + 1 + a] = at[q[a]] /\ to[m + 1 + b] = at[q[b]]
        /\ new[m + 1 + a] = out[q[a]] /\ new[m + 1 + b] = out[q[b]]
    BY <1>7
  <2> QED
    BY <2>3, <2>4, <2>5
<1>18. ASSUME NEW a \in 1..N, NEW b \in 1..N, a < b PROVE InOrder(a, b)
  <2> HIDE DEF InOrder
  <2>1. CASE b \in 1..m
    <3>1. a \in 1..m
      BY <1>18, <2>1
    <3> QED
      BY <1>13, <1>18, <2>1, <3>1
  <2>2. CASE b = m + 1
    <3>1. a \in 1..m
      BY <1>18, <2>2
    <3> QED
      BY <1>14, <2>2, <3>1
  <2>3. ASSUME NEW d \in 1..r, b = m + 1 + d PROVE InOrder(a, b)
    <3>1. CASE a \in 1..m
      BY <1>15, <2>3, <3>1
    <3>2. CASE a = m + 1
      BY <1>16, <2>3, <3>2
    <3>3. ASSUME NEW c \in 1..r, a = m + 1 + c PROVE InOrder(a, b)
      <4>1. c < d
        BY <1>18, <2>3, <3>3
      <4> QED
        BY <1>17, <2>3, <3>3, <4>1
    <3> QED
      BY <1>9, <3>1, <3>2, <3>3
  <2> QED
    BY <1>9, <2>1, <2>2, <2>3
<1>19. \A a, b \in 1..N : a # b => to[a] # to[b]
  <2>1. \A a, b \in 1..N : a # b => a < b \/ b < a
    OBVIOUS
  <2> QED
    BY <1>18, <2>1
<1> QED
  BY <1>10, <1>11, <1>12, <1>18, <1>19 DEF Sorts

\* One more element goes to its place.
LEMMA InsertSorts ==
  ASSUME NEW Elements, NEW out \in Seq(Elements), NEW list, NEW i \in Nat \ {0},
         list[i] \in Elements, NEW ahead, IsOrder(ahead, Elements), NEW at,
         Sorts(out, list, i - 1, ahead, at)
  PROVE  /\ Inserted(out, list[i], ahead) \in Seq(Elements)
         /\ \E to : Sorts(Inserted(out, list[i], ahead), list, i, ahead, to)
<1> DEFINE e == list[i]
           before == {x \in ToSet(out) : <<x, e>> \in ahead}
           after == {x \in ToSet(out) : <<x, e>> \notin ahead}
           first == Only(out, before)
           rest == Only(out, after)
           m == Len(first)
           r == Len(rest)
           new == first \o <<e>> \o rest
<1>1. first \in Seq(Elements) /\ rest \in Seq(Elements)
  BY OnlyPicks
<1>2. PICK p : Picks(first, out, before, p)
  BY OnlyPicks
<1>3. PICK q : Picks(rest, out, after, q)
  BY OnlyPicks
<1>4. Inserted(out, list[i], ahead) = new
  BY DEF Inserted
<1>5. /\ \A c \in 1..Len(out) : out[c] \in before \/ out[c] \in after
      /\ \A x \in before : <<x, e>> \in ahead
      /\ \A x \in after : <<x, e>> \notin ahead
  BY DEF ToSet
<1>6. m \in Nat /\ r \in Nat /\ e \in Elements
  BY <1>1
<1> HIDE DEF before, after, first, rest
<1>7. Parts(p, q, m, r, out, e, ahead)
  <2>1. /\ p \in [1..m -> 1..Len(out)] /\ q \in [1..r -> 1..Len(out)]
        /\ \A a, b \in 1..m : a < b => p[a] < p[b]
        /\ \A a, b \in 1..r : a < b => q[a] < q[b]
    BY <1>2, <1>3 DEF Picks
  <2>2. /\ \A a \in 1..m : out[p[a]] \in before
        /\ \A b \in 1..r : out[q[b]] \in after
    BY <1>2, <1>3 DEF Picks
  <2>3. \A c \in 1..Len(out) : /\ out[c] \in before => \E a \in 1..m : p[a] = c
                               /\ out[c] \in after => \E b \in 1..r : q[b] = c
    BY <1>2, <1>3 DEF Picks
  <2> HIDE DEF m, r, e
  <2> QED
    BY <1>5, <2>1, <2>2, <2>3 DEF Parts
<1> DEFINE to == [a \in 1..(m + 1 + r) |-> IF a \in 1..m THEN at[p[a]]
                                         ELSE IF a = m + 1 THEN i ELSE at[q[a - m - 1]]]
<1>8. /\ new \in Seq(Elements) /\ Len(new) = m + 1 + r
      /\ \A a \in 1..m : new[a] = first[a]
      /\ new[m + 1] = e
      /\ \A b \in 1..r : new[m + 1 + b] = rest[b]
  BY <1>1, <1>6, InBetween
<1> HIDE DEF new
<1>9. \A a \in 1..m : first[a] = out[p[a]]
  BY <1>2 DEF Picks
<1>10. \A b \in 1..r : rest[b] = out[q[b]]
  BY <1>3 DEF Picks
<1> HIDE DEF m, r, e
<1>11. /\ m + 1 \notin 1..m
       /\ \A b \in 1..r : /\ m + 1 + b \notin 1..m /\ m + 1 + b # m + 1
                          /\ m + 1 + b - m - 1 = b
  BY <1>6
<1>12. \A a \in 1..m : to[a] = at[p[a]]
  BY <1>6, ThreeParts
<1>13. to[m + 1] = i
  BY <1>6, <1>11, ThreeParts
<1>14. \A b \in 1..r : to[m + 1 + b] = at[q[b]]
  BY <1>6, <1>11, ThreeParts
<1>15. to \in [1..(m + 1 + r) -> 1..i]
  <2>1. \A c \in 1..Len(out) : at[c] \in 1..i
    BY DEF Sorts
  <2>2. \A a \in 1..m : p[a] \in 1..Len(out)
    BY <1>7 DEF Parts
  <2>3. \A b \in 1..r : q[b] \in 1..Len(out)
    BY <1>7 DEF Parts
  <2>4. \A a \in 1..(m + 1 + r) : \/ a \in 1..m \/ a = m + 1
                                  \/ a - m - 1 \in 1..r
    BY <1>6, ThreeParts
  <2>5. i \in 1..i
    OBVIOUS
  <2> QED
    BY <2>1, <2>2, <2>3, <2>4, <2>5
<1> HIDE DEF to
<1>16. Between(new, to, m, r, out, at, p, q, e, i)
  BY <1>8, <1>9, <1>10, <1>12, <1>13, <1>14 DEF Between
<1>17. Sorts(new, list, i, ahead, to)
  BY <1>6, <1>7, <1>15, <1>16, BetweenSorts DEF e
<1> QED
  BY <1>4, <1>8, <1>17

\* What a sort has placed after each element.
IsInsertions(sorted, list, n, ahead) ==
  /\ sorted[0] = << >> /\ sorted[n] = StableSort(list, ahead)
  /\ \A i \in 1..n : sorted[i] = Inserted(sorted[i - 1], list[i], ahead)

LEMMA InsertedTyped ==
  ASSUME NEW Elements, NEW out \in Seq(Elements), NEW e \in Elements, NEW ahead
  PROVE  Inserted(out, e, ahead) \in Seq(Elements)
<1> DEFINE first == Only(out, {x \in ToSet(out) : <<x, e>> \in ahead})
           rest == Only(out, {x \in ToSet(out) : <<x, e>> \notin ahead})
<1>1. first \in Seq(Elements) /\ rest \in Seq(Elements)
  BY OnlyPicks
<1>2. Inserted(out, e, ahead) = first \o <<e>> \o rest
  BY DEF Inserted
<1> HIDE DEF first, rest
<1> QED
  BY <1>1, <1>2, InBetween

LEMMA SortLoop ==
  ASSUME NEW Elements, NEW list \in Seq(Elements), NEW ahead
  PROVE  \E sorted \in [0..Len(list) -> Seq(Elements)] :
           IsInsertions(sorted, list, Len(list), ahead)
<1> DEFINE n == Len(list)
           Acc == Seq(Elements)
           Insert(sorted, e) == Inserted(sorted, e, ahead)
           step == [x \in Acc \X (1..n) |-> Insert(x[1], list[x[2]])]
           Reads(g) == g = [s \in SUBSET (DOMAIN list) |->
                              IF s = {} THEN << >>
                              ELSE Insert(g[s \ {Max(s)}], list[Max(s)])]
           iter == CHOOSE g : Reads(g)
<1>1. n \in Nat /\ DOMAIN list = 1..n /\ << >> \in Acc
  OBVIOUS
<1>7. FoldLeft(Insert, << >>, list) = iter[DOMAIN list]
  BY DEF FoldLeft, MapThenFoldSet
<1>8. StableSort(list, ahead) = FoldLeft(Insert, << >>, list)
  BY DEF StableSort
<1>2. step \in [Acc \X (1..n) -> Acc]
  <2>1. ASSUME NEW out \in Acc, NEW i \in 1..n PROVE Insert(out, list[i]) \in Acc
    <3>1. list[i] \in Elements
      OBVIOUS
    <3> HIDE DEF n
    <3> QED
      BY <3>1, InsertedTyped
  <2> HIDE DEF Insert
  <2> QED
    BY <2>1
<1>3. \A out \in Acc, i \in 1..n : step[<<out, i>>] = Insert(out, list[i])
  OBVIOUS
<1> HIDE DEF step, Acc, n, Reads, iter, Insert
<1>4. PICK F \in [SUBSET (1..n) -> Acc] : IsFold(F, n, << >>, step)
  <2>1. n \in Nat /\ << >> \in Acc
    BY <1>1
  <2> QED
    BY <2>1, <1>2, FoldExists
<1> USE DEF Reads
<1>5. Reads(F)
  <2>1. ASSUME NEW s \in SUBSET (1..n), s # {}
        PROVE  F[s] = Insert(F[s \ {Max(s)}], list[Max(s)])
    BY <1>1, <1>3, <1>4, <2>1, MaxOfPlaces DEF IsFold
  <2> QED
    BY <1>1, <1>4, <2>1 DEF IsFold
<1>6. Reads(iter)
  BY <1>5 DEF iter
<1>9. Unfolds(iter, n, Acc, << >>, step)
  BY <1>1, <1>3, <1>6, MaxOfPlaces DEF Unfolds
<1>10. IsLoop(Loop(iter, n), n, Acc, << >>, step)
  <2> HIDE DEF Reads
  <2> QED
    BY <1>1, <1>2, <1>9, FoldIsLoop
<1> DEFINE sorted == Loop(iter, n)
<1>11. sorted[n] = iter[1..n]
  BY <1>1, PlacesUpTo DEF Loop
<1> HIDE DEF sorted
<1>12. \A i \in 1..n : sorted[i] = Insert(sorted[i - 1], list[i])
  BY <1>1, <1>3, <1>10, PlacesUpTo DEF IsLoop, sorted
<1> QED
  BY <1>1, <1>7, <1>8, <1>10, <1>11, <1>12
  DEF Acc, n, IsLoop, IsInsertions, sorted, Insert

\* A sort keeps every element, and leaves them in order.
LEMMA StableSorts ==
  ASSUME NEW Elements, NEW list \in Seq(Elements), NEW ahead, IsOrder(ahead, Elements)
  PROVE  /\ StableSort(list, ahead) \in Seq(Elements)
         /\ \E at : Sorts(StableSort(list, ahead), list, Len(list), ahead, at)
<1> DEFINE n == Len(list)
<1>1. n \in Nat
  OBVIOUS
<1>2. PICK sorted \in [0..n -> Seq(Elements)] : IsInsertions(sorted, list, n, ahead)
  BY SortLoop
<1> DEFINE Done(i) == \E at : Sorts(sorted[i], list, i, ahead, at)
           T == {i \in 0..n : Done(i)}
<1>3. Done(0)
  <2>1. /\ Len(sorted[0]) = 0 /\ 1..0 = {}
        /\ [a \in {} |-> a] \in [1..0 -> 1..0]
    BY <1>2 DEF IsInsertions
  <2>2. Sorts(sorted[0], list, 0, ahead, [a \in {} |-> a])
    BY <2>1 DEF Sorts
  <2> QED
    BY <2>2
<1>4. ASSUME NEW i \in 1..n, Done(i - 1) PROVE Done(i)
  <2> DEFINE out == sorted[i - 1]
  <2>1. PICK at : Sorts(out, list, i - 1, ahead, at)
    BY <1>4
  <2>2. i \in Nat \ {0} /\ out \in Seq(Elements) /\ list[i] \in Elements
    BY <1>1, PlacesUpTo
  <2>3. sorted[i] = Inserted(out, list[i], ahead)
    BY <1>2 DEF IsInsertions
  <2> HIDE DEF out
  <2>4. \E to : Sorts(Inserted(out, list[i], ahead), list, i, ahead, to)
    BY <2>1, <2>2, InsertSorts
  <2> QED
    BY <2>3, <2>4
<1>5. \A i \in 0..n : i \in T
  <2>1. 0 \in T /\ \A i \in 1..n : i - 1 \in T => i \in T
    <3> HIDE DEF Done
    <3> QED
      BY <1>1, <1>3, <1>4, PlacesUpTo
  <2> HIDE DEF T, n
  <2> QED
    BY <1>1, <2>1, UpToBound
<1>6. n \in 0..n
  BY <1>1
<1>7. Done(n)
  <2> HIDE DEF Done
  <2> QED
    BY <1>5, <1>6
<1> QED
  BY <1>2, <1>6, <1>7 DEF IsInsertions

\* A sorted list has the elements of the list, in order.
LEMMA SortedElements ==
  ASSUME NEW Elements, NEW list \in Seq(Elements), NEW ahead, IsOrder(ahead, Elements)
  PROVE  /\ StableSort(list, ahead) \in Seq(Elements)
         /\ ToSet(StableSort(list, ahead)) = ToSet(list)
         /\ \A i, j \in 1..Len(StableSort(list, ahead)) :
              i < j => <<StableSort(list, ahead)[i], StableSort(list, ahead)[j]>> \in ahead
<1> DEFINE out == StableSort(list, ahead)
<1>1. out \in Seq(Elements) /\ \E at : Sorts(out, list, Len(list), ahead, at)
  BY StableSorts
<1> HIDE DEF out
<1>2. PICK at : Sorts(out, list, Len(list), ahead, at)
  BY <1>1
<1>3. \A i, j \in 1..Len(out) : i < j => <<out[i], out[j]>> \in ahead
  BY <1>2 DEF Sorts
<1>4. \A e : e \in ToSet(out) <=> \E i \in 1..Len(out) : out[i] = e
  BY <1>1 DEF ToSet
<1>5. \A e : e \in ToSet(list) <=> \E i \in 1..Len(list) : list[i] = e
  BY DEF ToSet
<1>6. ASSUME NEW e \in ToSet(out) PROVE e \in ToSet(list)
  <2>1. PICK i \in 1..Len(out) : out[i] = e
    BY <1>4
  <2>2. at[i] \in 1..Len(list) /\ list[at[i]] = e
    BY <1>2, <2>1 DEF Sorts
  <2> QED
    BY <1>5, <2>2
<1>7. ASSUME NEW e \in ToSet(list) PROVE e \in ToSet(out)
  <2>1. PICK k \in 1..Len(list) : list[k] = e
    BY <1>5
  <2>2. PICK i \in 1..Len(out) : at[i] = k
    BY <1>2 DEF Sorts
  <2>3. out[i] = e
    BY <1>2, <2>1, <2>2 DEF Sorts
  <2> QED
    BY <1>4, <2>3
<1>8. ToSet(out) = ToSet(list)
  BY <1>6, <1>7
<1> QED
  BY <1>1, <1>3, <1>8 DEF out

\* The best element comes first.
LEMMA SortedFirst ==
  ASSUME NEW Elements, NEW list \in Seq(Elements), NEW ahead, IsOrder(ahead, Elements)
  PROVE  /\ StableSort(list, ahead) \in Seq(Elements)
         /\ Len(StableSort(list, ahead)) = 0 <=> Len(list) = 0
         /\ Len(list) # 0 =>
              /\ \E k \in 1..Len(list) : StableSort(list, ahead)[1] = list[k]
              /\ \A k \in 1..Len(list) :
                   <<StableSort(list, ahead)[1], list[k]>> \in ahead
<1> DEFINE out == StableSort(list, ahead)
           n == Len(list)
<1>1. out \in Seq(Elements) /\ \E at : Sorts(out, list, n, ahead, at)
  BY StableSorts
<1>2. PICK at : Sorts(out, list, n, ahead, at)
  BY <1>1
<1>3. Len(out) \in Nat /\ n \in Nat
  BY <1>1
<1> HIDE DEF out
<1>4. \A a \in 1..Len(out) : at[a] \in 1..n /\ out[a] = list[at[a]]
  BY <1>2 DEF Sorts
<1>5. \A k \in 1..n : \E a \in 1..Len(out) : at[a] = k
  BY <1>2 DEF Sorts
<1>6. Len(out) = 0 <=> n = 0
  <2>1. Len(out) # 0 => 1 \in 1..Len(out)
    BY <1>3
  <2>2. n # 0 => 1 \in 1..n
    BY <1>3
  <2>3. 1..0 = {}
    OBVIOUS
  <2> HIDE DEF n
  <2> QED
    BY <1>4, <1>5, <2>1, <2>2, <2>3
<1>7. ASSUME n # 0
      PROVE  /\ \E k \in 1..n : out[1] = list[k]
             /\ \A k \in 1..n : <<out[1], list[k]>> \in ahead
  <2>1. 1 \in 1..Len(out)
    BY <1>3, <1>6, <1>7
  <2>2. ASSUME NEW k \in 1..n PROVE <<out[1], list[k]>> \in ahead
    <3>1. PICK a \in 1..Len(out) : at[a] = k
      BY <1>5
    <3>2. out[a] = list[k]
      BY <1>4, <3>1
    <3>3. CASE a = 1
      <4>1. out[1] \in Elements
        BY <1>1, <2>1
      <4> QED
        BY <3>2, <3>3, <4>1 DEF IsOrder
    <3>4. CASE a # 1
      <4>1. 1 < a
        BY <1>3, <3>4
      <4> QED
        BY <1>2, <2>1, <3>2, <4>1 DEF Sorts
    <3> QED
      BY <3>3, <3>4
  <2> QED
    BY <1>4, <2>1, <2>2
<1> QED
  BY <1>1, <1>6, <1>7 DEF out
------------------------------------------------------------------------------
(* The lists of a list, end to end, and the longest part of a list.          *)

LEMMA FlattenTyped ==
  ASSUME NEW S, NEW seqs \in Seq(Seq(S))
  PROVE  FlattenSeq(seqs) \in Seq(S)
<1> DEFINE n == Len(seqs)
           Acc == Seq(S)
           Reads(g) == g = [i \in 1..n |-> IF i = 1 THEN seqs[i] ELSE g[i - 1] \o seqs[i]]
           flat == CHOOSE g : Reads(g)
           step == [x \in Acc \X (1..n) |-> x[1] \o seqs[x[2]]]
<1>1. n \in Nat /\ << >> \in Acc /\ \A i \in 1..n : seqs[i] \in Acc
  OBVIOUS
<1>2. CASE n = 0
  <2>1. seqs = << >>
    BY <1>2
  <2> QED
    BY <1>2, <2>1 DEF FlattenSeq
<1>3. CASE n # 0
  <2>1. FlattenSeq(seqs) = flat[n]
    BY <1>3 DEF FlattenSeq
  <2>2. step \in [Acc \X (1..n) -> Acc]
    <3>1. \A x \in Acc, i \in 1..n : x \o seqs[i] \in Acc
      BY <1>1, ConcatProperties
    <3> HIDE DEF Acc, n
    <3> QED
      BY <3>1
  <2>3. /\ \A x \in Acc, i \in 1..n : step[<<x, i>>] = x \o seqs[i]
        /\ \A x \in Acc : << >> \o x = x
    <3>1. \A x \in Acc : << >> \o x = x
      BY ConcatEmptySeq
    <3>2. \A x \in Acc, i \in 1..n : step[<<x, i>>] = x \o seqs[i]
      OBVIOUS
    <3> QED
      BY <3>1, <3>2
  <2> HIDE DEF n, Acc, step, Reads, flat
  <2>4. PICK F \in [SUBSET (1..n) -> Acc] : IsFold(F, n, << >>, step)
    BY <1>1, <2>2, FoldExists
  <2> DEFINE g == [i \in 1..n |-> F[1..i]]
  <2>5. \A i \in 1..n : g[i] = IF i = 1 THEN seqs[i] ELSE g[i - 1] \o seqs[i]
    <3>1. SUFFICES ASSUME NEW i \in 1..n
                   PROVE  g[i] = IF i = 1 THEN seqs[i] ELSE g[i - 1] \o seqs[i]
      OBVIOUS
    <3>2. /\ 1..i \in SUBSET (1..n) /\ 1..i # {} /\ Max(1..i) = i
          /\ (1..i) \ {Max(1..i)} = 1..(i - 1)
      BY <1>1, Before
    <3>3. F[1..i] = step[<<F[1..(i - 1)], i>>]
      BY <2>4, <3>2 DEF IsFold
    <3>4. F[1..(i - 1)] \in Acc
      BY <2>4, <3>2
    <3>5. F[1..i] = F[1..(i - 1)] \o seqs[i]
      BY <2>3, <3>3, <3>4
    <3>6. CASE i = 1
      <4>1. 1..(i - 1) = {}
        BY <3>6
      <4>2. {} \in SUBSET (1..n)
        OBVIOUS
      <4>3. F[{}] = << >>
        BY <2>4, <4>2 DEF IsFold
      <4> QED
        BY <1>1, <2>3, <3>5, <3>6, <4>1, <4>3
    <3>7. CASE i # 1
      <4>1. i - 1 \in 1..n
        BY <1>1, <3>7
      <4> QED
        BY <3>5, <3>7, <4>1
    <3> QED
      BY <3>6, <3>7
  <2>6. Reads(g)
    <3>1. g = [i \in 1..n |-> g[i]]
      OBVIOUS
    <3> HIDE DEF g
    <3> QED
      BY <2>5, <3>1 DEF Reads
  <2>7. Reads(flat)
    BY <2>6 DEF flat
  <2> DEFINE T == {i \in 0..n : i = 0 \/ flat[i] \in Acc}
  <2>8. 0 \in T /\ \A i \in 1..n : i - 1 \in T => i \in T
    <3>1. 0 \in T
      BY <1>1
    <3>2. ASSUME NEW i \in 1..n, i - 1 \in T PROVE i \in T
      <4>1. flat[i] = IF i = 1 THEN seqs[i] ELSE flat[i - 1] \o seqs[i]
        BY <2>7 DEF Reads
      <4>2. i \in 0..n
        BY <1>1
      <4>3. CASE i = 1
        BY <1>1, <4>1, <4>2, <4>3
      <4>4. CASE i # 1
        <5>1. flat[i - 1] \in Acc
          BY <3>2, <4>4
        <5>2. flat[i - 1] \o seqs[i] \in Acc
          BY <1>1, <5>1, ConcatProperties DEF Acc
        <5> QED
          BY <4>1, <4>2, <4>4, <5>2
      <4> QED
        BY <4>3, <4>4
    <3> QED
      BY <3>1, <3>2
  <2>9. \A i \in 0..n : i \in T
    <3> HIDE DEF T
    <3> QED
      BY <1>1, <2>8, UpToBound
  <2>10. n \in 0..n /\ n # 0
    BY <1>1, <1>3 DEF n
  <2> QED
    BY <2>1, <2>9, <2>10 DEF Acc
<1> QED
  BY <1>2, <1>3

\* Every nonempty set of numbers up to a bound has a greatest one.
LEMMA GreatestExists ==
  ASSUME NEW n \in Nat, NEW s \in SUBSET (0..n), s # {}
  PROVE  \E x \in s : \A y \in s : y <= x
<1> DEFINE r == {n - x : x \in s}
<1>1. r \in SUBSET Nat /\ r # {}
  <2>1. \A x \in s : n - x \in Nat
    <3>1. \A x \in 0..n : n - x \in Nat
      OBVIOUS
    <3> QED
      BY <3>1
  <2>2. r # {}
    OBVIOUS
  <2> QED
    BY <2>1, <2>2
<1>2. \E z \in r : \A y \in r : z <= y
  <2> HIDE DEF r
  <2> QED
    BY <1>1, LeastExists
<1>3. PICK z \in r : \A y \in r : z <= y
  BY <1>2
<1>4. PICK x \in s : z = n - x
  OBVIOUS
<1>5. ASSUME NEW y \in s PROVE y <= x
  <2>0. n - y \in r
    OBVIOUS
  <2>1. n - x <= n - y
    BY <1>3, <1>4, <2>0
  <2> QED
    BY <2>1
<1> QED
  BY <1>5

\* The first elements of a list.
LEMMA FirstElements ==
  ASSUME NEW S, NEW s \in Seq(S), NEW n \in Nat
  PROVE  /\ First(n, s) \in Seq(S) /\ Len(First(n, s)) <= n
         /\ \A i \in 1..Len(First(n, s)) : i \in 1..Len(s) /\ i <= n /\ First(n, s)[i] = s[i]
         /\ \A i \in 1..Len(s) : i <= n => i \in 1..Len(First(n, s))
<1> DEFINE l == IF Len(s) < n THEN Len(s) ELSE n
           f == SubSeq(s, 1, l)
<1>1. Len(s) \in Nat /\ l \in Nat /\ l <= Len(s) /\ l <= n
  OBVIOUS
<1>2. \A i \in 1..l : s[i] \in S /\ i \in 1..Len(s) /\ i <= n
  BY <1>1
<1>3. \A i \in 1..Len(s) : i <= n => i \in 1..l
  OBVIOUS
<1> HIDE DEF l
<1>4. f \in Seq(S) /\ Len(f) = l /\ \A i \in 1..l : f[i] = s[i]
  <2>1. /\ f \in Seq(S) /\ Len(f) = IF 1 <= l THEN l - 1 + 1 ELSE 0
        /\ \A i \in 1..(l - 1 + 1) : f[i] = s[1 + i - 1]
    BY <1>1, <1>2, SubSeqProperties
  <2>2. l - 1 + 1 = l /\ \A i \in 1..l : 1 + i - 1 = i
    BY <1>1
  <2>3. Len(f) = l
    BY <1>1, <2>1, <2>2
  <2> HIDE DEF f
  <2> QED
    BY <2>1, <2>2, <2>3
<1>5. First(n, s) = f
  BY DEF First, l
<1> HIDE DEF f
<1> QED
  BY <1>1, <1>2, <1>3, <1>4, <1>5

\* Two lists, one after the other.
LEMMA JoinedElements ==
  ASSUME NEW S, NEW s \in Seq(S), NEW t \in Seq(S)
  PROVE  s \o t \in Seq(S) /\ ToSet(s \o t) = ToSet(s) \cup ToSet(t)
<1> DEFINE joined == s \o t
<1>1. /\ joined \in Seq(S) /\ Len(joined) = Len(s) + Len(t)
      /\ Len(s) \in Nat /\ Len(t) \in Nat
      /\ \A i \in 1..Len(s) : joined[i] = s[i]
      /\ \A i \in 1..Len(t) : joined[Len(s) + i] = t[i]
  OBVIOUS
<1>2. /\ \A i \in 1..Len(s) : i \in 1..(Len(s) + Len(t))
      /\ \A i \in 1..Len(t) : Len(s) + i \in 1..(Len(s) + Len(t))
      /\ \A i \in 1..(Len(s) + Len(t)) :
           i \in 1..Len(s) \/ (i - Len(s) \in 1..Len(t) /\ i = Len(s) + (i - Len(s)))
  BY <1>1
<1> HIDE DEF joined
<1>3. /\ \A e : e \in ToSet(joined) <=> \E i \in 1..Len(joined) : joined[i] = e
      /\ \A e : e \in ToSet(s) <=> \E i \in 1..Len(s) : s[i] = e
      /\ \A e : e \in ToSet(t) <=> \E i \in 1..Len(t) : t[i] = e
  BY <1>1 DEF ToSet
<1>4. ASSUME NEW e \in ToSet(joined) PROVE e \in ToSet(s) \cup ToSet(t)
  <2>1. PICK i \in 1..Len(joined) : joined[i] = e
    BY <1>3
  <2>2. i \in 1..(Len(s) + Len(t))
    BY <1>1, <2>1
  <2>3. CASE i \in 1..Len(s)
    BY <1>1, <1>3, <2>1, <2>3
  <2>4. CASE i - Len(s) \in 1..Len(t) /\ i = Len(s) + (i - Len(s))
    BY <1>1, <1>3, <2>1, <2>4
  <2> QED
    BY <1>2, <2>2, <2>3, <2>4
<1>5. ASSUME NEW e \in ToSet(s) PROVE e \in ToSet(joined)
  <2>1. PICK i \in 1..Len(s) : s[i] = e
    BY <1>3
  <2> QED
    BY <1>1, <1>2, <1>3, <2>1
<1>6. ASSUME NEW e \in ToSet(t) PROVE e \in ToSet(joined)
  <2>1. PICK i \in 1..Len(t) : t[i] = e
    BY <1>3
  <2>2. Len(s) + i \in 1..Len(joined)
    BY <1>1, <1>2
  <2>3. joined[Len(s) + i] = e
    BY <1>1, <2>1
  <2> QED
    BY <1>3, <2>2, <2>3
<1>7. ToSet(joined) = ToSet(s) \cup ToSet(t)
  BY <1>4, <1>5, <1>6
<1> QED
  BY <1>1, <1>7 DEF joined
=============================================================================
