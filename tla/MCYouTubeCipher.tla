--------------------------- MODULE MCYouTubeCipher ---------------------------
(***************************************************************************)
(* A small instance: usize has four bits and bases are searched in three.  *)
(***************************************************************************)
EXTENDS YouTubeCipher

Bit(n, i) == (n \div 2^i) % 2
MCXor(a, b) == LET bit(i) == IF Bit(a, i) = Bit(b, i) THEN 0 ELSE 2^i
               IN  bit(0) + bit(1) + bit(2) + bit(3)

\* The three methods, packed (indexing the first or the second pool), classic, and
\* of an h[] player; and odd ones.
Method(key, params, pool, text, h, does) ==
  [key |-> key, params |-> params, pool |-> pool, text |-> text, h |-> h, does |-> does]

Packed(pool) == <<Method("ks", 2, pool, {}, {}, "splice"),
                  Method("kw", 2, pool, {"%", "[0]="}, {}, "swap"),
                  Method("kr", 1, pool, {}, {}, "reverse")>>
OddPacked == [Packed(1) EXCEPT ![2].text = {"var c="}]
Classic == <<Method("ks", 2, 0, {"splice"}, {}, "splice"),
             Method("kw", 2, 0, {"%", "var c="}, {}, "swap"),
             Method("kr", 1, 0, {"reverse"}, {}, "reverse")>>
OddClassic == [Classic EXCEPT ![2].text = {"var c="}]
Uc == <<Method("ks", 2, 0, {}, {1}, "splice"), Method("kw", 2, 0, {"D[0]"}, {}, "swap"),
        Method("kr", 1, 0, {}, {2}, "reverse")>>

Pool == <<"ks", "splice", "kr", "reverse", "t", "kw">>
TwicePool == <<"ks", "splice", "kr", "reverse", "kr", "kw">>
WidePool == <<"t", "splice", "t", "reverse", "ks", "kr", "t", "kw">>

Blank == [pools |-> << >>, objects |-> << >>, sites |-> << >>, callsite |-> Absent,
          h |-> << >>, uC |-> << >>, fq |-> Absent, block |-> << >>,
          generation |-> "packed", dispatcher |-> "X", env |-> [X |-> 0, Y |-> 0]]

Literal(n) == [form |-> "literal", n |-> n]
Masked(ident, env, n) == [form |-> "xor", ident |-> ident, n |-> MCXor(env[ident], n)]
Other == [form |-> "other"]

\* How the dispatcher writes the argument of a splice or a swap.
ArgStyles == {"literal", "masked", "foreign", "other"}
Arg(style, ident, env, n) ==
  CASE style = "literal" -> Literal(n)
    [] style = "masked" -> Masked(ident, env, n)
    [] style = "foreign" -> Masked(IF ident = "X" THEN "Y" ELSE "X", env, n)
    [] style = "other" -> Other

Place(pool, key) == (CHOOSE i \in DOMAIN pool : pool[i] = key) - 1

Dispatch(ident, env, pool, keys, style) ==
  [i \in 1..Len(keys) |->
     [konst |-> MCXor(env[ident], Place(pool, keys[i])),
      arg |-> IF keys[i] = "kr" THEN Other
              ELSE Arg(style, ident, env, IF keys[i] = "ks" THEN 1 ELSE 2 + i)]]

NoSites == [X |-> << >>, Y |-> << >>]
Silent(pools, objects) == [o \in 1..Len(objects) |-> [p \in 1..Len(pools) |-> NoSites]]

Player(pools, p, objects, helper, env, keys, style, decoys) ==
  [Blank EXCEPT !.pools = pools, !.objects = objects, !.env = env,
     !.sites = [Silent(pools, objects) EXCEPT ![helper][p] =
                  [X |-> Dispatch("X", env, pools[p], keys, style),
                   Y |-> Dispatch("Y", env, pools[p], decoys, "masked")]]]

KeyNames == {"ks", "kw", "kr"}
Env(x, y) == [X |-> x, Y |-> y]

PackedPlayers ==
  {Player(<<pool>>, 1, <<Packed(1)>>, 1, Env(x, 3), keys, "masked", << >>) :
     pool \in {Pool, TwicePool}, x \in {0, 5, 9},
     keys \in [1..2 -> KeyNames] \cup [1..3 -> KeyNames]}
    \cup {Player(<<pool>>, 1, <<Packed(1)>>, 1, Env(x, y), keys, style, decoys) :
            pool \in {Pool, WidePool}, x \in {1, 7, 8}, y \in {1, 6},
            style \in ArgStyles,
            keys \in {<<"ks", "kr", "kw">>, <<"kw", "ks", "kr", "ks">>, <<"kr", "kw">>},
            decoys \in {<<"kr">>, <<"kr", "ks">>, <<"kw", "kr", "ks">>}}
    \cup {Player(<<<<"splice", "t">>, Pool>>, 2, objects, helper, Env(6, 0),
                 <<"kr", "ks", "kw">>, "literal", << >>) :
            helper \in {1, 2}, objects \in {<<Packed(1), Packed(2)>>,
                                            <<Packed(2), Packed(2)>>}}
    \cup {Player(<<Pool>>, 1, <<OddPacked>>, 1, Env(6, 0),
                 <<"kr", "ks", "kw">>, "literal", << >>)}

Call(key, on, index) ==
  [container |-> 1, method |-> key, on_split_var |-> on, index |-> index]

SplitPlayers ==
  {[Blank EXCEPT !.generation = "split", !.objects = objects,
      !.sites = Silent(<< >>, objects),
      !.callsite = [expression |-> e, var_a |-> v, calls |-> calls]] :
     e, v \in BOOLEAN, objects \in {<< >>, <<Classic>>, <<OddClassic>>, <<Uc>>},
     calls \in {<< >>} \cup [1..2 -> {Call(k, TRUE, 3) : k \in KeyNames}]
                 \cup {<<Call(k, o, n), Call("ks", TRUE, 1), Call("kw", TRUE, 2)>> :
                         k \in {"kr", "ks", "t"}, o \in BOOLEAN, n \in {0, Absent}}}

HArray == <<"ks", "splice", "reverse", "kr", "kw">>
FqCall(v, key, arg) == [konst |-> MCXor(v, Place(HArray, key)), arg |-> arg]

FqPlayers ==
  {[Blank EXCEPT !.generation = "fq", !.h = h, !.uC = Uc, !.fq = fq,
      !.block = <<FqCall(6, k, arg), FqCall(6, l, [form |-> "xor", ident |-> "X", n |-> 4]),
                  FqCall(6, "kr", Other)>>] :
     h \in {<< >>, HArray, [HArray EXCEPT ![4] = "t"]},
     fq \in {Absent, [d |-> 2, x |-> 4], [d |-> 9, x |-> 15], [d |-> 8, x |-> 3]},
     k, l \in {"ks", "kw", "splice"}, arg \in {Literal(1), Other}}
    \cup {[Blank EXCEPT !.generation = "fq", !.h = HArray, !.uC = << >>,
             !.fq = [d |-> 2, x |-> 4]], Blank}

MCPlayers == PackedPlayers \cup SplitPlayers \cup FqPlayers

Pair(key, value) == [key |-> key, value |-> value]
Sig == <<"a", "b", "c", "d", "e">>
Blob(s, sig, u, sp) == [s |-> s, sig |-> sig, url |-> u, sp |-> sp]

MCCiphers ==
  {Blob(Sig, Absent, <<Pair("id", <<"b">>), Pair("flag", Absent)>>, "sig"),
   Blob(Absent, <<"a", "b", "c">>, << >>, Absent),
   Blob(Sig, <<"a">>, <<Pair("sig", <<"a">>), Pair("id", << >>), Pair("sig", <<"c">>),
                        Pair("ratebypass", <<"b">>)>>, "sig"),
   Blob(Absent, Absent, << >>, "sig"), Blob(Sig, Absent, Absent, "sig")}
==============================================================================
