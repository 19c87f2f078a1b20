---------------------------- MODULE YouTubeCipher ----------------------------
(***************************************************************************)
(* How the YouTube plugin finds the signature operations in a player       *)
(* script and signs a stream URL with them (plugins/youtube/src/cipher.rs):*)
(* four strategies, one for each generation of players, tried in turn until*)
(* one finds operations.  Scripts are minified text; what the scanners tell*)
(* apart in it is kept, where it stands and how it is spelt is not.        *)
(***************************************************************************)
EXTENDS FiniteSets, Lists

CONSTANTS Words,        \* usize holds 0..Words - 1
          SearchBound,  \* 1 << 17, the bases solve_shared_base tries
          Xor(_, _),    \* usize ^ usize
          Tokens,       \* the words of pools and arrays, method keys among them
          Idents,       \* identifiers a dispatcher may hold its base in
          Chars,        \* the characters of signatures
          Keys,         \* the keys of a stream URL's query
          Players,      \* the player scripts considered
          Ciphers,      \* the signatureCipher blobs considered
          Absent

Ints == 0..(Words - 1)
Bases == 0..(SearchBound - 1)

Kinds == {"reverse", "splice", "swap"}

Ops == [kind : Kinds, index : Ints]

\* A property of an object literal: its key, its parameter count, the pool its body
\* indexes (0 if none), what else a scanner finds in the body, the places of h[] it
\* names, and, unseen by the plugin, what it does.
Methods == [key : Tokens, params : Nat, pool : Nat,
            text : SUBSET {"%", "[0]=", "splice", "reverse", "var c=", "D[0]"},
            h : SUBSET Nat, does : Kinds]

\* An argument, or the second of two, as the scanners read it.
Args == [form : {"literal"}, n : Ints]
          \cup [form : {"xor"}, ident : Idents, n : Ints]
          \cup [form : {"other"}]

\* helper[pool[ident^konst]](.., arg), and the same in h[] players.
Sites == [konst : Ints, arg : Args]

\* container.method(v, index); index is Absent when it is no number.
Calls == [container : Nat, method : Tokens, on_split_var : BOOLEAN,
          index : Ints \cup {Absent}]

\* The function that splits and joins: a function expression or a declaration, over a
\* variable called a or another.
Callsites == [expression : BOOLEAN, var_a : BOOLEAN, calls : Seq(Calls)]

\* A player script: sites[object][pool][ident] are its sites in their order. Unseen by
\* the plugin are the generation it is of, the identifier its signature dispatcher uses
\* and what each identifier holds at run time.
PlayerScripts ==
  [pools : Seq(Seq(Tokens)), objects : Seq(Seq(Methods)),
   sites : Seq(Seq([Idents -> Seq(Sites)])),
   callsite : Callsites \cup {Absent},
   h : Seq(Tokens), uC : Seq(Methods), fq : [d : Ints, x : Ints] \cup {Absent},
   block : Seq(Sites),
   generation : {"packed", "split", "fq"}, dispatcher : Idents, env : [Idents -> Ints]]

\* A query pair of a stream URL; one without = has no value.
Pairs == [key : Keys, value : Seq(Chars \cup {"yes"}) \cup {Absent}]

\* The fields of a signatureCipher that the plugin reads.
CipherFields == [s : Seq(Chars) \cup {Absent}, sig : Seq(Chars) \cup {Absent},
                 url : Seq(Pairs) \cup {Absent}, sp : Keys \cup {Absent}]

ASSUME CipherAssumption ==
  /\ Words \in Nat /\ SearchBound \in 1..Words
  /\ Players \subseteq PlayerScripts /\ Ciphers \subseteq CipherFields
  /\ {"splice", "reverse"} \subseteq Tokens /\ {"signature", "ratebypass"} \subseteq Keys
  /\ Absent \notin Ints /\ Absent \notin Kinds /\ Absent \notin Keys

\* What is used of exclusive or, and of the bound as a power of two.
ASSUME XorAssumption ==
  \A a, b \in Ints :
    /\ Xor(a, b) \in Ints
    /\ Xor(a, b) = Xor(b, a)
    /\ Xor(Xor(a, b), b) = a
    /\ a \in Bases => (Xor(a, b) \in Bases <=> b \in Bases)

\* The order of three does not matter: of a regular player's bases only one can work.
ASSUME XorIsAssociative ==
  \A a, b, c \in Ints : Xor(Xor(a, b), c) = Xor(a, Xor(b, c))

\* None is no list.
ASSUME AbsentAssumption ==
  Absent \notin Seq(Pairs) /\ Absent \notin Seq(Chars \cup {"yes"})

\* A pool holds tens of entries, and the keys of one object literal are distinct.
ASSUME ScriptAssumption ==
  \A p \in Players :
    /\ \A i \in 1..Len(p.pools) : Len(p.pools[i]) <= SearchBound
    /\ \A i \in 1..Len(p.objects) : \A m, n \in ToSet(p.objects[i]) :
         m.key = n.key => m = n
    /\ Len(p.sites) = Len(p.objects)
    /\ \A i \in 1..Len(p.sites) : Len(p.sites[i]) = Len(p.pools)

------------------------------------------------------------------------------
(* Classifying a method by its text, once for each strategy. *)

ExplodeKind(m) == CASE "%" \in m.text -> "swap"
                    [] "%" \notin m.text /\ "splice" \in m.text -> "splice"
                    [] m.text \cap {"%", "splice", "reverse"} = {"reverse"} -> "reverse"
                    [] OTHER -> Absent

LegacyKind(m) ==
  CASE "reverse" \in m.text -> "reverse"
    [] "reverse" \notin m.text /\ "splice" \in m.text -> "splice"
    [] m.text \cap {"reverse", "splice", "var c="} = {"var c="} -> "swap"
    [] OTHER -> Absent

\* By parameter count and shape; a body that does not index the pool is passed over.
PackedKind(m, pool) ==
  CASE m.pool = pool /\ m.params = 1 -> "reverse"
    [] m.pool = pool /\ m.params = 2 /\ {"%", "[0]="} \subseteq m.text -> "swap"
    [] m.pool = pool /\ m.params = 2 /\ ~({"%", "[0]="} \subseteq m.text) -> "splice"
    [] OTHER -> Absent

\* position() of a token in h[], counted from 0.
HIndex(h, token) == CHOOSE i \in 0..(Len(h) - 1) :
                      h[i + 1] = token /\ \A j \in 1..i : h[j] # token

UcKind(m, h) ==
  CASE HIndex(h, "splice") \in m.h -> "splice"
    [] m.h \cap {HIndex(h, "splice"), HIndex(h, "reverse")} = {HIndex(h, "reverse")} ->
         "reverse"
    [] /\ m.h \cap {HIndex(h, "splice"), HIndex(h, "reverse")} = {}
       /\ "D[0]" \in m.text -> "swap"
    [] OTHER -> Absent

MethodOf(object, key) ==
  IF \E m \in ToSet(object) : m.key = key
  THEN CHOOSE m \in ToSet(object) : m.key = key ELSE Absent

------------------------------------------------------------------------------
(* Packed constant-pool players. *)

\* The first of the places where something is found; 0 if it is found nowhere.
Least(places) == IF places = {} THEN 0 ELSE CHOOSE i \in places : \A j \in places : i <= j

\* The first pool with both words in it.
find_packed_pool(player) ==
  Least({i \in 1..Len(player.pools) :
           {"splice", "reverse"} \subseteq ToSet(player.pools[i])})

Classified(object, pool) == {m \in ToSet(object) : PackedKind(m, pool) # Absent}

\* The first object that indexes the pool and has three classified methods.
find_pool_indexed_helper(player, pool) ==
  Least({i \in 1..Len(player.objects) :
           Cardinality(Classified(player.objects[i], pool)) = 3})

CallsBy(player, ident) ==
  LET pool == find_packed_pool(player)
      helper == find_pool_indexed_helper(player, pool)
  IN  IF pool = 0 \/ helper = 0 THEN << >> ELSE player.sites[helper][pool][ident]

\* max_by_key over a HashMap: of equally frequent identifiers, any.
majority_idents(player) ==
  {i \in Idents : \A j \in Idents : Len(CallsBy(player, j)) <= Len(CallsBy(player, i))}

\* The kind of the method a pool index names, if it names one.
Dispatched(player, index) ==
  LET pool == find_packed_pool(player)
      helper == find_pool_indexed_helper(player, pool)
      named == {m \in Classified(player.objects[helper], pool) :
                  /\ index < Len(player.pools[pool])
                  /\ m.key = player.pools[pool][index + 1]}
  IN  IF named = {} THEN Absent ELSE PackedKind(CHOOSE m \in named : TRUE, pool)

Solutions(player, calls) ==
  {base \in Bases :
     \A i \in 1..Len(calls) : Dispatched(player, Xor(base, calls[i].konst)) # Absent}

\* Seeded bug: the first solution is good enough.
solve_shared_base_first(player, calls) ==
  IF Solutions(player, calls) = {} THEN Absent
  ELSE CHOOSE base \in Solutions(player, calls) :
         \A b \in Solutions(player, calls) : base <= b

solve_shared_base(player, calls) ==
  IF \E base \in Bases : Solutions(player, calls) = {base}
  THEN CHOOSE base \in Bases : Solutions(player, calls) = {base}
  ELSE Absent

\* Seeded bug: an obfuscated index is taken as it stands.
eval_arg_as_written(arg, base) == IF arg.form = "other" THEN Absent ELSE arg.n

\* The identifier of the argument is not looked at.
eval_arg(arg, base) == CASE arg.form = "literal" -> arg.n
                         [] arg.form = "xor" -> Xor(base, arg.n)
                         [] arg.form = "other" -> Absent

PackedOp(player, call, base) ==
  LET kind == Dispatched(player, Xor(base, call.konst))
  IN  [kind |-> kind,
       index |-> IF kind = "reverse" THEN 0 ELSE eval_arg(call.arg, base)]

\* Seeded bug: an index that cannot be read does not fail the strategy.
packed_ops_unchecked(player, ident) ==
  LET calls == CallsBy(player, ident)
      base == solve_shared_base(player, calls)
  IN  IF Len(calls) < 2 \/ base = Absent THEN << >>
      ELSE [i \in 1..Len(calls) |-> PackedOp(player, calls[i], base)]

packed_ops(player, ident) ==
  LET calls == CallsBy(player, ident)
      base == solve_shared_base(player, calls)
  IN  IF \/ Len(calls) < 2 \/ base = Absent
         \/ \E i \in 1..Len(calls) : PackedOp(player, calls[i], base).index = Absent
      THEN << >>
      ELSE [i \in 1..Len(calls) |-> PackedOp(player, calls[i], base)]

------------------------------------------------------------------------------
(* The older generations. A call of a method they cannot classify is passed *)
(* over, and an index they cannot read is 0.                                *)

SplitKind(strategy, m) == IF strategy = "explode" THEN ExplodeKind(m) ELSE LegacyKind(m)

SplitOps(strategy, calls, object) ==
  LET kind(c) == LET m == MethodOf(object, c.method)
                 IN  IF m = Absent THEN Absent ELSE SplitKind(strategy, m)
      known == Only(calls, {c \in Calls : kind(c) # Absent})
  IN  [i \in 1..Len(known) |->
         [kind |-> kind(known[i]),
          index |-> IF known[i].index = Absent THEN 0 ELSE known[i].index]]

\* The object a call names, if the script defines it.
Container(player, calls) ==
  IF calls = << >> \/ calls[1].container \notin 1..Len(player.objects) THEN << >>
  ELSE player.objects[calls[1].container]

\* The container is that of the first call on the split variable, yet every call on
\* the variable counts.
explode_ops(player) ==
  IF player.callsite = Absent \/ ~player.callsite.expression THEN << >>
  ELSE LET calls == Only(player.callsite.calls, {c \in Calls : c.on_split_var})
       IN  SplitOps("explode", calls, Container(player, calls))

legacy_ops(player) ==
  IF player.callsite = Absent \/ ~player.callsite.var_a THEN << >>
  ELSE SplitOps("legacy", player.callsite.calls, Container(player, player.callsite.calls))

\* fQ computes V from the two numbers it is called with, and indexes h[] by it.
fq_ops(player) ==
  IF ~({"splice", "reverse"} \subseteq ToSet(player.h)) \/ player.fq = Absent
  THEN << >>
  ELSE LET v == Xor(player.fq.x, player.fq.d)
           kind(call) ==
             LET index == Xor(v, call.konst)
                 m == IF index < Len(player.h)
                      THEN MethodOf(player.uC, player.h[index + 1]) ELSE Absent
             IN  IF m = Absent THEN Absent ELSE UcKind(m, player.h)
           known == Only(player.block, {call \in Sites : kind(call) # Absent})
       IN  [i \in 1..Len(known) |->
              [kind |-> kind(known[i]),
               index |-> IF known[i].arg.form = "other" THEN 0
                         ELSE eval_arg(known[i].arg, v)]]

Strategies == <<"packed", "explode", "fq", "legacy">>

\* What a strategy may answer: operations, or none if it fails.
Extracted(strategy, player) ==
  CASE strategy = "packed" ->
         {packed_ops(player, ident) : ident \in majority_idents(player)}
    [] strategy = "explode" -> {explode_ops(player)}
    [] strategy = "fq" -> {fq_ops(player)}
    [] strategy = "legacy" -> {legacy_ops(player)}

------------------------------------------------------------------------------
(* Signing a URL. *)

Applied(sig, op) ==
  CASE op.kind = "reverse" -> Reverse(sig)
    [] op.kind = "splice" /\ op.index < Len(sig) -> SubSeq(sig, op.index + 1, Len(sig))
    [] op.kind = "swap" /\ sig # << >> ->
         LET i == (op.index % Len(sig)) + 1
         IN  [sig EXCEPT ![1] = sig[i], ![i] = sig[1]]
    [] OTHER -> sig

decipher(ops, sig) == FoldLeft(Applied, sig, ops)

Holds(pair, key) == pair.key = key /\ pair.value # Absent

\* Every pair of that key takes the value; a pair left without value loses its = too.
append_or_replace_query_param(url, key, value) ==
  LET set == [i \in DOMAIN url |->
                IF Holds(url[i], key) THEN [url[i] EXCEPT !.value = value] ELSE url[i]]
      all == IF \E i \in DOMAIN url : Holds(url[i], key) THEN set
             ELSE Append(set, [key |-> key, value |-> value])
  IN  [i \in DOMAIN all |->
         IF all[i].value = << >> THEN [all[i] EXCEPT !.value = Absent] ELSE all[i]]

decode_signature_url(cipher, ops) ==
  LET enc_sig == IF cipher.s # Absent THEN cipher.s ELSE cipher.sig
      sp == IF cipher.sp = Absent THEN "signature" ELSE cipher.sp
      signed == append_or_replace_query_param(cipher.url, sp, decipher(ops, enc_sig))
  IN  IF enc_sig = Absent \/ cipher.url = Absent THEN Absent
      ELSE IF \E i \in DOMAIN signed : Holds(signed[i], "ratebypass") THEN signed
      ELSE append_or_replace_query_param(signed, "ratebypass", <<"yes">>)

------------------------------------------------------------------------------
VARIABLES phase,   \* where the plugin stands
          player,  \* the player script it fetched
          cipher,  \* the blob of the format it signs, once it does
          tried,   \* how many strategies have been tried
          ops,     \* the operations found, none while there are none
          url      \* the signed URL, Absent if there is none

cipher_vars == <<phase, player, cipher, tried, ops, url>>

CipherInit == /\ phase = "extract"
              /\ player \in Players
              /\ cipher = Absent
              /\ tried = 0 /\ ops = << >> /\ url = Absent

\* A strategy that fails or finds nothing leaves the script to the next one.
TryStrategy ==
  /\ phase = "extract" /\ tried < Len(Strategies)
  /\ tried' = tried + 1
  /\ ops' \in Extracted(Strategies[tried + 1], player)
  /\ phase' = IF ops' = << >> THEN "extract" ELSE "sign"
  /\ UNCHANGED <<player, cipher, url>>

\* The whole resolve call is malformed then.
NoStrategy ==
  /\ phase = "extract" /\ tried = Len(Strategies)
  /\ phase' = "failed"
  /\ UNCHANGED <<player, cipher, tried, ops, url>>

\* A blob without signature or URL drops its format only.
Sign(c) ==
  /\ phase = "sign"
  /\ cipher' = c
  /\ url' = decode_signature_url(c, ops)
  /\ phase' = IF url' = Absent THEN "dropped" ELSE "signed"
  /\ UNCHANGED <<player, tried, ops>>

Finished == phase \in {"failed", "dropped", "signed"} /\ UNCHANGED cipher_vars

CipherNext == \/ TryStrategy \/ NoStrategy
              \/ \E c \in Ciphers : Sign(c)
              \/ Finished

CipherSpec == CipherInit /\ [][CipherNext]_cipher_vars

------------------------------------------------------------------------------
\* The search's state has its type: CipherOps and the two Results of cipher.rs.
CipherTypeOK ==
  /\ phase \in {"extract", "sign", "failed", "dropped", "signed"}
  /\ player \in Players /\ cipher \in Ciphers \cup {Absent}
  /\ tried \in 0..Len(Strategies)
  /\ ops \in Seq(Ops)
  /\ url \in Seq(Pairs) \cup {Absent}

\* What the script itself does. A dispatcher's site calls the method that the pool
\* names at run time, with the argument it computes then.
Invoked(ident, site) ==
  LET pool == find_packed_pool(player)
      helper == find_pool_indexed_helper(player, pool)
      index == Xor(player.env[ident], site.konst)
  IN  IF index < Len(player.pools[pool])
      THEN MethodOf(player.objects[helper], player.pools[pool][index + 1]) ELSE Absent

Passed(arg) == CASE arg.form = "literal" -> arg.n
                 [] arg.form = "xor" -> Xor(player.env[arg.ident], arg.n)
                 [] OTHER -> Absent

\* A site that works at run time, whose argument uses no other identifier.
Honest(ident, site) ==
  /\ Invoked(ident, site) # Absent
  /\ PackedKind(Invoked(ident, site), find_packed_pool(player)) # Absent
  /\ site.arg.form = "xor" => site.arg.ident = ident

\* The doc of solve_shared_base: it fails rather than guess. Operations found by the
\* packed strategy are those of one dispatcher, call by call as the script would run
\* them, if its calls work at all; a base outside the search, a second solution or
\* another dispatcher in the same script never yields a mixture.
NeverGuesses ==
  ops # << >> /\ Strategies[tried] = "packed" =>
    \E ident \in majority_idents(player) :
      LET calls == CallsBy(player, ident)
      IN  /\ Len(ops) = Len(calls)
          /\ (\A i \in 1..Len(calls) : Honest(ident, calls[i])) =>
               \A i \in 1..Len(calls) :
                 /\ ops[i].kind = PackedKind(Invoked(ident, calls[i]),
                                             find_packed_pool(player))
                 /\ ops[i].kind # "reverse" => ops[i].index = Passed(calls[i].arg)

\* A player of a generation the plugin knows, written as the module's comments and
\* fixtures describe that generation: methods look like what they do, their keys
\* stand once in the pool or array, indexes can be read, and the dispatcher uses all
\* three methods, from a base within the search, more often than any other.
RegularPacked ==
  LET ident == player.dispatcher
      calls == CallsBy(player, ident)
      at == find_packed_pool(player)
      pool == player.pools[at]
      method(c) == Invoked(ident, c)
  IN  /\ calls # << >>
      /\ \A i \in 1..Len(player.sites) : \A j \in 1..Len(player.sites[i]) :
           player.sites[i][j][ident] # << >> =>
             i = find_pool_indexed_helper(player, at) /\ j = at
      /\ majority_idents(player) = {ident}
      /\ player.env[ident] \in Bases
      /\ \A c \in ToSet(calls) :
           /\ Honest(ident, c)
           /\ method(c).does = PackedKind(method(c), at)
           /\ method(c).does # "reverse" => Passed(c.arg) # Absent
      /\ {method(c).does : c \in ToSet(calls)} = Kinds
      /\ \A i, j \in 1..Len(pool) :
           pool[i] = pool[j] => i = j \/ \A c \in ToSet(calls) : method(c).key # pool[i]

NoDispatcher == \A ident \in Idents : CallsBy(player, ident) = << >>

RegularSplit ==
  LET calls == player.callsite.calls
      strategy == IF player.callsite.expression THEN "explode" ELSE "legacy"
  IN  /\ player.callsite # Absent /\ NoDispatcher /\ player.fq = Absent
      /\ player.callsite.expression \/ player.callsite.var_a
      /\ calls # << >> /\ calls[1].container \in 1..Len(player.objects)
      /\ \A c \in ToSet(calls) :
           LET m == MethodOf(player.objects[c.container], c.method)
           IN  /\ c.container = calls[1].container /\ c.on_split_var /\ m # Absent
               /\ SplitKind(strategy, m) = m.does
               /\ m.does # "reverse" => c.index # Absent

RegularFq ==
  /\ player.fq # Absent /\ NoDispatcher /\ player.callsite = Absent
  /\ {"splice", "reverse"} \subseteq ToSet(player.h) /\ player.block # << >>
  /\ \A c \in ToSet(player.block) :
       LET index == Xor(Xor(player.fq.d, player.fq.x), c.konst)
           m == MethodOf(player.uC, player.h[index + 1])
       IN  /\ index < Len(player.h) /\ m # Absent
           /\ UcKind(m, player.h) = m.does
           /\ m.does # "reverse" => c.arg.form # "other"

Regular == CASE player.generation = "packed" -> RegularPacked
             [] player.generation = "split" -> RegularSplit
             [] player.generation = "fq" -> RegularFq

\* The calls such a script makes, by what the methods do.
Performed ==
  CASE player.generation = "packed" ->
         LET calls == CallsBy(player, player.dispatcher)
         IN  [i \in 1..Len(calls) |->
                [does |-> Invoked(player.dispatcher, calls[i]).does,
                 n |-> Passed(calls[i].arg)]]
    [] player.generation = "split" ->
         LET calls == player.callsite.calls
         IN  [i \in 1..Len(calls) |->
                [does |-> MethodOf(player.objects[calls[i].container], calls[i].method).does,
                 n |-> calls[i].index]]
    [] player.generation = "fq" ->
         LET v == Xor(player.fq.d, player.fq.x)
         IN  [i \in 1..Len(player.block) |->
                [does |-> MethodOf(player.uC, player.h[Xor(v, player.block[i].konst) + 1]).does,
                 n |-> CASE player.block[i].arg.form = "literal" -> player.block[i].arg.n
                         [] player.block[i].arg.form = "xor" -> Xor(v, player.block[i].arg.n)
                         [] OTHER -> Absent]]

\* JavaScript's reverse, splice(0, n), and the exchange of 0 with n modulo the length.
Run(sig, step) ==
  LET place == step.n % Len(sig)
  IN  CASE sig = << >> -> sig
        [] sig # << >> /\ step.does = "reverse" ->
             [i \in 1..Len(sig) |-> sig[Len(sig) + 1 - i]]
        [] sig # << >> /\ step.does = "splice" ->
             [i \in 1..(IF step.n < Len(sig) THEN Len(sig) - step.n ELSE 0) |->
                sig[i + step.n]]
        [] sig # << >> /\ step.does = "swap" ->
             [i \in 1..Len(sig) |-> CASE i = 1 -> sig[place + 1]
                                      [] i # 1 /\ i = place + 1 -> sig[1]
                                      [] OTHER -> sig[i]]

RealSignature ==
  FoldLeft(Run, IF cipher.s # Absent THEN cipher.s ELSE cipher.sig, Performed)

Signable == cipher.url # Absent /\ (cipher.s # Absent \/ cipher.sig # Absent)

\* The docs of cipher.rs: for a regular player of any generation the signed URL
\* carries the signature that the script itself computes, under the blob's key and
\* everywhere under that key, and is otherwise the blob's URL with a rate bypass. A
\* signature the script would splice away altogether is left out.
PlaysTheRealSignature ==
  phase \in {"failed", "dropped", "signed"} /\ Regular =>
    /\ phase # "failed"
    /\ Signable /\ RealSignature # << >> =>
         LET sp == IF cipher.sp = Absent THEN "signature" ELSE cipher.sp
             others(u) == Only(u, {p \in Pairs : /\ p.key \notin {sp, "ratebypass"}
                                                /\ p.value \notin {Absent, << >>}})
         IN  /\ phase = "signed"
             /\ {p.value : p \in {q \in ToSet(url) : Holds(q, sp)}} = {RealSignature}
             /\ \E p \in ToSet(url) : Holds(p, "ratebypass")
             /\ others(url) = others(cipher.url)
==============================================================================
