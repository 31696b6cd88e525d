------------------------------ MODULE MCCodecs ------------------------------
(***************************************************************************)
(* The algorithms of the libraries the contract is built on.  The variable *)
(* holds the input under test.                                             *)
(***************************************************************************)
EXTENDS Integers, Sequences, FiniteSets, SequencesExt, Relation

VARIABLE input

is(kind) == input.kind = kind

-----------------------------------------------------------------------------
(***************************************************************************)
(* Conversions between JSON and binary.                                    *)
(***************************************************************************)
A == INSTANCE Abi WITH Digits <- <<"0", "1", "2">>, max_stack_size <- 3

ext == A!extension(A!builtin)
ab(a, b) == A!struct(<<A!field("a", a), A!field("b", b)>>)
only(a) == A!struct(<<A!field("a", a)>>)

\* An extension whose content may be no bytes at all is not told apart from an omitted one.
nested_extension == only(A!extension(only(A!extension(A!array(A!builtin)))))

AbiTypesUnderTest ==
  {A!builtin, A!array(A!builtin), ab(A!builtin, ext), ab(ext, ext),
   ab(A!builtin, only(ext)), ab(only(ext), A!builtin), ab(only(A!builtin), ext), A!array(only(ext)),
   A!variant(<<A!field("x", only(ext)), A!field("y", A!optional(A!builtin))>>),
   only(A!variant(<<A!field("x", only(ext)), A!field("y", A!builtin)>>)),
   ab(A!array(A!builtin), A!extension(A!optional(A!builtin))),
   nested_extension,
   only(A!optional(ab(A!builtin, ext))),
   only(A!array(only(A!array(A!builtin))))}

\* Values for a type, right and wrong ones; n limits the length of arrays.
RECURSIVE Candidates(_, _)
Candidates(t, n) ==
  CASE t.k = "builtin" -> {A!str("1"), A!str("2"), A!null}
    [] t.k = "optional" -> {A!null} \cup Candidates(t.of, n)
    [] t.k = "extension" -> Candidates(t.of, n)
    [] t.k = "array" -> {A!arr(s) : s \in BoundedSeq(Candidates(t.of, n - 1), n)} \cup {A!null}
    [] t.k = "struct" ->
         LET pairs == UNION {{[name |-> t.fields[i].name, value |-> v] : v \in Candidates(t.fields[i].type, n)}
                               : i \in DOMAIN t.fields}
         IN  {A!obj(s) : s \in BoundedSeq(pairs, Len(t.fields))}
    [] t.k = "variant" ->
         UNION {{A!arr(<<A!str(t.fields[i].name), v>>) : v \in Candidates(t.fields[i].type, n)}
                  : i \in DOMAIN t.fields}
           \cup {A!arr(<<A!str("z"), A!null>>), A!arr(<<A!str("x")>>)}

JsonInit ==
  \E t \in AbiTypesUnderTest : \E v \in Candidates(t, 2) : input = [kind |-> "json", type |-> t, value |-> v]

BinInit ==
  \E t \in AbiTypesUnderTest : \E b \in BoundedSeq(0..2, 4) : input = [kind |-> "bin", type |-> t, bin |-> b]

ok(s) == s.error = "none"

\* What json_to_bin takes, reading tokens, is taken by json_to_bin_reorderable and gives the
\* same bytes, unless the value is nested to the limit.
SameBytes ==
  is("json") =>
    LET s == A!json_to_bin(input.type, input.value)
        v == A!jvalue_to_bin(input.type, input.value)
    IN  ok(s) => \/ v.error = "limit"
                 \/ ok(v) /\ v.out = s.out

\* Binary and JSON forms determine each other.  Bytes that either converter made are read to
\* their end, and give the same bytes again; a value that came in order is given back as it was.
\* Bytes from elsewhere that can be read give JSON that can be converted, and is given back.
RoundTrip ==
  LET again(t, j) == A!tokens_to_bin(t, j)
  IN  /\ is("json") =>
           \A s \in {A!json_to_bin(input.type, input.value), A!jvalue_to_bin(input.type, input.value)} :
             ok(s) => LET b == A!bin_to_json(input.type, s.out)
                      IN  \/ b.error = "limit"
                          \/ /\ ok(b) /\ b.in = << >>
                             /\ ok(again(input.type, b.out)) /\ again(input.type, b.out).out = s.out
                             /\ ok(A!json_to_bin(input.type, input.value)) /\ input.type # nested_extension
                                  => b.out = A!tokens(input.value)
      /\ is("bin") =>
           LET b == A!bin_to_json(input.type, input.bin)
           IN  ok(b) => LET s == again(input.type, b.out)
                        IN  ok(s) /\ A!bin_to_json(input.type, s.out).out = b.out

-----------------------------------------------------------------------------
(***************************************************************************)
(* Types of an ABI.                                                        *)
(***************************************************************************)
T == INSTANCE AbiTypes WITH Builtins <- {"u"}, max_depth <- 12

TypeNames ==
  {[base |-> b, suffixes |-> s] : b \in {"u", "a", "b"},
     s \in {<< >>, <<"?">>, <<"[]">>, <<"$">>, <<"?", "$">>, <<"[]", "?">>}}

Definitions ==
  {T!alias_def(n) : n \in TypeNames}
  \cup {T!struct_def(b, f) : b \in {T!no_base, T!plain("a"), T!plain("b")},
                             f \in {<<[name |-> "f", type |-> n]>> : n \in TypeNames}}
  \cup {T!variant_def(<<[name |-> n, type |-> n]>>) : n \in TypeNames}

TypesInit ==
  \E a, b \in Definitions : input = [kind |-> "types", defs |-> [a |-> a, b |-> b]]

\* Aliases, or bases, that lead back to where they started.
circular(defs) ==
  LET names == {T!plain(x) : x \in DOMAIN defs}
      leads == [x, y \in names |-> \/ defs[x.base].k = "alias_def" /\ defs[x.base].of = y
                                   \/ defs[x.base].k = "struct_def" /\ defs[x.base].base = y]
  IN  \E x \in names : TransitiveClosure(leads, names)[x, x]

\* A variant whose alternative is named by an alias comes back tagged with the type itself.
untagged(t) ==
  IF t.k # "variant" THEN t ELSE [t EXCEPT !.fields = [i \in DOMAIN t.fields |-> t.fields[i].type]]

\* The types of an ABI are all resolved or the ABI is refused, whatever the order of the names:
\* every reference is to an entry of the map that is not an alias, no optional or array is made of
\* an optional, an array or an extension, not through an alias either, and circular aliases and
\* bases are refused at the limit.  What convert gives back converts to the same types,
\* though the alternatives of a variant may have other names.
TypesResolve ==
  is("types") =>
    \A order \in {<<"a", "b">>, <<"b", "a">>} :
      LET r == T!convert(input.defs, order)
          entries == DOMAIN r.m
          refs(t) == IF t.k \in {"struct", "variant"} THEN {t.fields[i].type : i \in DOMAIN t.fields}
                     ELSE IF t.k = "builtin" THEN {} ELSE {t.of}
          back == T!convert([x \in {"a", "b"} |-> T!to_abi_def(r.m, x)], order)
      IN  /\ circular(input.defs) => ~r.ok
          /\ r.ok =>
               /\ \A n \in entries :
                    /\ r.m[n].k \notin {"alias_def", "struct_def", "variant_def"}
                    /\ \A x \in refs(r.m[n]) : x \in entries /\ r.m[x].k # "alias"
                    /\ r.m[n].k \in {"optional", "array"} =>
                         r.m[r.m[n].of].k \notin {"optional", "array", "extension"}
               /\ back.ok /\ \A x \in {"a", "b"} : untagged(back.m[T!plain(x)]) = untagged(r.m[T!plain(x)])

\* The conversions of abi.hpp agree with each other: the two from JSON to bytes, the one back,
\* and the two between an ABI and its resolved types.  Which of them runs depends on whether a
\* transaction comes from the test chain, a history node or a file.
ConvertersAgree == SameBytes /\ RoundTrip /\ TypesResolve

-----------------------------------------------------------------------------
(***************************************************************************)
(* Encodings.  B has bytes of 3 bits and words of 5, so that a word takes  *)
(* up to three bytes, the last of them partly filled, as 32 bits take five *)
(* of 7.  N has words of 8 bits and names of 7.                            *)
(***************************************************************************)
B == INSTANCE Encoding WITH group_bits <- 2, word_bits <- 5, name_chars <- 3, char_bits <- 2,
                            radix <- 10, code_size <- 2
N == INSTANCE Encoding WITH group_bits <- 7, word_bits <- 8, name_chars <- 3, char_bits <- 2,
                            radix <- 10, code_size <- 2

RECURSIVE Values(_)
Values(t) ==
  CASE t.k = "uint" -> IF t.n = 1 THEN {0, 1, 5, 7} ELSE {0, 1, 7, 8, 56, 63}
    [] t.k = "sint" -> IF t.n = 1 THEN {-4, -1, 0, 3} ELSE {-32, -8, -1, 0, 1, 31}
    [] t.k = "text" -> BoundedSeq({0, 1, 7}, 2)
    [] t.k = "opt" -> {<< >>} \cup {<<v>> : v \in Values(t.of)}
    [] t.k = "seq" -> BoundedSeq(Values(t.of), 2)
    [] t.k = "set" -> {s \in BoundedSeq(Values(t.of), 3) : \A i \in 2..Len(s) : s[i - 1] < s[i]}
    [] t.k = "fields" -> {<<a, b>> : a \in Values(t.types[1]), b \in Values(t.types[2])}
    [] t.k = "variant" -> UNION {{[index |-> i - 1, value |-> v] : v \in Values(t.types[i])} : i \in DOMAIN t.types}

small == B!uint(1)
EncodedTypes ==
  {small, B!sint(1), B!uint(2), B!sint(2), B!text, B!opt(small), B!opt(B!sint(1)), B!opt(B!sint(2)), B!opt(B!opt(small)),
   B!seq(small), B!seq(B!uint(2)), B!seq(B!opt(small)), B!ordered(B!sint(1)), B!fields(<<B!text, small>>),
   B!fields(<<B!seq(small), small>>), B!opt(B!text), B!variant(<<B!text, B!opt(small), B!seq(small), B!opt(small), B!text>>)}

EncodingInit ==
  \/ \E t \in EncodedTypes : \E a, b \in Values(t) : input = [kind |-> "keys", type |-> t, a |-> a, b |-> b]
  \/ \E b \in BoundedSeq(0..7, 4) : input = [kind |-> "bytes", bin |-> b]

\* The order of the values of a type.
RECURSIVE less(_, _, _)
less(t, a, b) ==
  LET first_less(type(_)) ==
        \E i \in DOMAIN b : /\ \A j \in 1..(i - 1) : j \in DOMAIN a /\ a[j] = b[j]
                            /\ i \notin DOMAIN a \/ less(type(i), a[i], b[i])
  IN  CASE t.k \in {"uint", "sint"} -> a < b
        [] t.k = "text" -> first_less(LAMBDA i : small)
        [] t.k \in {"opt", "seq", "set"} -> first_less(LAMBDA i : t.of)
        [] t.k = "fields" -> first_less(LAMBDA i : t.types[i])
        [] t.k = "variant" ->
             a.index < b.index \/ (a.index = b.index /\ less(t.types[a.index + 1], a.value, b.value))

float(bits) == IF bits >= B!word \div 2 THEN B!word \div 2 - bits ELSE bits

\* "key(a) < key(b) iff a < b; key(a) is not a prefix of key(b)" (to_key.hpp:24-27), which the
\* secondary indexes of every table rely on.  Integers of variable length and floating point
\* numbers are tried in all pairs.
KeysOrdered ==
  /\ is("keys") =>
       \A ka \in {B!to_key(input.type, input.a)}, kb \in {B!to_key(input.type, input.b)} :
         /\ less(B!text, ka, kb) <=> less(input.type, input.a, input.b)
         /\ input.a # input.b => ~IsPrefix(ka, kb)
  /\ is("bytes") /\ input.bin = << >> =>
       \A v, w \in 0..(B!word - 1) :
         /\ v < w <=> less(B!text, B!to_key_varuint32(v), B!to_key_varuint32(w))
         /\ v # w => ~IsPrefix(B!to_key_varuint32(v), B!to_key_varuint32(w))
         /\ float(v) < float(w) <=> B!float_to_key(v) < B!float_to_key(w)

\* What is written is read back, whatever follows it.  Bytes that can be read as an integer may
\* be longer than the ones that would be written, never shorter, and have the same value.
DecodesEncoded ==
  /\ is("keys") =>
       LET bin == B!to_bin(input.type, input.a) \o B!to_bin(input.type, input.b)
       IN  \A r \in {[v |-> input.a, rest |-> B!to_bin(input.type, input.b)]} : B!from_bin(input.type, bin) = {r}
  /\ is("bytes") =>
       /\ \A r \in B!varuint32_from_bin(input.bin) :
            /\ Len(B!varuint32_to_bin(r.v)) <= Len(input.bin) - Len(r.rest)
            /\ B!varuint32_from_bin(B!varuint32_to_bin(r.v) \o r.rest) = {r}
       /\ \A r \in B!varint32_from_bin(input.bin) : B!varint32_from_bin(B!varint32_to_bin(r.v) \o r.rest) = {r}
       /\ \A r \in B!sleb_from_bin(input.bin) : B!sleb_from_bin(B!sleb64_to_bin(r.v) \o r.rest) = {r}
       /\ input.bin = << >> =>
            /\ \A v \in 0..(B!word - 1) : B!varuint32_from_bin(B!varuint32_to_bin(v)) = {[v |-> v, rest |-> << >>]}
            /\ \A v \in (-(B!word \div 2))..(B!word \div 2 - 1) :
                 /\ B!varint32_from_bin(B!varint32_to_bin(v)) = {[v |-> v, rest |-> << >>]}
                 /\ B!sleb_from_bin(B!sleb64_to_bin(v)) = {[v |-> v, rest |-> << >>]}

-----------------------------------------------------------------------------
(***************************************************************************)
(* Text.                                                                   *)
(***************************************************************************)
TextInit ==
  \/ \E d \in BoundedSeq(0..9, 3), negative, signed \in BOOLEAN :
       input = [kind |-> "int", digits |-> d, negative |-> negative, signed |-> signed]
  \/ \E s \in BoundedSeq(0..4, 5) : input = [kind |-> "name", str |-> s]
  \/ \E a \in {a \in -128..127 : N!within_range(a)} : input = [kind |-> "amount", a |-> a]
  \/ input = [kind |-> "day", days |-> -800, date |-> [year |-> 1967, month |-> 10, day |-> 24]]
  \/ input = [kind |-> "day", days |-> 45656, date |-> [year |-> 2095, month |-> 1, day |-> 1]]

\* The calendar, from 1967 to 2001 and from 2095 to 2106.
leap(y) == y % 4 = 0 /\ (y % 100 # 0 \/ y % 400 = 0)
days_in(y, m) == CASE m \in {4, 6, 9, 11} -> 30 [] m = 2 -> IF leap(y) THEN 29 ELSE 28 [] OTHER -> 31
day_after(d) ==
  IF d.day < days_in(d.year, d.month) THEN [d EXCEPT !.day = @ + 1]
  ELSE IF d.month < 12 THEN [d EXCEPT !.month = @ + 1, !.day = 1]
  ELSE [year |-> d.year + 1, month |-> 1, day |-> 1]

NextDay ==
  /\ is("day") /\ (input.days < 11500 \/ input.days \in 45656..49799)
  /\ input' = [input EXCEPT !.days = @ + 1, !.date = day_after(@)]

\* A number is read exactly or refused: from_json_int neither wraps nor refuses one that fits.
IntsExact ==
  is("int") =>
    LET v == IF input.negative THEN -N!number(input.digits, 10) ELSE N!number(input.digits, 10)
        range == IF input.signed THEN -128..127 ELSE 0..255
    IN  N!from_json_int(input.negative, input.digits, input.signed)
          = IF input.digits # << >> /\ v \in range /\ (input.signed \/ ~input.negative) THEN {v} ELSE {}

\* A name and its text determine each other; prefix and suffix are the parts before and after
\* the last dot of the text, also when they reach the short last character.
NamesExact ==
  is("name") =>
    \A n \in N!try_string_to_name_strict(input.str) :
      LET str == N!name_to_string(n)
          dots == {i \in DOMAIN str : str[i] = 0}
          last == CHOOSE i \in dots : \A j \in dots : j <= i
      IN  /\ str = N!without_dots(input.str) /\ N!try_string_to_name_strict(str) = {n}
          /\ N!string_to_name(input.str) = n /\ N!name_length(n) = Len(str)
          /\ IF dots = {} THEN N!suffix(n) = n /\ N!prefix(n) = n
             ELSE /\ N!name_to_string(N!suffix(n)) = SubSeq(str, last + 1, Len(str))
                  /\ N!name_to_string(N!prefix(n)) = N!without_dots(SubSeq(str, 1, last - 1))

\* Amounts are added, subtracted and multiplied exactly or not at all, and are read back from
\* their text whatever the precision; a symbol is valid iff its text is one, or if a byte that
\* is_valid does not look at follows as many letters as there may be.
AssetsExact ==
  is("amount") =>
    LET exact(result, v) == result = IF N!within_range(v) THEN {v} ELSE {}
    IN  /\ \A b \in {b \in -128..127 : N!within_range(b)} :
             /\ exact(N!asset_plus(input.a, b), input.a + b) /\ exact(N!asset_minus(input.a, b), input.a - b)
             /\ exact(N!asset_times(input.a, b), input.a * b)
             /\ b # 0 => \A q \in N!asset_divide(input.a, b) :
                           LET rest == input.a - q * b
                           IN  N!Abs(rest) < N!Abs(b) /\ rest * input.a >= 0
        /\ \A precision \in 0..3 :
             LET t == N!amount_to_string(input.a, precision)
             IN  N!string_to_amount(t.negative, t.whole, t.fraction) = input.a
        /\ \A raw \in [1..3 -> 0..3] :
             N!code_is_valid(raw, 1..2)
               <=> \/ N!string_to_symbol_code(N!symbol_code_to_string(raw), 1..2) = {raw}
                   \/ ({raw[1], raw[2]} \subseteq 1..2 /\ raw[3] # 0)

\* The dates are those of the calendar, day after day from before the epoch to 2106.
DatesExact == is("day") => N!from_days(input.days) = input.date /\ N!to_days(input.date) = input.days

\* What users and tools read and type stands for exactly one value.
TextExact == IntsExact /\ NamesExact /\ AssetsExact /\ DatesExact

-----------------------------------------------------------------------------
(***************************************************************************)
(* JSON of C++ types.                                                      *)
(***************************************************************************)
J == INSTANCE TypedJson

a_b(a, b) == J!struct(<<J!field("a", a), J!field("b", b)>>)

TypedUnderTest ==
  {a_b(J!text, J!vector(J!text)),
   a_b(J!optional(a_b(J!boolean, J!text)), J!variant(<<J!field("x", J!text), J!field("y", J!vector(J!boolean))>>)),
   J!vector(J!optional(J!text)),
   a_b(a_b(J!vector(J!boolean), J!boolean), J!boolean)}

\* Some JSON for a type: names of fields, in any order, twice or not at all, fields that the
\* type does not have, and values of another type.
tree(type, items) == [type |-> type, items |-> items]
leaf(t) == tree("leaf", <<t>>)
Unknown == {leaf(J!string("s")), tree("[", <<tree("[", << >>), tree("{", << >>)>>),
            tree("{", <<[name |-> "a", value |-> tree("{", <<[name |-> "b", value |-> leaf(J!token("null"))]>>)]>>)}

RECURSIVE Trees(_, _)
Trees(t, n) ==
  CASE t.k = "boolean" -> {leaf(J!bool("true")), leaf(J!string("s"))}
    [] t.k = "text" -> {leaf(J!string("s")), leaf(J!string("r"))}
    [] t.k = "optional" -> {leaf(J!token("null"))} \cup Trees(t.of, n)
    [] t.k = "vector" -> {tree("[", s) : s \in BoundedSeq(Trees(t.of, n - 1), 2)} \cup {leaf(J!bool("true"))}
    [] t.k = "variant" ->
         UNION {{tree("[", <<leaf(J!string(t.fields[i].name)), v>>) : v \in Trees(t.fields[i].type, n)} : i \in DOMAIN t.fields}
           \cup {tree("[", <<leaf(J!string("z")), leaf(J!string("s"))>>)}
    [] t.k = "struct" ->
         LET known == UNION {{[name |-> t.fields[i].name, value |-> v] : v \in Trees(t.fields[i].type, n - 1)} : i \in DOMAIN t.fields}
             unknown == {[name |-> "u", value |-> v] : v \in Unknown}
         IN  {tree("{", s) : s \in BoundedSeq(known, n) \cup {<<u, k>> : u \in unknown, k \in known} \cup {<<k, u>> : u \in unknown, k \in known}}

RECURSIVE tree_tokens(_)
tree_tokens(v) ==
  CASE v.type = "leaf" -> v.items
    [] v.type = "[" -> <<J!token("[")>> \o FlattenSeq([i \in DOMAIN v.items |-> tree_tokens(v.items[i])]) \o <<J!token("]")>>
    [] v.type = "{" ->
         <<J!token("{")>> \o FlattenSeq([i \in DOMAIN v.items |-> <<J!key(v.items[i].name)>> \o tree_tokens(v.items[i].value)])
           \o <<J!token("}")>>

TypedInit ==
  \/ \E t \in TypedUnderTest : \E v \in Trees(t, 2) : input = [kind |-> "typed", type |-> t, tree |-> v]
  \/ \E s \in BoundedSeq(J!Byte, 4) : input = [kind |-> "escapes", bytes |-> s]
  \/ \E s \in BoundedSeq({"0", "7", "a", "F", "g"}, 4) : input = [kind |-> "hex", chars |-> s]

\* What a tree means for a type, read into an object: fields that come twice are read into
\* one after the other, so that items of vectors add up; other fields are ignored.
RECURSIVE meaning(_, _, _)
meaning(t, obj, v) ==
  CASE t.k = "boolean" -> IF v.type = "leaf" /\ v.items[1].type = "bool" THEN {v.items[1].value} ELSE {}
    [] t.k = "text" -> IF v.type = "leaf" /\ v.items[1].type = "string" THEN {v.items[1].value} ELSE {}
    [] t.k = "optional" ->
         IF v = leaf(J!token("null")) THEN {J!nullopt} ELSE {J!some(x) : x \in meaning(t.of, J!default(t.of), v)}
    [] t.k = "vector" ->
         IF v.type # "[" THEN {}
         ELSE FoldLeft(LAMBDA s, x : {Append(p[1], p[2]) : p \in s \X meaning(t.of, J!default(t.of), x)}, {obj}, v.items)
    [] t.k = "variant" ->
         IF v.type # "[" \/ Len(v.items) # 2 THEN {}
         ELSE UNION {{J!alternative(t.fields[i].name, x) : x \in meaning(t.fields[i].type, J!default(t.fields[i].type), v.items[2])}
                       : i \in {i \in DOMAIN t.fields : v.items[1] = leaf(J!string(t.fields[i].name))}}
    [] t.k = "struct" ->
         IF v.type # "{" THEN {}
         ELSE FoldLeft(LAMBDA s, x :
                UNION {IF \A i \in DOMAIN t.fields : t.fields[i].name # x.name THEN {o}
                       ELSE UNION {{[o EXCEPT ![i] = y] : y \in meaning(t.fields[i].type, o[i], x.value)}
                                     : i \in {i \in DOMAIN t.fields : t.fields[i].name = x.name}} : o \in s}, {obj}, v.items)

\* A byte that does not belong to a character becomes a question mark, no other is changed.
repaired(s) ==
  [i \in DOMAIN s |->
     IF \/ s[i] = "lead" /\ ~(i < Len(s) /\ s[i + 1] = "trail")
        \/ s[i] = "trail" /\ ~(i > 1 /\ s[i - 1] = "lead") THEN "?" ELSE s[i]]

\* Reading a stream of tokens gives what the tree of values means, and what was read is
\* written as it would be read again; escaped text, numbers and bytes in hexadecimal are read
\* back as they were.
JsonExact ==
  /\ is("typed") =>
       \A expected \in {meaning(input.type, J!default(input.type), input.tree)} :
         /\ J!from_json("value", input.type, J!default(input.type), tree_tokens(input.tree))
              = {[v |-> x, rest |-> << >>] : x \in expected}
         /\ \A x \in expected :
              J!from_json("value", input.type, J!default(input.type), J!to_json(input.type, x)) = {[v |-> x, rest |-> << >>]}
  /\ is("escapes") => J!unescaped(J!escaped(input.bytes)) = repaired(input.bytes)
  /\ is("hex") =>
       /\ J!from_json_hex(input.chars) = {} <=> Len(input.chars) % 2 = 1 \/ "g" \in ToSet(input.chars)
       /\ \A b \in J!from_json_hex(input.chars) : J!from_json_hex(J!to_json_hex(b)) = {b}
       /\ input.chars = << >> =>
            /\ \A v \in -128..127 : \A n \in {J!int_to_json(v, 256)} : N!from_json_int(n.negative, n.digits, TRUE) = {v}
            /\ \A v \in 0..255 : \A n \in {J!int_to_json(v, 256)} : N!from_json_int(n.negative, n.digits, FALSE) = {v}

\* Keys are in the order of what they stand for (to_key.hpp), bytes are read back as they were
\* written (to_bin.hpp, from_bin.hpp), and so is text (chain_conversions.hpp, to_json.hpp,
\* from_json.hpp): no value changes on its way between a table, an index, a transaction and a person.
EncodingsExact == KeysOrdered /\ DecodesEncoded /\ TextExact /\ JsonExact

CodecsInit == JsonInit \/ BinInit \/ TypesInit \/ EncodingInit \/ TextInit \/ TypedInit

=============================================================================
