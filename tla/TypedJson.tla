----------------------------- MODULE TypedJson -----------------------------
(***************************************************************************)
(* JSON of C++ types (libraries/abieos/include/eosio): to_json.hpp writes  *)
(* values, from_json.hpp reads them from a stream of tokens.  This is how  *)
(* blocks of a dfuse server and requests reach the micro chain.  Pure      *)
(* operators.                                                              *)
(*                                                                         *)
(* A reader's result is a set: empty when a check fails, else the value    *)
(* and the tokens that are left.  It is given the object that it reads     *)
(* into, because a field that comes twice is read into twice.              *)
(***************************************************************************)
EXTENDS Integers, Sequences, SequencesExt, FiniteSetsExt

boolean == [k |-> "boolean"]
text == [k |-> "text"]
vector(t) == [k |-> "vector", of |-> t]
optional(t) == [k |-> "optional", of |-> t]
variant(fields) == [k |-> "variant", fields |-> fields]
struct(fields) == [k |-> "struct", fields |-> fields]
field(n, t) == [name |-> n, type |-> t]

nullopt == << >>
some(v) == <<v>>
alternative(n, v) == [name |-> n, value |-> v]

\* Values of a type as C++ makes them.
RECURSIVE default(_)
default(t) ==
  CASE t.k = "boolean" -> "false"
    [] t.k = "text" -> ""
    [] t.k = "vector" -> << >>
    [] t.k = "optional" -> nullopt
    [] t.k = "variant" -> alternative(t.fields[1].name, default(t.fields[1].type))
    [] t.k = "struct" -> [i \in DOMAIN t.fields |-> default(t.fields[i].type)]

-----------------------------------------------------------------------------
(***************************************************************************)
(* Tokens.                                                                 *)
(***************************************************************************)
token(type) == [type |-> type, value |-> ""]
string(s) == [type |-> "string", value |-> s]
bool(b) == [type |-> "bool", value |-> b]  \* "true" or "false"
key(n) == [type |-> "key", value |-> n]

\* Position of a name among fields, 0 if it is none of theirs.
position(fields, n) ==
  LET at == {i \in DOMAIN fields : fields[i].name = n}
  IN  IF at = {} THEN 0 ELSE Min(at)

RECURSIVE to_json(_, _)
to_json(t, v) ==
  CASE t.k = "boolean" -> <<bool(v)>>
    [] t.k = "text" -> <<string(v)>>
    [] t.k = "vector" ->
         <<token("[")>> \o FlattenSeq([i \in DOMAIN v |-> to_json(t.of, v[i])]) \o <<token("]")>>
    [] t.k = "optional" -> IF v = nullopt THEN <<token("null")>> ELSE to_json(t.of, v[1])
    [] t.k = "variant" ->
         <<token("["), string(v.name)>> \o to_json(t.fields[position(t.fields, v.name)].type, v.value) \o <<token("]")>>
    [] t.k = "struct" ->
         <<token("{")>>
           \o FlattenSeq([i \in DOMAIN v |-> <<key(t.fields[i].name)>> \o to_json(t.fields[i].type, v[i])])
           \o <<token("}")>>

\* from_json_skip_value: tokens are dropped until as many brackets are closed as were opened.
skip_value(in) ==
  LET opened(n) == Quantify(1..n, LAMBDA i : in[i].type \in {"{", "["}) - Quantify(1..n, LAMBDA i : in[i].type \in {"}", "]"})
      ends == {n \in DOMAIN in : opened(n) = 0}
  IN  IF ends = {} THEN {} ELSE {SubSeq(in, Min(ends) + 1, Len(in))}

read(v, rest) == {[v |-> v, rest |-> rest]}

\* at is "value", or where a loop is: "items" of a vector, "fields" of an object.
RECURSIVE from_json(_, _, _, _)
from_json(at, t, obj, in) ==
  LET next == in[1]
      then == Tail(in)
  IN  CASE in = << >> -> {}
        [] at = "items" ->
             IF next.type = "]" THEN read(obj, then)
             ELSE UNION {from_json("items", t, Append(obj, r.v), r.rest)
                           : r \in from_json("value", t.of, default(t.of), in)}
        [] at = "fields" ->
             IF next.type = "}" THEN read(obj, then)
             ELSE IF next.type # "key" THEN {}
             ELSE UNION {IF i = 0 THEN UNION {from_json("fields", t, obj, rest) : rest \in skip_value(then)}
                         ELSE UNION {from_json("fields", t, [obj EXCEPT ![i] = r.v], r.rest)
                                       : r \in from_json("value", t.fields[i].type, obj[i], then)}
                           : i \in {position(t.fields, next.value)}}
        [] at = "value" /\ t.k = "boolean" -> IF next.type = "bool" THEN read(next.value, then) ELSE {}
        [] at = "value" /\ t.k = "text" -> IF next.type = "string" THEN read(next.value, then) ELSE {}
        [] at = "value" /\ t.k = "vector" -> IF next.type = "[" THEN from_json("items", t, obj, then) ELSE {}
        [] at = "value" /\ t.k = "struct" -> IF next.type = "{" THEN from_json("fields", t, obj, then) ELSE {}
        [] at = "value" /\ t.k = "optional" ->
             IF next.type = "null" THEN read(nullopt, then)
             ELSE {[r EXCEPT !.v = some(@)] : r \in from_json("value", t.of, default(t.of), in)}
        [] at = "value" /\ t.k = "variant" ->
             IF next.type # "[" \/ Len(in) < 2 \/ in[2].type # "string" THEN {}
             ELSE UNION {{[v |-> alternative(in[2].value, r.v), rest |-> Tail(r.rest)]
                            : r \in {r \in from_json("value", t.fields[i].type, default(t.fields[i].type), Tail(then)) :
                                       r.rest # << >> /\ r.rest[1].type = "]"}}
                           : i \in {position(t.fields, in[2].value)} \ {0}}

-----------------------------------------------------------------------------
(***************************************************************************)
(* Scalars, as text.  Bytes are told apart as far as to_json does: plain   *)
(* characters, those with a short escape, other control characters, and    *)
(* the first and second byte of a character of two bytes.                  *)
(***************************************************************************)
Short == {"\"", "\\", "\n"}
Byte == Short \cup {"a", "control", "lead", "trail"}

\* The text between the quotes; each item is what is written for a byte.
RECURSIVE escaped(_)
escaped(s) ==
  IF s = << >> THEN << >>
  ELSE IF s[1] = "lead" /\ Len(s) > 1 /\ s[2] = "trail" THEN <<"lead", "trail">> \o escaped(SubSeq(s, 3, Len(s)))
  ELSE (IF s[1] \in {"lead", "trail"} THEN <<"?">>
        ELSE IF s[1] \in Short THEN <<"\\", s[1]>>
        ELSE IF s[1] = "control" THEN <<"\\", "u00", s[1]>>
        ELSE <<s[1]>>) \o escaped(Tail(s))

\* How rapidjson reads it; the end is the first quote that is not escaped.
RECURSIVE unescaped(_)
unescaped(s) ==
  IF s = << >> THEN << >>
  ELSE IF s[1] = "\"" \/ s[1] \in {"control", "\n"} THEN <<"error">>
  ELSE IF s[1] # "\\" THEN <<s[1]>> \o unescaped(Tail(s))
  ELSE IF Len(s) > 2 /\ s[2] = "u00" THEN <<s[3]>> \o unescaped(SubSeq(s, 4, Len(s)))
  ELSE IF Len(s) > 1 /\ s[2] \in Short THEN <<s[2]>> \o unescaped(SubSeq(s, 3, Len(s)))
  ELSE <<"error">>

\* The digits of a number of W values, written from the last to the first and reversed.
int_to_json(value, W) ==
  LET magnitude == IF value < 0 THEN (-(value % W)) % W ELSE value
      digits == [n \in 1..3 |-> (magnitude \div 10^(3 - n)) % 10]
  IN  [negative |-> value < 0, digits |-> SubSeq(digits, IF magnitude >= 100 THEN 1 ELSE IF magnitude >= 10 THEN 2 ELSE 3, 3)]

Upper == <<"0", "1", "2", "3", "4", "5", "6", "7", "8", "9", "A", "B", "C", "D", "E", "F">>
Lower == <<"a", "b", "c", "d", "e", "f">>

digit(c) == {n - 1 : n \in {n \in DOMAIN Upper : Upper[n] = c}} \cup {n + 9 : n \in {n \in DOMAIN Lower : Lower[n] = c}}

to_json_hex(bytes) ==
  [i \in 1..(2 * Len(bytes)) |->
     LET b == bytes[(i + 1) \div 2] IN Upper[1 + IF i % 2 = 1 THEN b \div 16 ELSE b % 16]]

from_json_hex(s) ==
  IF Len(s) % 2 = 1 \/ \E i \in DOMAIN s : digit(s[i]) = {} THEN {}
  ELSE {[i \in 1..(Len(s) \div 2) |-> 16 * (CHOOSE n \in digit(s[2 * i - 1]) : TRUE) + (CHOOSE n \in digit(s[2 * i]) : TRUE)]}

=============================================================================
