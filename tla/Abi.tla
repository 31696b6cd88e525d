-------------------------------- MODULE Abi --------------------------------
(***************************************************************************)
(* The ABI serializer of libraries/abieos: resolving the types of an ABI   *)
(* (src/abi.cpp) and the three converters that walk a type with a stack of *)
(* their own (src/abieos.hpp): JSON tokens to binary, a JSON value to      *)
(* binary, and binary to JSON.                                             *)
(*                                                                         *)
(* A built-in type is a small integer of one byte, whose JSON form is a    *)
(* string.  A varuint32 is one byte.  Text is a sequence of tokens; JSON   *)
(* values are trees: null, str, obj (a sequence of pairs) and arr.         *)
(***************************************************************************)
EXTENDS Integers, Sequences, SequencesExt

CONSTANTS
  Digits,          \* the JSON strings of the bytes 0, 1, ...
  max_stack_size   \* limit on nested values

Bytes == 0..(Len(Digits) - 1)

-----------------------------------------------------------------------------
(***************************************************************************)
(* Types, as the converters see them.                                      *)
(***************************************************************************)
builtin == [k |-> "builtin"]
optional(t) == [k |-> "optional", of |-> t]
extension(t) == [k |-> "extension", of |-> t]
array(t) == [k |-> "array", of |-> t]
struct(fields) == [k |-> "struct", fields |-> fields]
variant(fields) == [k |-> "variant", fields |-> fields]
field(n, t) == [name |-> n, type |-> t]

\* State of a converter: what is left to read, what is written, the stack, and
\* whether it failed ("limit" where the nesting is too deep).
start_state(input) ==
  [in |-> input, out |-> << >>, stack |-> << >>, insertions |-> << >>,
   skipped_extension |-> FALSE, error |-> "none"]

fail(s) == [s EXCEPT !.error = "error"]
write(s, b) == [s EXCEPT !.out = Append(@, b)]
push(s, entry) == [s EXCEPT !.stack = Append(@, entry)]
pop(s) == [s EXCEPT !.stack = Front(@)]
top(s) == Last(s.stack)
advance(s) == [s EXCEPT !.stack[Len(s.stack)].position = @ + 1]
entry_of(t, allow, v) == [type |-> t, allow_extensions |-> allow, value |-> v, position |-> 0]
is_last(fields, i) == i = Len(fields)

\* Position of a name among fields, 0 if it is none of theirs.
index_of(fields, n) ==
  LET at == {i \in DOMAIN fields : fields[i].name = n}
  IN  IF at = {} THEN 0 ELSE CHOOSE i \in at : \A j \in at : i <= j

digit_of(str) == {b \in Bytes : Digits[b + 1] = str}

-----------------------------------------------------------------------------
(***************************************************************************)
(* JSON.                                                                   *)
(***************************************************************************)
null == [j |-> "null"]
str(v) == [j |-> "str", v |-> v]
obj(pairs) == [j |-> "obj", pairs |-> pairs]
arr(items) == [j |-> "arr", items |-> items]

token(t) == [t |-> t]
key(n) == [t |-> "key", v |-> n]

RECURSIVE tokens(_)
tokens(v) ==
  CASE v.j = "null" -> <<token("null")>>
    [] v.j = "str"  -> <<[t |-> "str", v |-> v.v]>>
    [] v.j = "obj"  -> <<token("{")>> \o FlattenSeq([i \in DOMAIN v.pairs |->
                         <<key(v.pairs[i].name)>> \o tokens(v.pairs[i].value)]) \o <<token("}")>>
    [] v.j = "arr"  -> <<token("[")>> \o FlattenSeq([i \in DOMAIN v.items |-> tokens(v.items[i])])
                         \o <<token("]")>>

\* json_to_jvalue: a later pair of an object replaces an earlier one.
lookup(v, n) ==
  LET at == {i \in DOMAIN v.pairs : v.pairs[i].name = n}
  IN  {v.pairs[i].value : i \in {i \in at : \A j \in at : j <= i}}

\* json_to_jvalue has an entry more on its stack than there are open values.
RECURSIVE jdepth(_)
jdepth(v) ==
  LET inner == CASE v.j = "obj" -> {jdepth(v.pairs[i].value) : i \in DOMAIN v.pairs}
                 [] v.j = "arr" -> {jdepth(v.items[i]) : i \in DOMAIN v.items}
                 [] OTHER -> {}
  IN  1 + (IF inner = {} THEN 0 ELSE CHOOSE d \in inner : \A e \in inner : e <= d)

-----------------------------------------------------------------------------
(***************************************************************************)
(* json_to_bin from a JSON value, in which fields may come in any order.   *)
(* v_start is the serializer called with start = true, v_next without.     *)
(***************************************************************************)
RECURSIVE v_start(_, _, _, _)

v_field(s) ==
  LET e == top(s)
      fields == e.type.fields
      f == fields[e.position]
      found == lookup(e.value, f.name)
  IN  IF e.position > Len(fields) THEN pop(s)
      ELSE IF found = {}
      THEN IF f.type.k = "extension" /\ e.allow_extensions
           THEN [s EXCEPT !.skipped_extension = TRUE] ELSE fail(s)
      ELSE IF s.skipped_extension THEN fail(s)
      ELSE v_start(s, f.type, CHOOSE v \in found : TRUE,
                   e.allow_extensions /\ is_last(fields, e.position))

v_item(s) ==
  LET e == top(s)
  IN  IF e.position > Len(e.value.items) THEN pop(s)
      ELSE v_start(s, e.type.of, e.value.items[e.position], FALSE)

v_alternative(s) ==
  LET e == top(s)
      i == index_of(e.type.fields, e.value.items[1].v)
  IN  IF e.position > 1 THEN pop(s)
      ELSE IF i = 0 THEN fail(s)
      ELSE v_start(write(s, i - 1), e.type.fields[i].type, e.value.items[2], e.allow_extensions)

v_next(s) ==
  LET d == advance(s)
  IN  CASE top(s).type.k = "struct" -> v_field(d)
        [] top(s).type.k = "array" -> v_item(d)
        [] top(s).type.k = "variant" -> v_alternative(d)

v_start(s, t, v, allow) ==
  CASE t.k = "builtin" ->
         IF v.j = "str" /\ digit_of(v.v) # {} THEN write(s, CHOOSE b \in digit_of(v.v) : TRUE)
         ELSE fail(s)
    [] t.k = "optional" ->
         IF v.j = "null" THEN write(s, 0) ELSE v_start(write(s, 1), t.of, v, allow)
    [] t.k = "extension" -> v_start(s, t.of, v, allow)
    [] t.k = "struct" ->
         IF v.j = "obj" THEN v_next(push(s, entry_of(t, allow, v))) ELSE fail(s)
    [] t.k = "array" ->
         IF v.j = "arr" THEN v_next(push(write(s, Len(v.items)), entry_of(t, FALSE, v))) ELSE fail(s)
    [] t.k = "variant" ->
         IF v.j = "arr" /\ Len(v.items) = 2 /\ v.items[1].j = "str"
         THEN push(s, entry_of(t, allow, v)) ELSE fail(s)

RECURSIVE v_loop(_)
v_loop(s) == IF s.error # "none" \/ s.stack = << >> THEN s ELSE v_loop(v_next(s))

\* json_to_bin_reorderable
jvalue_to_bin(t, v) ==
  IF jdepth(v) > max_stack_size THEN [start_state(<< >>) EXCEPT !.error = "limit"]
  ELSE v_loop(v_start(start_state(<< >>), t, v, TRUE))

-----------------------------------------------------------------------------
(***************************************************************************)
(* json_to_bin from tokens.  The size of an array is known at its end and  *)
(* inserted when everything is written.                                    *)
(***************************************************************************)
peek(s) == Head(s.in)
eat(s) == [s EXCEPT !.in = Tail(@)]

\* get_string, get_start_object, get_start_array: a token of the type, after which it goes on.
get(s, t) == IF peek(s).t = t THEN eat(s) ELSE fail(s)
go_on(s, after(_)) == IF s.error = "none" THEN after(s) ELSE s

RECURSIVE t_start(_, _, _)

Mut_t_field(s) ==
  LET e == top(s)
      fields == e.type.fields
  IN  IF peek(s).t = "}"
      THEN IF e.position = Len(fields) THEN pop(eat(s))
           ELSE IF fields[e.position + 1].type.k = "extension" THEN pop([eat(s) EXCEPT !.skipped_extension = TRUE])
           ELSE fail(s)
      ELSE IF peek(s).t = "key"
      THEN IF e.position = Len(fields) \/ s.skipped_extension THEN fail(s)
           ELSE IF peek(s).v # fields[e.position + 1].name THEN fail(s)
           ELSE advance(eat(s))
      ELSE t_start(s, fields[e.position].type, e.allow_extensions /\ is_last(fields, e.position))

t_field(s) ==
  LET e == top(s)
      fields == e.type.fields
      missing == fields[e.position + 1]
  IN  IF peek(s).t = "}"
      THEN IF e.position = Len(fields) THEN pop(eat(s))
           ELSE IF missing.type.k = "extension" /\ e.allow_extensions
           THEN pop([eat(s) EXCEPT !.skipped_extension = TRUE])
           ELSE fail(s)
      ELSE IF peek(s).t = "key"
      THEN IF e.position = Len(fields) \/ s.skipped_extension THEN fail(s)
           ELSE IF peek(s).v # missing.name THEN fail(s)
           ELSE advance(eat(s))
      ELSE t_start(s, fields[e.position].type, e.allow_extensions /\ is_last(fields, e.position))

t_item(s) ==
  LET e == top(s)
  IN  IF peek(s).t = "]" THEN pop([eat(s) EXCEPT !.insertions[e.value].size = e.position])
      ELSE t_start(advance(s), e.type.of, FALSE)

t_alternative(s) ==
  LET e == top(s)
      i == index_of(e.type.fields, peek(s).v)
  IN  IF peek(s).t = "]" THEN IF e.position = 2 THEN pop(eat(s)) ELSE fail(s)
      ELSE CASE e.position = 0 ->
                  go_on(get(s, "str"), LAMBDA r :
                    IF i = 0 THEN fail(s)
                    ELSE [write(advance(r), i - 1) EXCEPT !.stack[Len(s.stack)].value = i])
             [] e.position = 1 ->
                  t_start(advance(s), e.type.fields[e.value].type, e.allow_extensions)
             [] OTHER -> fail(s)

t_next(s) ==
  IF Len(s.stack) > max_stack_size THEN [s EXCEPT !.error = "limit"]
  ELSE CASE top(s).type.k = "struct" -> t_field(s)
         [] top(s).type.k = "array" -> t_item(s)
         [] top(s).type.k = "variant" -> t_alternative(s)

t_start(s, t, allow) ==
  CASE t.k = "builtin" ->
         LET b == digit_of(peek(s).v)
         IN  go_on(get(s, "str"), LAMBDA r : IF b # {} THEN write(r, CHOOSE x \in b : TRUE) ELSE fail(s))
    [] t.k = "optional" ->
         IF peek(s).t = "null" THEN write(eat(s), 0) ELSE t_start(write(s, 1), t.of, allow)
    [] t.k = "extension" -> t_start(s, t.of, allow)
    [] t.k = "struct" ->
         go_on(get(s, "{"), LAMBDA r : t_field(push(r, entry_of(t, allow, 0))))
    [] t.k = "array" ->
         go_on(get(s, "["), LAMBDA r : [push(r, entry_of(t, FALSE, Len(s.insertions) + 1))
                                   EXCEPT !.insertions = Append(@, [position |-> Len(s.out), size |-> 0])])
    [] t.k = "variant" ->
         go_on(get(s, "["), LAMBDA r : push(r, entry_of(t, allow, 0)))

RECURSIVE t_loop(_)
t_loop(s) == IF s.error # "none" \/ s.stack = << >> THEN s ELSE t_loop(t_next(s))

\* The sizes are put in front of what was written from their positions on.
insert_sizes(s) ==
  FlattenSeq([p \in 1..(Len(s.out) + 1) |->
    [i \in 1..Len(SelectSeq(s.insertions, LAMBDA x : x.position = p - 1)) |->
       SelectSeq(s.insertions, LAMBDA x : x.position = p - 1)[i].size]
    \o (IF p \in DOMAIN s.out THEN <<s.out[p]>> ELSE << >>)])

tokens_to_bin(t, input) ==
  LET s == t_loop(t_start(start_state(input), t, TRUE))
  IN  IF s.error = "none" THEN [s EXCEPT !.out = insert_sizes(s)] ELSE s

json_to_bin(t, v) == tokens_to_bin(t, tokens(v))

-----------------------------------------------------------------------------
(***************************************************************************)
(* bin_to_json.  What it writes are tokens.                                *)
(***************************************************************************)
RECURSIVE b_start(_, _, _)

b_field(s) ==
  LET e == top(s)
      fields == e.type.fields
      f == fields[e.position]
  IN  IF e.position > Len(fields) THEN write(pop(s), token("}"))
      ELSE IF s.in = << >> /\ f.type.k = "extension" /\ e.allow_extensions
      THEN [s EXCEPT !.skipped_extension = TRUE]
      ELSE b_start(write(s, key(f.name)), f.type,
                   e.allow_extensions /\ is_last(fields, e.position))

b_item(s) ==
  LET e == top(s)
  IN  IF e.position > e.value THEN write(pop(s), token("]"))
      ELSE b_start(s, e.type.of, FALSE)

b_alternative(s) ==
  LET e == top(s)
      f == e.type.fields[peek(s) + 1]
  IN  IF e.position > 1 THEN write(pop(s), token("]"))
      ELSE IF s.in = << >> THEN fail(s)
      ELSE IF peek(s) >= Len(e.type.fields) THEN fail(s)
      ELSE b_start(write(eat(s), [t |-> "str", v |-> f.name]), f.type, e.allow_extensions)

b_next(s) ==
  LET d == advance(s)
      n == CASE top(s).type.k = "struct" -> b_field(d)
             [] top(s).type.k = "array" -> b_item(d)
             [] top(s).type.k = "variant" -> b_alternative(d)
  IN  IF n.error = "none" /\ Len(n.stack) > max_stack_size THEN [n EXCEPT !.error = "limit"] ELSE n

\* A byte other than 0 is read as present.
b_start(s, t, allow) ==
  CASE t.k = "builtin" ->
         IF s.in = << >> THEN fail(s) ELSE write(eat(s), [t |-> "str", v |-> Digits[peek(s) + 1]])
    [] t.k = "optional" ->
         IF s.in = << >> THEN fail(s)
         ELSE IF peek(s) # 0 THEN b_start(eat(s), t.of, allow) ELSE write(eat(s), token("null"))
    [] t.k = "extension" -> b_start(s, t.of, allow)
    [] t.k = "struct" -> write(push(s, entry_of(t, allow, 0)), token("{"))
    [] t.k = "array" ->
         IF s.in = << >> THEN fail(s)
         ELSE write(push(eat(s), entry_of(t, FALSE, peek(s))), token("["))
    [] t.k = "variant" -> write(push(s, entry_of(t, allow, 0)), token("["))

RECURSIVE b_loop(_)
b_loop(s) == IF s.error # "none" \/ s.stack = << >> THEN s ELSE b_loop(b_next(s))

bin_to_json(t, bin) == b_loop(b_start(start_state(bin), t, TRUE))

=============================================================================
