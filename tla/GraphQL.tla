------------------------------ MODULE GraphQL ------------------------------
(***************************************************************************)
(* The query executor of clchain/graphql.hpp, with which the micro chain   *)
(* answers the queries of a client.  It walks the tokens of the query and  *)
(* the reflected C++ value at once, writing the answer as it goes.         *)
(*                                                                         *)
(* A value is a scalar, null (an empty optional or a null pointer), a list *)
(* or an object.  A field of an object is data, or a function whose result *)
(* shows what it was called with ("echo").  The answer is a tree; its      *)
(* layout is left out.                                                     *)
(***************************************************************************)
EXTENDS Integers, Sequences, FiniteSets, SequencesExt

CONSTANTS
  no_value,   \* of an argument that is optional and was not given
  Numbers   \* what from_chars reads as a number of the argument's type

scalar(v) == [k |-> "scalar", v |-> v]
null == [k |-> "null"]
list(items) == [k |-> "list", items |-> items]
object(fields) == [k |-> "object", fields |-> fields]
data(name, value) == [name |-> name, args |-> << >>, value |-> value]
function(name, args) == [name |-> name, args |-> args, value |-> [k |-> "echo"]]
arg(name, type, optional) == [name |-> name, type |-> type, optional |-> optional]

\* Tokens: punctuators, and names, numbers and strings, which have a value.
punctuator(p) == [t |-> p, v |-> no_value]
name(n) == [t |-> "name", v |-> n]
integer(i) == [t |-> "integer", v |-> i]
floating(x) == [t |-> "floating", v |-> x]
string(s) == [t |-> "string", v |-> s]
bad == [t |-> "error", v |-> no_value]

\* gql_stream: the current token and skip.  Once it has met an error it stays there.
current(in) == IF in = << >> THEN punctuator("eof") ELSE Head(in)
at(in, t) == current(in).t = t
skip(in) == IF in = << >> \/ at(in, "error") THEN in ELSE Tail(in)

\* What a step leaves: the rest of the query, the answer, and whether it went well.  A step
\* that does not come to an end is marked "loops".
done(in, out) == [in |-> in, out |-> out, result |-> "ok"]
error(in) == [in |-> in, out |-> null, result |-> "error"]

-----------------------------------------------------------------------------
RECURSIVE skip_to_brace(_, _)

\* The loop of gql_skip_selection_set; depth counts the calls it is nested in.
skip_to_brace(in, depth) ==
  CASE at(in, "eof") -> error(in)
    [] at(in, "error") -> [error(in) EXCEPT !.result = "loops"]
    [] at(in, "}") /\ depth = 1 -> done(skip(in), null)
    [] OTHER -> skip_to_brace(skip(in), depth + (CASE at(in, "{") -> 1 [] at(in, "}") -> -1 [] OTHER -> 0))

gql_skip_selection_set(in) == IF at(in, "{") THEN skip_to_brace(skip(in), 1) ELSE done(in, null)

-----------------------------------------------------------------------------
(***************************************************************************)
(* Arguments.  args maps the position of an argument to its value, filled  *)
(* is the set of those that were given.                                    *)
(***************************************************************************)
no_args(params) == [args |-> [i \in DOMAIN params |-> no_value], filled |-> {}]

\* The value of a token for an argument of a type, if it has one: a number may be written as a
\* string, and what is left after a number is refused.
gql_parse_arg(type, tok) ==
  CASE type = "String" -> {v \in {tok.v} : tok.t = "string"}
    [] type = "Boolean" -> {v \in {"true", "false"} : tok = name(v)}
    [] OTHER -> {v \in Numbers : tok \in {integer(v), floating(v), string(v)}}

Mut_gql_parse_args(in, params, a) ==
  LET at_name == {i \in DOMAIN params : params[i].name = current(in).v}
      i == CHOOSE i \in at_name : \A j \in at_name : i <= j
      value == skip(skip(in))
      after == [args |-> [a.args EXCEPT ![i] = current(value).v], filled |-> a.filled \cup {i}]
  IN  IF at_name = {} \/ ~at(skip(in), ":") THEN error(in)
      ELSE IF params[i].optional /\ current(value) = name("null") THEN done(skip(value), a)
      ELSE IF gql_parse_arg(params[i].type, current(value)) = {} THEN error(in)
      ELSE done(skip(value), after)

\* gql_parse_args and gql_parse_arg: one argument, by its name.
gql_parse_args(in, params, a) ==
  LET at_name == {i \in DOMAIN params : params[i].name = current(in).v}
      i == CHOOSE i \in at_name : \A j \in at_name : i <= j
      value == skip(skip(in))
      filled == a.filled \cup {i}
  IN  IF at_name = {} \/ ~at(skip(in), ":") THEN error(in)
      ELSE IF i \in a.filled THEN error(in)
      ELSE IF params[i].optional /\ current(value) = name("null")
      THEN done(skip(value), [a EXCEPT !.filled = filled])
      ELSE IF gql_parse_arg(params[i].type, current(value)) = {} THEN error(in)
      ELSE done(skip(value), [args |-> [a.args EXCEPT ![i] = current(value).v], filled |-> filled])

RECURSIVE parse_arg_list(_, _, _)
parse_arg_list(in, params, a) ==
  IF at(in, "name")
  THEN LET r == gql_parse_args(in, params, a)
       IN  IF r.result = "ok" THEN parse_arg_list(r.in, params, r.out) ELSE r
  ELSE IF at(in, ")") THEN done(skip(in), a) ELSE error(in)

\* The argument list of a function, and gql_mark_optional.
arguments(in, params) ==
  LET given == IF ~at(in, "(") THEN done(in, no_args(params))
               ELSE IF at(skip(in), ")") THEN error(in)
               ELSE parse_arg_list(skip(in), params, no_args(params))
      missing == {i \in DOMAIN params : i \notin given.out.filled /\ ~params[i].optional}
  IN  IF given.result # "ok" THEN given
      ELSE IF missing # {} THEN error(in) ELSE done(given.in, given.out.args)

-----------------------------------------------------------------------------
RECURSIVE gql_query(_, _)

\* What follows when a value without members is asked for members.
skip_selections(in, out) ==
  LET rest == gql_skip_selection_set(in)
  IN  IF rest.result = "ok" THEN done(rest.in, out) ELSE rest

\* The result of a list from those of its items: the first error, or all of them.
gather(results, in) ==
  IF \A i \in DOMAIN results : results[i].result = "ok"
  THEN skip_selections(in, list([i \in DOMAIN results |-> results[i].out]))
  ELSE SelectSeq(results, LAMBDA r : r.result # "ok")[1]

\* One field of a selection set, with an alias or without: the member it names and what
\* follows; for a function, the result of its call.
query_field(fields, in) ==
  LET named == IF at(skip(in), ":") THEN skip(skip(in)) ELSE in
      found == SelectSeq(fields, LAMBDA f : f.name = current(named).v)
      called == arguments(skip(named), found[1].args)
  IN  IF ~at(named, "name") \/ found = << >> THEN error(in)
      ELSE IF found[1].args = << >> THEN done(skip(named), found[1].value)
      ELSE IF called.result = "ok" THEN done(called.in, scalar(called.out)) ELSE called

\* An object whose selection set is being read, with what its fields have answered so far.
answering(fields, out) == [k |-> "answering", fields |-> fields, out |-> out]

\* The loop over the fields of a selection set: f is the member that was asked for, r what it
\* answered.
other_fields(value, alias, r) ==
  IF r.result = "ok"
  THEN gql_query(answering(value.fields, Append(value.out, [alias |-> alias, value |-> r.out])), r.in)
  ELSE r

first_field(value, in, f) ==
  IF f.result = "ok" THEN other_fields(value, current(in).v, gql_query(f.out, f.in)) ELSE f

\* gql_query of each kind of value.  Every item of a list is asked the same selection (the
\* stream is copied).
gql_query(value, in) ==
  CASE value.k = "scalar" -> done(in, value)
    [] value.k = "null" -> skip_selections(in, null)
    [] value.k = "list" -> gather([i \in DOMAIN value.items |-> gql_query(value.items[i], in)], in)
    [] value.k = "object" ->
         IF at(in, "{") THEN gql_query(answering(value.fields, << >>), skip(in)) ELSE error(in)
    [] value.k = "answering" /\ ~at(in, "name") ->
         IF at(in, "}") THEN done(skip(in), object(value.out)) ELSE error(in)
    [] OTHER -> first_field(value, in, query_field(value.fields, in))

\* A query may be introduced by a keyword and a name of its own, and nothing follows it.
whole(r) == IF r.result # "ok" \/ at(r.in, "eof") THEN r ELSE error(r.in)

gql_query_root(value, in) ==
  LET is_query == current(in) = name("query")
      named == IF at(skip(in), "name") THEN skip(skip(in)) ELSE skip(in)
  IN  IF at(in, "name") /\ (~is_query \/ at(named, "(")) THEN error(in)
      ELSE whole(gql_query(value, IF is_query THEN named ELSE in))

-----------------------------------------------------------------------------
(***************************************************************************)
(* The tokens of a text, gql_stream::skip.  A character is written as a    *)
(* string, one for each that is treated alike: "a" and "e" for letters and *)
(* the underscore, " " and "\n" for what separates, "{" for a punctuator,  *)
(* "?" for one that no token has.  The comma and the byte order mark are   *)
(* separators too.                                                         *)
(***************************************************************************)
Digit == {"0", "1"}
Letter == {"a", "e"}
Separator == {" ", "\n"}
Chars == Digit \cup Letter \cup Separator \cup {"#", "{", ".", "\"", "\\", "-", "?"}

char(in, i) == IF i <= Len(in) THEN in[i] ELSE "end"
from(in, i) == SubSeq(in, i, Len(in))

\* How many characters of S there are from i on.
run(in, i, S) ==
  CHOOSE n \in 0..Len(in) : char(in, i + n) \notin S /\ \A j \in i..(i + n - 1) : char(in, j) \in S

token(type, value, rest) == [type |-> type, value |-> value, rest |-> rest]
no_token == token("error", << >>, << >>)
eof_token == token("eof", << >>, << >>)

RECURSIVE separated(_)
separated(in) ==
  CASE char(in, 1) \in Separator -> separated(Tail(in))
    [] char(in, 1) = "#" -> separated(from(in, 1 + run(in, 1, Chars \ {"\n"})))
    [] OTHER -> in

\* Where the string ends that is read at i; 0 if it does not.
RECURSIVE string_end(_, _)
string_end(in, i) ==
  CASE char(in, i) = "\"" -> i
    [] char(in, i) = "end" -> 0
    [] OTHER -> string_end(in, i + (IF in[i] = "\\" THEN 2 ELSE 1))

\* The length of a number with its integer part, its fraction, its exponent; 0 if it is wrong.
integer_part(in) ==
  LET sign == IF in[1] = "-" THEN 1 ELSE 0
  IN  CASE char(in, sign + 1) \notin Digit -> 0
        [] char(in, sign + 1) = "0" -> sign + 1
        [] OTHER -> sign + run(in, sign + 1, Digit)

digits(in, n) == IF run(in, n + 1, Digit) = 0 THEN 0 ELSE n + run(in, n + 1, Digit)

fraction(in, n) == IF n = 0 \/ char(in, n + 1) # "." THEN n ELSE digits(in, n + 1)

exponent(in, n) ==
  IF n = 0 \/ char(in, n + 1) # "e" THEN n ELSE digits(in, IF char(in, n + 2) = "-" THEN n + 2 ELSE n + 1)

number(in) ==
  LET n == exponent(in, fraction(in, integer_part(in)))
  IN  IF n = 0 \/ char(in, n + 1) \in Letter \cup Digit THEN no_token
      ELSE token(IF n = integer_part(in) THEN "integer" ELSE "floating", SubSeq(in, 1, n), from(in, n + 1))

\* A string that is not ended leaves the type of the token before it, without a value.
quoted(in, before) ==
  LET n == string_end(in, 2)
  IN  IF char(in, 2) = "\"" /\ char(in, 3) = "\"" THEN no_token
      ELSE IF n = 0 THEN token(before, << >>, << >>)
      ELSE token("string", SubSeq(in, 2, n - 1), from(in, n + 1))

dots(in) ==
  IF char(in, 2) = "." /\ char(in, 3) = "." THEN token("punctuator", SubSeq(in, 1, 3), from(in, 4)) ELSE no_token

token_at(in, before) ==
  LET n == run(in, 1, Letter \cup Digit)
  IN  CASE char(in, 1) = "end" -> eof_token
        [] char(in, 1) = "{" -> token("punctuator", <<"{">>, Tail(in))
        [] char(in, 1) = "." -> dots(in)
        [] char(in, 1) = "\"" -> quoted(in, before)
        [] char(in, 1) \in Letter -> token("name", SubSeq(in, 1, n), from(in, n + 1))
        [] char(in, 1) \in Digit \cup {"-"} -> number(in)
        [] OTHER -> no_token

next_token(in, before) == token_at(separated(in), before)

-----------------------------------------------------------------------------
(***************************************************************************)
(* The schema, fill_gql_schema: a walk over the reflected types from the   *)
(* type of the query.  A type is a scalar, optional (std::optional, a      *)
(* pointer, unique_ptr), a reference, a container or a struct; structs     *)
(* maps the name of a struct to its members.  A name is written as the     *)
(* sequence of its parts.                                                  *)
(***************************************************************************)
builtin(n) == [k |-> "builtin", name |-> n]
optional(t) == [k |-> "optional", of |-> t]
reference(t) == [k |-> "reference", of |-> t]
container(t) == [k |-> "container", of |-> t]
struct(n) == [k |-> "struct", name |-> n]
field(n, t) == [name |-> n, method |-> FALSE, const |-> TRUE, args |-> << >>, type |-> t]
method(n, const, args, t) == [name |-> n, method |-> TRUE, const |-> const, args |-> args, type |-> t]

\* The name of an integral type: GraphQL's Int has 32 bits and a sign, Float the integers that
\* a double has.
integral(signed, bytes) ==
  IF (signed /\ bytes <= 4) \/ (~signed /\ bytes <= 2) THEN "Int"
  ELSE IF bytes <= 4 THEN "Float" ELSE "String"

RECURSIVE generate_gql_whole_name(_, _)
generate_gql_whole_name(t, is_optional) ==
  CASE t.k = "optional" -> generate_gql_whole_name(t.of, TRUE)
    [] t.k = "reference" -> generate_gql_whole_name(t.of, FALSE)
    [] OTHER -> (IF t.k = "container" THEN <<"[">> \o generate_gql_whole_name(t.of, FALSE) \o <<"]">> ELSE <<t.name>>)
                \o (IF is_optional THEN << >> ELSE <<"!">>)

\* The members that are shown: fields, then the methods that are const.
shown(members) ==
  SelectSeq(members, LAMBDA f : ~f.method) \o SelectSeq(members, LAMBDA f : f.method /\ f.const)

definition(n, members) ==
  [name |-> n, members |-> [i \in DOMAIN shown(members) |->
     LET f == shown(members)[i]
     IN  [name |-> f.name, args |-> [j \in DOMAIN f.args |-> generate_gql_whole_name(f.args[j], FALSE)],
          type |-> generate_gql_whole_name(f.type, FALSE)]]]

types_of(members) ==
  FlattenSeq([i \in DOMAIN shown(members) |-> shown(members)[i].args \o <<shown(members)[i].type>>])

\* s is what is defined already and what has been written.
RECURSIVE fill_gql_schema(_, _, _)
fill_gql_schema(structs, t, s) ==
  CASE t.k \in {"optional", "reference", "container"} -> fill_gql_schema(structs, t.of, s)
    [] t.k = "struct" /\ t.name \notin s.defined ->
         LET visited == FoldLeft(LAMBDA r, u : fill_gql_schema(structs, u, r),
                                 [s EXCEPT !.defined = @ \cup {t.name}], types_of(structs[t.name]))
         IN  [visited EXCEPT !.out = Append(@, definition(t.name, structs[t.name]))]
    [] OTHER -> s

get_gql_schema(structs, t) == fill_gql_schema(structs, t, [defined |-> {}, out |-> << >>]).out

=============================================================================
