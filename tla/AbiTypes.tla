------------------------------ MODULE AbiTypes ------------------------------
(***************************************************************************)
(* Resolving the types of an ABI (libraries/abieos, src/abi.cpp).          *)
(*                                                                         *)
(* abi_types is a map from names to types.  A name is a base and suffixes: *)
(* "?" (optional), "[]" (array) and "$" (binary extension).  A type of the *)
(* ABI starts as a definition; a pointer to a type is its name here.       *)
(***************************************************************************)
EXTENDS Integers, Sequences, SequencesExt, TLC

CONSTANTS
  Builtins,   \* names of built-in types
  max_depth   \* limit on nested references

plain(b) == [base |-> b, suffixes |-> << >>]
no_base == plain("")

alias_def(n) == [k |-> "alias_def", of |-> n]
struct_def(base, fields) == [k |-> "struct_def", base |-> base, fields |-> fields]
variant_def(types) == [k |-> "variant_def", types |-> types]

-----------------------------------------------------------------------------
(***************************************************************************)
(* Every function returns the map as it left it and the type it found, or  *)
(* ok = FALSE where the code throws.                                       *)
(***************************************************************************)
found(m, n) == [m |-> m, n |-> n, ok |-> TRUE]
error(m) == [m |-> m, n |-> no_base, ok |-> FALSE]

wrapper(suffix) ==
  CASE suffix = "?" -> "optional" [] suffix = "[]" -> "array" [] suffix = "$" -> "extension"

\* invalid_nesting
may_wrap(suffix, k) ==
  IF suffix = "$" THEN k # "extension" ELSE k \notin {"optional", "array", "extension"}

RECURSIVE get_type(_, _, _)

\* A name that is not in the map yet.
wrap(m, n, depth) ==
  IF n.suffixes = << >> THEN error(m)
  ELSE LET suffix == Last(n.suffixes)
           base == get_type(m, [n EXCEPT !.suffixes = Front(@)], depth + 1)
       IN  IF ~base.ok THEN base
           ELSE IF ~may_wrap(suffix, base.m[base.n].k) THEN error(m)
           ELSE found((n :> [k |-> wrapper(suffix), of |-> base.n]) @@ base.m, n)

resolve_alias(m, n, depth) ==
  LET t == get_type(m, m[n].of, depth + 1)
  IN  IF ~t.ok THEN t
      ELSE IF t.m[t.n].k = "extension" THEN error(m)
      ELSE found([t.m EXCEPT ![n] = [k |-> "alias", of |-> t.n]], t.n)

get_type(m, n, depth) ==
  IF depth >= max_depth THEN error(m)
  ELSE IF n \notin DOMAIN m THEN wrap(m, n, depth)
  ELSE CASE m[n].k = "alias" -> found(m, m[n].of)
         [] m[n].k = "alias_def" -> resolve_alias(m, n, depth)
         [] OTHER -> found(m, n)

\* The types of fields, or of the alternatives of a variant, one after the other.
RECURSIVE get_types(_, _, _, _)
get_types(m, fields, i, depth) ==
  IF i > Len(fields) THEN [m |-> m, fields |-> << >>, ok |-> TRUE]
  ELSE LET t == get_type(m, fields[i].type, depth + 1)
       IN  IF ~t.ok THEN [m |-> m, fields |-> << >>, ok |-> FALSE]
           ELSE LET rest == get_types(t.m, fields, i + 1, depth)
                IN  [rest EXCEPT !.fields = <<[name |-> fields[i].name, type |-> t.n]>> \o @]

RECURSIVE resolve_struct(_, _, _)
resolve_struct(m, n, depth) ==
  LET d == m[n]
      failed == [m |-> m, fields |-> << >>, ok |-> FALSE]
      base == get_type(m, d.base, depth + 1)
      inner == resolve_struct(base.m, base.n, depth + 1)
      unresolved == base.m[base.n].k = "struct_def"
      based == IF unresolved
               THEN [inner EXCEPT !.m = [@ EXCEPT ![base.n] = [k |-> "struct", fields |-> inner.fields]]]
               ELSE [m |-> base.m, fields |-> base.m[base.n].fields, ok |-> TRUE]
      own(mm) == get_types(mm, d.fields, 1, depth)
  IN  IF depth >= max_depth THEN failed
      ELSE IF d.base = no_base THEN own(m)
      ELSE IF ~base.ok THEN failed
      ELSE IF base.m[base.n].k \notin {"struct_def", "struct"} THEN failed
      ELSE IF unresolved /\ ~inner.ok THEN failed
      ELSE LET o == own(based.m) IN [o EXCEPT !.fields = based.fields \o @]

\* fill: one entry of the map after the other, in the order of the names.
fill(m, n) ==
  CASE m[n].k = "alias_def" ->
         LET r == resolve_alias(m, n, 0) IN [m |-> r.m, ok |-> r.ok]
    [] m[n].k = "struct_def" ->
         LET r == resolve_struct(m, n, 0)
         IN  [m |-> IF r.ok THEN [r.m EXCEPT ![n] = [k |-> "struct", fields |-> r.fields]] ELSE m,
              ok |-> r.ok]
    [] m[n].k = "variant_def" ->
         LET r == get_types(m, m[n].types, 1, 0)
         IN  [m |-> IF r.ok THEN [r.m EXCEPT ![n] = [k |-> "variant", fields |-> r.fields]] ELSE m,
              ok |-> r.ok]
    [] OTHER -> [m |-> m, ok |-> TRUE]

RECURSIVE fill_all(_, _)
fill_all(r, names) ==
  IF names = << >> \/ ~r.ok THEN r ELSE fill_all(fill(r.m, plain(Head(names))), Tail(names))

\* convert(abi_def, abi): defs maps the names of the ABI's own types, none of them
\* defined twice, to their definitions; order is the order of the names.
convert(defs, order) ==
  LET own == [n \in {plain(b) : b \in DOMAIN defs} |-> defs[n.base]]
      all == own @@ [n \in {plain(b) : b \in Builtins} |-> [k |-> "builtin"]]
  IN  fill_all([m |-> all, ok |-> TRUE], order)

\* convert(abi, abi_def): structs come out with the fields of their bases.
to_abi_def(m, b) ==
  LET t == m[plain(b)]
  IN  CASE t.k = "alias" -> alias_def(t.of)
        [] t.k = "struct" -> struct_def(no_base, t.fields)
        [] t.k = "variant" -> variant_def([i \in DOMAIN t.fields |->
                                [name |-> t.fields[i].type, type |-> t.fields[i].type]])

=============================================================================
