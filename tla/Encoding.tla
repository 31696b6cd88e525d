------------------------------ MODULE Encoding ------------------------------
(***************************************************************************)
(* How libraries/abieos writes values: binary (to_bin.hpp, from_bin.hpp,   *)
(* varint.hpp), keys of database tables (to_key.hpp), and the text forms   *)
(* of integers, names, symbols, assets and dates (from_json.hpp, name.hpp, *)
(* chain_conversions.hpp, asset.hpp, time.hpp).                            *)
(*                                                                         *)
(* The widths are constants, so that every value of a small word can be    *)
(* tried: in the code a byte has 8 bits, a word 32 or 64, a name twelve    *)
(* characters of five bits and one of four.  An operator that may fail     *)
(* returns a set, which is empty if it does.                               *)
(***************************************************************************)
EXTENDS Integers, Sequences, SequencesExt, FiniteSetsExt

CONSTANTS
  group_bits,   \* bits of a value in a byte of a variable-length integer (7)
  word_bits,    \* bits of an integer (32 or 64)
  name_chars,   \* characters of a name that have char_bits (12)
  char_bits,    \* (5)
  radix,        \* of numbers in text (10)
  code_size     \* letters of a symbol code (7)

byte == 2 ^ (group_bits + 1)
more == 2 ^ group_bits
word == 2 ^ word_bits
to_signed(x) == IF x >= word \div 2 THEN x - word ELSE x
to_unsigned(x) == x % word

\* Division as C++ has it, towards zero.
Abs(n) == IF n < 0 THEN -n ELSE n
quotient(a, b) == IF (a < 0) = (b < 0) THEN Abs(a) \div Abs(b) ELSE -(Abs(a) \div Abs(b))

\* The number with the given digits, the most significant one first.
number(digits, base) == FoldLeft(LAMBDA n, d : n * base + d, 0, digits)
digits_of(n, base, size) == [i \in 1..size |-> (n \div base ^ (size - i)) % base]

-----------------------------------------------------------------------------
(***************************************************************************)
(* Integers of variable length.  A reader returns what it read and what is *)
(* left of the bytes.                                                      *)
(***************************************************************************)
RECURSIVE varuint32_to_bin(_)
varuint32_to_bin(v) ==
  IF v < more THEN <<v>> ELSE <<(v % more) + more>> \o varuint32_to_bin(v \div more)

\* Length of the bytes up to the first one that is not continued.
last_group(bin) == {n \in DOMAIN bin : bin[n] < more /\ \A i \in 1..(n - 1) : bin[i] >= more}

max_groups == (word_bits + group_bits - 1) \div group_bits

groups(bin, n) == number([i \in 1..n |-> bin[n + 1 - i] % more], more)

varuint32_from_bin(bin) ==
  {[v |-> groups(bin, n) % word, rest |-> SubSeq(bin, n + 1, Len(bin))]
     : n \in {n \in last_group(bin) : n <= max_groups}}

\* varint32: zig-zag encoding
varint32_to_bin(v) ==
  varuint32_to_bin(IF v < 0 THEN word - 1 - to_unsigned(2 * to_unsigned(v)) ELSE to_unsigned(2 * v))

varint32_from_bin(bin) ==
  {[r EXCEPT !.v = IF @ % 2 = 1 THEN to_signed((word - 1 - @) \div 2 + word \div 2) ELSE @ \div 2]
     : r \in varuint32_from_bin(bin)}

RECURSIVE sleb64_to_bin(_)
sleb64_to_bin(v) ==
  IF v \div (more \div 2) = v \div more THEN <<v % more>>
  ELSE <<(v % more) + more>> \o sleb64_to_bin(v \div more)

sleb_from_bin(bin) ==
  {LET u == groups(bin, n) % word
       negative == n * group_bits < word_bits /\ bin[n] >= more \div 2
   IN  [v |-> to_signed(IF negative THEN u + word - more ^ n ELSE u),
        rest |-> SubSeq(bin, n + 1, Len(bin))]
     : n \in {n \in last_group(bin) : (n - 1) * group_bits < word_bits}}

-----------------------------------------------------------------------------
(***************************************************************************)
(* Types and their values.  uint and sint have a number of bytes; a value  *)
(* of type opt or seq (vector, list, deque, string) is a sequence; one of  *)
(* type set is a sequence in order; fields stand for structs, tuples,      *)
(* pairs and arrays.                                                       *)
(***************************************************************************)
uint(n) == [k |-> "uint", n |-> n]
sint(n) == [k |-> "sint", n |-> n]
opt(t) == [k |-> "opt", of |-> t]
seq(t) == [k |-> "seq", of |-> t]
ordered(t) == [k |-> "set", of |-> t]
fields(ts) == [k |-> "fields", types |-> ts]
variant(ts) == [k |-> "variant", types |-> ts]
text == [k |-> "text"]

RECURSIVE to_bin(_, _)
to_bin(t, v) ==
  CASE t.k \in {"uint", "sint"} -> Reverse(digits_of(v % byte ^ t.n, byte, t.n))
    [] t.k = "text" -> varuint32_to_bin(Len(v)) \o v
    [] t.k = "opt" -> IF v = << >> THEN <<0>> ELSE <<1>> \o to_bin(t.of, v[1])
    [] t.k \in {"seq", "set"} -> varuint32_to_bin(Len(v)) \o FlattenSeq([i \in DOMAIN v |-> to_bin(t.of, v[i])])
    [] t.k = "fields" -> FlattenSeq([i \in DOMAIN t.types |-> to_bin(t.types[i], v[i])])
    [] t.k = "variant" -> varuint32_to_bin(v.index) \o to_bin(t.types[v.index + 1], v.value)

take(bin, n) == [v |-> SubSeq(bin, 1, n), rest |-> SubSeq(bin, n + 1, Len(bin))]

\* std::set::emplace, in the order of the bytes read
inserted(s, x) ==
  IF x \in ToSet(s) THEN s
  ELSE SelectSeq(s, LAMBDA y : y < x) \o <<x>> \o SelectSeq(s, LAMBDA y : y > x)

RECURSIVE from_bin(_, _)
RECURSIVE from_bin_all(_, _)

from_bin_all(types, bin) ==
  IF types = << >> THEN {[v |-> << >>, rest |-> bin]}
  ELSE UNION {{[v |-> <<first.v>> \o others.v, rest |-> others.rest]
                 : others \in from_bin_all(Tail(types), first.rest)}
                : first \in from_bin(Head(types), bin)}

from_bin(t, bin) ==
  LET size == varuint32_from_bin(bin)
      int(b) == number(Reverse(b), byte)
      elements == UNION {IF n.v > Len(n.rest) THEN {} ELSE from_bin_all([i \in 1..n.v |-> t.of], n.rest)
                           : n \in size}
  IN  CASE t.k \in {"uint", "sint"} ->
             IF Len(bin) < t.n THEN {}
             ELSE {[r EXCEPT !.v = IF t.k = "sint" /\ int(@) >= byte ^ t.n \div 2
                                   THEN int(@) - byte ^ t.n ELSE int(@)] : r \in {take(bin, t.n)}}
        [] t.k = "text" -> {take(n.rest, n.v) : n \in {n \in size : n.v <= Len(n.rest)}}
        [] t.k = "opt" ->
             IF bin = << >> THEN {}
             ELSE IF Head(bin) = 0 THEN {[v |-> << >>, rest |-> Tail(bin)]}
             ELSE {[r EXCEPT !.v = <<@>>] : r \in from_bin(t.of, Tail(bin))}
        [] t.k = "seq" -> elements
        [] t.k = "set" -> {[r EXCEPT !.v = FoldLeft(inserted, << >>, @)] : r \in elements}
        [] t.k = "fields" -> from_bin_all(t.types, bin)
        [] t.k = "variant" ->
             UNION {{[r EXCEPT !.v = [index |-> n.v, value |-> @]] : r \in from_bin(t.types[n.v + 1], n.rest)}
                      : n \in {n \in size : n.v < Len(t.types)}}

-----------------------------------------------------------------------------
(***************************************************************************)
(* Keys.                                                                   *)
(***************************************************************************)
\* The first byte starts with a 1 for every byte that follows, and a 0.
to_key_varuint32(v) ==
  LET sizes == {n \in 1..(word_bits \div group_bits) : v < more ^ n}
      longest == word_bits \div group_bits + 1
      num_bytes == IF sizes = {} THEN longest ELSE Min(sizes)
      width == byte - byte \div 2 ^ (num_bytes - 1)
      high == IF num_bytes = longest THEN 0 ELSE v \div byte ^ (num_bytes - 1)
  IN  <<width + high>> \o digits_of(v, byte, num_bytes - 1)

escaped(b) == IF b = 0 THEN <<0, 1>> ELSE <<b>>
terminator == <<0, 0>>

RECURSIVE to_key(_, _)

Mut_to_key_optional(t, v) ==
  IF v = << >> THEN <<0>> ELSE IF t.k \in {"uint", "sint"} /\ t.n = 1 THEN to_key(t, v[1])
  ELSE <<1>> \o to_key(t, v[1])

\* A value of one byte is its own mark, and 0 is escaped.
to_key_optional(t, v) ==
  IF t.k \in {"uint", "sint"} /\ t.n = 1
  THEN IF v = << >> THEN terminator ELSE escaped(to_key(t, v[1])[1])
  ELSE IF v = << >> THEN <<0>> ELSE <<1>> \o to_key(t, v[1])

to_key(t, v) ==
  CASE t.k = "uint" -> digits_of(v, byte, t.n)
    [] t.k = "sint" -> digits_of(v + byte ^ t.n \div 2, byte, t.n)
    [] t.k = "text" -> FlattenSeq([i \in DOMAIN v |-> escaped(v[i])]) \o terminator
    [] t.k = "opt" -> to_key_optional(t.of, v)
    [] t.k \in {"seq", "set"} ->
         FlattenSeq([i \in DOMAIN v |-> to_key_optional(t.of, <<v[i]>>)]) \o to_key_optional(t.of, << >>)
    [] t.k = "fields" -> FlattenSeq([i \in DOMAIN t.types |-> to_key(t.types[i], v[i])])
    [] t.k = "variant" -> to_key_varuint32(v.index) \o to_key(t.types[v.index + 1], v.value)

\* bits is the pattern of a floating point number: the sign, then its magnitude.
float_to_key(bits) ==
  LET signbit == word \div 2
      b == IF bits = signbit THEN 0 ELSE bits
  IN  IF b >= signbit THEN word - 1 - b ELSE b + signbit

-----------------------------------------------------------------------------
(***************************************************************************)
(* Numbers in text.                                                        *)
(***************************************************************************)
\* from_json_int: digits are added to a result of W bits, never overflowing it.
append_digit(r, digit, sign, limit, signed) ==
  IF ~signed THEN IF (limit - digit) \div radix < r THEN {} ELSE {r * radix + digit}
  ELSE IF quotient(-sign * limit + digit, radix) > -sign * r THEN {} ELSE {r * radix + sign * digit}

from_json_int(negative, digits, signed) ==
  LET sign == IF negative THEN -1 ELSE 1
      limit == IF ~signed THEN word - 1 ELSE IF negative THEN -(word \div 2) ELSE word \div 2 - 1
  IN  IF digits = << >> \/ (negative /\ ~signed) THEN {}
      ELSE FoldLeft(LAMBDA s, d : UNION {append_digit(r, d, sign, limit, signed) : r \in s}, {0}, digits)

-----------------------------------------------------------------------------
(***************************************************************************)
(* Names.  A character is its digit, the dot is 0.                         *)
(***************************************************************************)
name_bits == name_chars * char_bits + char_bits - 1
chars == 2 ^ char_bits

\* A name as its characters, the last of which has one bit less.
name_digits(n) ==
  digits_of(n \div (chars \div 2), chars, name_chars) \o <<n % (chars \div 2)>>

name_of(digits) == number(SubSeq(digits, 1, name_chars), chars) * (chars \div 2) + digits[name_chars + 1]

padded(str) == [i \in 1..(name_chars + 1) |-> IF i <= Len(str) THEN str[i] ELSE 0]

\* Characters that are none count as dots, and the rest of a long text is ignored.
string_to_name(str) ==
  LET digit(c) == IF c \in 0..(chars - 1) THEN c ELSE 0
  IN  name_of([i \in 1..(name_chars + 1) |->
        IF i <= name_chars THEN digit(padded(str)[i]) ELSE digit(padded(str)[i]) % (chars \div 2)])

try_string_to_name_strict(str) ==
  IF \/ Len(str) > name_chars + 1
     \/ \E i \in DOMAIN str : str[i] \notin 0..(chars - 1)
     \/ Len(str) = name_chars + 1 /\ Last(str) >= chars \div 2
  THEN {} ELSE {name_of(padded(str))}

without_dots(str) ==
  LET used == {i \in DOMAIN str : str[i] # 0}
  IN  IF used = {} THEN << >> ELSE SubSeq(str, 1, Max(used))

name_to_string(n) == without_dots(name_digits(n))

name_length(n) ==
  LET used == {i \in 0..name_chars : ((n * chars ^ i) % 2 ^ name_bits) \div 2 ^ (name_bits - char_bits) > 0}
  IN  IF used = {} THEN 0 ELSE Max(used) + 1

suffix(n) ==
  LET used == {i \in 1..(name_chars + 1) : name_digits(n)[i] # 0}
      dots == {i \in 1..name_chars : name_digits(n)[i] = 0 /\ \E j \in used : i < j}
      remaining_bits == name_bits - char_bits * Max(dots)
      shift == name_bits - remaining_bits
      last == n % (chars \div 2)
  IN  IF dots = {} THEN n
      ELSE ((((n % 2 ^ remaining_bits) - last) * 2 ^ shift) % 2 ^ name_bits) + last * 2 ^ (shift - 1)

prefix(n) ==
  LET used == {i \in 1..(name_chars + 1) : name_digits(n)[i] # 0}
      dots == {i \in 1..name_chars : name_digits(n)[i] = 0 /\ \E j \in used : i < j}
      offset == name_bits - char_bits * Max(dots)
  IN  IF dots = {} THEN n ELSE (n \div 2 ^ offset) * 2 ^ offset

-----------------------------------------------------------------------------
(***************************************************************************)
(* Symbols and assets.  Letters are 1, 2, ...; a raw code is a sequence of *)
(* code_size + 1 bytes, least significant first.                           *)
(***************************************************************************)
\* symbol_code::is_valid looks at the last byte only after a letter is missing.
code_is_valid(raw, letters) ==
  /\ raw[1] \in letters
  /\ \A i \in 2..code_size : raw[i] \in letters \/ \A j \in i..(code_size + 1) : raw[j] = 0

string_to_symbol_code(str, letters) ==
  IF str = << >> \/ Len(str) > code_size \/ ~(ToSet(str) \subseteq letters) THEN {}
  ELSE {[i \in 1..(code_size + 1) |-> IF i <= Len(str) THEN str[i] ELSE 0]}

symbol_code_to_string(raw) ==
  LET used == {i \in DOMAIN raw : raw[i] # 0} IN IF used = {} THEN << >> ELSE SubSeq(raw, 1, Max(used))

\* The text of an amount: its sign, and the digits before and after the point.
string_to_amount(negative, whole, fraction) ==
  LET u == number(whole \o fraction, radix) % word
  IN  to_signed(to_unsigned(IF negative THEN -u ELSE u))

RECURSIVE decimal(_)
decimal(n) == IF n < radix THEN <<n>> ELSE Append(decimal(n \div radix), n % radix)

amount_to_string(amount, precision) ==
  LET u == Abs(amount)
  IN  [negative |-> amount < 0, whole |-> decimal(u \div radix ^ precision),
       fraction |-> digits_of(u % radix ^ precision, radix, precision)]

max_amount == word \div 4 - 1
within_range(a) == -max_amount <= a /\ a <= max_amount

\* The operators of asset, on the amounts of two assets of one symbol.
asset_plus(a, b) == {r \in {to_signed(to_unsigned(a + b))} : within_range(r)}
asset_minus(a, b) == {r \in {to_signed(to_unsigned(a - b))} : within_range(r)}
asset_times(a, b) == {r \in {a * b} : within_range(r)}
asset_divide(a, b) == {quotient(a, x) : x \in {b} \ {0}}

-----------------------------------------------------------------------------
(***************************************************************************)
(* Dates.                                                                  *)
(***************************************************************************)
from_days(days) ==
  LET z == days + 719468
      era == quotient(IF z >= 0 THEN z ELSE z - 146096, 146097)
      doe == z - era * 146097
      yoe == (doe - doe \div 1460 + doe \div 36524 - doe \div 146096) \div 365
      doy == doe - (365 * yoe + yoe \div 4 - yoe \div 100)
      mp == (5 * doy + 2) \div 153
      m == IF mp < 10 THEN mp + 3 ELSE mp - 9
  IN  [year |-> yoe + era * 400 + (IF m <= 2 THEN 1 ELSE 0), month |-> m,
       day |-> doy - (153 * mp + 2) \div 5 + 1]

to_days(d) ==
  LET y == d.year - (IF d.month <= 2 THEN 1 ELSE 0)
      era == quotient(IF y >= 0 THEN y ELSE y - 399, 400)
      yoe == y - era * 400
      doy == (153 * (IF d.month > 2 THEN d.month - 3 ELSE d.month + 9) + 2) \div 5 + d.day - 1
      doe == yoe * 365 + yoe \div 4 - yoe \div 100 + doy
  IN  era * 146097 + doe - 719468

=============================================================================
