----------------------------- MODULE Connection -----------------------------
(***************************************************************************)
(* Pages of a table, as GraphQL clients ask for them: make_connection of   *)
(* libraries/clchain/include/clchain/graphql_connection.hpp.  Pure         *)
(* operators.                                                              *)
(*                                                                         *)
(* A container is a set of keys, positive numbers.  An iterator is the key *)
(* it stands on or end.  A cursor is the key of its row, written as a      *)
(* number in hexadecimal and read back; none for an absent argument.       *)
(***************************************************************************)
EXTENDS Integers, Sequences, FiniteSetsExt, SequencesExt

none == -1
end_of(S) == IF S = {} THEN 1 ELSE Max(S) + 1

lower_bound(S, k) == Min({x \in S : x >= k} \cup {end_of(S)})

\* Mutant: the row of the cursor itself is found.
Mut_upper_bound(S, k) == lower_bound(S, k)

upper_bound(S, k) == Min({x \in S : x > k} \cup {end_of(S)})

later(a, b) == IF a < b THEN b ELSE a
earlier(a, b) == IF b < a THEN b ELSE a
clamp(x, lo, hi) == later(lo, earlier(x, hi))

\* The rows that the filters allow: [begin, end), never turned round.
range_begin(S, gt, ge) ==
  LET begin == lower_bound(S, 0)
      from  == IF ge = none THEN begin ELSE later(begin, lower_bound(S, ge))
  IN  IF gt = none THEN from ELSE later(from, upper_bound(S, gt))

range_end(S, gt, ge, lt, le) ==
  LET upto == IF le = none THEN end_of(S) ELSE earlier(end_of(S), upper_bound(S, le))
      to   == IF lt = none THEN upto ELSE earlier(upto, lower_bound(S, lt))
  IN  later(range_begin(S, gt, ge), to)

\* The last n elements of a sequence, the first n elements, or all of it.
last_of(s, n) == SubSeq(s, Len(s) - earlier(n, Len(s)) + 1, Len(s))
first_of(s, n) == IF n = none THEN s ELSE SubSeq(s, 1, earlier(n, Len(s)))


\* Forwards from an iterator, and from these the last ones.
page_forward(S, it, end, begin, finish, first, last) ==
  LET edges == first_of(SetToSortSeq({x \in S : it <= x /\ x < end}, <), first)
      stop  == IF edges = << >> THEN it ELSE upper_bound(S, edges[Len(edges)])
  IN  [edges |-> IF last = none THEN edges ELSE last_of(edges, last),
       hasPreviousPage |-> it # begin \/ (last # none /\ last < Len(edges)),
       hasNextPage |-> stop # finish]

\* Backwards from the end.
page_backward(S, it, end, begin, finish, last) ==
  LET edges == last_of(SetToSortSeq({x \in S : it <= x /\ x < end}, <), last)
  IN  [edges |-> edges,
       hasPreviousPage |-> (IF edges = << >> THEN end ELSE edges[1]) # begin,
       hasNextPage |-> end # finish]

page_either_way(S, it, end, begin, finish, first, last) ==
  IF last # none /\ first = none THEN page_backward(S, it, end, begin, finish, last)
  ELSE page_forward(S, it, end, begin, finish, first, last)

\* From the cursor after on, up to the cursor before.
page_between(S, begin, finish, first, last, before, after) ==
  LET it   == IF after = none THEN begin ELSE clamp(upper_bound(S, after), begin, finish)
      stop == IF before = none THEN finish ELSE clamp(lower_bound(S, before), begin, finish)
  IN  page_either_way(S, it, later(it, stop), begin, finish, first, last)

make_connection(S, gt, ge, lt, le, first, last, before, after) ==
  page_between(S, range_begin(S, gt, ge), range_end(S, gt, ge, lt, le), first, last, before, after)

=============================================================================
