--------------------------- MODULE ElectionConfig ---------------------------
(***************************************************************************)
(* How an election is cut into rounds: make_election_config and the        *)
(* functions it calls in contracts/eden/src/elections.cpp.                 *)
(*                                                                         *)
(* get_group_sizes truncates a quotient of two double-precision logarithms.*)
(* The quotient is inexact, so where it would be a whole number k the code *)
(* may get k or k - 1 (it gets k - 1 for 500, 2000 and 8000 members).      *)
(* get_group_sizes and make_election_config are therefore sets: every      *)
(* result the arithmetic can give.                                         *)
(***************************************************************************)
EXTENDS RoundConfig, Sequences, FiniteSets

int_pow(base, exponent) == base ^ exponent

\* The binary search for z with z^y <= x < (z+1)^y between 0 and 12.
int_root(x, y) ==
  LET search[b \in (0..12) \X (0..12)] ==
        LET mid == (b[1] + b[2]) \div 2
        IN  IF b[2] - b[1] <= 1 THEN b[1]
            ELSE IF x < int_pow(mid, y) THEN search[<<b[1], mid>>]
            ELSE search[<<mid, b[2]>>]
  IN  search[<<0, 12>>]

\* 1 + the number of i in 12, 48, 192, ... that are <= num_members (a uint16).
count_rounds(num_members) == 1 + Cardinality({k \in 0..6 : 12 * 4^k <= num_members})

\* The results of truncating log(num/den) / log((g+1)/g) to an integer, for
\* results up to k_max.
truncated_logs(num, den, g, k_max) ==
  LET at_least(k) == num * g^k >= den * (g + 1)^k
      exactly(k)  == num * g^k = den * (g + 1)^k
      floor       == CHOOSE k \in 0..k_max :
                       at_least(k) /\ (k = k_max \/ ~at_least(k + 1))
  IN  {floor} \cup (IF floor > 0 /\ exactly(floor) THEN {floor - 1} ELSE {})

\* The group sizes of the rounds, first round first.
get_group_sizes(num_members, num_rounds) ==
  LET g == int_root(num_members, num_rounds)
  IN  IF g = 3
      THEN {[i \in 1..num_rounds |->
               IF i = num_rounds THEN 3
               ELSE IF i >= num_rounds - large THEN 5 ELSE 4] :
              large \in {l \in truncated_logs(num_members, 3 * int_pow(4, num_rounds - 1), 4, 2) : l <= 1}}
      ELSE IF g >= 6
      THEN LET divisor == int_pow(6, num_rounds - 1)
           IN  {[i \in 1..num_rounds |->
                   IF i = num_rounds THEN (num_members + divisor - 1) \div divisor
                   ELSE IF i = 1 THEN 5 ELSE 6]}
      ELSE {[i \in 1..num_rounds |->
               IF i <= num_rounds - large THEN g ELSE g + 1] :
              large \in truncated_logs(num_members, int_pow(g, num_rounds), g, num_rounds - 1)}

\* Mutant: multiplies by the size of the round itself instead of the next one.
Mut_groups_of_round(sizes, i) ==
  LET groups[j \in 1..Len(sizes)] ==
        IF j = Len(sizes) THEN 1 ELSE groups[j + 1] * sizes[j]
  IN  groups[i]

\* The number of groups of round i when the later rounds have these sizes.
groups_of_round(sizes, i) ==
  LET groups[j \in 1..Len(sizes)] ==
        IF j = Len(sizes) THEN 1 ELSE groups[j + 1] * sizes[j + 1]
  IN  groups[i]

\* The possible configurations of an election with num_participants voters.
make_election_config(num_participants) ==
  IF num_participants = 0 THEN {<< >>}
  ELSE {[i \in DOMAIN sizes |->
           [num_participants |-> IF i = 1 THEN num_participants
                                 ELSE groups_of_round(sizes, i) * sizes[i],
            num_groups       |-> groups_of_round(sizes, i)]] :
          sizes \in get_group_sizes(num_participants, count_rounds(num_participants))}

-----------------------------------------------------------------------------
(***************************************************************************)
(* When an election takes place.  election_start_time counts seconds from  *)
(* the beginning of Sunday.                                                *)
(***************************************************************************)
day_seconds == 86400
weekday(days) == (days + 4) % 7

advance_to(election_start_time, base_time) ==
  ((election_start_time \div day_seconds - weekday(base_time \div day_seconds)) % 7) * day_seconds
    + (election_start_time % day_seconds) - (base_time % day_seconds)

\* Mutant: when the time of the day has passed, the moment is an earlier one.
Mut_get_election_time(election_start_time, base_time) == base_time + advance_to(election_start_time, base_time)

get_election_time(election_start_time, base_time) ==
  LET advance == advance_to(election_start_time, base_time)
  IN  base_time + IF advance < 0 THEN advance + 7 * day_seconds ELSE advance

=============================================================================
