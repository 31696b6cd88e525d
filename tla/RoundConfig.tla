---------------------------- MODULE RoundConfig ----------------------------
(***************************************************************************)
(* One round of an Eden election (contracts/eden/include/elections.hpp,    *)
(* struct election_round_config): num_participants voters numbered from 0  *)
(* are cut into num_groups consecutive groups, the larger ones first.      *)
(* Pure operators; Elections and ElectionConfig both extend this module.   *)
(***************************************************************************)
EXTENDS Integers

\* What the fields of an election_round_config range over, up to n voters.
RoundConfigs(n) == [num_participants : 0..n, num_groups : 0..n]

group_max_size(c) == (c.num_participants + c.num_groups - 1) \div c.num_groups

num_short_groups(c) == group_max_size(c) * c.num_groups - c.num_participants

num_large_groups(c) == c.num_groups - num_short_groups(c)

group_min_size(c) == group_max_size(c) - 1

\* Mutant: the first short group is walked as a large one.
Mut_group_size_at(c, i) ==
  group_min_size(c)
    + (IF i <= num_large_groups(c) * group_max_size(c) THEN 1 ELSE 0)

\* The size of the group that starts at index i, as prepare_election and
\* finish_round compute it while they walk over the groups of a round.
group_size_at(c, i) ==
  group_min_size(c)
    + (IF i < num_large_groups(c) * group_max_size(c) THEN 1 ELSE 0)

\* The group that the voter with index idx sits in.
member_index_to_group(c, idx) ==
  LET members_in_large == (group_min_size(c) + 1) * num_large_groups(c)
  IN  IF idx < members_in_large
      THEN idx \div (group_min_size(c) + 1)
      ELSE (idx - members_in_large) \div group_min_size(c) + num_large_groups(c)

\* The index of the first voter of a group.
group_to_first_member_index(c, group) ==
  LET members_in_large == (group_min_size(c) + 1) * num_large_groups(c)
  IN  IF group < num_large_groups(c)
      THEN group * (group_min_size(c) + 1)
      ELSE members_in_large + (group - num_large_groups(c)) * group_min_size(c)

=============================================================================
