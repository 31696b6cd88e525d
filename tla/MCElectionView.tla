--------------------------- MODULE MCElectionView ---------------------------
(***************************************************************************)
(* One election of up to four founders, with two rounds of voting, and     *)
(* what the micro chain shows of it.                                       *)
(***************************************************************************)
EXTENDS ElectionView

\* The contract holds rounds of voting only with 12 or more voters.  SmallConfig keeps the
\* shape of its configurations (ConfigAssumption in Elections) and scales the groups down:
\* 3 voters have one round of voting and 4 have two.
SmallConfig(n) ==
  CASE n = 0 -> << >>
    [] n = 1 -> <<[num_participants |-> 1, num_groups |-> 1]>>
    [] n = 2 -> <<[num_participants |-> 2, num_groups |-> 1]>>
    [] n = 3 -> <<[num_participants |-> 3, num_groups |-> 2],
                  [num_participants |-> 2, num_groups |-> 1]>>
    [] n = 4 -> <<[num_participants |-> 4, num_groups |-> 3],
                  [num_participants |-> 3, num_groups |-> 2],
                  [num_participants |-> 2, num_groups |-> 1]>>

Undefined == {[num_participants |-> 0, num_groups |-> 0]}

=============================================================================
