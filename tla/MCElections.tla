---------------------------- MODULE MCElections ----------------------------
(***************************************************************************)
(* Elections with a handful of members: either everything Elections does,  *)
(* or, with a fixed membership, the meetings of its groups as well.        *)
(***************************************************************************)
EXTENDS Meetings

\* The contract holds rounds of voting only with 12 or more voters.  SmallConfig keeps the
\* shape of its configurations (ConfigAssumption in Elections) and scales the groups down:
\* 3 voters have one round of voting.
SmallConfig(n) ==
  CASE n = 0 -> << >>
    [] n = 1 -> <<[num_participants |-> 1, num_groups |-> 1]>>
    [] n = 2 -> <<[num_participants |-> 2, num_groups |-> 1]>>
    [] n = 3 -> <<[num_participants |-> 3, num_groups |-> 2],
                  [num_participants |-> 2, num_groups |-> 1]>>

Undefined == {[num_participants |-> 0, num_groups |-> 0]}

VARIABLE meeting  \* which of the two is followed

MCInit ==
  \/ /\ meeting = FALSE /\ Init
     /\ keys = << >> /\ encrypted = << >>
  \/ /\ meeting = TRUE /\ MeetingsInit

MCNext ==
  /\ UNCHANGED meeting
  /\ \/ ~meeting /\ Next /\ UNCHANGED <<keys, encrypted>>
     \/ meeting /\ MeetingsNext

MCSpec == MCInit /\ [][MCNext]_<<meeting_vars, meeting>>

=============================================================================
