------------------------------ MODULE Meetings ------------------------------
(***************************************************************************)
(* The meetings of election groups: data encrypted for the members of a    *)
(* group (contracts/eden/src/encrypt.cpp, actions/encrypt.cpp,             *)
(* electmeeting in actions/elect.cpp, get_group_id and get_group_members   *)
(* in elections.cpp, check_keys and set_key in members.cpp), while         *)
(* Elections runs one election after another.  The membership is fixed:    *)
(* nobody resigns or is renamed while groups meet (Elections), and whoever *)
(* is inducted has no key yet.                                             *)
(*                                                                         *)
(* The encryption itself happens in the browser.  A key is a number, 0     *)
(* for none; the keys that come with the data are given by how often each  *)
(* is listed, which is what comparing the sorted lists comes to.           *)
(***************************************************************************)
EXTENDS Elections

CONSTANTS
  Keys,        \* the keys a member may publish
  Data,        \* what may be stored for a meeting
  KeyHolders   \* bound: the accounts that publish keys

VARIABLES
  keys,        \* member table: the encryption key of each member
  encrypted    \* scope "election": id -> [keys, data, group], group being a history of
               \* whom the data was stored for

meeting_vars == <<vars, keys, encrypted>>

no_key == 0
no_data == 0

-----------------------------------------------------------------------------
(***************************************************************************)
(* Groups.  An id is round << 16 | group.                                  *)
(***************************************************************************)
check_active(s) == s.type = "active" /\ s.left > 0

group_id(voter) == <<state.round, member_index_to_group(state.config, vote[voter].index)>>

\* The index bygroup: round << 16 | index.
bygroup(r, index) == r * 65536 + index

\* The rows from the group's first index on, until one of another group.
get_group_members(id) ==
  LET from   == bygroup(id[1], group_to_first_member_index(state.config, id[2]))
      onward == {m \in DOMAIN vote : bygroup(vote[m].round, vote[m].index) >= from}
      others == {m \in onward : member_index_to_group(state.config, vote[m].index) # id[2]}
  IN  {m \in onward : \A x \in others :
         bygroup(vote[m].round, vote[m].index) < bygroup(vote[x].round, vote[x].index)}

expected_keys(accounts) ==
  [k \in {keys[a] : a \in accounts} \ {no_key} |-> Cardinality({a \in accounts : keys[a] = k})]

check_keys(accounts, given) == given = expected_keys(accounts)

-----------------------------------------------------------------------------
(***************************************************************************)
(* The table of encrypted data.                                            *)
(***************************************************************************)
set(id, row, old_data) ==
  /\ IF id \notin DOMAIN encrypted THEN old_data = no_data ELSE old_data = encrypted[id].data
  /\ encrypted' = [x \in DOMAIN encrypted \cup {id} |-> IF x = id THEN row ELSE encrypted[x]]

\* Mutant: the data of the group with the next number is erased.
Mut_erase(id) == encrypted' = [x \in DOMAIN encrypted \ {<<id[1], id[2] + 1>>} |-> encrypted[x]]

erase(id) == encrypted' = [x \in DOMAIN encrypted \ {id} |-> encrypted[x]]

-----------------------------------------------------------------------------
(***************************************************************************)
(* Actions.                                                                *)
(***************************************************************************)
setencpubkey(m, key) ==
  /\ m \in DOMAIN member
  /\ keys' = [keys EXCEPT ![m] = key]
  /\ UNCHANGED <<vars, encrypted>>

electmeeting(account, round, given, data, old_data) ==
  /\ check_active(state) /\ round = state.round
  /\ account \in rows(vote, state.round)
  /\ LET group == get_group_members(group_id(account))
     IN  /\ group \subseteq DOMAIN member
         /\ check_keys(group, given)
         /\ set(group_id(account), [keys |-> given, data |-> data, group |-> group], old_data)
  /\ UNCHANGED <<vars, keys>>

\* finish_round erases the data of a group before it counts its votes.
counts_group(pos) ==
  LET s == counted_round
  IN  /\ finish_group(pos)
      /\ erase(<<s.prev_round, member_index_to_group(s.prev_config, s.next_input_index)>>)
      /\ UNCHANGED keys

\* What leaves the table alone.
elections_step ==
  \/ \E m \in Member : electopt(m, TRUE)
  \/ \E m, c \in Member : electvote(m, c)
  \/ \E hash \in 0..(NumHashes - 1) : electseed(hash)
  \/ start_election
  \/ distribute_first
  \/ \E m \in DOMAIN member : \E pos \in 0..Cardinality(DOMAIN vote) : randomize_voter(m, pos)
  \/ report_first_round
  \/ open_first_round
  \/ finish_without_rounds
  \/ report_next_round
  \/ open_next_round
  \/ \E m \in DOMAIN vote : finish_with_seed(m)
  \/ Tick

-----------------------------------------------------------------------------
MeetingsInit ==
  /\ state = registration(SeedingWindow + 1, never, 1) /\ dateSet = TRUE
  /\ vote = << >>
  /\ member = [m \in Member |-> new_member]
  /\ ranks = << >>
  /\ elect = [lead_representative |-> 0, board |-> {}]
  /\ paying = FALSE
  /\ entrants = {}
  /\ keys = [m \in Member |-> no_key]
  /\ encrypted = << >>

MeetingsNext ==
  \/ elections_step /\ UNCHANGED <<keys, encrypted>>
  \/ \E pos \in 0..Cardinality(DOMAIN vote) : counts_group(pos)
  \/ \E m \in KeyHolders, k \in Keys : setencpubkey(m, k)
  \/ \E m \in DOMAIN vote, data \in Data, old_data \in Data \cup {no_data} :
       /\ check_active(state)
       /\ electmeeting(m, state.round, expected_keys(get_group_members(group_id(m))), data, old_data)

MeetingsSpec == MeetingsInit /\ [][MeetingsNext]_meeting_vars

-----------------------------------------------------------------------------
\* What is stored for a meeting is for the group that meets: each row belongs to a group of
\* the round in progress that has not been counted yet, and was encrypted for exactly the
\* members that are in it.  So no row outlives its group, though groups are counted and
\* erased one at a time by different calls, and none is there when a later round or the next
\* election gives its number to another group, which could not replace it unseen.
MeetingsOfGroups ==
  \A id \in DOMAIN encrypted :
    LET s == counted_round
        c == IF counting THEN s.prev_config ELSE s.config
        r == IF counting THEN s.prev_round ELSE s.round
    IN  /\ s.type \in {"active", "post_round"} /\ id[1] = r
        /\ encrypted[id].group # {}
        /\ encrypted[id].group = {m \in rows(vote, r) : member_index_to_group(c, vote[m].index) = id[2]}

=============================================================================
