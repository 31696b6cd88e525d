-------------------------- MODULE Elections_proofs --------------------------
(***************************************************************************)
(* What holds of Elections for every membership, every function            *)
(* make_election_config with its postconditions and all bounds.            *)
(* TypeOK and VotersNumbered are inductive together: TypeOK needs          *)
(* VotersNumbered because the walks over groups find rows only where       *)
(* voters are numbered, and VotersNumbered needs TypeOK for what the rows  *)
(* contain. With them, three more strengthenings are inductive, each on    *)
(* its own: EInv for EntrantsAreVoters, GInv for VotesWithinGroup and KInv *)
(* for RanksKept.                                                          *)
(*                                                                         *)
(* The last part is about Meetings.  Every step of it is one of Elections  *)
(* or leaves the election alone, so what is shown of the numbering of      *)
(* voters and of the walk over the groups holds there as well.  With it    *)
(* MeetingsOfGroups is inductive.                                          *)
(***************************************************************************)
EXTENDS Meetings, FiniteSetTheorems, TLAPS

IInv == TypeOK /\ VotersNumbered

-----------------------------------------------------------------------------
(***************************************************************************)
(* Constants.                                                              *)
(***************************************************************************)
\* Every set of accounts is finite, so it has a cardinality.
LEMMA MembersCounted ==
  ASSUME NEW S, S \subseteq Member
  PROVE  IsFiniteSet(S) /\ Cardinality(S) \in Nat
<1>1. IsFiniteSet(S)
  BY FS_Subset, ConstantsAssumption
<1> QED
  BY <1>1, FS_CardinalityType

\* The walk over the groups of a round never goes backwards.
LEMMA GroupSizeNat ==
  ASSUME NEW c \in Configs, NEW i \in Nat, c.num_groups > 0, c.num_participants > 0
  PROVE  group_size_at(c, i) \in Nat
<1> DEFINE p == c.num_participants
           g == c.num_groups
           mx == (p + g - 1) \div g
<1>1. p \in Nat /\ g \in Nat /\ p > 0 /\ g > 0
  BY ConstantsAssumption DEF Configs, RoundConfigs
<1> HIDE DEF p, g
<1>2. mx \in Int /\ p + g - 1 >= g * mx /\ p + g - 1 < g * (mx + 1)
  BY <1>1
<1>3. mx >= 1
  <2>1. SUFFICES ASSUME mx < 1 PROVE FALSE
    BY <1>2
  <2>2. g * (mx + 1) <= g
    BY <2>1, <1>1, <1>2
  <2> QED
    BY <2>2, <1>1, <1>2
<1>4. mx - 1 \in Nat
  BY <1>2, <1>3
<1> QED
  BY <1>4 DEF group_size_at, group_min_size, group_max_size, mx, p, g

-----------------------------------------------------------------------------
(***************************************************************************)
(* Votes.                                                                  *)
(***************************************************************************)
\* add_voter is a step of a shuffle: n voters numbered from 0 become n + 1.
LEMMA AddVoterNumbered ==
  ASSUME NEW v, v \in [DOMAIN v -> VoteRows],
         NEW round \in 0..(RoundLimit - 1), NEW n \in Nat,
         NEW m, NEW pos \in 0..n,
         numbered(v, round, 0, n),
         can_add_voter(v, round, n, m, pos)
  PROVE  /\ rows(add_voter(v, round, n, m, pos), round) = rows(v, round) \cup {m}
         /\ numbered(add_voter(v, round, n, m, pos), round, 0, n + 1)
<1> DEFINE w == add_voter(v, round, n, m, pos)
           old == row_at(v, round, pos)
<1>1. \A x \in DOMAIN v : v[x].index \in Nat /\ v[x].round \in Int
  BY ConstantsAssumption DEF VoteRows, Indices
<1>2. pos # n => old \in rows(v, round) /\ v[old].index = pos
  BY DEF can_add_voter, row_at
<1>3. m \notin DOMAIN v
  BY DEF can_add_voter
<1>4. DOMAIN w = DOMAIN v \cup {m} /\ w[m].round = round /\ w[m].index = pos
  BY DEF add_voter
<1>5. ASSUME NEW x \in DOMAIN v
      PROVE  /\ w[x].round = v[x].round
             /\ w[x].index = IF pos # n /\ x = old THEN n ELSE v[x].index
  <2>1. w[x] = IF pos # n /\ x = old THEN [v[x] EXCEPT !.index = n] ELSE v[x]
    BY <1>3 DEF add_voter
  <2>2. v[x] \in VoteRows
    OBVIOUS
  <2> QED
    BY <2>1, <2>2 DEF VoteRows
<1> HIDE DEF w, old
<1>6. rows(w, round) = rows(v, round) \cup {m}
  BY <1>3, <1>4, <1>5 DEF rows
<1>7. \A x \in rows(v, round) : x \in DOMAIN v /\ x # m
  BY <1>3 DEF rows
<1>8. numbered(w, round, 0, n + 1)
  <2>1. \A x \in rows(w, round) : 0 <= w[x].index /\ w[x].index < n + 1
    BY <1>1, <1>4, <1>5, <1>6, <1>7 DEF numbered
  <2>2. ASSUME NEW i \in 0..(n + 1 - 1)
        PROVE  \E x \in rows(w, round) : w[x].index = i
    <3>1. CASE i = pos
      BY <3>1, <1>4, <1>6
    <3>2. CASE i # pos /\ i = n
      BY <3>2, <1>2, <1>5, <1>6, <1>7
    <3>3. CASE i # pos /\ i # n
      <4>1. PICK x \in rows(v, round) : v[x].index = i
        BY <3>3 DEF numbered
      <4>2. w[x].index = i
        BY <4>1, <3>3, <1>2, <1>5, <1>7
      <4> QED
        BY <4>1, <4>2, <1>6
    <3> QED
      BY <3>1, <3>2, <3>3
  <2>3. ASSUME NEW x \in rows(w, round), NEW y \in rows(w, round), w[x].index = w[y].index
        PROVE  x = y
    <3>1. CASE x = m /\ y = m
      BY <3>1
    <3>2. CASE x = m /\ y # m
      BY <3>2, <2>3, <1>1, <1>2, <1>4, <1>5, <1>6, <1>7 DEF numbered
    <3>3. CASE x # m /\ y = m
      BY <3>3, <2>3, <1>1, <1>2, <1>4, <1>5, <1>6, <1>7 DEF numbered
    <3>4. CASE x # m /\ y # m
      BY <3>4, <2>3, <1>1, <1>2, <1>5, <1>6, <1>7 DEF numbered
    <3> QED
      BY <3>1, <3>2, <3>3, <3>4
  <2> QED
    BY <2>1, <2>2, <2>3 DEF numbered
<1> QED
  BY <1>6, <1>8 DEF w

\* add_voter leaves the rows of other rounds alone.
LEMMA AddVoterOthers ==
  ASSUME NEW v, NEW round, NEW n, NEW m, NEW pos, NEW x \in DOMAIN v,
         v[x].round # round,
         can_add_voter(v, round, n, m, pos)
  PROVE  add_voter(v, round, n, m, pos)[x] = v[x]
  BY DEF add_voter, row_at, rows, can_add_voter

\* The rows that add_voter leaves behind.
LEMMA AddVoterType ==
  ASSUME NEW S, NEW v \in [S -> VoteRows],
         NEW round \in 0..(RoundLimit - 1), NEW n \in Nat, n < max_active_members,
         NEW m, NEW pos \in 0..n,
         can_add_voter(v, round, n, m, pos)
  PROVE  add_voter(v, round, n, m, pos) \in [S \cup {m} -> VoteRows]
<1> DEFINE w == add_voter(v, round, n, m, pos)
<1>1. DOMAIN w = S \cup {m}
  BY DEF add_voter
<1>2. ASSUME NEW x \in S \cup {m}
      PROVE  w[x] \in VoteRows
  <2>1. CASE x = m
    BY <2>1, ConstantsAssumption DEF add_voter, VoteRows, Indices
  <2>2. CASE x # m
    <3>1. w[x] = v[x] \/ w[x] = [v[x] EXCEPT !.index = n]
      BY <2>2 DEF add_voter
    <3>2. v[x] \in VoteRows
      BY <2>2
    <3> QED
      BY <3>1, <3>2, ConstantsAssumption DEF VoteRows, Indices
  <2> QED
    BY <2>1, <2>2
<1>3. w = [x \in DOMAIN w |-> w[x]]
  BY DEF add_voter
<1> QED
  BY <1>1, <1>2, <1>3

\* finish_group finds a winner among the candidates, or reports a number that is
\* no account's.
LEMMA GroupWinnerType ==
  ASSUME NEW votes, NEW first \in Member,
         \A m \in DOMAIN votes : votes[m] \in Member \cup {no_candidate}
  PROVE  /\ group_winner(votes, first) \in Int
         /\ group_winner(votes, first) > 0 => group_winner(votes, first) \in Member
<1>1. \A m \in Member : m \in Nat
  BY ConstantsAssumption
<1>2. CASE agreed_candidates(votes) = {}
  BY <1>1, <1>2 DEF group_winner, bitnot
<1>3. CASE agreed_candidates(votes) # {}
  <2>1. group_winner(votes, first) \in agreed_candidates(votes)
    BY <1>3 DEF group_winner
  <2>2. agreed_candidates(votes) \subseteq {votes[m] : m \in voted(votes)}
    BY DEF agreed_candidates
  <2>3. \A m \in voted(votes) : votes[m] \in Member
    BY DEF voted
  <2> QED
    BY <2>1, <2>2, <2>3, <1>1
<1> QED
  BY <1>2, <1>3

\* Rank statistics stay a sequence of numbers.
LEMMA AddRankType ==
  ASSUME NEW rs \in Seq(Int), NEW rank \in Nat, NEW k \in Int
  PROVE  add_rank(rs, rank, k) \in Seq(Int)
<1> DEFINE n == IF Len(rs) <= rank THEN rank + 1 ELSE Len(rs)
<1>1. n \in Nat
  OBVIOUS
<1>2. \A i \in 1..n : (IF i <= Len(rs) THEN rs[i] ELSE 0) \in Int
  OBVIOUS
<1>3. [i \in 1..n |-> (IF i <= Len(rs) THEN rs[i] ELSE 0) + (IF i = rank + 1 THEN k ELSE 0)]
        \in Seq(Int)
  BY <1>1, <1>2
<1> QED
  BY <1>3 DEF add_rank

\* members::set_rank keeps the rows of the member table and their types.
LEMMA SetRankType ==
  ASSUME NEW S, NEW tb \in [S -> MemberRows], NEW ms, NEW rank \in Nat, NEW rep \in Int
  PROVE  set_rank(tb, ms, rank, rep) \in [S -> MemberRows]
<1>1. [participation |-> 0, rank |-> rank, representative |-> rep] \in MemberRows
  BY ConstantsAssumption DEF MemberRows
<1> QED
  BY <1>1 DEF set_rank

-----------------------------------------------------------------------------
(***************************************************************************)
(* The alternatives of the state variant.                                  *)
(***************************************************************************)
\* A state of a given type has the fields of that type.
LEMMA StateFields ==
  ASSUME NEW s \in States
  PROVE  /\ s.type \in {"none", "pending_date", "registration", "seeding", "init_voters",
                        "active", "post_round", "final"}
         /\ s.type = "registration" =>
              s \in [type : {"registration"}, left : Nat, election_threshold : Nat,
                     election_schedule_version : Versions]
         /\ s.type = "seeding" =>
              s \in [type : {"seeding"}, seed : Nat, left : Nat,
                     election_schedule_version : Versions]
         /\ s.type = "init_voters" =>
              s \in [type : {"init_voters"}, next_member_idx : Indices,
                     last_processed : Nat, next_report_index : Nat,
                     election_schedule_version : Versions]
         /\ s.type = "active" =>
              s \in [type : {"active"}, round : 0..(RoundLimit - 1), config : Configs,
                     left : Nat]
         /\ s.type = "post_round" =>
              s \in [type : {"post_round"}, prev_round : 0..(RoundLimit - 1),
                     prev_config : Configs, next_input_index : Nat,
                     next_output_index : Indices, next_report_index : Nat]
         /\ s.type = "final" => s \in [type : {"final"}, seed : Nat, left : Nat]
  BY DEF States, no_state, pending_date

\* A default schedule is a registration, with the first version.
LEMMA DefaultElectionType ==
  ASSUME NEW n \in Nat, NEW s \in set_default_election(n)
  PROVE  s \in States /\ s.type = "registration"
<1> DEFINE wanted == n + (n + 9) \div 10
           threshold == min(max(wanted, min_election_threshold), max_active_members)
<1>1. wanted \in Nat
  OBVIOUS
<1>2. threshold \in Nat
  BY <1>1, ConstantsAssumption DEF min, max
<1>3. PICK left \in 0..DefaultLead : s = registration(left, threshold, 1)
  BY DEF set_default_election
<1>4. left \in Nat /\ 1 \in Versions
  BY ConstantsAssumption DEF Versions
<1> QED
  BY <1>2, <1>3, <1>4 DEF registration, States

\* A triggered election leaves a registration, the pending date or the state it found.
LEMMA TriggerElectionType ==
  ASSUME state \in States, NEW s \in trigger_election
  PROVE  s \in States /\ (s = state \/ s.type \in {"registration", "pending_date"})
<1>1. CASE ~dateSet
  BY <1>1 DEF trigger_election, States, pending_date
<1>2. CASE dateSet /\ state.type # "registration"
  BY <1>2 DEF trigger_election
<1>3. CASE dateSet /\ state.type = "registration" /\ s # state
  <2>1. PICK lead \in TriggerLead..(TriggerLead + Week),
             version \in {state.election_schedule_version + 1} \cap 1..(VersionLimit - 1) :
               s = registration(lead, never, version)
    BY <1>3 DEF trigger_election
  <2>2. lead \in Nat /\ never \in Nat /\ version \in Versions
    BY ConstantsAssumption DEF Versions, never
  <2> QED
    BY <2>1, <2>2 DEF registration, States
<1> QED
  BY <1>1, <1>2, <1>3

-----------------------------------------------------------------------------
(***************************************************************************)
(* Initial states, and the actions that leave the vote table alone.        *)
(***************************************************************************)
Idle == {"none", "pending_date", "registration", "seeding"}

\* Between elections the vote table is empty, whatever the schedule.
LEMMA IdleNumbered ==
  ASSUME VotersNumbered, state.type \in Idle, state'.type \in Idle, vote' = vote
  PROVE  VotersNumbered'
  BY DEF VotersNumbered, Idle

\* States that agree on the fields VotersNumbered looks at agree on VotersNumbered.
LEMMA SameIndicesNumbered ==
  ASSUME VotersNumbered, vote' = vote, state'.type = state.type,
         state.type = "init_voters" => state'.next_member_idx = state.next_member_idx,
         state.type = "active" =>
           state'.round = state.round /\ state'.config = state.config,
         state.type = "post_round" =>
           /\ state'.prev_round = state.prev_round
           /\ state'.prev_config = state.prev_config
           /\ state'.next_input_index = state.next_input_index
           /\ state'.next_output_index = state.next_output_index
  PROVE  VotersNumbered'
<1>1. \A r, lo, hi : numbered(vote', r, lo, hi) <=> numbered(vote, r, lo, hi)
  OBVIOUS
<1>2. CASE state.type = "post_round"
  BY <1>1, <1>2 DEF VotersNumbered, next_round
<1>3. CASE state.type # "post_round"
  BY <1>1, <1>3 DEF VotersNumbered
<1> QED
  BY <1>2, <1>3

\* There are no voters after genesis.
LEMMA InitIInv == Init => IInv
<1> SUFFICES ASSUME Init PROVE IInv
  OBVIOUS
<1>1. Cardinality(Founders) \in Nat
  BY MembersCounted, ConstantsAssumption
<1>2. state \in States /\ state.type \in Idle
  BY <1>1, DefaultElectionType DEF Init, States, no_state, Idle
<1>3. DOMAIN vote = {} /\ vote \in [DOMAIN vote -> VoteRows]
  BY DEF Init
<1>4. new_member \in MemberRows
  BY ConstantsAssumption DEF new_member, MemberRows, no_representative
<1>5. DOMAIN member \subseteq Member /\ member \in [DOMAIN member -> MemberRows]
  BY <1>4, ConstantsAssumption DEF Init
<1>6. elect \in [lead_representative : Member \cup {0}, board : SUBSET Member]
  BY DEF Init
<1>7. ranks \in Seq(Int) /\ entrants \subseteq Member
  BY DEF Init
<1>8. dateSet \in BOOLEAN /\ paying \in BOOLEAN
  BY Zenon DEF Init
<1>9. TypeOK
  BY <1>2, <1>3, <1>5, <1>6, <1>7, <1>8, ConstantsAssumption, Zenon DEF TypeOK
<1>10. VotersNumbered
  BY <1>2, <1>3 DEF VotersNumbered, Idle
<1> QED
  BY <1>9, <1>10 DEF IInv

\* A new schedule leaves the votes alone.
LEMMA electsettimeIInv ==
  ASSUME IInv, NEW left, electsettime(left)
  PROVE  IInv'
<1>1. state.type \in {"none", "registration"} /\ state'.type = "registration"
  BY DEF electsettime, registration
<1>2. state' \in States
  <2>1. left \in Nat /\ never \in Nat
    BY ConstantsAssumption DEF electsettime, never
  <2>2. state.type = "registration" => state.election_schedule_version \in Versions
    BY StateFields DEF IInv, TypeOK
  <2>3. PICK version \in Versions : state' = registration(left, never, version)
    BY <2>2, ConstantsAssumption DEF electsettime, Versions
  <2> QED
    BY <2>1, <2>3 DEF registration, States
<1>3. TypeOK'
  BY <1>2 DEF electsettime, IInv, TypeOK
<1>4. VotersNumbered'
  BY <1>1, IdleNumbered DEF electsettime, IInv, Idle
<1> QED
  BY <1>3, <1>4 DEF IInv

\* Setting the weekly time schedules an election and leaves the votes alone.
LEMMA electconfigIInv ==
  ASSUME IInv, electconfig
  PROVE  IInv'
<1>1. Cardinality(DOMAIN member) \in Nat
  BY MembersCounted DEF IInv, TypeOK
<1>2. CASE state.type = "none"
  <2>1. state' \in States /\ state'.type = "registration"
    BY <1>1, <1>2, DefaultElectionType DEF electconfig
  <2>2. TypeOK'
    BY <2>1 DEF electconfig, IInv, TypeOK
  <2>3. VotersNumbered'
    BY <1>2, <2>1, IdleNumbered DEF electconfig, IInv, Idle
  <2> QED
    BY <2>2, <2>3 DEF IInv
<1>3. CASE state.type # "none"
  BY <1>3, SameIndicesNumbered DEF electconfig, IInv, TypeOK
<1> QED
  BY <1>2, <1>3

\* Opting in or out changes one row of the member table.
LEMMA electoptIInv ==
  ASSUME IInv, NEW m \in Member, NEW participating \in BOOLEAN, electopt(m, participating)
  PROVE  IInv'
<1>1. state.election_schedule_version \in Versions
  BY StateFields DEF electopt, registration_open, IInv, TypeOK
<1>2. member' = [member EXCEPT ![m].participation =
                   IF participating THEN state.election_schedule_version ELSE 0]
  BY DEF electopt
<1>3. DOMAIN member' = DOMAIN member /\ member' \in [DOMAIN member -> MemberRows]
  <2>1. m \in DOMAIN member /\ member[m] \in MemberRows
    BY DEF electopt, IInv, TypeOK
  <2>2. (IF participating THEN state.election_schedule_version ELSE 0) \in 0..(VersionLimit - 1)
    BY <1>1, ConstantsAssumption DEF Versions
  <2>3. [member[m] EXCEPT !.participation =
           IF participating THEN state.election_schedule_version ELSE 0] \in MemberRows
    BY <2>1, <2>2 DEF MemberRows
  <2> QED
    BY <1>2, <2>1, <2>3 DEF IInv, TypeOK
<1>4. entrants' \subseteq Member
  BY DEF electopt, IInv, TypeOK
<1>5. TypeOK'
  BY <1>3, <1>4 DEF electopt, IInv, TypeOK
<1>6. VotersNumbered'
  BY SameIndicesNumbered DEF electopt, IInv
<1> QED
  BY <1>5, <1>6 DEF IInv

\* A new member has no vote.
LEMMA inductedIInv ==
  ASSUME IInv, NEW m \in Member, inducted(m)
  PROVE  IInv'
<1>1. new_member \in MemberRows
  BY ConstantsAssumption DEF new_member, MemberRows, no_representative
<1>2. /\ DOMAIN member' = DOMAIN member \cup {m}
      /\ member' \in [DOMAIN member \cup {m} -> MemberRows]
  BY <1>1 DEF inducted, IInv, TypeOK
<1>3. /\ state' \in States
      /\ state' = state \/ (state.type \in Idle /\ state'.type \in Idle)
  BY TriggerElectionType DEF inducted, IInv, TypeOK, Idle
<1>4. entrants' \subseteq Member
  BY DEF inducted, rescheduled, IInv, TypeOK
<1>5. TypeOK'
  BY <1>2, <1>3, <1>4 DEF inducted, IInv, TypeOK
<1>6. VotersNumbered'
  BY <1>3, IdleNumbered, SameIndicesNumbered DEF inducted, IInv
<1> QED
  BY <1>5, <1>6 DEF IInv

\* A resignation, possible between elections only, leaves the votes alone.
LEMMA resignIInv ==
  ASSUME IInv, NEW m \in Member, resign(m)
  PROVE  IInv'
<1>1. /\ DOMAIN member' = DOMAIN member \ {m}
      /\ member' \in [DOMAIN member \ {m} -> MemberRows]
  BY DEF resign, IInv, TypeOK
<1>2. state.type \in Idle
  BY StateFields DEF resign, is_election_running, IInv, TypeOK, Idle
<1>3. state' \in States /\ state'.type \in Idle
  BY <1>2, TriggerElectionType DEF resign, IInv, TypeOK, Idle
<1>4. ranks' \in Seq(Int)
  <2>1. ranks \in Seq(Int)
    BY DEF IInv, TypeOK
  <2>2. ASSUME NEW i PROVE [ranks EXCEPT ![i] = @ - 1] \in Seq(Int)
    <3>1. [ranks EXCEPT ![i] = @ - 1]
            = [j \in 1..Len(ranks) |-> IF j = i THEN ranks[j] - 1 ELSE ranks[j]]
      BY <2>1
    <3>2. \A j \in 1..Len(ranks) : ranks[j] \in Int
      BY <2>1
    <3>3. [j \in 1..Len(ranks) |-> IF j = i THEN ranks[j] - 1 ELSE ranks[j]] \in Seq(Int)
      BY <2>1, <3>2
    <3> QED
      BY <3>1, <3>3
  <2> QED
    BY <2>1, <2>2 DEF resign
<1>5. elect' \in [lead_representative : Member \cup {0}, board : SUBSET Member]
  BY DEF resign, IInv, TypeOK
<1>6. entrants' \subseteq Member
  BY DEF resign, rescheduled, IInv, TypeOK
<1>7. TypeOK'
  BY <1>1, <1>3, <1>4, <1>5, <1>6 DEF resign, IInv, TypeOK
<1>8. VotersNumbered'
  BY <1>2, <1>3, IdleNumbered DEF resign, IInv
<1> QED
  BY <1>7, <1>8 DEF IInv

\* A renaming, possible between elections only, leaves the votes alone.
LEMMA renameIInv ==
  ASSUME IInv, NEW m \in Member, NEW new \in Member, rename(m, new)
  PROVE  IInv'
<1> DEFINE renamed(x) == IF x = m THEN new ELSE x
           row(r) == [r EXCEPT !.representative =
                        IF @ = m /\ r.rank <= member[m].rank THEN new ELSE @]
<1>1. /\ DOMAIN member' = (DOMAIN member \ {m}) \cup {new}
      /\ member' \in [DOMAIN member' -> MemberRows]
  <2>1. member' = [x \in (DOMAIN member \ {m}) \cup {new} |->
                     row(member[IF x = new THEN m ELSE x])]
    BY DEF rename
  <2>2. ASSUME NEW r \in MemberRows PROVE row(r) \in MemberRows
    BY ConstantsAssumption DEF MemberRows
  <2>3. \A x \in (DOMAIN member \ {m}) \cup {new} :
          member[IF x = new THEN m ELSE x] \in MemberRows
    BY DEF rename, IInv, TypeOK
  <2> HIDE DEF row
  <2> QED
    BY <2>1, <2>2, <2>3
<1>2. elect' \in [lead_representative : Member \cup {0}, board : SUBSET Member]
  <2>1. elect' = [lead_representative |-> renamed(elect.lead_representative),
                  board |-> {renamed(x) : x \in elect.board}]
    BY DEF rename
  <2>2. elect \in [lead_representative : Member \cup {0}, board : SUBSET Member]
    BY DEF IInv, TypeOK
  <2> QED
    BY <2>1, <2>2
<1>3. entrants' \subseteq Member
  BY DEF rename, IInv, TypeOK
<1>4. DOMAIN member' \subseteq Member
  BY <1>1 DEF IInv, TypeOK
<1>5. TypeOK'
  BY <1>1, <1>2, <1>3, <1>4 DEF rename, IInv, TypeOK
<1>6. VotersNumbered'
  BY SameIndicesNumbered DEF rename, IInv
<1> QED
  BY <1>5, <1>6 DEF IInv

\* Seeding changes the state and no votes.
LEMMA electseedIInv ==
  ASSUME IInv, NEW hash \in 0..(NumHashes - 1), electseed(hash)
  PROVE  IInv'
<1>1. hash \in Nat
  BY ConstantsAssumption
<1>2. CASE state.type = "registration"
  <2>1. /\ state' = seeding(hash, state.left, state.election_schedule_version)
        /\ state.left \in Nat /\ state.election_schedule_version \in Versions
    BY <1>2, StateFields DEF electseed, IInv, TypeOK
  <2>2. state' \in States /\ state'.type = "seeding"
    BY <1>1, <2>1 DEF seeding, States
  <2>3. TypeOK'
    BY <2>2 DEF electseed, IInv, TypeOK
  <2>4. VotersNumbered'
    BY <1>2, <2>2, IdleNumbered DEF electseed, IInv, Idle
  <2> QED
    BY <2>3, <2>4 DEF IInv
<1>3. CASE state.type = "seeding"
  <2>1. /\ state' = [state EXCEPT !.seed = hash]
        /\ state \in [type : {"seeding"}, seed : Nat, left : Nat,
                      election_schedule_version : Versions]
    BY <1>3, StateFields DEF electseed, IInv, TypeOK
  <2>2. state' \in States /\ state'.type = "seeding"
    BY <1>1, <2>1 DEF States
  <2>3. TypeOK'
    BY <2>2 DEF electseed, IInv, TypeOK
  <2>4. VotersNumbered'
    BY <1>3, <2>2, IdleNumbered DEF electseed, IInv, Idle
  <2> QED
    BY <2>3, <2>4 DEF IInv
<1>4. CASE state.type = "final"
  <2>1. /\ state' = [state EXCEPT !.seed = hash]
        /\ state \in [type : {"final"}, seed : Nat, left : Nat]
    BY <1>4, StateFields DEF electseed, IInv, TypeOK
  <2>2. state' \in States /\ state'.type = "final"
    BY <1>1, <2>1 DEF States
  <2>3. TypeOK'
    BY <2>2 DEF electseed, IInv, TypeOK
  <2>4. VotersNumbered'
    BY <1>4, <2>2, SameIndicesNumbered DEF electseed, IInv
  <2> QED
    BY <2>3, <2>4 DEF IInv
<1> QED
  BY <1>2, <1>3, <1>4 DEF electseed

\* Numbering starts from an empty votes table.
LEMMA start_electionIInv ==
  ASSUME IInv, start_election
  PROVE  IInv'
<1>1. state.election_schedule_version \in Versions
  BY StateFields DEF start_election, IInv, TypeOK
<1>2. /\ state' \in States
      /\ state'.type = "init_voters" /\ state'.next_member_idx = 0
  BY <1>1, ConstantsAssumption DEF start_election, init_voters, States, Indices
<1>3. paying' \in BOOLEAN
  BY Zenon DEF start_election, IInv, TypeOK
<1>4. TypeOK'
  BY <1>2, <1>3 DEF start_election, IInv, TypeOK
<1>5. DOMAIN vote = {} /\ vote' = vote
  BY DEF start_election, IInv, VotersNumbered
<1>6. VotersNumbered'
  BY <1>2, <1>5 DEF VotersNumbered, rows, numbered
<1> QED
  BY <1>4, <1>6 DEF IInv

\* Distributions do not touch the votes.
LEMMA distributeIInv ==
  ASSUME IInv, distribute_first \/ distribute
  PROVE  IInv'
<1>1. paying' \in BOOLEAN
  BY Zenon DEF distribute_first, distribute, IInv, TypeOK
<1>2. UNCHANGED <<state, vote, member, ranks, elect, dateSet, entrants>>
  BY DEF distribute_first, distribute
<1>3. TypeOK'
  BY <1>1, <1>2 DEF IInv, TypeOK
<1>4. VotersNumbered'
  BY <1>2, SameIndicesNumbered DEF IInv
<1> QED
  BY <1>3, <1>4 DEF IInv

\* Time brings deadlines nearer.
LEMMA TickIInv ==
  ASSUME IInv, Tick
  PROVE  IInv'
<1>1. state' = [state EXCEPT !.left = state.left - 1] /\ state.left > 0
  BY DEF Tick
<1>2. state \in States
  BY DEF IInv, TypeOK
<1>3. state' \in States
  <2>1. CASE state.type = "registration"
    BY <1>1, <1>2, <2>1, StateFields DEF States
  <2>2. CASE state.type = "seeding"
    BY <1>1, <1>2, <2>2, StateFields DEF States
  <2>3. CASE state.type = "active"
    BY <1>1, <1>2, <2>3, StateFields DEF States
  <2>4. CASE state.type = "final"
    BY <1>1, <1>2, <2>4, StateFields DEF States
  <2> QED
    BY <2>1, <2>2, <2>3, <2>4 DEF Tick
<1>4. TypeOK'
  BY <1>3 DEF Tick, IInv, TypeOK
<1>5. /\ state'.type = state.type
      /\ state.type = "active" => state'.round = state.round /\ state'.config = state.config
  <2>1. state.type = "registration" => state'.type = state.type
    BY <1>1, <1>2, StateFields
  <2>2. state.type = "seeding" => state'.type = state.type
    BY <1>1, <1>2, StateFields
  <2>3. state.type = "active" =>
          /\ state'.type = state.type
          /\ state'.round = state.round /\ state'.config = state.config
    BY <1>1, <1>2, StateFields
  <2>4. state.type = "final" => state'.type = state.type
    BY <1>1, <1>2, StateFields
  <2> QED
    BY <2>1, <2>2, <2>3, <2>4 DEF Tick
<1>6. VotersNumbered'
  BY <1>5, SameIndicesNumbered DEF Tick, IInv
<1> QED
  BY <1>4, <1>6 DEF IInv

\* Only the candidate of a row changes.
LEMMA electvoteIInv ==
  ASSUME IInv, NEW voter \in Member, NEW candidate \in Member, electvote(voter, candidate)
  PROVE  IInv'
<1>1. vote' = [vote EXCEPT ![voter].candidate = candidate] /\ voter \in DOMAIN vote
  BY DEF electvote, rows
<1>2. vote \in [DOMAIN vote -> VoteRows] /\ DOMAIN vote \subseteq Member
  BY DEF IInv, TypeOK
<1>3. vote[voter] \in VoteRows
  BY <1>1, <1>2
<1>4. [vote[voter] EXCEPT !.candidate = candidate] \in VoteRows
  BY <1>3 DEF VoteRows
<1>5. DOMAIN vote' = DOMAIN vote /\ vote' \in [DOMAIN vote -> VoteRows]
  BY <1>1, <1>2, <1>4
<1>6. \A x \in DOMAIN vote : vote'[x].round = vote[x].round /\ vote'[x].index = vote[x].index
  BY <1>1, <1>2, <1>3 DEF VoteRows
<1>7. rows(vote', state.round) = rows(vote, state.round)
  BY <1>5, <1>6 DEF rows
<1>8. \A lo, hi : numbered(vote, state.round, lo, hi) => numbered(vote', state.round, lo, hi)
  <2> SUFFICES ASSUME NEW lo, NEW hi, numbered(vote, state.round, lo, hi)
               PROVE  numbered(vote', state.round, lo, hi)
    OBVIOUS
  <2>1. \A x \in rows(vote, state.round) : vote'[x].index = vote[x].index
    BY <1>6 DEF rows
  <2> QED
    BY <1>7, <2>1 DEF numbered
<1>9. TypeOK'
  BY <1>2, <1>5 DEF electvote, IInv, TypeOK
<1>10. VotersNumbered'
  BY <1>5, <1>7, <1>8 DEF electvote, IInv, VotersNumbered
<1> QED
  BY <1>9, <1>10 DEF IInv

-----------------------------------------------------------------------------
(***************************************************************************)
(* electprocess, the first round.                                          *)
(***************************************************************************)
\* A round that make_election_config returns for n voters has n voters in at least
\* one group.
LEMMA FirstConfig ==
  ASSUME NEW n \in 1..max_active_members
  PROVE  /\ make_election_config(n)[1] \in Configs
         /\ make_election_config(n)[1].num_participants = n
         /\ make_election_config(n)[1].num_groups > 0
         /\ \A i \in Nat : group_size_at(make_election_config(n)[1], i) \in Nat
<1>1. make_election_config(n)[1] \in Configs
  BY ConfigAssumption DEF Configs
<1>2. /\ make_election_config(n)[1].num_participants = n
      /\ make_election_config(n)[1].num_groups > 0
  BY ConfigAssumption, ConstantsAssumption
<1>3. n > 0
  BY ConstantsAssumption
<1> QED
  BY <1>1, <1>2, <1>3, GroupSizeNat

\* A member that has opted in is added by a step of the shuffle, any other is passed over.
LEMMA randomize_voterIInv ==
  ASSUME IInv, NEW m \in DOMAIN member, NEW pos, randomize_voter(m, pos)
  PROVE  IInv'
<1> DEFINE n == state.next_member_idx
<1>1. /\ state \in [type : {"init_voters"}, next_member_idx : Indices,
                    last_processed : Nat, next_report_index : Nat,
                    election_schedule_version : Versions]
      /\ n \in Nat
  BY StateFields, ConstantsAssumption DEF randomize_voter, IInv, TypeOK, Indices
<1>2. m \in Member /\ m \in Nat
  BY ConstantsAssumption DEF IInv, TypeOK
<1>3. /\ vote \in [DOMAIN vote -> VoteRows]
      /\ DOMAIN vote = rows(vote, 0) /\ numbered(vote, 0, 0, n)
  BY <1>1 DEF IInv, TypeOK, VotersNumbered
<1> HIDE DEF n
<1>4. CASE member[m].participation = state.election_schedule_version
  <2>1. /\ n < max_active_members /\ pos \in 0..n
        /\ can_add_voter(vote, 0, n, m, pos)
        /\ vote' = add_voter(vote, 0, n, m, pos)
        /\ state' = [state EXCEPT !.next_member_idx = n + 1, !.last_processed = m]
        /\ UNCHANGED <<member, ranks, elect, dateSet, paying, entrants>>
    BY <1>4 DEF randomize_voter, n
  <2>2. 0 \in 0..(RoundLimit - 1)
    BY ConstantsAssumption
  <2>3. /\ DOMAIN vote' = DOMAIN vote \cup {m}
        /\ vote' \in [DOMAIN vote' -> VoteRows]
    <3>1. add_voter(vote, 0, n, m, pos) \in [DOMAIN vote \cup {m} -> VoteRows]
      BY <1>1, <1>3, <2>1, <2>2, AddVoterType
    <3> QED
      BY <2>1, <3>1
  <2>4. rows(vote', 0) = DOMAIN vote' /\ numbered(vote', 0, 0, n + 1)
    <3>1. /\ rows(add_voter(vote, 0, n, m, pos), 0) = rows(vote, 0) \cup {m}
          /\ numbered(add_voter(vote, 0, n, m, pos), 0, 0, n + 1)
      BY <1>1, <1>3, <2>1, <2>2, AddVoterNumbered
    <3> QED
      BY <1>3, <2>1, <2>3, <3>1
  <2>5. state' \in States /\ state'.type = "init_voters" /\ state'.next_member_idx = n + 1
    <3>1. n + 1 \in Indices
      BY <1>1, <2>1, ConstantsAssumption DEF Indices
    <3> QED
      BY <1>1, <1>2, <2>1, <3>1 DEF States
  <2>6. TypeOK'
    BY <1>2, <2>1, <2>3, <2>5 DEF IInv, TypeOK
  <2>7. VotersNumbered'
    BY <2>4, <2>5 DEF VotersNumbered
  <2> QED
    BY <2>6, <2>7 DEF IInv
<1>5. CASE member[m].participation # state.election_schedule_version
  <2>1. /\ member' = set_rank(member, {m}, 0, no_representative)
        /\ state' = [state EXCEPT !.last_processed = m]
        /\ UNCHANGED <<vote, ranks, elect, dateSet, paying, entrants>>
    BY <1>5 DEF randomize_voter
  <2>2. DOMAIN member' = DOMAIN member /\ member' \in [DOMAIN member -> MemberRows]
    <3>1. no_representative \in Int /\ 0 \in Nat
      BY DEF no_representative
    <3>2. member \in [DOMAIN member -> MemberRows]
      BY DEF IInv, TypeOK
    <3> QED
      BY <2>1, <3>1, <3>2, SetRankType
  <2>3. state' \in States /\ state'.type = "init_voters" /\ state'.next_member_idx = n
    BY <1>1, <1>2, <2>1 DEF States, n
  <2>4. TypeOK'
    BY <2>1, <2>2, <2>3 DEF IInv, TypeOK
  <2>5. VotersNumbered'
    BY <1>1, <2>1, <2>3, SameIndicesNumbered DEF IInv, n
  <2> QED
    BY <2>4, <2>5 DEF IInv
<1> QED
  BY <1>4, <1>5

\* Reporting counts groups.
LEMMA report_first_roundIInv ==
  ASSUME IInv, report_first_round
  PROVE  IInv'
<1> DEFINE n == state.next_member_idx
           size == group_size_at(make_election_config(n)[1], state.next_report_index)
<1>1. /\ state \in [type : {"init_voters"}, next_member_idx : Indices,
                    last_processed : Nat, next_report_index : Nat,
                    election_schedule_version : Versions]
      /\ n \in 1..max_active_members
  BY StateFields, ConstantsAssumption
     DEF report_first_round, voters_ready, IInv, TypeOK, Indices
<1>2. size \in Nat
  BY <1>1, FirstConfig
<1>3. state' = [state EXCEPT !.next_report_index = state.next_report_index + size]
  BY DEF report_first_round
<1> HIDE DEF size
<1>4. state' \in States /\ state'.type = state.type /\ state'.next_member_idx = n
  BY <1>1, <1>2, <1>3 DEF States
<1>5. TypeOK'
  BY <1>4 DEF report_first_round, IInv, TypeOK
<1>6. VotersNumbered'
  BY <1>1, <1>4, SameIndicesNumbered DEF report_first_round, IInv
<1> QED
  BY <1>5, <1>6 DEF IInv

\* The voters numbered are those of the first round.
LEMMA open_first_roundIInv ==
  ASSUME IInv, open_first_round
  PROVE  IInv'
<1> DEFINE n == state.next_member_idx
           c == make_election_config(n)[1]
<1>1. state.type = "init_voters" /\ n \in 1..max_active_members
  BY StateFields, ConstantsAssumption
     DEF open_first_round, first_round_reported, voters_ready, IInv, TypeOK, Indices
<1>2. c \in Configs /\ c.num_participants = n /\ c.num_groups > 0
  BY <1>1, FirstConfig
<1>3. state' = active(0, c, RoundTime)
  BY DEF open_first_round
<1> HIDE DEF c
<1>4. state' \in States /\ state'.type = "active" /\ state'.round = 0 /\ state'.config = c
  BY <1>2, <1>3, ConstantsAssumption DEF active, States
<1>5. TypeOK'
  BY <1>4 DEF open_first_round, IInv, TypeOK
<1>6. VotersNumbered'
  BY <1>1, <1>2, <1>4 DEF open_first_round, IInv, VotersNumbered
<1> QED
  BY <1>5, <1>6 DEF IInv

\* The vote table is emptied and the next election scheduled.
LEMMA finish_electionIInv ==
  ASSUME IInv, NEW winner \in DOMAIN vote, finish_election(winner)
  PROVE  IInv'
<1> DEFINE board == DOMAIN vote
           round == Len(ranks)
<1>1. winner \in Member /\ winner \in Int /\ board \subseteq Member /\ round \in Nat
  BY ConstantsAssumption DEF IInv, TypeOK
<1>2. DOMAIN vote' = {} /\ vote' \in [DOMAIN vote' -> VoteRows]
  BY DEF finish_election, remove_rows
<1>3. elect' \in [lead_representative : Member \cup {0}, board : SUBSET Member]
  BY <1>1 DEF finish_election
<1>4. DOMAIN member' = DOMAIN member /\ member' \in [DOMAIN member -> MemberRows]
  <2> DEFINE tb == set_rank(member, board \ {winner}, round, winner)
  <2>1. tb \in [DOMAIN member -> MemberRows]
    BY <1>1, SetRankType DEF IInv, TypeOK
  <2>2. member' = set_rank(tb, {winner}, round + 1, winner)
    BY DEF finish_election
  <2> HIDE DEF tb, round
  <2>3. round + 1 \in Nat
    BY <1>1
  <2> QED
    BY <1>1, <2>1, <2>2, <2>3, SetRankType
<1>5. ranks' \in Seq(Int)
  <2> DEFINE k == Cardinality(board \ {winner})
  <2>1. k \in Int
    BY <1>1, MembersCounted
  <2>2. ranks' = add_rank(add_rank(ranks, round, k), round + 1, 1)
    BY DEF finish_election
  <2>3. add_rank(ranks, round, k) \in Seq(Int)
    BY <1>1, <2>1, AddRankType DEF IInv, TypeOK
  <2> HIDE DEF k, round
  <2> QED
    BY <1>1, <2>2, <2>3, AddRankType
<1>6. state' \in States /\ state'.type = "registration"
  <2>1. Cardinality(DOMAIN member) \in Nat
    BY MembersCounted DEF IInv, TypeOK
  <2> QED
    BY <2>1, DefaultElectionType DEF finish_election
<1>7. paying' \in BOOLEAN
  BY Zenon DEF finish_election, IInv, TypeOK
<1>8. entrants' \subseteq Member /\ dateSet' = dateSet
  BY DEF finish_election
<1>9. TypeOK'
  BY <1>2, <1>3, <1>4, <1>5, <1>6, <1>7, <1>8 DEF IInv, TypeOK
<1>10. VotersNumbered'
  BY <1>2, <1>6 DEF VotersNumbered
<1> QED
  BY <1>9, <1>10 DEF IInv

\* An election of one group ends without votes.
LEMMA finish_without_roundsIInv ==
  ASSUME IInv, finish_without_rounds
  PROVE  IInv'
<1>1. /\ state.type = "init_voters"
      /\ state.next_member_idx \in 1..max_active_members
  BY StateFields, ConstantsAssumption
     DEF finish_without_rounds, first_round_reported, voters_ready, IInv, TypeOK, Indices
<1>2. \E m \in rows(vote, 0) : vote[m].index = 0
  BY <1>1, ConstantsAssumption DEF IInv, VotersNumbered, numbered
<1>3. row_at(vote, 0, 0) \in DOMAIN vote
  BY <1>2 DEF row_at, rows
<1> QED
  BY <1>3, finish_electionIInv DEF finish_without_rounds

-----------------------------------------------------------------------------
(***************************************************************************)
(* electprocess, later rounds.                                             *)
(***************************************************************************)
PostRounds ==
  [type : {"post_round"}, prev_round : 0..(RoundLimit - 1), prev_config : Configs,
   next_input_index : Nat, next_output_index : Indices, next_report_index : Nat]

\* Rounds are counted modulo RoundLimit, but neighbours stay apart.
LEMMA NextRound ==
  ASSUME NEW s \in PostRounds
  PROVE  next_round(s) \in 0..(RoundLimit - 1) /\ next_round(s) # s.prev_round
<1>1. s.prev_round \in 0..(RoundLimit - 1) /\ RoundLimit \in Nat /\ RoundLimit > 1
  BY ConstantsAssumption DEF PostRounds
<1>2. CASE s.prev_round = RoundLimit - 1
  <2>1. (s.prev_round + 1) % RoundLimit = 0
    BY <1>1, <1>2
  <2> QED
    BY <1>1, <1>2, <2>1 DEF next_round
<1>3. CASE s.prev_round # RoundLimit - 1
  <2>1. (s.prev_round + 1) % RoundLimit = s.prev_round + 1
    BY <1>1, <1>3
  <2> QED
    BY <1>1, <1>3, <2>1 DEF next_round
<1> QED
  BY <1>2, <1>3

\* VotersNumbered of the round that finish_round is about to count, or counting.
LEMMA CountedRound ==
  ASSUME IInv, counting
  PROVE  LET s == counted_round
         IN  /\ s \in PostRounds
             /\ DOMAIN vote = rows(vote, s.prev_round) \cup rows(vote, next_round(s))
             /\ rows(vote, s.prev_round) # {} =>
                  /\ s.prev_config.num_groups > 0
                  /\ numbered(vote, s.prev_round, s.next_input_index,
                              s.prev_config.num_participants)
             /\ numbered(vote, next_round(s), 0, s.next_output_index)
<1>1. CASE state.type = "active" /\ state.left = 0
  <2>1. state \in [type : {"active"}, round : 0..(RoundLimit - 1), config : Configs,
                   left : Nat]
    BY <1>1, StateFields DEF IInv, TypeOK
  <2> DEFINE s == post_round(state.round, state.config, 0, 0, 0)
  <2>2. counted_round = s
    BY <1>1 DEF counted_round
  <2>3. s \in PostRounds
    BY <2>1, ConstantsAssumption DEF post_round, PostRounds, Indices
  <2>4. /\ s.prev_round = state.round /\ s.prev_config = state.config
        /\ s.next_input_index = 0 /\ s.next_output_index = 0
    BY DEF post_round
  <2>5. DOMAIN vote = rows(vote, s.prev_round)
    BY <1>1, <2>4 DEF IInv, VotersNumbered
  <2> HIDE DEF s
  <2>6. rows(vote, next_round(s)) = {}
    BY <2>3, <2>5, NextRound DEF rows
  <2>7. numbered(vote, next_round(s), 0, 0)
    BY <2>6 DEF numbered
  <2>8. rows(vote, s.prev_round) # {} =>
          /\ s.prev_config.num_groups > 0
          /\ numbered(vote, s.prev_round, 0, s.prev_config.num_participants)
    BY <1>1, <2>4, <2>5 DEF IInv, VotersNumbered
  <2> QED
    BY <2>2, <2>3, <2>4, <2>5, <2>6, <2>7, <2>8
<1>2. CASE ~(state.type = "active" /\ state.left = 0)
  <2>1. counted_round = state /\ state.type = "post_round"
    BY <1>2 DEF counting, counted_round
  <2>2. state \in PostRounds
    BY <2>1, StateFields DEF IInv, TypeOK, PostRounds
  <2> QED
    BY <2>1, <2>2 DEF IInv, VotersNumbered
<1> QED
  BY <1>1, <1>2

\* Reporting counts groups.
LEMMA report_next_roundIInv ==
  ASSUME IInv, report_next_round
  PROVE  IInv'
<1> DEFINE s == counted_round
           n == s.next_output_index
           size == group_size_at(make_election_config(n)[1], s.next_report_index)
<1>1. /\ s \in PostRounds
      /\ DOMAIN vote = rows(vote, s.prev_round) \cup rows(vote, next_round(s))
      /\ rows(vote, s.prev_round) = {}
      /\ numbered(vote, next_round(s), 0, n)
  BY CountedRound DEF report_next_round
<1>2. \E m \in rows(vote, next_round(s)) : TRUE
  BY DEF report_next_round
<1>3. /\ state' = [s EXCEPT !.next_report_index = s.next_report_index + size]
      /\ UNCHANGED <<vote, member, ranks, elect, dateSet, paying, entrants>>
  BY DEF report_next_round
<1> HIDE DEF s
<1>4. n \in 1..max_active_members
  <2>1. PICK m \in rows(vote, next_round(s)) : 0 <= vote[m].index /\ vote[m].index < n
    BY <1>1, <1>2 DEF numbered
  <2>2. vote[m].index \in Nat /\ n \in Indices
    BY <1>1, <2>1, ConstantsAssumption DEF IInv, TypeOK, VoteRows, Indices, rows, PostRounds
  <2> QED
    BY <2>1, <2>2, ConstantsAssumption DEF Indices
<1>5. size \in Nat
  BY <1>1, <1>4, FirstConfig DEF PostRounds
<1> HIDE DEF size
<1>6. /\ state' \in PostRounds
      /\ state'.prev_round = s.prev_round /\ state'.next_output_index = n
  BY <1>1, <1>3, <1>5 DEF PostRounds
<1>7. TypeOK'
  BY <1>3, <1>6 DEF IInv, TypeOK, States, PostRounds
<1>8. VotersNumbered'
  <2>1. state'.type = "post_round"
    BY <1>6 DEF PostRounds
  <2>2. next_round(state') = next_round(s)
    BY <1>6 DEF next_round
  <2> QED
    BY <1>1, <1>3, <1>6, <2>1, <2>2 DEF VotersNumbered
<1> QED
  BY <1>7, <1>8 DEF IInv

\* The winners numbered are the voters of the next round.
LEMMA open_next_roundIInv ==
  ASSUME IInv, open_next_round
  PROVE  IInv'
<1> DEFINE s == counted_round
           n == s.next_output_index
<1>1. /\ s \in PostRounds
      /\ DOMAIN vote = rows(vote, next_round(s))
      /\ numbered(vote, next_round(s), 0, n)
  BY CountedRound DEF open_next_round
<1>2. next_round(s) \in 0..(RoundLimit - 1)
  BY <1>1, NextRound
<1>3. n \in 0..max_active_members
  BY <1>1 DEF PostRounds, Indices
<1>4. UNCHANGED <<vote, member, ranks, elect, dateSet, paying, entrants>>
  BY DEF open_next_round
<1>5. CASE Len(make_election_config(n)) = 1
  <2>1. state' = final(no_hash, FinalWindow)
    BY <1>5 DEF open_next_round
  <2>2. state' \in States /\ state'.type = "final"
    BY <2>1, ConstantsAssumption DEF final, States, no_hash
  <2>3. n \in 1..max_active_members
    <3>1. make_election_config(0) = << >>
      BY ConfigAssumption
    <3>2. n # 0
      BY <1>5, <3>1
    <3> QED
      BY <1>3, <3>2, ConstantsAssumption
  <2> HIDE DEF s, n
  <2>4. TypeOK'
    BY <1>4, <2>2 DEF IInv, TypeOK
  <2>5. VotersNumbered'
    BY <1>1, <1>2, <1>4, <2>2, <2>3 DEF VotersNumbered
  <2> QED
    BY <2>4, <2>5 DEF IInv
<1>6. CASE Len(make_election_config(n)) # 1
  <2>1. PICK c \in (IF make_election_config(n) = << >> THEN UndefinedConfigs
                    ELSE {make_election_config(n)[1]}) :
               state' = active(next_round(s), c, RoundTime)
    BY <1>6 DEF open_next_round
  <2>2. c \in Configs /\ (n > 0 => c.num_groups > 0 /\ c.num_participants = n)
    <3>1. CASE n = 0
      BY <2>1, <3>1, ConfigAssumption, ConstantsAssumption DEF Configs
    <3>2. CASE n # 0
      <4>1. n \in 1..max_active_members
        BY <1>3, <3>2, ConstantsAssumption
      <4>2. c = make_election_config(n)[1]
        BY <2>1, <4>1, ConfigAssumption
      <4> QED
        BY <4>1, <4>2, FirstConfig
    <3> QED
      BY <3>1, <3>2
  <2> HIDE DEF s, n
  <2>3. /\ state' \in States /\ state'.type = "active"
        /\ state'.round = next_round(s) /\ state'.config = c
    BY <1>2, <2>1, <2>2, ConstantsAssumption DEF active, States
  <2>4. n = 0 => DOMAIN vote = {}
    <3>1. \A m \in DOMAIN vote : vote[m].index \in Int
      BY ConstantsAssumption DEF IInv, TypeOK, VoteRows, Indices
    <3> QED
      BY <1>1, <3>1 DEF numbered
  <2>5. TypeOK'
    BY <1>4, <2>3 DEF IInv, TypeOK
  <2>6. VotersNumbered'
    BY <1>1, <1>3, <1>4, <2>2, <2>3, <2>4 DEF VotersNumbered
  <2> QED
    BY <2>5, <2>6 DEF IInv
<1> QED
  BY <1>5, <1>6

\* Without the group that is counted its round is still numbered, from the next
\* group on, and the other rounds are as they were.
LEMMA EraseGroup ==
  ASSUME NEW S, NEW v \in [S -> VoteRows],
         NEW round, NEW lo \in Nat, NEW size \in Nat, NEW hi \in Nat,
         numbered(v, round, lo, hi)
  PROVE  LET w == remove_rows(v, rows_between(v, round, lo, lo + size))
         IN  /\ numbered(w, round, lo + size, hi)
             /\ rows(w, round) \subseteq rows(v, round)
             /\ \A r : r # round => rows(w, r) = rows(v, r)
             /\ DOMAIN w \subseteq S
             /\ w \in [DOMAIN w -> VoteRows]
             /\ \A x \in DOMAIN w : w[x] = v[x]
<1> DEFINE group == rows_between(v, round, lo, lo + size)
           w == remove_rows(v, group)
<1>1. DOMAIN w = S \ group /\ \A x \in S \ group : w[x] = v[x]
  BY DEF remove_rows
<1>2. w \in [DOMAIN w -> VoteRows]
  BY <1>1 DEF remove_rows
<1>3. \A x \in S : v[x].index \in Int
  BY ConstantsAssumption DEF VoteRows, Indices
<1>4. \A x \in rows(v, round) : x \in S
  BY DEF rows
<1>5. \A x : x \in group <=> /\ x \in rows(v, round)
                             /\ lo <= v[x].index /\ v[x].index < lo + size
  BY DEF rows_between
<1> HIDE DEF group, w
<1>6. \A x : x \in rows(w, round) <=> x \in rows(v, round) /\ x \notin group
  BY <1>1 DEF rows
<1>7. numbered(w, round, lo + size, hi)
  <2>1. \A x \in rows(w, round) : lo + size <= w[x].index /\ w[x].index < hi
    BY <1>1, <1>3, <1>4, <1>5, <1>6 DEF numbered
  <2>2. ASSUME NEW i \in (lo + size)..(hi - 1)
        PROVE  \E x \in rows(w, round) : w[x].index = i
    <3>1. PICK x \in rows(v, round) : v[x].index = i
      BY DEF numbered
    <3> QED
      BY <1>1, <1>4, <1>5, <1>6, <3>1
  <2>3. \A x, y \in rows(w, round) : w[x].index = w[y].index => x = y
    BY <1>1, <1>4, <1>6 DEF numbered
  <2> QED
    BY <2>1, <2>2, <2>3 DEF numbered
<1>8. \A r : r # round => rows(w, r) = rows(v, r)
  BY <1>1, <1>5 DEF rows
<1> QED
  BY <1>1, <1>2, <1>6, <1>7, <1>8 DEF w, group

\* Equal rows with equal indices are numbered alike.
LEMMA SameRowsNumbered ==
  ASSUME NEW v, NEW w, NEW round, NEW lo, NEW hi,
         rows(w, round) = rows(v, round),
         \A x \in rows(v, round) : w[x].index = v[x].index,
         numbered(v, round, lo, hi)
  PROVE  numbered(w, round, lo, hi)
  BY DEF numbered

\* One group is counted: its rows go, and its winner joins the next round.
LEMMA finish_groupIInv ==
  ASSUME IInv, NEW pos, finish_group(pos)
  PROVE  IInv'
<1> DEFINE s      == counted_round
           prev   == s.prev_round
           next   == next_round(s)
           lo     == s.next_input_index
           n      == s.next_output_index
           hi     == s.prev_config.num_participants
           size   == group_size_at(s.prev_config, lo)
           group  == rows_between(vote, prev, lo, lo + size)
           votes  == [m \in group |-> vote[m].candidate]
           first  == row_at(vote, prev, lo)
           winner == group_winner(votes, first)
           erased == remove_rows(vote, group)
<1>1. /\ IF winner > 0
         THEN /\ n < max_active_members
              /\ pos \in 0..n
              /\ can_add_voter(erased, next, n, winner, pos)
              /\ vote' = add_voter(erased, next, n, winner, pos)
         ELSE vote' = erased
      /\ state' = [s EXCEPT !.next_input_index = lo + size,
                            !.next_output_index = n + (IF winner > 0 THEN 1 ELSE 0)]
      /\ member' = set_rank(member, group \ {winner}, prev, winner)
      /\ ranks' = add_rank(ranks, prev, Cardinality(group \ {winner}))
      /\ UNCHANGED <<elect, dateSet, paying, entrants>>
      /\ rows(vote, prev) # {}
  BY DEF finish_group
<1>2. /\ s \in PostRounds
      /\ DOMAIN vote = rows(vote, prev) \cup rows(vote, next)
      /\ s.prev_config.num_groups > 0
      /\ numbered(vote, prev, lo, hi)
      /\ numbered(vote, next, 0, n)
  BY <1>1, CountedRound DEF finish_group
<1>3. /\ prev \in 0..(RoundLimit - 1) /\ next \in 0..(RoundLimit - 1) /\ prev # next
      /\ lo \in Nat /\ n \in Nat /\ n <= max_active_members
      /\ s.prev_config \in Configs /\ hi \in Nat
  BY <1>2, NextRound, ConstantsAssumption DEF PostRounds, Indices, Configs, RoundConfigs
<1>4. vote \in [DOMAIN vote -> VoteRows] /\ DOMAIN vote \subseteq Member
  BY DEF IInv, TypeOK
<1>5. first \in Member /\ lo < hi
  <2>1. PICK m \in rows(vote, prev) : lo <= vote[m].index /\ vote[m].index < hi
    BY <1>1, <1>2 DEF numbered
  <2>2. vote[m].index \in Int
    BY <1>4, ConstantsAssumption DEF rows, VoteRows, Indices
  <2>3. lo < hi
    BY <1>3, <2>1, <2>2
  <2>4. \E x \in rows(vote, prev) : vote[x].index = lo
    BY <1>2, <1>3, <2>3 DEF numbered
  <2>5. first \in rows(vote, prev)
    BY <2>4 DEF row_at
  <2> QED
    BY <1>4, <2>3, <2>5 DEF rows
<1>6. size \in Nat
  BY <1>2, <1>3, <1>5, GroupSizeNat
<1>7. group \subseteq Member /\ \A m \in DOMAIN votes : votes[m] \in Member \cup {no_candidate}
  BY <1>4 DEF rows_between, rows, VoteRows
<1>8. winner \in Int /\ (winner > 0 => winner \in Member)
  BY <1>5, <1>7, GroupWinnerType
<1>9. /\ numbered(erased, prev, lo + size, hi)
      /\ rows(erased, prev) \subseteq rows(vote, prev)
      /\ rows(erased, next) = rows(vote, next)
      /\ DOMAIN erased \subseteq DOMAIN vote
      /\ erased \in [DOMAIN erased -> VoteRows]
      /\ \A x \in DOMAIN erased : erased[x] = vote[x]
  BY <1>2, <1>3, <1>4, <1>6, EraseGroup
<1>10. numbered(erased, next, 0, n)
  <2>1. \A x \in rows(vote, next) : erased[x].index = vote[x].index
    BY <1>9 DEF rows
  <2> QED
    BY <1>2, <1>9, <2>1, SameRowsNumbered
<1>11. DOMAIN erased = rows(erased, prev) \cup rows(erased, next)
  BY <1>2, <1>9 DEF rows
<1>12. DOMAIN member' = DOMAIN member /\ member' \in [DOMAIN member -> MemberRows]
  <2>1. member \in [DOMAIN member -> MemberRows] /\ prev \in Nat
    BY <1>3 DEF IInv, TypeOK
  <2>2. member' = set_rank(member, group \ {winner}, prev, winner)
    BY <1>1
  <2> HIDE DEF group, winner, prev
  <2> QED
    BY <1>8, <2>1, <2>2, SetRankType
<1>13. ranks' \in Seq(Int)
  <2>1. group \ {winner} \subseteq Member
    BY <1>7
  <2>2. ranks \in Seq(Int) /\ prev \in Nat
    BY <1>3 DEF IInv, TypeOK
  <2>3. ranks' = add_rank(ranks, prev, Cardinality(group \ {winner}))
    BY <1>1
  <2> HIDE DEF group, winner, prev
  <2>4. Cardinality(group \ {winner}) \in Int
    BY <2>1, MembersCounted
  <2> QED
    BY <2>2, <2>3, <2>4, AddRankType
<1> HIDE DEF s, size, group, votes, first, winner, erased
<1>14. CASE winner > 0
  <2>1. /\ n < max_active_members /\ pos \in 0..n
        /\ can_add_voter(erased, next, n, winner, pos)
        /\ vote' = add_voter(erased, next, n, winner, pos)
        /\ state' = [s EXCEPT !.next_input_index = lo + size, !.next_output_index = n + 1]
    BY <1>1, <1>14
  <2>2. /\ state' \in PostRounds
        /\ state'.prev_round = prev /\ state'.prev_config = s.prev_config
        /\ state'.next_input_index = lo + size /\ state'.next_output_index = n + 1
    <3>1. lo + size \in Nat /\ n + 1 \in Indices
      BY <1>3, <1>6, <2>1, ConstantsAssumption DEF Indices
    <3> QED
      BY <1>2, <2>1, <3>1 DEF PostRounds
  <2>3. next_round(state') = next
    BY <2>2 DEF next_round
  <2> HIDE DEF next, prev, n, lo
  <2>4. /\ vote' \in [DOMAIN erased \cup {winner} -> VoteRows]
        /\ \A x \in DOMAIN erased : erased[x].round # next => vote'[x] = erased[x]
    <3>1. add_voter(erased, next, n, winner, pos) \in [DOMAIN erased \cup {winner} -> VoteRows]
      BY <1>3, <1>9, <2>1, AddVoterType
    <3>2. \A x \in DOMAIN erased :
            erased[x].round # next => add_voter(erased, next, n, winner, pos)[x] = erased[x]
      BY <2>1, AddVoterOthers
    <3> QED
      BY <2>1, <3>1, <3>2
  <2>5. /\ rows(vote', next) = rows(erased, next) \cup {winner}
        /\ numbered(vote', next, 0, n + 1)
    BY <1>3, <1>9, <1>10, <2>1, AddVoterNumbered
  <2>6. winner \notin DOMAIN erased
    BY <2>1 DEF can_add_voter
  <2>7. rows(vote', prev) = rows(erased, prev)
    BY <1>3, <2>4, <2>5, <2>6 DEF rows
  <2>8. numbered(vote', prev, lo + size, hi)
    <3>1. \A x \in rows(erased, prev) : vote'[x].index = erased[x].index
      BY <1>3, <2>4 DEF rows
    <3> QED
      BY <1>9, <2>7, <3>1, SameRowsNumbered
  <2>9. DOMAIN vote' = rows(vote', prev) \cup rows(vote', next)
    BY <1>11, <2>4, <2>5, <2>7
  <2>10. TypeOK'
    <3>1. DOMAIN vote' \subseteq Member /\ vote' \in [DOMAIN vote' -> VoteRows]
      BY <1>4, <1>8, <1>9, <1>14, <2>4
    <3>2. state' \in States
      BY <2>2 DEF States, PostRounds
    <3> QED
      BY <1>1, <1>12, <1>13, <3>1, <3>2 DEF IInv, TypeOK
  <2>11. VotersNumbered'
    <3>1. state'.type = "post_round"
      BY <2>2 DEF PostRounds
    <3> QED
      BY <1>2, <2>2, <2>3, <2>5, <2>8, <2>9, <3>1 DEF VotersNumbered
  <2> QED
    BY <2>10, <2>11 DEF IInv
<1>15. CASE ~(winner > 0)
  <2>1. /\ vote' = erased
        /\ state' = [s EXCEPT !.next_input_index = lo + size, !.next_output_index = n + 0]
    BY <1>1, <1>15
  <2>2. /\ state' \in PostRounds
        /\ state'.prev_round = prev /\ state'.prev_config = s.prev_config
        /\ state'.next_input_index = lo + size /\ state'.next_output_index = n
    <3>1. lo + size \in Nat /\ n + 0 = n
      BY <1>3, <1>6
    <3> QED
      BY <1>2, <2>1, <3>1 DEF PostRounds
  <2>3. next_round(state') = next
    BY <2>2 DEF next_round
  <2> HIDE DEF next, prev, n, lo
  <2>4. TypeOK'
    <3>1. DOMAIN vote' \subseteq Member /\ vote' \in [DOMAIN vote' -> VoteRows]
      BY <1>4, <1>9, <2>1
    <3>2. state' \in States
      BY <2>2 DEF States, PostRounds
    <3> QED
      BY <1>1, <1>12, <1>13, <3>1, <3>2 DEF IInv, TypeOK
  <2>5. VotersNumbered'
    <3>1. state'.type = "post_round"
      BY <2>2 DEF PostRounds
    <3> QED
      BY <1>2, <1>9, <1>10, <1>11, <2>1, <2>2, <2>3, <3>1 DEF VotersNumbered
  <2> QED
    BY <2>4, <2>5 DEF IInv
<1> QED
  BY <1>14, <1>15

-----------------------------------------------------------------------------
(***************************************************************************)
(* The theorems.                                                           *)
(***************************************************************************)
LEMMA NextIInv == IInv /\ [Next]_vars => IInv'
<1> SUFFICES ASSUME IInv, [Next]_vars PROVE IInv'
  OBVIOUS
<1>1. CASE \E left \in SeedingWindow..MaxLead : electsettime(left)
  BY <1>1, electsettimeIInv
<1>2. CASE electconfig
  BY <1>2, electconfigIInv
<1>3. CASE \E m \in Member, participating \in BOOLEAN : electopt(m, participating)
  BY <1>3, electoptIInv
<1>4. CASE \E m, c \in Member : electvote(m, c)
  BY <1>4, electvoteIInv
<1>5. CASE \E m \in Member : inducted(m)
  BY <1>5, inductedIInv
<1>6. CASE \E m \in Member : resign(m)
  BY <1>6, resignIInv
<1>7. CASE \E m, new \in Member : rename(m, new)
  BY <1>7, renameIInv
<1>8. CASE \E hash \in 0..(NumHashes - 1) : electseed(hash)
  BY <1>8, electseedIInv
<1>9. CASE electprocess
  <2>1. CASE start_election
    BY <2>1, start_electionIInv
  <2>2. CASE distribute_first
    BY <2>2, distributeIInv
  <2>3. CASE \E m \in DOMAIN member : \E pos \in 0..Cardinality(DOMAIN vote) :
               randomize_voter(m, pos)
    BY <2>3, randomize_voterIInv
  <2>4. CASE report_first_round
    BY <2>4, report_first_roundIInv
  <2>5. CASE open_first_round
    BY <2>5, open_first_roundIInv
  <2>6. CASE finish_without_rounds
    BY <2>6, finish_without_roundsIInv
  <2>7. CASE \E pos \in 0..Cardinality(DOMAIN vote) : finish_group(pos)
    BY <2>7, finish_groupIInv
  <2>8. CASE report_next_round
    BY <2>8, report_next_roundIInv
  <2>9. CASE open_next_round
    BY <2>9, open_next_roundIInv
  <2>10. CASE \E m \in DOMAIN vote : finish_with_seed(m)
    BY <2>10, finish_electionIInv DEF finish_with_seed
  <2> QED
    BY <1>9, <2>1, <2>2, <2>3, <2>4, <2>5, <2>6, <2>7, <2>8, <2>9, <2>10 DEF electprocess
<1>10. CASE distribute
  BY <1>10, distributeIInv
<1>11. CASE Tick
  BY <1>11, TickIInv
<1>12. CASE UNCHANGED vars
  BY <1>12, SameIndicesNumbered DEF vars, IInv, TypeOK
<1> QED
  BY <1>1, <1>2, <1>3, <1>4, <1>5, <1>6, <1>7, <1>8, <1>9, <1>10, <1>11, <1>12 DEF Next

\* In every behaviour of the election state machine the tables have the values
\* TypeOK lists: rounds and schedule versions never leave their bytes and no index
\* leaves the range of the membership.
THEOREM TypeCorrect == Spec => []TypeOK
<1>1. Spec => []IInv
  BY InitIInv, NextIInv, PTL DEF Spec
<1>2. IInv => TypeOK
  BY DEF IInv
<1> QED
  BY <1>1, <1>2, PTL

\* In every behaviour, whatever the votes, the shuffles and the order of actions,
\* voters are numbered without gaps or duplicates and vote rows are erased when
\* their round is counted.
THEOREM VotersStayNumbered == Spec => []VotersNumbered
<1>1. Spec => []IInv
  BY InitIInv, NextIInv, PTL DEF Spec
<1>2. IInv => VotersNumbered
  BY DEF IInv
<1> QED
  BY <1>1, <1>2, PTL

-----------------------------------------------------------------------------
(***************************************************************************)
(* Opt-ins.  EntrantsAreVoters is not inductive: a new schedule finds      *)
(* nobody opted in only because no row of the member table carries its     *)
(* version yet.  OptInsCurrent says where versions may still be found.     *)
(***************************************************************************)
OptInsCurrent ==
  /\ state.type = "none" => entrants = {}
  /\ state.type \in {"registration", "seeding"} =>
       \A m \in DOMAIN member : member[m].participation <= state.election_schedule_version
  /\ state.type = "init_voters" =>
       \A m \in DOMAIN member \ (DOMAIN vote \cup unprocessed) : member[m].participation = 0
  /\ state.type \in {"none", "active", "post_round", "final"} =>
       \A m \in DOMAIN member \ DOMAIN vote : member[m].participation = 0

EInv == EntrantsAreVoters /\ OptInsCurrent

\* The winner of a group voted for itself: without its own vote, which counts for the
\* whole group, no candidate exceeds the threshold.
LEMMA WinnerInGroup ==
  ASSUME NEW votes, IsFiniteSet(DOMAIN votes), NEW c \in agreed_candidates(votes)
  PROVE  c \in DOMAIN votes /\ votes[c] = c
<1> SUFFICES ASSUME ~(c \in DOMAIN votes /\ votes[c] = c) PROVE FALSE
  OBVIOUS
<1> DEFINE for == {m \in voted(votes) : votes[m] = c}
<1>1. voted(votes) \subseteq DOMAIN votes /\ for \subseteq voted(votes)
  BY DEF voted
<1>2. IsFiniteSet(voted(votes))
  BY <1>1, FS_Subset
<1>3. /\ Cardinality(for) \in Nat /\ Cardinality(for) <= Cardinality(voted(votes))
      /\ Cardinality(voted(votes)) \in Nat
      /\ Cardinality(voted(votes)) <= Cardinality(DOMAIN votes)
      /\ Cardinality(DOMAIN votes) \in Nat
  BY <1>1, <1>2, FS_Subset, FS_CardinalityType
<1>4. votes_by_candidate(votes, c) = Cardinality(for) + 0
  BY DEF votes_by_candidate
<1>5. 3 * votes_by_candidate(votes, c)
        > 2 * Cardinality(voted(votes)) + 3 * Cardinality(DOMAIN votes)
  BY DEF agreed_candidates
<1> HIDE DEF for
<1> QED
  BY <1>3, <1>4, <1>5

\* The version of a schedule is a positive number.
LEMMA ScheduleVersion ==
  ASSUME NEW s \in States, s.type \in {"registration", "seeding", "init_voters"}
  PROVE  s.election_schedule_version \in Nat /\ s.election_schedule_version > 0
<1>1. s.election_schedule_version \in Versions
  BY StateFields
<1> QED
  BY <1>1, ConstantsAssumption DEF Versions

\* States that agree on members, voters and the schedule agree on the entrants.
LEMMA SameEntrants ==
  ASSUME EInv, state'.type = state.type, member' = member, DOMAIN vote' = DOMAIN vote,
         entrants' = entrants,
         state.type \in {"registration", "seeding", "init_voters"} =>
           state'.election_schedule_version = state.election_schedule_version,
         state.type = "init_voters" => state'.last_processed = state.last_processed
  PROVE  EInv'
<1>1. state.type = "init_voters" => unprocessed' = unprocessed
  BY DEF unprocessed
<1>2. EntrantsAreVoters'
  <2>1. CASE state.type \in {"registration", "seeding"}
    BY <2>1 DEF EInv, EntrantsAreVoters
  <2>2. CASE state.type = "init_voters"
    BY <1>1, <2>2 DEF EInv, EntrantsAreVoters
  <2>3. CASE state.type \notin {"registration", "seeding", "init_voters"}
    BY <2>3 DEF EInv, EntrantsAreVoters
  <2> QED
    BY <2>1, <2>2, <2>3
<1>3. OptInsCurrent'
  BY <1>1 DEF EInv, OptInsCurrent
<1> QED
  BY <1>2, <1>3 DEF EInv

\* A schedule that nobody has opted in to yet.
LEMMA FreshSchedule ==
  ASSUME TypeOK', state'.type = "registration", entrants' = {},
         \A m \in DOMAIN member' : member'[m].participation < state'.election_schedule_version
  PROVE  EInv'
<1>1. /\ state'.election_schedule_version \in Int
      /\ \A m \in DOMAIN member' : member'[m].participation \in Int
  <2>1. state' \in States
    BY DEF TypeOK
  <2>2. state'.election_schedule_version \in Versions
    BY <2>1, StateFields
  <2>3. \A m \in DOMAIN member' : member'[m] \in MemberRows
    BY DEF TypeOK
  <2> QED
    BY <2>2, <2>3, ConstantsAssumption DEF Versions, MemberRows
<1>2. EntrantsAreVoters'
  BY <1>1 DEF EntrantsAreVoters
<1>3. OptInsCurrent'
  BY <1>1 DEF OptInsCurrent
<1> QED
  BY <1>2, <1>3 DEF EInv

\* Nobody has opted in after genesis.
LEMMA InitEInv == Init => EInv
<1> SUFFICES ASSUME Init PROVE EInv
  OBVIOUS
<1>1. /\ DOMAIN vote = {} /\ entrants = {}
      /\ \A m \in DOMAIN member : member[m].participation = 0
  BY DEF Init, new_member
<1>2. CASE state = no_state
  BY <1>1, <1>2 DEF no_state, EInv, EntrantsAreVoters, OptInsCurrent
<1>3. CASE state \in set_default_election(Cardinality(Founders))
  <2>1. state.type = "registration" /\ state.election_schedule_version = 1
    BY <1>3 DEF set_default_election, registration
  <2> QED
    BY <1>1, <2>1 DEF EInv, EntrantsAreVoters, OptInsCurrent
<1> QED
  BY <1>2, <1>3 DEF Init

\* A new date takes a version that no opt-in has.
LEMMA electsettimeEInv ==
  ASSUME IInv, IInv', EInv, NEW left, electsettime(left)
  PROVE  EInv'
<1>1. entrants' = {} /\ member' = member /\ vote' = vote
  BY DEF electsettime
<1>2. \A m \in DOMAIN member : member[m].participation \in Int
  BY ConstantsAssumption DEF IInv, TypeOK, MemberRows
<1>3. CASE state.type = "none"
  <2>1. state'.type = "registration" /\ state'.election_schedule_version = 1
    BY <1>3 DEF electsettime, registration
  <2>2. DOMAIN vote = {}
    BY <1>3 DEF IInv, VotersNumbered
  <2>3. \A m \in DOMAIN member : member[m].participation = 0
    BY <1>3, <2>2 DEF EInv, OptInsCurrent
  <2> QED
    BY <1>1, <2>1, <2>3, FreshSchedule DEF IInv
<1>4. CASE state.type # "none"
  <2>1. /\ state.type = "registration" /\ state'.type = "registration"
        /\ state'.election_schedule_version = state.election_schedule_version + 1
    BY <1>4 DEF electsettime, registration
  <2>2. state.election_schedule_version \in Int
    BY <2>1, ScheduleVersion DEF IInv, TypeOK
  <2>3. \A m \in DOMAIN member : member[m].participation <= state.election_schedule_version
    BY <2>1 DEF EInv, OptInsCurrent
  <2> QED
    BY <1>1, <1>2, <2>1, <2>2, <2>3, FreshSchedule DEF IInv
<1> QED
  BY <1>3, <1>4

\* The first schedule of all: nobody can have opted in before.
LEMMA electconfigEInv ==
  ASSUME IInv, IInv', EInv, electconfig
  PROVE  EInv'
<1>1. entrants' = entrants /\ member' = member /\ vote' = vote
  BY DEF electconfig
<1>2. CASE state.type = "none"
  <2>1. state'.type = "registration" /\ state'.election_schedule_version = 1
    BY <1>2 DEF electconfig, set_default_election, registration
  <2>2. DOMAIN vote = {}
    BY <1>2 DEF IInv, VotersNumbered
  <2>3. entrants = {} /\ \A m \in DOMAIN member : member[m].participation = 0
    BY <1>2, <2>2 DEF EInv, OptInsCurrent
  <2> QED
    BY <1>1, <2>1, <2>3, FreshSchedule DEF IInv
<1>3. CASE state.type # "none"
  BY <1>1, <1>3, SameEntrants DEF electconfig
<1> QED
  BY <1>2, <1>3

\* Opting in and out changes the version in one row, and the entrants with it.
LEMMA electoptEInv ==
  ASSUME IInv, EInv, NEW m \in Member, NEW participating \in BOOLEAN,
         electopt(m, participating)
  PROVE  EInv'
<1> DEFINE version == state.election_schedule_version
           mark == IF participating THEN version ELSE 0
<1>1. /\ state.type \in {"registration", "seeding"} /\ state' = state /\ vote' = vote
      /\ m \in DOMAIN member
      /\ member' = [member EXCEPT ![m].participation = mark]
      /\ entrants' = IF participating THEN entrants \cup {m} ELSE entrants \ {m}
  BY DEF electopt, registration_open
<1>2. version \in Nat /\ version > 0
  BY <1>1, ScheduleVersion DEF IInv, TypeOK
<1>3. mark \in Nat /\ mark <= version /\ (mark = version <=> participating)
  BY <1>2
<1>4. \A x \in DOMAIN member : member[x] \in MemberRows
  BY DEF IInv, TypeOK
<1>5. /\ DOMAIN member' = DOMAIN member
      /\ member'[m].participation = mark
      /\ \A x \in DOMAIN member \ {m} : member'[x] = member[x]
  BY <1>1, <1>4 DEF MemberRows
<1> HIDE DEF mark
<1>6. entrants = {x \in DOMAIN member : member[x].participation = version}
  BY <1>1 DEF EInv, EntrantsAreVoters
<1>7. \A x \in DOMAIN member : member[x].participation <= version
  BY <1>1 DEF EInv, OptInsCurrent
<1>8. entrants' = {x \in DOMAIN member' : member'[x].participation = version}
  BY <1>1, <1>3, <1>5, <1>6
<1>9. \A x \in DOMAIN member' : member'[x].participation <= version
  BY <1>3, <1>5, <1>7
<1>10. EntrantsAreVoters'
  BY <1>1, <1>8 DEF EntrantsAreVoters
<1>11. OptInsCurrent'
  BY <1>1, <1>9 DEF OptInsCurrent
<1> QED
  BY <1>10, <1>11 DEF EInv

\* What a triggered election does to the schedule.
LEMMA TriggeredVersion ==
  ASSUME NEW s \in trigger_election, state.type \in {"none", "pending_date", "registration"}
  PROVE  \/ s = state
         \/ s.type = "pending_date"
         \/ /\ state.type = "registration" /\ s.type = "registration"
            /\ s.election_schedule_version = state.election_schedule_version + 1
  BY DEF trigger_election, pending_date, registration

\* A new member has not opted in, not even while voters are being numbered.
LEMMA inductedEInv ==
  ASSUME IInv, IInv', EInv, NEW m \in Member, inducted(m)
  PROVE  EInv'
<1>1. /\ m \notin DOMAIN member /\ vote' = vote
      /\ DOMAIN member' = DOMAIN member \cup {m}
      /\ member'[m].participation = 0
      /\ \A x \in DOMAIN member : member'[x] = member[x]
      /\ entrants' = IF state' = state THEN entrants ELSE {}
      /\ state' = state \/ (state.type = "registration" /\ state' \in trigger_election)
  BY DEF inducted, new_member, rescheduled
<1>2. \A x \in DOMAIN member : member[x].participation \in Int
  BY ConstantsAssumption DEF IInv, TypeOK, MemberRows
<1>3. state.type \in {"registration", "seeding", "init_voters"} =>
        state.election_schedule_version \in Nat /\ state.election_schedule_version > 0
  BY ScheduleVersion DEF IInv, TypeOK
<1>4. CASE state' = state
  <2>1. entrants' = entrants
    BY <1>1, <1>4
  <2>2. state.type = "init_voters" =>
          /\ unprocessed \subseteq unprocessed' /\ unprocessed' \subseteq unprocessed \cup {m}
          /\ unprocessed \subseteq DOMAIN member
    BY <1>1, <1>4 DEF unprocessed
  <2>3. EntrantsAreVoters'
    <3>1. CASE state.type \in {"registration", "seeding"}
      BY <1>1, <1>3, <1>4, <2>1, <3>1 DEF EInv, EntrantsAreVoters
    <3>2. CASE state.type = "init_voters"
      <4>1. entrants = DOMAIN vote \cup
              {x \in unprocessed : member[x].participation = state.election_schedule_version}
        BY <3>2 DEF EInv, EntrantsAreVoters
      <4>2. {x \in unprocessed : member[x].participation = state.election_schedule_version}
              = {x \in unprocessed' :
                   member'[x].participation = state.election_schedule_version}
        BY <1>1, <1>3, <2>2, <3>2
      <4> QED
        BY <1>1, <1>4, <2>1, <3>2, <4>1, <4>2 DEF EntrantsAreVoters
    <3>3. CASE state.type \notin {"registration", "seeding", "init_voters"}
      BY <1>1, <1>4, <2>1, <3>3 DEF EInv, EntrantsAreVoters
    <3> QED
      BY <3>1, <3>2, <3>3
  <2>4. OptInsCurrent'
    <3>1. CASE state.type \in {"registration", "seeding"}
      BY <1>1, <1>3, <1>4, <3>1 DEF EInv, OptInsCurrent
    <3>2. CASE state.type = "init_voters"
      BY <1>1, <1>4, <2>2, <3>2 DEF EInv, OptInsCurrent
    <3>3. CASE state.type \notin {"registration", "seeding", "init_voters"}
      BY <1>1, <1>4, <2>1, <3>3 DEF EInv, OptInsCurrent
    <3> QED
      BY <3>1, <3>2, <3>3
  <2> QED
    BY <2>3, <2>4 DEF EInv
<1>5. CASE state' # state
  <2>1. /\ state.type = "registration" /\ entrants' = {}
        /\ \/ state'.type = "pending_date"
           \/ /\ state'.type = "registration"
              /\ state'.election_schedule_version = state.election_schedule_version + 1
    BY <1>1, <1>5, TriggeredVersion
  <2>2. \A x \in DOMAIN member : member[x].participation <= state.election_schedule_version
    BY <2>1 DEF EInv, OptInsCurrent
  <2>3. CASE state'.type = "pending_date"
    <3>1. DOMAIN vote' = {}
      BY <1>1, <2>1 DEF IInv, VotersNumbered
    <3> QED
      BY <2>3, <3>1 DEF EInv, EntrantsAreVoters, OptInsCurrent
  <2>4. CASE state'.type # "pending_date"
    <3>1. \A x \in DOMAIN member' :
            member'[x].participation < state'.election_schedule_version
      BY <1>1, <1>2, <1>3, <2>1, <2>2, <2>4
    <3> QED
      BY <2>1, <2>4, <3>1, FreshSchedule DEF IInv
  <2> QED
    BY <2>3, <2>4
<1> QED
  BY <1>4, <1>5

\* A member that resigns is no longer an entrant, and takes its opt-in along.
LEMMA resignEInv ==
  ASSUME IInv, IInv', EInv, NEW m \in Member, resign(m)
  PROVE  EInv'
<1>1. /\ vote' = vote
      /\ DOMAIN member' = DOMAIN member \ {m}
      /\ \A x \in DOMAIN member' : member'[x] = member[x]
      /\ entrants' = IF state' = state THEN entrants \ {m} ELSE {}
      /\ state' = state \/ state' \in trigger_election
  BY DEF resign, rescheduled
<1>2. state.type \in {"none", "pending_date", "registration"}
  BY StateFields DEF resign, is_election_running, IInv, TypeOK
<1>3. \A x \in DOMAIN member : member[x].participation \in Int
  BY ConstantsAssumption DEF IInv, TypeOK, MemberRows
<1>4. DOMAIN vote = {}
  BY <1>2 DEF IInv, VotersNumbered
<1>5. CASE state' = state
  <2>1. entrants' = entrants \ {m}
    BY <1>1, <1>5
  <2>2. CASE state.type = "registration"
    BY <1>1, <1>5, <2>1, <2>2 DEF EInv, EntrantsAreVoters, OptInsCurrent
  <2>3. CASE state.type # "registration"
    BY <1>1, <1>2, <1>4, <1>5, <2>1, <2>3 DEF EInv, EntrantsAreVoters, OptInsCurrent
  <2> QED
    BY <2>2, <2>3
<1>6. CASE state' # state
  <2>1. /\ entrants' = {}
        /\ \/ state'.type = "pending_date"
           \/ /\ state.type = "registration" /\ state'.type = "registration"
              /\ state'.election_schedule_version = state.election_schedule_version + 1
    BY <1>1, <1>2, <1>6, TriggeredVersion
  <2>2. CASE state'.type = "pending_date"
    BY <1>1, <1>4, <2>2 DEF EInv, EntrantsAreVoters, OptInsCurrent
  <2>3. CASE state'.type # "pending_date"
    <3>1. \A x \in DOMAIN member : member[x].participation <= state.election_schedule_version
      BY <2>1, <2>3 DEF EInv, OptInsCurrent
    <3>2. state.election_schedule_version \in Int
      BY <2>1, <2>3, ScheduleVersion DEF IInv, TypeOK
    <3>3. \A x \in DOMAIN member' :
            member'[x].participation < state'.election_schedule_version
      BY <1>1, <1>3, <2>1, <2>3, <3>1, <3>2
    <3> QED
      BY <2>1, <2>3, <3>3, FreshSchedule DEF IInv
  <2> QED
    BY <2>2, <2>3
<1> QED
  BY <1>5, <1>6

\* A renamed member keeps its opt-in under the new name.
LEMMA renameEInv ==
  ASSUME IInv, EInv, NEW m \in Member, NEW new \in Member, rename(m, new)
  PROVE  EInv'
<1>1. /\ state' = state /\ vote' = vote
      /\ m \in DOMAIN member /\ new \notin DOMAIN member
      /\ DOMAIN member' = (DOMAIN member \ {m}) \cup {new}
      /\ entrants' = {IF x = m THEN new ELSE x : x \in entrants}
  BY DEF rename
<1>2. state.type \in {"none", "pending_date", "registration"}
  BY StateFields DEF rename, is_election_running, IInv, TypeOK
<1>3. \A x \in DOMAIN member : member[x] \in MemberRows
  BY DEF IInv, TypeOK
<1>4. /\ member'[new].participation = member[m].participation
      /\ \A x \in DOMAIN member \ {m} : member'[x].participation = member[x].participation
  <2> DEFINE row(r) == [r EXCEPT !.representative =
                          IF @ = m /\ r.rank <= member[m].rank THEN new ELSE @]
  <2>1. member' = [x \in (DOMAIN member \ {m}) \cup {new} |->
                     row(member[IF x = new THEN m ELSE x])]
    BY DEF rename
  <2>2. \A r \in MemberRows : row(r).participation = r.participation
    BY DEF MemberRows
  <2> HIDE DEF row
  <2>3. member'[new] = row(member[m])
    BY <2>1
  <2>4. \A x \in DOMAIN member \ {m} : member'[x] = row(member[x])
    BY <1>1, <2>1
  <2> QED
    BY <1>1, <1>3, <2>2, <2>3, <2>4
<1>5. DOMAIN vote = {}
  BY <1>2 DEF IInv, VotersNumbered
<1>6. CASE state.type = "registration"
  <2>1. entrants = {x \in DOMAIN member :
                      member[x].participation = state.election_schedule_version}
    BY <1>6 DEF EInv, EntrantsAreVoters
  <2>2. \A y : y \in entrants' <=> \E x \in entrants : y = IF x = m THEN new ELSE x
    BY <1>1
  <2>3. entrants' = {x \in DOMAIN member' :
                       member'[x].participation = state.election_schedule_version}
    <3>1. ASSUME NEW y \in entrants'
          PROVE  y \in DOMAIN member' /\ member'[y].participation = state.election_schedule_version
      <4>1. PICK x \in entrants : y = IF x = m THEN new ELSE x
        BY <2>2
      <4> QED
        BY <1>1, <1>4, <2>1, <4>1
    <3>2. ASSUME NEW y \in DOMAIN member',
                 member'[y].participation = state.election_schedule_version
          PROVE  y \in entrants'
      <4>1. CASE y = new
        BY <1>1, <1>4, <2>1, <2>2, <3>2, <4>1
      <4>2. CASE y # new
        BY <1>1, <1>4, <2>1, <2>2, <3>2, <4>2
      <4> QED
        BY <4>1, <4>2
    <3> QED
      BY <3>1, <3>2
  <2>4. \A x \in DOMAIN member' : member'[x].participation <= state.election_schedule_version
    BY <1>1, <1>4, <1>6 DEF EInv, OptInsCurrent
  <2>5. EntrantsAreVoters'
    BY <1>1, <1>6, <2>3 DEF EntrantsAreVoters
  <2>6. OptInsCurrent'
    BY <1>1, <1>6, <2>4 DEF OptInsCurrent
  <2> QED
    BY <2>5, <2>6 DEF EInv
<1>7. CASE state.type # "registration"
  <2>1. EntrantsAreVoters'
    BY <1>1, <1>2, <1>5, <1>7 DEF EntrantsAreVoters
  <2>2. OptInsCurrent'
    BY <1>1, <1>2, <1>4, <1>5, <1>7 DEF EInv, OptInsCurrent
  <2> QED
    BY <2>1, <2>2 DEF EInv
<1> QED
  BY <1>6, <1>7

\* Seeding leaves the schedule as it is.
LEMMA electseedEInv ==
  ASSUME IInv, EInv, NEW hash, electseed(hash)
  PROVE  EInv'
<1>1. UNCHANGED <<vote, member, entrants>>
  BY DEF electseed
<1>2. CASE state.type = "registration"
  <2>1. /\ state'.type = "seeding"
        /\ state'.election_schedule_version = state.election_schedule_version
    BY <1>2 DEF electseed, seeding
  <2>2. EntrantsAreVoters'
    BY <1>1, <1>2, <2>1 DEF EInv, EntrantsAreVoters
  <2>3. OptInsCurrent'
    BY <1>1, <1>2, <2>1 DEF EInv, OptInsCurrent
  <2> QED
    BY <2>2, <2>3 DEF EInv
<1>3. CASE state.type = "seeding"
  <2>1. /\ state' = [state EXCEPT !.seed = hash]
        /\ state \in [type : {"seeding"}, seed : Nat, left : Nat,
                      election_schedule_version : Versions]
    BY <1>3, StateFields DEF electseed, IInv, TypeOK
  <2>2. /\ state'.type = state.type
        /\ state'.election_schedule_version = state.election_schedule_version
    BY <2>1
  <2> QED
    BY <1>1, <1>3, <2>2, SameEntrants
<1>4. CASE state.type = "final"
  <2>1. /\ state' = [state EXCEPT !.seed = hash]
        /\ state \in [type : {"final"}, seed : Nat, left : Nat]
    BY <1>4, StateFields DEF electseed, IInv, TypeOK
  <2>2. state'.type = state.type
    BY <2>1
  <2> QED
    BY <1>1, <1>4, <2>2, SameEntrants
<1> QED
  BY <1>2, <1>3, <1>4 DEF electseed

\* Time brings deadlines nearer and changes no schedule.
LEMMA TickEInv ==
  ASSUME IInv, EInv, Tick
  PROVE  EInv'
<1>1. /\ state' = [state EXCEPT !.left = state.left - 1]
      /\ UNCHANGED <<vote, member, entrants>>
      /\ state.type \in {"registration", "seeding", "active", "final"}
  BY DEF Tick
<1>2. state \in States
  BY DEF IInv, TypeOK
<1>3. /\ state'.type = state.type
      /\ state.type \in {"registration", "seeding"} =>
           state'.election_schedule_version = state.election_schedule_version
  <2>1. state.type = "registration" =>
          /\ state'.type = state.type
          /\ state'.election_schedule_version = state.election_schedule_version
    BY <1>1, <1>2, StateFields
  <2>2. state.type = "seeding" =>
          /\ state'.type = state.type
          /\ state'.election_schedule_version = state.election_schedule_version
    BY <1>1, <1>2, StateFields
  <2>3. state.type = "active" => state'.type = state.type
    BY <1>1, <1>2, StateFields
  <2>4. state.type = "final" => state'.type = state.type
    BY <1>1, <1>2, StateFields
  <2> QED
    BY <1>1, <2>1, <2>2, <2>3, <2>4
<1> QED
  BY <1>1, <1>3, SameEntrants

\* Numbering starts with everybody that opted in still ahead.
LEMMA start_electionEInv ==
  ASSUME IInv, EInv, start_election
  PROVE  EInv'
<1>1. /\ state.type = "seeding" /\ state'.type = "init_voters" /\ state'.last_processed = 0
      /\ state'.election_schedule_version = state.election_schedule_version
      /\ UNCHANGED <<vote, member, entrants>>
  BY DEF start_election, init_voters
<1>2. DOMAIN vote = {}
  BY <1>1 DEF IInv, VotersNumbered
<1>3. unprocessed' = DOMAIN member
  <2>1. \A x \in DOMAIN member : x \in Nat /\ x > 0
    BY ConstantsAssumption DEF IInv, TypeOK
  <2> QED
    BY <1>1, <2>1 DEF unprocessed
<1>4. EntrantsAreVoters'
  BY <1>1, <1>2, <1>3 DEF EInv, EntrantsAreVoters
<1>5. OptInsCurrent'
  BY <1>1, <1>3 DEF EInv, OptInsCurrent
<1> QED
  BY <1>4, <1>5 DEF EInv

\* The next member becomes a voter if it opted in, and otherwise loses an old opt-in.
LEMMA randomize_voterEInv ==
  ASSUME IInv, EInv, NEW m \in DOMAIN member, NEW pos, randomize_voter(m, pos)
  PROVE  EInv'
<1> DEFINE version == state.election_schedule_version
<1>1. /\ state \in [type : {"init_voters"}, next_member_idx : Indices,
                    last_processed : Nat, next_report_index : Nat,
                    election_schedule_version : Versions]
      /\ m \in unprocessed /\ \A x \in unprocessed : m <= x
      /\ entrants' = entrants
  BY StateFields DEF randomize_voter, IInv, TypeOK
<1>2. \A x \in DOMAIN member : x \in Nat
  BY ConstantsAssumption DEF IInv, TypeOK
<1>3. /\ entrants = DOMAIN vote \cup {x \in unprocessed : member[x].participation = version}
      /\ \A x \in DOMAIN member \ (DOMAIN vote \cup unprocessed) : member[x].participation = 0
  BY <1>1 DEF EInv, EntrantsAreVoters, OptInsCurrent
<1>4. CASE member[m].participation = version
  <2>1. /\ vote' = add_voter(vote, 0, state.next_member_idx, m, pos)
        /\ state' = [state EXCEPT !.next_member_idx = state.next_member_idx + 1,
                                  !.last_processed = m]
        /\ member' = member
    BY <1>4 DEF randomize_voter
  <2>2. DOMAIN vote' = DOMAIN vote \cup {m}
    BY <2>1 DEF add_voter
  <2>3. /\ state'.type = "init_voters" /\ state'.last_processed = m
        /\ state'.election_schedule_version = version
    BY <1>1, <2>1
  <2>4. unprocessed' = unprocessed \ {m}
    BY <1>1, <1>2, <2>1, <2>3 DEF unprocessed
  <2>5. EntrantsAreVoters'
    BY <1>1, <1>3, <1>4, <2>1, <2>2, <2>3, <2>4 DEF EntrantsAreVoters
  <2>6. OptInsCurrent'
    BY <1>3, <2>1, <2>2, <2>3, <2>4 DEF OptInsCurrent
  <2> QED
    BY <2>5, <2>6 DEF EInv
<1>5. CASE member[m].participation # version
  <2>1. /\ member' = set_rank(member, {m}, 0, no_representative)
        /\ state' = [state EXCEPT !.last_processed = m]
        /\ vote' = vote
    BY <1>5 DEF randomize_voter
  <2>2. /\ DOMAIN member' = DOMAIN member /\ member'[m].participation = 0
        /\ \A x \in DOMAIN member \ {m} : member'[x] = member[x]
    BY <2>1 DEF set_rank
  <2>3. /\ state'.type = "init_voters" /\ state'.last_processed = m
        /\ state'.election_schedule_version = version
    BY <1>1, <2>1
  <2>4. unprocessed' = unprocessed \ {m} /\ unprocessed \subseteq DOMAIN member
    BY <1>1, <1>2, <2>2, <2>3 DEF unprocessed
  <2>5. {x \in unprocessed' : member'[x].participation = version}
          = {x \in unprocessed : member[x].participation = version}
    BY <1>5, <2>2, <2>4
  <2>6. EntrantsAreVoters'
    BY <1>1, <1>3, <2>1, <2>3, <2>5 DEF EntrantsAreVoters
  <2>7. OptInsCurrent'
    BY <1>3, <2>1, <2>2, <2>3, <2>4 DEF OptInsCurrent
  <2> QED
    BY <2>6, <2>7 DEF EInv
<1> QED
  BY <1>4, <1>5

\* Reporting the groups changes neither voters nor members.
LEMMA report_first_roundEInv ==
  ASSUME IInv, EInv, report_first_round
  PROVE  EInv'
<1> DEFINE next == state.next_report_index
                     + group_size_at(make_election_config(state.next_member_idx)[1],
                                     state.next_report_index)
<1>1. /\ state \in [type : {"init_voters"}, next_member_idx : Indices,
                    last_processed : Nat, next_report_index : Nat,
                    election_schedule_version : Versions]
      /\ state' = [state EXCEPT !.next_report_index = next]
      /\ UNCHANGED <<vote, member, entrants>>
  BY StateFields DEF report_first_round, voters_ready, IInv, TypeOK
<1> HIDE DEF next
<1>2. /\ state'.type = state.type /\ state'.last_processed = state.last_processed
      /\ state'.election_schedule_version = state.election_schedule_version
  BY <1>1
<1> QED
  BY <1>1, <1>2, SameEntrants

\* When all members have been passed the voters are the entrants.
LEMMA open_first_roundEInv ==
  ASSUME EInv, open_first_round
  PROVE  EInv'
<1>1. /\ state.type = "init_voters" /\ unprocessed = {} /\ state'.type = "active"
      /\ UNCHANGED <<vote, member, entrants>>
  BY DEF open_first_round, first_round_reported, voters_ready, active
<1>2. EntrantsAreVoters'
  BY <1>1 DEF EInv, EntrantsAreVoters
<1>3. OptInsCurrent'
  BY <1>1 DEF EInv, OptInsCurrent
<1> QED
  BY <1>2, <1>3 DEF EInv

\* Everybody but the board has no opt-in left, and the board loses it.
LEMMA finish_electionEInv ==
  ASSUME IInv', EInv, NEW winner \in DOMAIN vote, finish_election(winner),
         \/ state.type = "final"
         \/ state.type = "init_voters" /\ unprocessed = {}
  PROVE  EInv'
<1> DEFINE board == DOMAIN vote
           round == Len(ranks)
           tb == set_rank(member, board \ {winner}, round, winner)
<1>1. /\ member' = set_rank(tb, {winner}, round + 1, winner)
      /\ entrants' = {}
      /\ state' \in set_default_election(Cardinality(DOMAIN member))
  BY DEF finish_election
<1>2. \A x \in DOMAIN member \ board : member[x].participation = 0
  BY DEF EInv, OptInsCurrent
<1>3. /\ DOMAIN tb = DOMAIN member
      /\ \A x \in DOMAIN member : x # winner => tb[x].participation = 0
  BY <1>2 DEF set_rank
<1> HIDE DEF tb
<1>4. \A x \in DOMAIN member' : member'[x].participation = 0
  BY <1>1, <1>3 DEF set_rank
<1>5. state'.type = "registration" /\ state'.election_schedule_version = 1
  BY <1>1 DEF set_default_election, registration
<1>6. \A x \in DOMAIN member' : member'[x].participation < state'.election_schedule_version
  BY <1>4, <1>5
<1> QED
  BY <1>1, <1>5, <1>6, FreshSchedule DEF IInv

\* Without rounds the entrants are the board.
LEMMA finish_without_roundsEInv ==
  ASSUME IInv, IInv', EInv, finish_without_rounds
  PROVE  EInv'
<1>1. /\ state.type = "init_voters" /\ unprocessed = {}
      /\ state.next_member_idx \in 1..max_active_members
  BY StateFields, ConstantsAssumption
     DEF finish_without_rounds, first_round_reported, voters_ready, IInv, TypeOK, Indices
<1>2. \E m \in rows(vote, 0) : vote[m].index = 0
  BY <1>1, ConstantsAssumption DEF IInv, VotersNumbered, numbered
<1>3. row_at(vote, 0, 0) \in DOMAIN vote
  BY <1>2 DEF row_at, rows
<1> QED
  BY <1>1, <1>3, finish_electionEInv DEF finish_without_rounds

\* What counting a group does to the tables: the losers leave the votes, with a rank and a
\* representative, and the winner, if there is one, was one of the group and stays.
LEMMA FinishedGroup ==
  ASSUME IInv, NEW pos, finish_group(pos)
  PROVE  \E group \in SUBSET DOMAIN vote, winner \in Int, round \in Nat :
           /\ group \subseteq DOMAIN member /\ winner # no_representative
           /\ DOMAIN vote' = DOMAIN vote \ (group \ {winner})
           /\ member' = set_rank(member, group \ {winner}, round, winner)
           /\ ranks' = add_rank(ranks, round, Cardinality(group \ {winner}))
           /\ state.type \in {"active", "post_round"} /\ state'.type = "post_round"
           /\ UNCHANGED <<elect, entrants>>
<1> DEFINE s      == counted_round
           prev   == s.prev_round
           lo     == s.next_input_index
           size   == group_size_at(s.prev_config, lo)
           group  == rows_between(vote, prev, lo, lo + size)
           votes  == [m \in group |-> vote[m].candidate]
           first  == row_at(vote, prev, lo)
           winner == group_winner(votes, first)
           erased == remove_rows(vote, group)
<1>1. /\ vote' = IF winner > 0
                 THEN add_voter(erased, next_round(s), s.next_output_index, winner, pos)
                 ELSE erased
      /\ state' = [s EXCEPT !.next_input_index = lo + size,
                            !.next_output_index = @ + (IF winner > 0 THEN 1 ELSE 0)]
      /\ member' = set_rank(member, group \ {winner}, prev, winner)
      /\ ranks' = add_rank(ranks, prev, Cardinality(group \ {winner}))
      /\ UNCHANGED <<elect, entrants>>
      /\ rows(vote, prev) # {} /\ group \subseteq DOMAIN member
      /\ s \in PostRounds
      /\ numbered(vote, prev, lo, s.prev_config.num_participants)
  BY CountedRound DEF finish_group
<1>2. state.type \in {"active", "post_round"} /\ prev \in Nat
  BY <1>1, ConstantsAssumption DEF counted_round, PostRounds
<1>3. state'.type = "post_round"
  BY <1>1 DEF PostRounds
<1>4. group \subseteq DOMAIN vote /\ IsFiniteSet(group) /\ DOMAIN votes = group
  <2>1. group \subseteq DOMAIN vote
    BY DEF rows_between, rows
  <2> QED
    BY <2>1, MembersCounted DEF IInv, TypeOK
<1>5. first \in Member
  <2>1. \A m \in DOMAIN vote : m \in Member /\ vote[m].index \in Int
    BY ConstantsAssumption DEF IInv, TypeOK, VoteRows, Indices
  <2>2. PICK m \in rows(vote, prev) : lo <= vote[m].index
                                        /\ vote[m].index < s.prev_config.num_participants
    BY <1>1 DEF numbered
  <2>3. lo \in Int /\ s.prev_config.num_participants \in Int /\ vote[m].index \in Int
    BY <1>1, <2>1, ConstantsAssumption DEF rows, PostRounds, Configs, RoundConfigs
  <2>4. lo \in lo..(s.prev_config.num_participants - 1)
    BY <2>2, <2>3
  <2>5. \E x \in rows(vote, prev) : vote[x].index = lo
    BY <1>1, <2>4 DEF numbered
  <2> QED
    BY <2>1, <2>5 DEF row_at, rows
<1>6. /\ winner \in Int /\ winner # no_representative
      /\ winner > 0 => winner \in group
  <2>1. first \in Nat /\ first > 0
    <3> HIDE DEF first
    <3> QED
      BY <1>5, ConstantsAssumption
  <2>2. CASE agreed_candidates(votes) = {}
    <3>1. winner = -first - 1
      BY <2>2 DEF group_winner, bitnot
    <3> HIDE DEF winner, first
    <3> QED
      BY <2>1, <3>1 DEF no_representative
  <2>3. CASE agreed_candidates(votes) # {}
    <3>1. winner \in agreed_candidates(votes)
      BY <2>3 DEF group_winner
    <3>2. winner \in group
      BY <1>4, <3>1, WinnerInGroup
    <3>3. winner \in Nat /\ winner > 0
      BY <1>4, <3>2, ConstantsAssumption DEF IInv, TypeOK
    <3> HIDE DEF winner, group
    <3> QED
      BY <3>2, <3>3 DEF no_representative
  <2> QED
    BY <2>2, <2>3
<1> HIDE DEF group, votes, first, winner
<1>7. DOMAIN erased = DOMAIN vote \ group
  BY DEF remove_rows
<1>8. DOMAIN vote' = DOMAIN vote \ (group \ {winner})
  <2>1. CASE winner > 0
    <3>1. DOMAIN vote' = DOMAIN erased \cup {winner}
      BY <1>1, <2>1 DEF add_voter
    <3> QED
      BY <1>4, <1>6, <1>7, <2>1, <3>1
  <2>2. CASE ~(winner > 0)
    <3>1. winner \notin group
      BY <1>4, <2>2, ConstantsAssumption DEF IInv, TypeOK
    <3> QED
      BY <1>1, <1>7, <2>2, <3>1
  <2> QED
    BY <2>1, <2>2
<1> HIDE DEF prev, s
<1> QED
  BY <1>1, <1>2, <1>3, <1>4, <1>6, <1>8

\* The losers of a group lose their opt-in with their row.
LEMMA finish_groupEInv ==
  ASSUME IInv, EInv, NEW pos, finish_group(pos)
  PROVE  EInv'
<1>1. PICK group \in SUBSET DOMAIN vote, winner \in Int, round \in Nat :
           /\ DOMAIN vote' = DOMAIN vote \ (group \ {winner})
           /\ member' = set_rank(member, group \ {winner}, round, winner)
           /\ state.type \in {"active", "post_round"} /\ state'.type = "post_round"
           /\ entrants' = entrants
  BY FinishedGroup
<1>2. /\ DOMAIN member' = DOMAIN member
      /\ \A x \in DOMAIN member :
           member'[x].participation
             = IF x \in group \ {winner} THEN 0 ELSE member[x].participation
  BY <1>1 DEF set_rank
<1>3. DOMAIN vote \subseteq entrants
  BY <1>1 DEF EInv, EntrantsAreVoters
<1>4. \A x \in DOMAIN member \ DOMAIN vote : member[x].participation = 0
  BY <1>1 DEF EInv, OptInsCurrent
<1>5. EntrantsAreVoters'
  BY <1>1, <1>3 DEF EntrantsAreVoters
<1>6. OptInsCurrent'
  BY <1>1, <1>2, <1>4 DEF OptInsCurrent
<1> QED
  BY <1>5, <1>6 DEF EInv

\* Between rounds nobody enters or leaves.
LEMMA next_roundEInv ==
  ASSUME IInv, EInv, report_next_round \/ open_next_round
  PROVE  EInv'
<1>1. /\ counting /\ UNCHANGED <<vote, member, entrants>>
      /\ state'.type \in {"post_round", "active", "final"}
  <2>1. CASE report_next_round
    <3> DEFINE i == counted_round.next_report_index
                      + group_size_at(make_election_config(counted_round.next_output_index)[1],
                                      counted_round.next_report_index)
    <3>1. /\ counting /\ state' = [counted_round EXCEPT !.next_report_index = i]
          /\ UNCHANGED <<vote, member, entrants>>
      BY <2>1 DEF report_next_round
    <3> HIDE DEF i
    <3>2. state'.type = "post_round"
      BY <3>1, CountedRound DEF PostRounds
    <3> QED
      BY <3>1, <3>2
  <2>2. CASE open_next_round
    BY <2>2 DEF open_next_round, active, final
  <2> QED
    BY <2>1, <2>2
<1>2. state.type \in {"active", "post_round"}
  BY <1>1 DEF counting, counted_round
<1>3. EntrantsAreVoters'
  BY <1>1, <1>2 DEF EInv, EntrantsAreVoters
<1>4. OptInsCurrent'
  BY <1>1, <1>2 DEF EInv, OptInsCurrent
<1> QED
  BY <1>3, <1>4 DEF EInv

\* Every action keeps the entrants and the voters in agreement.
LEMMA NextEInv == IInv /\ EInv /\ [Next]_vars => EInv'
<1> SUFFICES ASSUME IInv, EInv, [Next]_vars PROVE EInv'
  OBVIOUS
<1>0. IInv'
  BY NextIInv
<1>1. CASE \E left \in SeedingWindow..MaxLead : electsettime(left)
  BY <1>0, <1>1, electsettimeEInv
<1>2. CASE electconfig
  BY <1>0, <1>2, electconfigEInv
<1>3. CASE \E m \in Member, participating \in BOOLEAN : electopt(m, participating)
  BY <1>3, electoptEInv
<1>4. CASE \E m, c \in Member : electvote(m, c)
  <2>1. /\ state' = state /\ member' = member /\ entrants' = entrants
        /\ DOMAIN vote' = DOMAIN vote
    BY <1>4 DEF electvote
  <2> QED
    BY <2>1, SameEntrants
<1>5. CASE \E m \in Member : inducted(m)
  BY <1>0, <1>5, inductedEInv
<1>6. CASE \E m \in Member : resign(m)
  BY <1>0, <1>6, resignEInv
<1>7. CASE \E m, new \in Member : rename(m, new)
  BY <1>7, renameEInv
<1>8. CASE \E hash \in 0..(NumHashes - 1) : electseed(hash)
  BY <1>8, electseedEInv
<1>9. CASE electprocess
  <2>1. CASE start_election
    BY <2>1, start_electionEInv
  <2>2. CASE distribute_first
    BY <2>2, SameEntrants DEF distribute_first
  <2>3. CASE \E m \in DOMAIN member : \E pos \in 0..Cardinality(DOMAIN vote) :
               randomize_voter(m, pos)
    BY <2>3, randomize_voterEInv
  <2>4. CASE report_first_round
    BY <2>4, report_first_roundEInv
  <2>5. CASE open_first_round
    BY <2>5, open_first_roundEInv
  <2>6. CASE finish_without_rounds
    BY <1>0, <2>6, finish_without_roundsEInv
  <2>7. CASE \E pos \in 0..Cardinality(DOMAIN vote) : finish_group(pos)
    BY <2>7, finish_groupEInv
  <2>8. CASE report_next_round \/ open_next_round
    BY <2>8, next_roundEInv
  <2>9. CASE \E m \in DOMAIN vote : finish_with_seed(m)
    BY <1>0, <2>9, finish_electionEInv DEF finish_with_seed
  <2> QED
    BY <1>9, <2>1, <2>2, <2>3, <2>4, <2>5, <2>6, <2>7, <2>8, <2>9 DEF electprocess
<1>10. CASE distribute
  BY <1>10, SameEntrants DEF distribute
<1>11. CASE Tick
  BY <1>11, TickEInv
<1>12. CASE UNCHANGED vars
  BY <1>12, SameEntrants DEF vars
<1> QED
  BY <1>1, <1>2, <1>3, <1>4, <1>5, <1>6, <1>7, <1>8, <1>9, <1>10, <1>11, <1>12 DEF Next

\* In every behaviour the voters of an election are members that opted in to it as it
\* is scheduled now: no opt-in outlives the date it was given for, the end of an election,
\* a resignation or a renaming, whatever comes between the batches of electprocess.
THEOREM EntrantsStayVoters == Spec => []EntrantsAreVoters
<1>1. Init => IInv /\ EInv
  BY InitIInv, InitEInv
<1>2. IInv /\ EInv /\ [Next]_vars => (IInv /\ EInv)'
  BY NextIInv, NextEInv
<1>3. IInv /\ EInv => EntrantsAreVoters
  BY DEF EInv
<1> QED
  BY <1>1, <1>2, <1>3, PTL DEF Spec

-----------------------------------------------------------------------------
(***************************************************************************)
(* Votes stay within their groups.  finish_group walks over the groups     *)
(* with group_size_at, electvote compares member_index_to_group; the two   *)
(* agree because every position of the walk is the first index of a group, *)
(* which has to be part of the invariant, and because rows of the next     *)
(* round carry no votes yet.                                               *)
(***************************************************************************)
\* The arithmetic of a round's configuration: p voters are L groups of mx and the other
\* groups of mx - 1.
LEMMA RoundShape ==
  ASSUME NEW c \in Configs, c.num_groups > 0, c.num_participants > 0
  PROVE  LET mx == group_max_size(c)
             L  == num_large_groups(c)
             G  == c.num_groups
         IN  /\ mx \in Nat /\ mx >= 1 /\ L \in Nat /\ L >= 1 /\ G \in Nat /\ L <= G
             /\ group_min_size(c) = mx - 1
             /\ c.num_participants = L * mx + (G - L) * (mx - 1)
<1> DEFINE p == c.num_participants
           G == c.num_groups
           mx == (p + G - 1) \div G
           L == G - (mx * G - p)
<1>1. p \in Nat /\ G \in Nat /\ p > 0 /\ G > 0
  BY ConstantsAssumption DEF Configs, RoundConfigs
<1> HIDE DEF p, G
<1>2. mx \in Int /\ p + G - 1 >= G * mx /\ p + G - 1 < G * (mx + 1)
  BY <1>1
<1>3. mx >= 1
  <2>1. SUFFICES ASSUME mx < 1 PROVE FALSE
    BY <1>2
  <2>2. G * (mx + 1) <= G
    BY <2>1, <1>1, <1>2
  <2> QED
    BY <2>2, <1>1, <1>2
<1> HIDE DEF mx
<1>4. G * (mx + 1) = G * mx + G /\ G * mx \in Int /\ mx * G = G * mx
  BY <1>1, <1>2
<1>5. L \in Nat /\ L >= 1 /\ L <= G
  BY <1>1, <1>2, <1>4
<1>6. p = L * mx + (G - L) * (mx - 1)
  <2>1. L \in Int /\ L = G - mx * G + p
    BY <1>1, <1>4
  <2> HIDE DEF L
  <2>2. L * mx + (G - L) * (mx - 1) = G * mx - G + L
    BY <1>1, <1>2, <2>1
  <2> QED
    BY <1>1, <1>2, <1>4, <2>1, <2>2
<1>7. /\ group_max_size(c) = mx /\ num_large_groups(c) = L /\ group_min_size(c) = mx - 1
  BY DEF group_max_size, num_large_groups, num_short_groups, group_min_size, mx, p, G
<1> HIDE DEF L
<1> QED
  BY <1>1, <1>2, <1>3, <1>5, <1>6, <1>7 DEF p, G

\* What a quotient says about a product.
LEMMA QuotientBelow ==
  ASSUME NEW i \in Nat, NEW k \in Nat, k > 0, NEW g \in Int
  PROVE  i \div k \in Nat /\ (i \div k < g <=> i < k * g)
<1> DEFINE q == i \div k
<1>1. q \in Int /\ k * q <= i /\ i < k * (q + 1)
  OBVIOUS
<1> HIDE DEF q
<1>2. q >= 0
  <2>1. SUFFICES ASSUME q + 1 <= 0 PROVE FALSE
    BY <1>1
  <2>2. k * (q + 1) <= 0
    BY <1>1, <2>1
  <2> QED
    BY <1>1, <2>2
<1>3. ASSUME q < g PROVE i < k * g
  <2>1. q + 1 <= g
    BY <1>1, <1>3
  <2>2. k * (q + 1) <= k * g
    BY <1>1, <2>1
  <2> QED
    BY <1>1, <2>2
<1>4. ASSUME g <= q PROVE k * g <= i
  <2>1. k * g <= k * q
    BY <1>1, <1>4
  <2> QED
    BY <1>1, <2>1
<1>5. k * g \in Int
  OBVIOUS
<1> QED
  BY <1>1, <1>2, <1>3, <1>4, <1>5 DEF q

\* A voter sits in an earlier group than g if and only if its index is below the first
\* index of g.
LEMMA GroupsInOrder ==
  ASSUME NEW c \in Configs, c.num_groups > 0,
         NEW i \in Nat, i < c.num_participants,
         NEW g \in Nat, g <= c.num_groups
  PROVE  /\ member_index_to_group(c, i) \in Nat
         /\ member_index_to_group(c, i) < g <=> i < group_to_first_member_index(c, g)
<1> DEFINE mx == group_max_size(c)
           L  == num_large_groups(c)
           G  == c.num_groups
           p  == c.num_participants
<1>1. p \in Nat /\ p > 0
  BY ConstantsAssumption DEF Configs, RoundConfigs
<1>2. /\ mx \in Nat /\ mx >= 1 /\ L \in Nat /\ L >= 1 /\ G \in Nat /\ L <= G
      /\ group_min_size(c) = mx - 1
      /\ p = L * mx + (G - L) * (mx - 1)
  BY <1>1, RoundShape
<1>3. (group_min_size(c) + 1) * L = mx * L /\ mx * L = L * mx /\ mx * L \in Nat
  BY <1>2
<1>4. /\ member_index_to_group(c, i)
           = IF i < mx * L THEN i \div mx ELSE (i - mx * L) \div (mx - 1) + L
      /\ group_to_first_member_index(c, g)
           = IF g < L THEN g * mx ELSE mx * L + (g - L) * (mx - 1)
  <2>1. group_min_size(c) + 1 = mx
    BY <1>2
  <2> QED
    BY <1>2, <2>1 DEF member_index_to_group, group_to_first_member_index
<1> HIDE DEF mx, L, G, p
<1>5. CASE i < mx * L
  <2>1. i \div mx \in Nat /\ (i \div mx < g <=> i < mx * g) /\ (i \div mx < L <=> i < mx * L)
    BY <1>2, QuotientBelow
  <2>2. CASE g < L
    <3>1. g * mx = mx * g
      BY <1>2
    <3> QED
      BY <1>4, <1>5, <2>1, <2>2, <3>1
  <2>3. CASE g >= L
    <3>1. (g - L) * (mx - 1) >= 0 /\ (g - L) * (mx - 1) \in Int
      BY <1>2, <2>3
    <3> QED
      BY <1>2, <1>3, <1>4, <1>5, <2>1, <2>3, <3>1
  <2> QED
    BY <1>2, <2>2, <2>3
<1>6. CASE i >= mx * L
  <2>1. mx > 1
    <3>1. SUFFICES ASSUME mx = 1 PROVE FALSE
      BY <1>2
    <3>2. p = mx * L
      BY <1>2, <1>3, <3>1
    <3> QED
      BY <1>1, <1>3, <1>6, <3>2 DEF p
  <2> DEFINE r == i - mx * L
             k == mx - 1
  <2>2. r \in Nat /\ k \in Nat /\ k > 0
    BY <1>2, <1>3, <1>6, <2>1
  <2> HIDE DEF r, k
  <2>3. r \div k \in Nat /\ (r \div k < g - L <=> r < k * (g - L))
    BY <1>2, <2>2, QuotientBelow
  <2>4. member_index_to_group(c, i) = r \div k + L
    BY <1>3, <1>4, <1>6 DEF r, k
  <2>5. CASE g < L
    <3>1. g * mx <= mx * L /\ g * mx \in Int
      BY <1>2, <2>5
    <3> QED
      BY <1>2, <1>3, <1>4, <1>6, <2>3, <2>4, <2>5, <3>1
  <2>6. CASE g >= L
    <3>1. group_to_first_member_index(c, g) = mx * L + k * (g - L) /\ k * (g - L) \in Int
      BY <1>2, <1>4, <2>2, <2>6 DEF k
    <3>2. i = mx * L + r
      BY <1>3 DEF r
    <3> QED
      BY <1>2, <1>3, <2>2, <2>3, <2>4, <3>1, <3>2
  <2> QED
    BY <1>2, <2>5, <2>6
<1> QED
  BY <1>3, <1>5, <1>6

\* The walk goes from the first index of a group to that of the next, and ends after the
\* last voter.
LEMMA WalkOverGroups ==
  ASSUME NEW c \in Configs, c.num_groups > 0, c.num_participants > 0,
         NEW g \in Nat, g <= c.num_groups
  PROVE  LET first(h) == group_to_first_member_index(c, h)
         IN  /\ first(0) = 0 /\ first(g) \in Nat
             /\ first(g) < c.num_participants =>
                  g < c.num_groups /\ first(g) + group_size_at(c, first(g)) = first(g + 1)
<1> DEFINE mx == group_max_size(c)
           L  == num_large_groups(c)
           G  == c.num_groups
           p  == c.num_participants
           first(h) == group_to_first_member_index(c, h)
<1>1. /\ mx \in Nat /\ mx >= 1 /\ L \in Nat /\ L >= 1 /\ G \in Nat /\ L <= G
      /\ group_min_size(c) = mx - 1
      /\ p = L * mx + (G - L) * (mx - 1)
  BY RoundShape
<1>2. /\ \A h \in Nat : first(h) = IF h < L THEN h * mx ELSE mx * L + (h - L) * (mx - 1)
      /\ \A i \in Nat : group_size_at(c, i) = (mx - 1) + (IF i < L * mx THEN 1 ELSE 0)
  <2>1. group_min_size(c) + 1 = mx
    BY <1>1
  <2> QED
    BY <1>1, <2>1 DEF group_to_first_member_index, group_size_at
<1> HIDE DEF mx, L, G, first, p
<1>3. first(0) = 0
  BY <1>1, <1>2
<1>4. mx * L = L * mx /\ L * mx \in Nat
  BY <1>1
<1>5. CASE g < L
  <2>1. first(g) = g * mx /\ g * mx \in Nat
    BY <1>1, <1>2, <1>5
  <2>2. g * mx < L * mx
    <3>1. g + 1 <= L
      BY <1>1, <1>5
    <3>2. (g + 1) * mx <= L * mx /\ (g + 1) * mx = g * mx + mx
      BY <1>1, <3>1
    <3> QED
      BY <1>1, <1>4, <2>1, <3>2
  <2>3. group_size_at(c, first(g)) = mx
    BY <1>1, <1>2, <2>1, <2>2
  <2>4. first(g + 1) = (g + 1) * mx
    <3>1. CASE g + 1 < L
      BY <1>2, <3>1
    <3>2. CASE g + 1 = L
      BY <1>1, <1>2, <1>4, <3>2
    <3> QED
      BY <1>1, <1>5, <3>1, <3>2
  <2>5. (g + 1) * mx = g * mx + mx
    BY <1>1
  <2> QED
    BY <1>1, <1>3, <1>5, <2>1, <2>3, <2>4, <2>5 DEF first, G
<1>6. CASE g >= L
  <2> DEFINE k == mx - 1
             d == g - L
  <2>1. k \in Nat /\ d \in Nat
    BY <1>1, <1>6
  <2>2. first(g) = mx * L + d * k /\ d * k \in Nat
    <3>1. ~(g < L)
      BY <1>1, <1>6
    <3>2. first(g) = mx * L + d * k
      BY <1>2, <3>1
    <3>3. \A a, b \in Nat : a * b \in Nat
      OBVIOUS
    <3> HIDE DEF d, k
    <3> QED
      BY <2>1, <3>2, <3>3
  <2>3. first(g + 1) = mx * L + (d + 1) * k
    <3>1. g + 1 \in Nat /\ ~(g + 1 < L) /\ (g + 1) - L = d + 1
      BY <1>1, <1>6
    <3>2. first(g + 1) = mx * L + ((g + 1) - L) * k
      BY <1>2, <3>1
    <3> QED
      BY <3>1, <3>2
  <2> HIDE DEF k, d
  <2>4. (d + 1) * k = d * k + k
    BY <2>1
  <2>5. group_size_at(c, first(g)) = k
    <3>1. first(g) \in Nat /\ ~(first(g) < L * mx)
      BY <1>4, <2>2
    <3> QED
      BY <1>1, <1>2, <3>1 DEF k
  <2>6. g = G => first(g) = p
    BY <1>1, <1>4, <2>2 DEF k, d
  <2>7. first(g) \in Nat
    BY <1>4, <2>2
  <2> QED
    BY <1>1, <1>3, <1>4, <2>1, <2>2, <2>3, <2>4, <2>5, <2>6, <2>7 DEF first, G, p
<1> QED
  BY <1>1, <1>5, <1>6

\* The votes of a round are for somebody in the group of the voter.
Inside(v, r, c) ==
  \A m \in rows(v, r) :
    v[m].candidate # no_candidate =>
      /\ v[m].candidate \in rows(v, r)
      /\ member_index_to_group(c, v[m].index)
           = member_index_to_group(c, v[v[m].candidate].index)

Blank(v, r) == \A m \in rows(v, r) : v[m].candidate = no_candidate

\* The walk over the groups of a configuration stands at the first index of a group.
AtGroup(c, i) == \E g \in 0..c.num_groups : i = group_to_first_member_index(c, g)

GInv ==
  /\ state.type = "init_voters" => Blank(vote, 0)
  /\ state.type = "active" => Inside(vote, state.round, state.config)
  /\ state.type = "post_round" =>
       /\ Inside(vote, state.prev_round, state.prev_config)
       /\ Blank(vote, next_round(state))
       /\ rows(vote, state.prev_round) # {} =>
            AtGroup(state.prev_config, state.next_input_index)

\* A round without votes is fine with any configuration.
LEMMA BlankInside ==
  ASSUME NEW v, NEW r, Blank(v, r)
  PROVE  \A c : Inside(v, r, c)
  BY DEF Blank, Inside

\* Inside speaks of the rows of one round only.
LEMMA SameInside ==
  ASSUME NEW v, NEW w, NEW r, NEW c, rows(w, r) = rows(v, r),
         \A x \in rows(v, r) : w[x] = v[x], Inside(v, r, c)
  PROVE  Inside(w, r, c)
  BY DEF Inside

\* States that agree on the votes and on the round agree on GInv.
LEMMA SameVotes ==
  ASSUME GInv, vote' = vote,
         \/ state'.type \notin {"init_voters", "active", "post_round"}
         \/ state' = state
         \/ state'.type = "init_voters" /\ state.type = "init_voters"
         \/ /\ state'.type = "active" /\ state.type = "active"
            /\ state'.round = state.round /\ state'.config = state.config
  PROVE  GInv'
<1>1. CASE state'.type \notin {"init_voters", "active", "post_round"}
  BY <1>1 DEF GInv
<1>2. CASE state' = state
  BY <1>2 DEF GInv
<1>3. CASE state'.type = "init_voters" /\ state.type = "init_voters"
  BY <1>3 DEF GInv
<1>4. CASE /\ state'.type = "active" /\ state.type = "active"
           /\ state'.round = state.round /\ state'.config = state.config
  BY <1>4 DEF GInv
<1> QED
  BY <1>1, <1>2, <1>3, <1>4

\* GInv of the round that is being counted.
LEMMA CountedVotes ==
  ASSUME IInv, GInv, counting
  PROVE  LET s == counted_round
         IN  /\ Inside(vote, s.prev_round, s.prev_config)
             /\ Blank(vote, next_round(s))
             /\ rows(vote, s.prev_round) # {} => AtGroup(s.prev_config, s.next_input_index)
<1>1. CASE state.type = "active" /\ state.left = 0
  <2> DEFINE s == post_round(state.round, state.config, 0, 0, 0)
  <2>1. counted_round = s
    BY <1>1 DEF counted_round
  <2>2. /\ s.prev_round = state.round /\ s.prev_config = state.config
        /\ s.next_input_index = 0
    BY DEF post_round
  <2>3. s \in PostRounds /\ DOMAIN vote = rows(vote, s.prev_round)
    BY <1>1, <2>1, <2>2, CountedRound DEF IInv, VotersNumbered
  <2> HIDE DEF s
  <2>4. rows(vote, next_round(s)) = {}
    BY <2>3, NextRound DEF rows
  <2>5. Blank(vote, next_round(s))
    BY <2>4 DEF Blank
  <2>6. Inside(vote, s.prev_round, s.prev_config)
    BY <1>1, <2>2 DEF GInv
  <2>7. ASSUME rows(vote, s.prev_round) # {} PROVE AtGroup(s.prev_config, 0)
    <3>1. /\ s.prev_config.num_groups > 0
          /\ numbered(vote, s.prev_round, 0, s.prev_config.num_participants)
      BY <2>1, <2>2, <2>7, CountedRound
    <3>2. s.prev_config \in Configs
      BY <2>3 DEF PostRounds
    <3>3. s.prev_config.num_participants > 0 /\ s.prev_config.num_groups \in Nat
      <4>1. PICK m \in rows(vote, s.prev_round) :
                   0 <= vote[m].index /\ vote[m].index < s.prev_config.num_participants
        BY <2>7, <3>1 DEF numbered
      <4>2. vote[m].index \in Int
        BY <4>1, ConstantsAssumption DEF rows, IInv, TypeOK, VoteRows, Indices
      <4> QED
        BY <3>2, <4>1, <4>2, ConstantsAssumption DEF Configs, RoundConfigs
    <3>4. group_to_first_member_index(s.prev_config, 0) = 0
      BY <3>1, <3>2, <3>3, WalkOverGroups
    <3> QED
      BY <3>3, <3>4 DEF AtGroup
  <2> QED
    BY <2>1, <2>2, <2>5, <2>6, <2>7
<1>2. CASE ~(state.type = "active" /\ state.left = 0)
  <2>1. counted_round = state /\ state.type = "post_round"
    BY <1>2 DEF counting, counted_round
  <2> QED
    BY <2>1 DEF GInv
<1> QED
  BY <1>1, <1>2

\* electvote compares groups; rows and indices stay as they are.
LEMMA electvoteGInv ==
  ASSUME IInv, GInv, NEW voter \in Member, NEW candidate \in Member,
         electvote(voter, candidate)
  PROVE  GInv'
<1> DEFINE r == state.round
           c == state.config
<1>1. /\ state.type = "active" /\ state' = state
      /\ voter \in rows(vote, r) /\ candidate \in rows(vote, r)
      /\ member_index_to_group(c, vote[voter].index)
           = member_index_to_group(c, vote[candidate].index)
      /\ vote' = [vote EXCEPT ![voter].candidate = candidate]
  BY DEF electvote
<1>2. vote \in [DOMAIN vote -> VoteRows] /\ voter \in DOMAIN vote
  BY <1>1 DEF IInv, TypeOK, rows
<1>3. /\ DOMAIN vote' = DOMAIN vote
      /\ \A x \in DOMAIN vote : vote'[x].round = vote[x].round /\ vote'[x].index = vote[x].index
      /\ vote'[voter].candidate = candidate
      /\ \A x \in DOMAIN vote : x # voter => vote'[x].candidate = vote[x].candidate
  BY <1>1, <1>2 DEF VoteRows
<1>4. rows(vote', r) = rows(vote, r)
  BY <1>3 DEF rows
<1>5. Inside(vote, r, c)
  BY <1>1 DEF GInv
<1> HIDE DEF r, c
<1>6. ASSUME NEW m \in rows(vote, r), vote'[m].candidate # no_candidate
      PROVE  /\ vote'[m].candidate \in rows(vote, r)
             /\ member_index_to_group(c, vote'[m].index)
                  = member_index_to_group(c, vote'[vote'[m].candidate].index)
  <2>1. \A x \in rows(vote, r) : x \in DOMAIN vote
    BY DEF rows
  <2>2. CASE m = voter
    BY <1>1, <1>3, <2>1, <2>2
  <2>3. CASE m # voter
    BY <1>3, <1>5, <1>6, <2>1, <2>3 DEF Inside
  <2> QED
    BY <2>2, <2>3
<1>7. Inside(vote', r, c)
  BY <1>4, <1>6 DEF Inside
<1> QED
  BY <1>1, <1>7 DEF GInv, r, c

\* A voter is added without a vote, and whoever is displaced keeps its vote.
LEMMA AddVoterBlank ==
  ASSUME NEW v, v \in [DOMAIN v -> VoteRows], NEW round, NEW n, NEW m, NEW pos, Blank(v, round)
  PROVE  Blank(add_voter(v, round, n, m, pos), round)
<1> DEFINE w == add_voter(v, round, n, m, pos)
<1>1. DOMAIN w = DOMAIN v \cup {m} /\ w[m].candidate = no_candidate
  BY DEF add_voter
<1>2. ASSUME NEW x \in DOMAIN v, x # m
      PROVE  w[x].candidate = v[x].candidate /\ w[x].round = v[x].round
  <2>1. v[x] \in VoteRows
    OBVIOUS
  <2>2. w[x] = v[x] \/ w[x] = [v[x] EXCEPT !.index = n]
    BY <1>2 DEF add_voter
  <2> QED
    BY <2>1, <2>2 DEF VoteRows
<1> HIDE DEF w
<1>3. Blank(w, round)
  BY <1>1, <1>2 DEF Blank, rows
<1> QED
  BY <1>3 DEF w

\* Voters are numbered before anybody can vote.
LEMMA randomize_voterGInv ==
  ASSUME IInv, GInv, NEW m \in DOMAIN member, NEW pos, randomize_voter(m, pos)
  PROVE  GInv'
<1>1. /\ state \in [type : {"init_voters"}, next_member_idx : Indices,
                    last_processed : Nat, next_report_index : Nat,
                    election_schedule_version : Versions]
      /\ vote \in [DOMAIN vote -> VoteRows]
  BY StateFields DEF randomize_voter, IInv, TypeOK
<1>2. Blank(vote, 0)
  BY <1>1 DEF GInv
<1>3. CASE member[m].participation = state.election_schedule_version
  <2>1. /\ vote' = add_voter(vote, 0, state.next_member_idx, m, pos)
        /\ state' = [state EXCEPT !.next_member_idx = state.next_member_idx + 1,
                                  !.last_processed = m]
    BY <1>3 DEF randomize_voter
  <2>2. Blank(vote', 0)
    BY <1>1, <1>2, <2>1, AddVoterBlank
  <2>3. state'.type = "init_voters"
    BY <1>1, <2>1
  <2> QED
    BY <2>2, <2>3 DEF GInv
<1>4. CASE member[m].participation # state.election_schedule_version
  <2>1. vote' = vote /\ state' = [state EXCEPT !.last_processed = m]
    BY <1>4 DEF randomize_voter
  <2>2. state'.type = "init_voters"
    BY <1>1, <2>1
  <2> QED
    BY <1>1, <2>1, <2>2, SameVotes
<1> QED
  BY <1>3, <1>4

\* A group is counted.  A vote of a voter that stays is for somebody that stays: the two
\* sit in one group, and the group that goes is one.
LEMMA finish_groupGInv ==
  ASSUME IInv, GInv, NEW pos, finish_group(pos)
  PROVE  GInv'
<1> DEFINE s      == counted_round
           c      == s.prev_config
           prev   == s.prev_round
           next   == next_round(s)
           lo     == s.next_input_index
           n      == s.next_output_index
           hi     == c.num_participants
           size   == group_size_at(c, lo)
           group  == rows_between(vote, prev, lo, lo + size)
           votes  == [m \in group |-> vote[m].candidate]
           winner == group_winner(votes, row_at(vote, prev, lo))
           erased == remove_rows(vote, group)
<1>1. /\ rows(vote, prev) # {}
      /\ winner > 0 => /\ can_add_voter(erased, next, n, winner, pos)
                       /\ vote' = add_voter(erased, next, n, winner, pos)
      /\ ~(winner > 0) => vote' = erased
      /\ state' = [s EXCEPT !.next_input_index = lo + size,
                            !.next_output_index = n + (IF winner > 0 THEN 1 ELSE 0)]
  BY DEF finish_group
<1>2. /\ s \in PostRounds /\ c.num_groups > 0
      /\ numbered(vote, prev, lo, hi)
  BY <1>1, CountedRound DEF finish_group
<1>3. /\ Inside(vote, prev, c) /\ Blank(vote, next) /\ AtGroup(c, lo)
  BY <1>1, CountedVotes DEF finish_group
<1>4. /\ prev \in 0..(RoundLimit - 1) /\ next \in 0..(RoundLimit - 1) /\ prev # next
      /\ lo \in Nat /\ c \in Configs /\ hi \in Nat /\ c.num_groups \in Nat
  BY <1>2, NextRound, ConstantsAssumption DEF PostRounds, Configs, RoundConfigs
<1>5. /\ vote \in [DOMAIN vote -> VoteRows]
      /\ \A x \in DOMAIN vote : vote[x].index \in Nat
  BY ConstantsAssumption DEF IInv, TypeOK, VoteRows, Indices
<1>6. lo < hi
  <2>1. PICK m \in rows(vote, prev) : lo <= vote[m].index /\ vote[m].index < hi
    BY <1>1, <1>2 DEF numbered
  <2>2. vote[m].index \in Nat
    BY <1>5, <2>1 DEF rows
  <2> QED
    BY <1>4, <2>1, <2>2
<1>7. /\ state'.type = "post_round" /\ state'.prev_round = prev /\ state'.prev_config = c
      /\ state'.next_input_index = lo + size
  BY <1>1, <1>2 DEF PostRounds
<1>8. PICK g \in 0..c.num_groups : lo = group_to_first_member_index(c, g)
  BY <1>3 DEF AtGroup
<1>9. g \in Nat /\ g < c.num_groups /\ lo + size = group_to_first_member_index(c, g + 1)
  BY <1>2, <1>4, <1>6, <1>8, WalkOverGroups
<1> DEFINE up == lo + size
<1>10. size \in Nat
  BY <1>2, <1>4, <1>6, GroupSizeNat
<1>11. next_round(state') = next
  BY <1>7 DEF next_round
<1>12. /\ DOMAIN erased = DOMAIN vote \ group
       /\ \A x \in DOMAIN erased : erased[x] = vote[x]
       /\ erased \in [DOMAIN erased -> VoteRows]
  BY <1>5 DEF remove_rows
<1>13. \A x : x \in rows(erased, prev) <=> x \in rows(vote, prev) /\ vote[x].index >= up
  <2>1. \A x \in rows(vote, prev) : x \in DOMAIN vote /\ vote[x].index \in Nat /\ lo <= vote[x].index
    BY <1>2, <1>5 DEF rows, numbered
  <2>2. \A x : x \in group <=> x \in rows(vote, prev) /\ lo <= vote[x].index /\ vote[x].index < up
    BY DEF rows_between
  <2>3. \A x : x \in rows(erased, prev) <=> x \in rows(vote, prev) /\ x \notin group
    BY <1>12 DEF rows
  <2> HIDE DEF group, erased
  <2> QED
    BY <1>4, <1>10, <2>1, <2>2, <2>3
<1> HIDE DEF s, size, votes, winner, erased, group
<1>14. Inside(erased, prev, c)
  <2> SUFFICES ASSUME NEW m \in rows(erased, prev), erased[m].candidate # no_candidate
               PROVE  /\ erased[m].candidate \in rows(erased, prev)
                      /\ member_index_to_group(c, erased[m].index)
                           = member_index_to_group(c, erased[erased[m].candidate].index)
    BY DEF Inside
  <2> DEFINE x == vote[m].candidate
  <2>1. erased[m] = vote[m] /\ m \in rows(vote, prev) /\ vote[m].index >= up
    BY <1>12, <1>13 DEF rows
  <2>2. /\ x \in rows(vote, prev)
        /\ member_index_to_group(c, vote[m].index) = member_index_to_group(c, vote[x].index)
    BY <1>3, <2>1 DEF Inside
  <2>3. /\ vote[m].index \in Nat /\ vote[m].index < hi
        /\ vote[x].index \in Nat /\ vote[x].index < hi
    BY <1>2, <1>5, <2>1, <2>2 DEF rows, numbered
  <2> HIDE DEF x
  <2>4. g + 1 \in Nat /\ g + 1 <= c.num_groups
    BY <1>4, <1>9
  <2>5. /\ member_index_to_group(c, vote[m].index) \in Nat
        /\ (member_index_to_group(c, vote[m].index) < g + 1 <=> vote[m].index < up)
    BY <1>2, <1>4, <1>9, <2>3, <2>4, GroupsInOrder
  <2>6. /\ member_index_to_group(c, vote[x].index) \in Nat
        /\ (member_index_to_group(c, vote[x].index) < g + 1 <=> vote[x].index < up)
    BY <1>2, <1>4, <1>9, <2>3, <2>4, GroupsInOrder
  <2>7. vote[x].index >= up
    BY <1>4, <1>10, <2>1, <2>2, <2>3, <2>5, <2>6
  <2>8. x \in rows(erased, prev)
    BY <1>13, <2>2, <2>7
  <2>9. erased[x] = vote[x]
    BY <1>12, <2>8 DEF rows
  <2> QED
    BY <2>1, <2>2, <2>8, <2>9 DEF x
<1>15. Blank(erased, next)
  BY <1>3, <1>12 DEF Blank, rows
<1>16. AtGroup(c, up)
  BY <1>4, <1>9 DEF AtGroup
<1> HIDE DEF up, next, prev, n, lo, c
<1>17. Inside(vote', prev, c) /\ Blank(vote', next)
  <2>1. CASE winner > 0
    <3>1. /\ vote' = add_voter(erased, next, n, winner, pos)
          /\ can_add_voter(erased, next, n, winner, pos)
      BY <1>1, <2>1
    <3>2. Blank(vote', next)
      BY <1>12, <1>15, <3>1, AddVoterBlank
    <3>3. \A x \in DOMAIN erased : erased[x].round # next => vote'[x] = erased[x]
      BY <3>1, AddVoterOthers
    <3>4. /\ DOMAIN vote' = DOMAIN erased \cup {winner} /\ winner \notin DOMAIN erased
          /\ vote'[winner].round = next
          /\ \A x \in DOMAIN erased : vote'[x].round = erased[x].round
      <4>1. DOMAIN vote' = DOMAIN erased \cup {winner} /\ winner \notin DOMAIN erased
        BY <3>1 DEF add_voter, can_add_voter
      <4>2. vote'[winner].round = next
        BY <3>1 DEF add_voter
      <4>3. ASSUME NEW x \in DOMAIN erased PROVE vote'[x].round = erased[x].round
        <5>1. erased[x] \in VoteRows /\ x # winner
          BY <1>12, <4>1
        <5>2. vote'[x] = erased[x] \/ vote'[x] = [erased[x] EXCEPT !.index = n]
          BY <3>1, <5>1 DEF add_voter
        <5> QED
          BY <5>1, <5>2 DEF VoteRows
      <4> QED
        BY <4>1, <4>2, <4>3
    <3>5. rows(vote', prev) = rows(erased, prev)
      BY <1>4, <3>4 DEF rows
    <3>6. \A x \in rows(erased, prev) : vote'[x] = erased[x]
      BY <1>4, <3>3 DEF rows
    <3> QED
      BY <1>14, <3>2, <3>5, <3>6, SameInside
  <2>2. CASE ~(winner > 0)
    BY <1>1, <1>14, <1>15, <2>2
  <2> QED
    BY <2>1, <2>2
<1> QED
  BY <1>7, <1>11, <1>16, <1>17 DEF GInv, up

\* The report of the groups does not touch the votes.
LEMMA report_next_roundGInv ==
  ASSUME IInv, GInv, report_next_round
  PROVE  GInv'
<1> DEFINE s == counted_round
           i == s.next_report_index
                  + group_size_at(make_election_config(s.next_output_index)[1],
                                  s.next_report_index)
<1>1. /\ state' = [s EXCEPT !.next_report_index = i] /\ vote' = vote
      /\ s \in PostRounds /\ rows(vote, s.prev_round) = {}
      /\ Inside(vote, s.prev_round, s.prev_config) /\ Blank(vote, next_round(s))
  BY CountedRound, CountedVotes DEF report_next_round
<1> HIDE DEF i, s
<1>2. /\ state'.type = "post_round" /\ state'.prev_round = s.prev_round
      /\ state'.prev_config = s.prev_config
  BY <1>1 DEF PostRounds
<1>3. next_round(state') = next_round(s)
  BY <1>2 DEF next_round
<1> QED
  BY <1>1, <1>2, <1>3 DEF GInv

\* A round opens without votes.
LEMMA open_roundGInv ==
  ASSUME IInv, GInv, open_first_round \/ open_next_round
  PROVE  GInv'
<1>1. CASE open_first_round
  <2>1. /\ vote' = vote /\ state.type = "init_voters"
        /\ state'.type = "active" /\ state'.round = 0
    BY <1>1 DEF open_first_round, first_round_reported, voters_ready, active
  <2>2. Blank(vote, 0)
    BY <2>1 DEF GInv
  <2> QED
    BY <2>1, <2>2, BlankInside DEF GInv
<1>2. CASE open_next_round
  <2>1. /\ vote' = vote /\ Blank(vote, next_round(counted_round))
        /\ \/ state'.type = "active" /\ state'.round = next_round(counted_round)
           \/ state'.type = "final"
    BY <1>2, CountedVotes DEF open_next_round, active, final
  <2> QED
    BY <2>1, BlankInside DEF GInv
<1> QED
  BY <1>1, <1>2

\* Every action keeps votes within their groups.
LEMMA NextGInv == IInv /\ GInv /\ [Next]_vars => GInv'
<1> SUFFICES ASSUME IInv, GInv, [Next]_vars PROVE GInv'
  OBVIOUS
<1>1. CASE \E left \in SeedingWindow..MaxLead : electsettime(left)
  BY <1>1, SameVotes DEF electsettime, registration
<1>2. CASE electconfig
  BY <1>2, SameVotes DEF electconfig, set_default_election, registration
<1>3. CASE \E m \in Member, participating \in BOOLEAN : electopt(m, participating)
  BY <1>3, SameVotes DEF electopt
<1>4. CASE \E m, c \in Member : electvote(m, c)
  BY <1>4, electvoteGInv
<1>5. CASE \E m \in Member : inducted(m)
  <2>1. vote' = vote /\ (state' = state \/ state'.type \in {"registration", "pending_date"})
    BY <1>5, TriggerElectionType DEF inducted, IInv, TypeOK
  <2> QED
    BY <2>1, SameVotes
<1>6. CASE \E m \in Member : resign(m)
  <2>1. vote' = vote /\ (state' = state \/ state'.type \in {"registration", "pending_date"})
    BY <1>6, TriggerElectionType DEF resign, IInv, TypeOK
  <2> QED
    BY <2>1, SameVotes
<1>7. CASE \E m, new \in Member : rename(m, new)
  BY <1>7, SameVotes DEF rename
<1>8. CASE \E hash \in 0..(NumHashes - 1) : electseed(hash)
  <2>1. vote' = vote /\ state'.type \notin {"init_voters", "active", "post_round"}
    <3>1. PICK hash \in 0..(NumHashes - 1) : electseed(hash)
      BY <1>8
    <3>2. CASE state.type = "registration"
      BY <3>1, <3>2 DEF electseed, seeding
    <3>3. CASE state.type = "seeding"
      BY <3>1, <3>3, StateFields DEF electseed, IInv, TypeOK
    <3>4. CASE state.type = "final"
      BY <3>1, <3>4, StateFields DEF electseed, IInv, TypeOK
    <3> QED
      BY <3>1, <3>2, <3>3, <3>4 DEF electseed
  <2> QED
    BY <2>1, SameVotes
<1>9. CASE electprocess
  <2>1. CASE start_election
    <3>1. vote' = vote /\ DOMAIN vote = {} /\ state'.type = "init_voters"
      BY <2>1 DEF start_election, init_voters, IInv, VotersNumbered
    <3> QED
      BY <3>1 DEF GInv, Blank, rows
  <2>2. CASE distribute_first
    BY <2>2, SameVotes DEF distribute_first
  <2>3. CASE \E m \in DOMAIN member : \E pos \in 0..Cardinality(DOMAIN vote) :
               randomize_voter(m, pos)
    BY <2>3, randomize_voterGInv
  <2>4. CASE report_first_round
    <3> DEFINE i == state.next_report_index
                      + group_size_at(make_election_config(state.next_member_idx)[1],
                                      state.next_report_index)
    <3>1. /\ vote' = vote /\ state' = [state EXCEPT !.next_report_index = i]
          /\ state \in [type : {"init_voters"}, next_member_idx : Indices,
                        last_processed : Nat, next_report_index : Nat,
                        election_schedule_version : Versions]
      BY <2>4, StateFields DEF report_first_round, voters_ready, IInv, TypeOK
    <3> HIDE DEF i
    <3>2. state'.type = "init_voters"
      BY <3>1
    <3> QED
      BY <3>1, <3>2, SameVotes
  <2>5. CASE open_first_round \/ open_next_round
    BY <2>5, open_roundGInv
  <2>6. CASE finish_without_rounds \/ \E m \in DOMAIN vote : finish_with_seed(m)
    <3>1. state' \in set_default_election(Cardinality(DOMAIN member))
      BY <2>6 DEF finish_without_rounds, finish_with_seed, finish_election
    <3>2. state'.type = "registration"
      BY <3>1 DEF set_default_election, registration
    <3> QED
      BY <3>2 DEF GInv
  <2>7. CASE \E pos \in 0..Cardinality(DOMAIN vote) : finish_group(pos)
    BY <2>7, finish_groupGInv
  <2>8. CASE report_next_round
    BY <2>8, report_next_roundGInv
  <2> QED
    BY <1>9, <2>1, <2>2, <2>3, <2>4, <2>5, <2>6, <2>7, <2>8 DEF electprocess
<1>10. CASE distribute
  BY <1>10, SameVotes DEF distribute
<1>11. CASE Tick
  <2>1. /\ vote' = vote
        /\ \/ state'.type \notin {"init_voters", "active", "post_round"}
           \/ /\ state'.type = "active" /\ state.type = "active"
              /\ state'.round = state.round /\ state'.config = state.config
    <3>1. vote' = vote /\ state' = [state EXCEPT !.left = state.left - 1]
      BY <1>11 DEF Tick
    <3>2. state.type = "registration" => state'.type = "registration"
      BY <3>1, StateFields DEF IInv, TypeOK
    <3>3. state.type = "seeding" => state'.type = "seeding"
      BY <3>1, StateFields DEF IInv, TypeOK
    <3>4. state.type = "final" => state'.type = "final"
      BY <3>1, StateFields DEF IInv, TypeOK
    <3>5. state.type = "active" =>
            state'.type = "active" /\ state'.round = state.round /\ state'.config = state.config
      BY <3>1, StateFields DEF IInv, TypeOK
    <3> QED
      BY <1>11, <3>1, <3>2, <3>3, <3>4, <3>5 DEF Tick
  <2> QED
    BY <2>1, SameVotes
<1>12. CASE UNCHANGED vars
  BY <1>12, SameVotes DEF vars
<1> QED
  BY <1>1, <1>2, <1>3, <1>4, <1>5, <1>6, <1>7, <1>8, <1>9, <1>10, <1>11, <1>12 DEF Next

\* In every behaviour a vote that electvote accepted is, until it is counted, for somebody
\* with a row in the same round and in the same group: the walk of finish_round cuts the
\* voters into the groups that electvote compares, for every configuration and round.
THEOREM VotesStayWithinGroup == Spec => []VotesWithinGroup
<1>1. Init => IInv /\ GInv
  <2>1. Init => GInv
    BY DEF Init, GInv, set_default_election, registration, no_state
  <2> QED
    BY <2>1, InitIInv
<1>2. IInv /\ GInv /\ [Next]_vars => (IInv /\ GInv)'
  BY NextIInv, NextGInv
<1>3. IInv /\ GInv => VotesWithinGroup
  <2> SUFFICES ASSUME IInv, GInv, state.type \in {"active", "post_round"}
               PROVE  VotesWithinGroup
    BY DEF VotesWithinGroup
  <2>1. CASE counting
    BY <2>1, CountedVotes DEF VotesWithinGroup, Inside
  <2>2. CASE ~counting
    <3>1. counted_round = state /\ state.type = "active"
      BY <2>2 DEF counting, counted_round, post_round
    <3> QED
      BY <2>2, <3>1 DEF GInv, VotesWithinGroup, Inside
  <2> QED
    BY <2>1, <2>2
<1> QED
  BY <1>1, <1>2, <1>3, PTL DEF Spec

-----------------------------------------------------------------------------
(***************************************************************************)
(* What elections hand on: the counts of ranks, and the board.  While      *)
(* voters are numbered the counts are being rebuilt and RanksCounted says  *)
(* nothing; that it holds when the first round opens needs the fact that   *)
(* whoever has been passed over has no representative left.                *)
(***************************************************************************)
count_at(rs, r) == IF r < Len(rs) THEN rs[r + 1] ELSE 0

\* The members of a rank, apart from those with a row in the table of votes.
ranked_in(tb, V, r) ==
  {m \in DOMAIN tb \ V : tb[m].representative # no_representative /\ tb[m].rank = r}

Counted(rs, tb, V) == \A r \in Nat : count_at(rs, r) = Cardinality(ranked_in(tb, V, r))

Payable(rs) == rs # << >> => Len(rs) >= 2 /\ rs[Len(rs)] <= 1

KInv ==
  /\ BoardIsActive
  /\ state.type \in Idle => Payable(ranks)
  /\ state.type = "init_voters" =>
       /\ ranks = << >>
       /\ \A m \in DOMAIN member \ (DOMAIN vote \cup unprocessed) :
            member[m].representative = no_representative
  /\ state.type # "init_voters" => Counted(ranks, member, DOMAIN vote)

\* KInv implies RanksKept.
LEMMA KInvRanksKept ==
  ASSUME IInv, KInv
  PROVE  RanksKept
<1>1. RanksPayable
  BY DEF KInv, RanksPayable, Payable, Idle
<1>2. RanksCounted
  <2>1. ASSUME state.type # "init_voters",
               NEW r \in 0..(Len(ranks) - 1) \cup {member[m].rank : m \in DOMAIN member}
        PROVE  (IF r < Len(ranks) THEN ranks[r + 1] ELSE 0)
                 = Cardinality(ranked_in(member, DOMAIN vote, r))
    <3>1. Len(ranks) \in Nat /\ \A m \in DOMAIN member : member[m].rank \in Nat
      BY DEF IInv, TypeOK, MemberRows
    <3>2. r \in Nat
      BY <3>1
    <3> QED
      BY <2>1, <3>2 DEF KInv, Counted, count_at
  <2> QED
    BY <2>1 DEF RanksCounted, ranked_in
<1> QED
  BY <1>1, <1>2 DEF KInv, RanksKept

\* Sets of members can be counted.
LEMMA RankedFinite ==
  ASSUME NEW tb, DOMAIN tb \subseteq Member, NEW V, NEW r
  PROVE  /\ ranked_in(tb, V, r) \subseteq Member
         /\ IsFiniteSet(ranked_in(tb, V, r)) /\ Cardinality(ranked_in(tb, V, r)) \in Nat
<1>1. ranked_in(tb, V, r) \subseteq Member
  BY DEF ranked_in
<1> QED
  BY <1>1, MembersCounted

\* add_rank adds to one count.
LEMMA AddRankCounts ==
  ASSUME NEW rs \in Seq(Int), NEW rank \in Nat, NEW k \in Int
  PROVE  \A r \in Nat : count_at(add_rank(rs, rank, k), r)
                          = count_at(rs, r) + (IF r = rank THEN k ELSE 0)
<1> SUFFICES ASSUME NEW r \in Nat
             PROVE  count_at(add_rank(rs, rank, k), r)
                      = count_at(rs, r) + (IF r = rank THEN k ELSE 0)
  OBVIOUS
<1> DEFINE n == Len(rs)
           w == add_rank(rs, rank, k)
<1>1. n \in Nat /\ \A i \in 1..n : rs[i] \in Int
  OBVIOUS
<1>2. CASE k = 0
  <2>1. w = rs
    BY <1>2 DEF add_rank
  <2>2. count_at(rs, r) \in Int
    BY <1>1 DEF count_at
  <2> QED
    BY <1>2, <2>1, <2>2
<1>3. CASE k # 0
  <2> DEFINE l == IF n <= rank THEN rank + 1 ELSE n
             f(i) == (IF i <= n THEN rs[i] ELSE 0) + (IF i = rank + 1 THEN k ELSE 0)
  <2>1. l \in Nat /\ l >= n /\ l >= rank + 1 /\ (l = n \/ l = rank + 1)
    BY <1>1
  <2>2. w = [i \in 1..l |-> f(i)]
    BY <1>3 DEF add_rank
  <2>3. \A i \in 1..l : f(i) \in Int
    BY <1>1, <2>1
  <2>4. Len(w) = l /\ \A i \in 1..l : w[i] = f(i)
    <3> HIDE DEF l, f, w
    <3>1. w \in Seq(Int)
      BY <2>1, <2>2, <2>3
    <3> QED
      BY <2>1, <2>2, <3>1
  <2>5. CASE r < l
    <3>1. r + 1 \in 1..l
      BY <2>1, <2>5
    <3>2. count_at(w, r) = f(r + 1)
      BY <2>4, <2>5, <3>1 DEF count_at
    <3>3. (r + 1 <= n <=> r < n) /\ (r + 1 = rank + 1 <=> r = rank)
      BY <1>1
    <3> QED
      BY <3>2, <3>3 DEF count_at
  <2>6. CASE ~(r < l)
    <3>1. ~(r < n) /\ r # rank
      BY <1>1, <2>1, <2>6
    <3> QED
      BY <2>4, <2>6, <3>1 DEF count_at
  <2> QED
    BY <2>5, <2>6
<1> QED
  BY <1>2, <1>3

\* Giving a rank to members that had a row of votes, which they lose, and counting them.
LEMMA RankGiven ==
  ASSUME NEW rs \in Seq(Int), NEW tb, DOMAIN tb \subseteq Member, NEW V, Counted(rs, tb, V),
         NEW S, S \subseteq V, S \subseteq DOMAIN tb,
         NEW rank \in Nat, NEW rep, rep # no_representative
  PROVE  Counted(add_rank(rs, rank, Cardinality(S)), set_rank(tb, S, rank, rep), V \ S)
<1> DEFINE w == set_rank(tb, S, rank, rep)
           k == Cardinality(S)
<1>1. IsFiniteSet(S) /\ k \in Nat
  BY MembersCounted
<1>2. /\ DOMAIN w = DOMAIN tb
      /\ \A m \in S : w[m].representative = rep /\ w[m].rank = rank
      /\ \A m \in DOMAIN tb \ S : w[m] = tb[m]
  BY DEF set_rank
<1> HIDE DEF w, k
<1> SUFFICES ASSUME NEW r \in Nat
             PROVE  count_at(add_rank(rs, rank, k), r) = Cardinality(ranked_in(w, V \ S, r))
  BY DEF Counted, w, k
<1>3. count_at(rs, r) = Cardinality(ranked_in(tb, V, r))
  BY DEF Counted
<1>4. IsFiniteSet(ranked_in(tb, V, r)) /\ Cardinality(ranked_in(tb, V, r)) \in Nat
  BY RankedFinite
<1>5. count_at(add_rank(rs, rank, k), r) = count_at(rs, r) + (IF r = rank THEN k ELSE 0)
  BY <1>1, AddRankCounts
<1>6. CASE r = rank
  <2>1. ranked_in(w, V \ S, r) = ranked_in(tb, V, r) \cup S
    BY <1>2, <1>6 DEF ranked_in
  <2>2. ranked_in(tb, V, r) \cap S = {}
    BY DEF ranked_in
  <2>3. Cardinality(ranked_in(tb, V, r) \cup S)
          = Cardinality(ranked_in(tb, V, r)) + Cardinality(S)
              - Cardinality(ranked_in(tb, V, r) \cap S)
    BY <1>1, <1>4, FS_Union
  <2>4. Cardinality(ranked_in(tb, V, r) \cap S) = 0
    BY <2>2, FS_EmptySet
  <2>5. count_at(add_rank(rs, rank, k), r) = count_at(rs, r) + k
    BY <1>5, <1>6
  <2>6. Cardinality(ranked_in(w, V \ S, r)) = Cardinality(ranked_in(tb, V, r) \cup S)
    BY <2>1
  <2>7. Cardinality(ranked_in(tb, V, r) \cup S) = Cardinality(ranked_in(tb, V, r)) + k
    BY <1>1, <1>4, <2>3, <2>4 DEF k
  <2> QED
    BY <1>3, <2>5, <2>6, <2>7
<1>7. CASE r # rank
  <2>1. ranked_in(w, V \ S, r) = ranked_in(tb, V, r)
    BY <1>2, <1>7 DEF ranked_in
  <2> QED
    BY <1>3, <1>4, <1>5, <1>7, <2>1
<1> QED
  BY <1>6, <1>7

\* Tables with the same members of each rank are counted alike.
LEMMA SameRanked ==
  ASSUME NEW rs, NEW tb, NEW V, NEW w, NEW W, Counted(rs, tb, V),
         \A r : ranked_in(w, W, r) = ranked_in(tb, V, r)
  PROVE  Counted(rs, w, W)
  BY DEF Counted

\* States that agree on ranks, members and voters agree on KInv.
LEMMA SameRanks ==
  ASSUME KInv, member' = member, DOMAIN vote' = DOMAIN vote, ranks' = ranks, elect' = elect,
         \/ state'.type = state.type
         \/ state'.type \in Idle /\ state.type \in Idle
         \/ /\ state.type \in {"active", "post_round"}
            /\ state'.type \in {"active", "post_round", "final"},
         state.type = "init_voters" => state'.last_processed = state.last_processed
  PROVE  KInv'
<1>1. BoardIsActive'
  BY DEF KInv, BoardIsActive
<1>2. CASE state.type = "init_voters"
  <2>1. state'.type = "init_voters" /\ unprocessed' = unprocessed
    BY <1>2 DEF Idle, unprocessed
  <2> QED
    BY <1>1, <1>2, <2>1 DEF KInv, Idle
<1>3. CASE state.type # "init_voters"
  <2>1. /\ state'.type # "init_voters"
        /\ state'.type \in Idle => state.type \in Idle
    BY <1>3 DEF Idle
  <2> QED
    BY <1>1, <1>3, <2>1 DEF KInv
<1> QED
  BY <1>2, <1>3

\* Nobody is ranked after genesis.
LEMMA InitKInv == Init => KInv
<1> SUFFICES ASSUME Init PROVE KInv
  OBVIOUS
<1>1. /\ ranks = << >> /\ elect.board = {} /\ DOMAIN vote = {}
      /\ \A m \in DOMAIN member : member[m].representative = no_representative
  BY DEF Init, new_member
<1>2. state.type \in Idle
  BY DEF Init, set_default_election, registration, no_state, Idle
<1>3. Counted(ranks, member, DOMAIN vote)
  <2> SUFFICES ASSUME NEW r \in Nat
               PROVE  count_at(ranks, r) = Cardinality(ranked_in(member, DOMAIN vote, r))
    BY DEF Counted
  <2>1. ranked_in(member, DOMAIN vote, r) = {}
    BY <1>1 DEF ranked_in
  <2>2. count_at(ranks, r) = 0
    BY <1>1 DEF count_at
  <2> QED
    BY <2>1, <2>2, FS_EmptySet
<1> QED
  BY <1>1, <1>2, <1>3 DEF KInv, BoardIsActive, Payable, Idle

\* A new member has no rank that counts.
LEMMA inductedKInv ==
  ASSUME IInv, KInv, NEW m \in Member, inducted(m)
  PROVE  KInv'
<1>1. /\ m \notin DOMAIN member /\ UNCHANGED <<vote, ranks, elect>>
      /\ DOMAIN member' = DOMAIN member \cup {m}
      /\ member'[m].representative = no_representative
      /\ \A x \in DOMAIN member : member'[x] = member[x]
  BY DEF inducted, new_member
<1>2. state' = state \/ (state.type \in Idle /\ state'.type \in Idle)
  <2>1. state' = state \/ (state.type = "registration" /\ state' \in trigger_election)
    BY DEF inducted
  <2> QED
    BY <2>1, TriggerElectionType DEF IInv, TypeOK, Idle
<1>3. BoardIsActive'
  BY <1>1 DEF KInv, BoardIsActive
<1>4. \A r : ranked_in(member', DOMAIN vote', r) = ranked_in(member, DOMAIN vote, r)
  BY <1>1 DEF ranked_in
<1>5. CASE state.type = "init_voters"
  <2>1. state' = state
    BY <1>2, <1>5 DEF Idle
  <2>2. unprocessed \subseteq unprocessed'
    BY <1>1, <2>1 DEF unprocessed
  <2>3. \A x \in DOMAIN member' \ (DOMAIN vote' \cup unprocessed') :
          member'[x].representative = no_representative
    BY <1>1, <1>5, <2>2 DEF KInv
  <2> QED
    BY <1>1, <1>3, <1>5, <2>1, <2>3 DEF KInv, Idle
<1>6. CASE state.type # "init_voters"
  <2>1. state'.type # "init_voters" /\ (state'.type \in Idle => state.type \in Idle)
    BY <1>2, <1>6 DEF Idle
  <2>2. Counted(ranks, member, DOMAIN vote)
    BY <1>6 DEF KInv
  <2>3. Counted(ranks', member', DOMAIN vote')
    BY <1>1, <1>4, <2>2, SameRanked
  <2> QED
    BY <1>1, <1>3, <2>1, <2>3 DEF KInv
<1> QED
  BY <1>5, <1>6

\* An opt-in changes neither rank nor representative.
LEMMA electoptKInv ==
  ASSUME IInv, KInv, NEW m \in Member, NEW participating, electopt(m, participating)
  PROVE  KInv'
<1> DEFINE mark == IF participating THEN state.election_schedule_version ELSE 0
<1>1. /\ UNCHANGED <<state, vote, ranks, elect>> /\ state.type \in Idle
      /\ member' = [member EXCEPT ![m].participation = mark]
  BY DEF electopt, registration_open, Idle
<1> HIDE DEF mark
<1>2. \A x \in DOMAIN member : member[x] \in MemberRows
  BY DEF IInv, TypeOK
<1>3. /\ DOMAIN member' = DOMAIN member
      /\ \A x \in DOMAIN member : /\ member'[x].representative = member[x].representative
                                  /\ member'[x].rank = member[x].rank
  BY <1>1, <1>2 DEF MemberRows
<1>4. \A r : ranked_in(member', DOMAIN vote', r) = ranked_in(member, DOMAIN vote, r)
  BY <1>1, <1>3 DEF ranked_in
<1>5. Counted(ranks, member, DOMAIN vote) /\ ranks' = ranks
  BY <1>1 DEF KInv, Idle
<1>6. Counted(ranks', member', DOMAIN vote')
  BY <1>4, <1>5, SameRanked
<1> QED
  BY <1>1, <1>3, <1>6 DEF KInv, BoardIsActive, Idle

\* resign takes the member out of its rank and out of the board.
LEMMA resignKInv ==
  ASSUME IInv, KInv, NEW m \in Member, resign(m)
  PROVE  KInv'
<1> DEFINE rank == member[m].rank
           V == DOMAIN vote
<1>1. /\ m \in DOMAIN member /\ vote' = vote
      /\ elect' = [elect EXCEPT !.board = elect.board \ {m}]
      /\ DOMAIN member' = DOMAIN member \ {m}
      /\ \A x \in DOMAIN member' : member'[x] = member[x]
      /\ ranks' = IF member[m].representative = no_representative THEN ranks
                  ELSE [ranks EXCEPT ![rank + 1] = ranks[rank + 1] - 1]
  BY DEF resign
<1>2. state.type \in Idle
  BY StateFields DEF resign, is_election_running, IInv, TypeOK, Idle
<1>3. state'.type \in Idle
  BY <1>2, TriggerElectionType DEF resign, IInv, TypeOK, Idle
<1>4. /\ V = {} /\ rank \in Nat /\ ranks \in Seq(Int) /\ Len(ranks) \in Nat
      /\ DOMAIN member \subseteq Member
  BY <1>1, <1>2 DEF IInv, TypeOK, VotersNumbered, Idle, MemberRows
<1>5. Counted(ranks, member, V) /\ Payable(ranks)
  BY <1>2 DEF KInv, Idle
<1>6. BoardIsActive'
  <2>1. elect'.board = elect.board \ {m}
    BY <1>1 DEF IInv, TypeOK
  <2> QED
    BY <1>1, <2>1 DEF KInv, BoardIsActive
<1> HIDE DEF rank
<1>7. CASE member[m].representative = no_representative
  <2>1. \A r : ranked_in(member', V, r) = ranked_in(member, V, r)
    BY <1>1, <1>7 DEF ranked_in
  <2>2. Counted(ranks', member', DOMAIN vote')
    BY <1>1, <1>5, <1>7, <2>1, SameRanked
  <2> QED
    BY <1>1, <1>3, <1>5, <1>6, <1>7, <2>2 DEF KInv, Idle
<1>8. CASE member[m].representative # no_representative
  <2>1. m \in ranked_in(member, V, rank)
    BY <1>1, <1>4, <1>8 DEF ranked_in, rank
  <2>2. \A r : IsFiniteSet(ranked_in(member, V, r)) /\ Cardinality(ranked_in(member, V, r)) \in Nat
    BY <1>4, RankedFinite
  <2>3. rank < Len(ranks)
    <3>1. Cardinality(ranked_in(member, V, rank)) # 0
      BY <2>1, <2>2, FS_EmptySet
    <3>2. count_at(ranks, rank) # 0
      BY <1>4, <1>5, <3>1 DEF Counted
    <3> QED
      BY <3>2 DEF count_at
  <2>4. /\ Len(ranks') = Len(ranks)
        /\ \A i \in 1..Len(ranks) : ranks'[i] = IF i = rank + 1 THEN ranks[i] - 1 ELSE ranks[i]
        /\ \A i \in 1..Len(ranks) : ranks[i] \in Int
    BY <1>1, <1>4, <1>8, <2>3
  <2>5. Counted(ranks', member', V)
    <3> SUFFICES ASSUME NEW r \in Nat
                 PROVE  count_at(ranks', r) = Cardinality(ranked_in(member', V, r))
      BY DEF Counted
    <3>1. count_at(ranks, r) = Cardinality(ranked_in(member, V, r))
      BY <1>5 DEF Counted
    <3>2. CASE r = rank
      <4>1. ranked_in(member', V, r) = ranked_in(member, V, r) \ {m}
        BY <1>1, <3>2 DEF ranked_in
      <4>2. Cardinality(ranked_in(member, V, r) \ {m}) = Cardinality(ranked_in(member, V, r)) - 1
        BY <2>1, <2>2, <3>2, FS_RemoveElement
      <4>3. count_at(ranks', r) = count_at(ranks, r) - 1
        BY <1>4, <2>3, <2>4, <3>2 DEF count_at
      <4> QED
        BY <3>1, <4>1, <4>2, <4>3
    <3>3. CASE r # rank
      <4>1. ranked_in(member', V, r) = ranked_in(member, V, r)
        BY <1>1, <3>3 DEF ranked_in, rank
      <4>2. count_at(ranks', r) = count_at(ranks, r)
        <5>1. r + 1 # rank + 1
          BY <1>4, <3>3
        <5> QED
          BY <1>4, <2>4, <5>1 DEF count_at
      <4> QED
        BY <3>1, <4>1, <4>2
    <3> QED
      BY <3>2, <3>3
  <2>6. Payable(ranks')
    <3>1. Len(ranks) >= 2 /\ ranks[Len(ranks)] <= 1
      BY <1>4, <1>5, <2>3 DEF Payable
    <3>2. ranks'[Len(ranks)] <= 1
      BY <1>4, <2>4, <3>1
    <3> QED
      BY <2>4, <3>1, <3>2 DEF Payable
  <2> QED
    BY <1>1, <1>3, <1>6, <2>5, <2>6 DEF KInv, Idle
<1> QED
  BY <1>7, <1>8

\* rename puts the new name in the rank and the board of the old one.
LEMMA renameKInv ==
  ASSUME IInv, KInv, NEW m \in Member, NEW new \in Member, rename(m, new)
  PROVE  KInv'
<1> DEFINE row(r) == [r EXCEPT !.representative =
                        IF @ = m /\ r.rank <= member[m].rank THEN new ELSE @]
           V == DOMAIN vote
<1>1. /\ m \in DOMAIN member /\ new \notin DOMAIN member
      /\ UNCHANGED <<state, vote, ranks>>
      /\ elect'.board = {IF x = m THEN new ELSE x : x \in elect.board}
      /\ member' = [x \in (DOMAIN member \ {m}) \cup {new} |->
                      row(member[IF x = new THEN m ELSE x])]
  BY DEF rename
<1>2. state.type \in Idle
  BY StateFields DEF rename, is_election_running, IInv, TypeOK, Idle
<1>3. /\ V = {} /\ DOMAIN member \subseteq Member
      /\ \A x \in DOMAIN member : member[x] \in MemberRows
  BY <1>2 DEF IInv, TypeOK, VotersNumbered, Idle
<1>4. \A r \in MemberRows :
        /\ row(r).rank = r.rank
        /\ row(r).representative = no_representative <=> r.representative = no_representative
  <2>1. m # no_representative /\ new # no_representative
    BY ConstantsAssumption DEF no_representative
  <2> QED
    BY <2>1 DEF MemberRows
<1> HIDE DEF row
<1>5. /\ DOMAIN member' = (DOMAIN member \ {m}) \cup {new}
      /\ member'[new] = row(member[m])
      /\ \A x \in DOMAIN member \ {m} : member'[x] = row(member[x])
  BY <1>1
<1>6. BoardIsActive'
  BY <1>1, <1>5 DEF KInv, BoardIsActive
<1>7. Counted(ranks, member, V)
  BY <1>2 DEF KInv, Idle
<1>8. Counted(ranks, member', V)
  <2> SUFFICES ASSUME NEW r \in Nat
               PROVE  count_at(ranks, r) = Cardinality(ranked_in(member', V, r))
    BY DEF Counted
  <2> DEFINE A == ranked_in(member, V, r)
             B == ranked_in(member', V, r)
  <2>1. count_at(ranks, r) = Cardinality(A)
    BY <1>7 DEF Counted
  <2>2. IsFiniteSet(A) /\ Cardinality(A) \in Nat
    BY <1>3, RankedFinite
  <2>3. \A x \in DOMAIN member \ {m} : x \in A <=> x \in B
    BY <1>1, <1>3, <1>4, <1>5 DEF ranked_in
  <2>4. m \in A <=> new \in B
    BY <1>1, <1>3, <1>4, <1>5 DEF ranked_in
  <2>5. A \subseteq DOMAIN member /\ B \subseteq (DOMAIN member \ {m}) \cup {new}
    BY <1>5 DEF ranked_in
  <2> HIDE DEF A, B
  <2>6. CASE m \in A
    <3>1. B = (A \ {m}) \cup {new} /\ new \notin A \ {m}
      BY <1>1, <2>3, <2>4, <2>5, <2>6
    <3>2. IsFiniteSet(A \ {m}) /\ Cardinality(A \ {m}) = Cardinality(A) - 1
      BY <2>2, <2>6, FS_RemoveElement
    <3>3. Cardinality((A \ {m}) \cup {new}) = Cardinality(A \ {m}) + 1
      BY <3>1, <3>2, FS_AddElement
    <3> QED
      BY <2>1, <2>2, <3>1, <3>2, <3>3 DEF B
  <2>7. CASE m \notin A
    <3>1. B = A
      BY <1>1, <2>3, <2>4, <2>5, <2>7
    <3> QED
      BY <2>1, <3>1 DEF B
  <2> QED
    BY <2>6, <2>7
<1> QED
  BY <1>1, <1>2, <1>6, <1>8 DEF KInv, Idle

\* Everybody is ahead when numbering starts, and the counts start from nothing.
LEMMA start_electionKInv ==
  ASSUME IInv, KInv, start_election
  PROVE  KInv'
<1>1. /\ state'.type = "init_voters" /\ state'.last_processed = 0
      /\ UNCHANGED <<vote, member, elect>> /\ ranks' = << >>
  BY DEF start_election, init_voters
<1>2. unprocessed' = DOMAIN member
  <2>1. \A x \in DOMAIN member : x \in Nat /\ x > 0
    BY ConstantsAssumption DEF IInv, TypeOK
  <2> QED
    BY <1>1, <2>1 DEF unprocessed
<1> QED
  BY <1>1, <1>2 DEF KInv, BoardIsActive, Idle

\* A member that is passed over loses its representative.
LEMMA randomize_voterKInv ==
  ASSUME IInv, KInv, NEW m \in DOMAIN member, NEW pos, randomize_voter(m, pos)
  PROVE  KInv'
<1>1. /\ state \in [type : {"init_voters"}, next_member_idx : Indices,
                    last_processed : Nat, next_report_index : Nat,
                    election_schedule_version : Versions]
      /\ m \in unprocessed /\ \A x \in unprocessed : m <= x
      /\ UNCHANGED <<ranks, elect>>
  BY StateFields DEF randomize_voter, IInv, TypeOK
<1>2. \A x \in DOMAIN member : x \in Nat
  BY ConstantsAssumption DEF IInv, TypeOK
<1>3. /\ ranks = << >> /\ BoardIsActive
      /\ \A x \in DOMAIN member \ (DOMAIN vote \cup unprocessed) :
           member[x].representative = no_representative
  BY <1>1 DEF KInv
<1>4. /\ state'.type = "init_voters" /\ state'.last_processed = m
      /\ DOMAIN member' = DOMAIN member
      /\ \A x \in DOMAIN member \ {m} : member'[x] = member[x]
      /\ DOMAIN vote \subseteq DOMAIN vote'
      /\ m \in DOMAIN vote' \/ member'[m].representative = no_representative
  <2>1. CASE member[m].participation = state.election_schedule_version
    <3>1. /\ vote' = add_voter(vote, 0, state.next_member_idx, m, pos)
          /\ state' = [state EXCEPT !.next_member_idx = state.next_member_idx + 1,
                                    !.last_processed = m]
          /\ member' = member
      BY <2>1 DEF randomize_voter
    <3>2. DOMAIN vote' = DOMAIN vote \cup {m}
      BY <3>1 DEF add_voter
    <3> QED
      BY <1>1, <3>1, <3>2
  <2>2. CASE member[m].participation # state.election_schedule_version
    <3>1. /\ member' = set_rank(member, {m}, 0, no_representative) /\ vote' = vote
          /\ state' = [state EXCEPT !.last_processed = m]
      BY <2>2 DEF randomize_voter
    <3>2. /\ DOMAIN member' = DOMAIN member /\ member'[m].representative = no_representative
          /\ \A x \in DOMAIN member \ {m} : member'[x] = member[x]
      BY <3>1 DEF set_rank
    <3> QED
      BY <1>1, <3>1, <3>2
  <2> QED
    BY <2>1, <2>2
<1>5. unprocessed' = unprocessed \ {m}
  BY <1>1, <1>2, <1>4 DEF unprocessed
<1> QED
  BY <1>1, <1>3, <1>4, <1>5 DEF KInv, BoardIsActive, Idle

\* When all members have been passed only voters can have a representative, so that the
\* empty counts are right.
LEMMA NothingRanked ==
  ASSUME KInv, state.type = "init_voters", unprocessed = {}
  PROVE  Counted(ranks, member, DOMAIN vote)
<1> SUFFICES ASSUME NEW r \in Nat
             PROVE  count_at(ranks, r) = Cardinality(ranked_in(member, DOMAIN vote, r))
  BY DEF Counted
<1>1. ranked_in(member, DOMAIN vote, r) = {}
  BY DEF KInv, ranked_in
<1>2. count_at(ranks, r) = 0
  BY DEF KInv, count_at
<1> QED
  BY <1>1, <1>2, FS_EmptySet

\* The first round opens with counts that are right.
LEMMA open_first_roundKInv ==
  ASSUME KInv, open_first_round
  PROVE  KInv'
<1>1. /\ state.type = "init_voters" /\ unprocessed = {} /\ state'.type = "active"
      /\ UNCHANGED <<vote, member, ranks, elect>>
  BY DEF open_first_round, first_round_reported, voters_ready, active
<1>2. Counted(ranks, member, DOMAIN vote)
  BY <1>1, NothingRanked
<1> QED
  BY <1>1, <1>2 DEF KInv, BoardIsActive, Idle

\* The two new ranks of finish_election are the last ones, and the top one has one member.
LEMMA TopRank ==
  ASSUME NEW rs \in Seq(Int), NEW k \in Int
  PROVE  LET w == add_rank(add_rank(rs, Len(rs), k), Len(rs) + 1, 1)
         IN  Len(w) = Len(rs) + 2 /\ w[Len(w)] = 1
<1> DEFINE n == Len(rs)
           t == add_rank(rs, n, k)
           w == add_rank(t, n + 1, 1)
<1>1. n \in Nat /\ t \in Seq(Int)
  <2>1. n \in Nat
    OBVIOUS
  <2> HIDE DEF n
  <2> QED
    BY <2>1, AddRankType
<1>2. Len(t) \in Nat /\ Len(t) <= n + 1
  <2>1. CASE k = 0
    BY <1>1, <2>1 DEF add_rank
  <2>2. CASE k # 0
    <3> DEFINE f(i) == (IF i <= n THEN rs[i] ELSE 0) + (IF i = n + 1 THEN k ELSE 0)
    <3>1. t = [i \in 1..(n + 1) |-> f(i)]
      BY <1>1, <2>2 DEF add_rank
    <3> HIDE DEF f, t
    <3>2. Len(t) = n + 1
      BY <1>1, <3>1
    <3> QED
      BY <1>1, <3>2
  <2> QED
    BY <2>1, <2>2
<1> HIDE DEF t, n
<1>3. w \in Seq(Int) /\ Len(w) = n + 2
  <2> DEFINE f(i) == (IF i <= Len(t) THEN t[i] ELSE 0) + (IF i = n + 2 THEN 1 ELSE 0)
  <2>1. w = [i \in 1..(n + 2) |-> f(i)]
    <3>1. (n + 1) + 1 = n + 2 /\ Len(t) <= n + 1
      BY <1>1, <1>2
    <3> QED
      BY <3>1 DEF add_rank
  <2>2. w \in Seq(Int)
    BY <1>1, AddRankType
  <2> HIDE DEF f, w
  <2> QED
    BY <1>1, <2>1, <2>2
<1>4. w[n + 2] = 1
  <2>1. ~(n + 2 <= Len(t)) /\ (n + 1) + 1 = n + 2 /\ Len(t) <= n + 1 /\ n + 2 \in 1..(n + 2)
    BY <1>1, <1>2
  <2>2. w[n + 2] = 0 + 1
    BY <2>1 DEF add_rank
  <2> QED
    BY <2>2
<1> QED
  BY <1>3, <1>4 DEF n, t

\* The board and its leader get the top two ranks.
LEMMA finish_electionKInv ==
  ASSUME IInv, Counted(ranks, member, DOMAIN vote),
         NEW winner \in DOMAIN vote, finish_election(winner)
  PROVE  KInv'
<1> DEFINE board == DOMAIN vote
           round == Len(ranks)
           rest  == board \ {winner}
           k     == Cardinality(rest)
           tb    == set_rank(member, rest, round, winner)
           rs    == add_rank(ranks, round, k)
<1>1. /\ board \subseteq DOMAIN member /\ DOMAIN vote' = {}
      /\ elect'.board = board
      /\ member' = set_rank(tb, {winner}, round + 1, winner)
      /\ ranks' = add_rank(rs, round + 1, 1)
      /\ state' \in set_default_election(Cardinality(DOMAIN member))
  BY DEF finish_election, remove_rows
<1>2. state'.type = "registration"
  BY <1>1 DEF set_default_election, registration
<1>3. /\ board \subseteq Member /\ DOMAIN member \subseteq Member /\ ranks \in Seq(Int)
      /\ round \in Nat
  BY DEF IInv, TypeOK
<1>4. k \in Int /\ winner # no_representative /\ rest \subseteq Member
  <2>1. winner # no_representative
    BY <1>3, ConstantsAssumption DEF no_representative
  <2> QED
    BY <1>3, <2>1, MembersCounted
<1>5. Counted(rs, tb, board \ rest)
  BY <1>1, <1>3, <1>4, RankGiven
<1>6. /\ DOMAIN tb = DOMAIN member /\ rs \in Seq(Int)
      /\ board \ rest = {winner} /\ winner \in DOMAIN member
  BY <1>1, <1>3, <1>4, AddRankType DEF set_rank
<1>7. Payable(ranks')
  <2>1. Len(ranks') = round + 2 /\ ranks'[Len(ranks')] = 1
    BY <1>1, <1>3, <1>4, TopRank
  <2> QED
    BY <1>3, <2>1 DEF Payable
<1>8. DOMAIN member' = DOMAIN member
  BY <1>1, <1>6 DEF set_rank
<1> HIDE DEF tb, rs, rest, round, k
<1>9. Counted(ranks', member', {winner} \ {winner})
  <2>1. Cardinality({winner}) = 1
    BY FS_Singleton
  <2>2. Counted(rs, tb, {winner})
    BY <1>5, <1>6
  <2>3. /\ DOMAIN tb \subseteq Member /\ round + 1 \in Nat
        /\ {winner} \subseteq {winner} /\ {winner} \subseteq DOMAIN tb
    BY <1>3, <1>6
  <2>4. Counted(add_rank(rs, round + 1, Cardinality({winner})),
                set_rank(tb, {winner}, round + 1, winner), {winner} \ {winner})
    BY <1>4, <1>6, <2>2, <2>3, RankGiven
  <2> QED
    BY <1>1, <2>1, <2>4
<1>10. Counted(ranks', member', DOMAIN vote')
  <2>1. {winner} \ {winner} = DOMAIN vote'
    BY <1>1
  <2> QED
    BY <1>9, <2>1
<1> QED
  BY <1>1, <1>2, <1>7, <1>8, <1>10 DEF KInv, BoardIsActive, Idle

\* The losers of a group are counted where set_rank puts them.
LEMMA finish_groupKInv ==
  ASSUME IInv, KInv, NEW pos, finish_group(pos)
  PROVE  KInv'
<1>1. PICK group \in SUBSET DOMAIN vote, winner \in Int, round \in Nat :
           /\ group \subseteq DOMAIN member /\ winner # no_representative
           /\ DOMAIN vote' = DOMAIN vote \ (group \ {winner})
           /\ member' = set_rank(member, group \ {winner}, round, winner)
           /\ ranks' = add_rank(ranks, round, Cardinality(group \ {winner}))
           /\ state.type \in {"active", "post_round"} /\ state'.type = "post_round"
           /\ elect' = elect
  BY FinishedGroup
<1>2. Counted(ranks, member, DOMAIN vote)
  BY <1>1 DEF KInv
<1>3. DOMAIN member \subseteq Member /\ ranks \in Seq(Int)
  BY DEF IInv, TypeOK
<1> DEFINE S == group \ {winner}
<1>4. S \subseteq DOMAIN vote /\ S \subseteq DOMAIN member
  BY <1>1
<1> HIDE DEF S
<1>5. Counted(add_rank(ranks, round, Cardinality(S)), set_rank(member, S, round, winner),
              DOMAIN vote \ S)
  BY <1>1, <1>2, <1>3, <1>4, RankGiven
<1>6. Counted(ranks', member', DOMAIN vote')
  BY <1>1, <1>5 DEF S
<1>7. DOMAIN member' = DOMAIN member
  BY <1>1 DEF set_rank
<1> QED
  BY <1>1, <1>6, <1>7 DEF KInv, BoardIsActive, Idle

\* Every action keeps the counts and the board.
LEMMA NextKInv == IInv /\ KInv /\ [Next]_vars => KInv'
<1> SUFFICES ASSUME IInv, KInv, [Next]_vars PROVE KInv'
  OBVIOUS
<1>1. CASE \E left \in SeedingWindow..MaxLead : electsettime(left)
  <2>1. /\ UNCHANGED <<vote, member, ranks, elect>>
        /\ state.type \in Idle /\ state'.type \in Idle /\ state.type # "init_voters"
    BY <1>1 DEF electsettime, registration, Idle
  <2> QED
    BY <2>1, SameRanks
<1>2. CASE electconfig
  <2>1. /\ UNCHANGED <<vote, member, ranks, elect>>
        /\ state' = state \/ (state.type = "none" /\ state'.type = "registration")
    BY <1>2 DEF electconfig, set_default_election, registration
  <2> QED
    BY <2>1, SameRanks DEF Idle
<1>3. CASE \E m \in Member, participating \in BOOLEAN : electopt(m, participating)
  BY <1>3, electoptKInv
<1>4. CASE \E m, c \in Member : electvote(m, c)
  <2>1. UNCHANGED <<state, member, ranks, elect>> /\ DOMAIN vote' = DOMAIN vote
    BY <1>4 DEF electvote
  <2> QED
    BY <2>1, SameRanks
<1>5. CASE \E m \in Member : inducted(m)
  BY <1>5, inductedKInv
<1>6. CASE \E m \in Member : resign(m)
  BY <1>6, resignKInv
<1>7. CASE \E m, new \in Member : rename(m, new)
  BY <1>7, renameKInv
<1>8. CASE \E hash \in 0..(NumHashes - 1) : electseed(hash)
  <2>1. PICK hash \in 0..(NumHashes - 1) : electseed(hash)
    BY <1>8
  <2>2. UNCHANGED <<vote, member, ranks, elect>>
    BY <2>1 DEF electseed
  <2>3. CASE state.type = "registration"
    <3>1. state'.type = "seeding"
      BY <2>1, <2>3 DEF electseed, seeding
    <3> QED
      BY <2>2, <2>3, <3>1, SameRanks DEF Idle
  <2>4. CASE state.type \in {"seeding", "final"}
    <3>1. state' = [state EXCEPT !.seed = hash] /\ state.type # "registration"
      BY <2>1, <2>4 DEF electseed
    <3>2. CASE state.type = "seeding"
      BY <2>2, <3>1, <3>2, StateFields, SameRanks DEF IInv, TypeOK
    <3>3. CASE state.type = "final"
      BY <2>2, <3>1, <3>3, StateFields, SameRanks DEF IInv, TypeOK
    <3> QED
      BY <2>4, <3>2, <3>3
  <2> QED
    BY <2>1, <2>3, <2>4 DEF electseed
<1>9. CASE electprocess
  <2>1. CASE start_election
    BY <2>1, start_electionKInv
  <2>2. CASE distribute_first
    BY <2>2, SameRanks DEF distribute_first
  <2>3. CASE \E m \in DOMAIN member : \E pos \in 0..Cardinality(DOMAIN vote) :
               randomize_voter(m, pos)
    BY <2>3, randomize_voterKInv
  <2>4. CASE report_first_round
    <3> DEFINE i == state.next_report_index
                      + group_size_at(make_election_config(state.next_member_idx)[1],
                                      state.next_report_index)
    <3>1. /\ UNCHANGED <<vote, member, ranks, elect>>
          /\ state' = [state EXCEPT !.next_report_index = i]
          /\ state \in [type : {"init_voters"}, next_member_idx : Indices,
                        last_processed : Nat, next_report_index : Nat,
                        election_schedule_version : Versions]
      BY <2>4, StateFields DEF report_first_round, voters_ready, IInv, TypeOK
    <3> HIDE DEF i
    <3>2. state'.type = state.type /\ state'.last_processed = state.last_processed
      BY <3>1
    <3> QED
      BY <3>1, <3>2, SameRanks
  <2>5. CASE open_first_round
    BY <2>5, open_first_roundKInv
  <2>6. CASE finish_without_rounds
    <3>1. /\ state.type = "init_voters" /\ unprocessed = {}
          /\ state.next_member_idx \in 1..max_active_members
      BY <2>6, StateFields, ConstantsAssumption
         DEF finish_without_rounds, first_round_reported, voters_ready, IInv, TypeOK, Indices
    <3>2. \E m \in rows(vote, 0) : vote[m].index = 0
      BY <3>1, ConstantsAssumption DEF IInv, VotersNumbered, numbered
    <3>3. row_at(vote, 0, 0) \in DOMAIN vote
      BY <3>2 DEF row_at, rows
    <3>4. finish_election(row_at(vote, 0, 0))
      BY <2>6 DEF finish_without_rounds
    <3> QED
      BY <3>1, <3>3, <3>4, NothingRanked, finish_electionKInv
  <2>7. CASE \E pos \in 0..Cardinality(DOMAIN vote) : finish_group(pos)
    BY <2>7, finish_groupKInv
  <2>8. CASE report_next_round
    <3>1. UNCHANGED <<vote, member, ranks, elect>> /\ counting
      BY <2>8 DEF report_next_round
    <3>2. state'.type = "post_round"
      <4> DEFINE i == counted_round.next_report_index
                        + group_size_at(make_election_config(counted_round.next_output_index)[1],
                                        counted_round.next_report_index)
      <4>1. state' = [counted_round EXCEPT !.next_report_index = i]
        BY <2>8 DEF report_next_round
      <4> HIDE DEF i
      <4> QED
        BY <3>1, <4>1, CountedRound DEF PostRounds
    <3>3. state.type \in {"active", "post_round"}
      BY <3>1 DEF counting, counted_round
    <3> QED
      BY <3>1, <3>2, <3>3, SameRanks
  <2>9. CASE open_next_round
    <3>1. /\ UNCHANGED <<vote, member, ranks, elect>> /\ counting
          /\ state'.type \in {"active", "final"}
      BY <2>9 DEF open_next_round, active, final
    <3>2. state.type \in {"active", "post_round"}
      BY <3>1 DEF counting, counted_round
    <3> QED
      BY <3>1, <3>2, SameRanks
  <2>10. CASE \E m \in DOMAIN vote : finish_with_seed(m)
    <3>1. PICK m \in DOMAIN vote : finish_with_seed(m)
      BY <2>10
    <3>2. state.type = "final" /\ finish_election(m)
      BY <3>1 DEF finish_with_seed
    <3>3. Counted(ranks, member, DOMAIN vote)
      BY <3>2 DEF KInv
    <3> QED
      BY <3>2, <3>3, finish_electionKInv
  <2> QED
    BY <1>9, <2>1, <2>2, <2>3, <2>4, <2>5, <2>6, <2>7, <2>8, <2>9, <2>10 DEF electprocess
<1>10. CASE distribute
  BY <1>10, SameRanks DEF distribute
<1>11. CASE Tick
  <2>1. /\ UNCHANGED <<vote, member, ranks, elect>>
        /\ state' = [state EXCEPT !.left = state.left - 1]
    BY <1>11 DEF Tick
  <2>2. state'.type = state.type /\ state.type # "init_voters"
    <3>1. state.type = "registration" => state'.type = state.type
      BY <2>1, StateFields DEF IInv, TypeOK
    <3>2. state.type = "seeding" => state'.type = state.type
      BY <2>1, StateFields DEF IInv, TypeOK
    <3>3. state.type = "active" => state'.type = state.type
      BY <2>1, StateFields DEF IInv, TypeOK
    <3>4. state.type = "final" => state'.type = state.type
      BY <2>1, StateFields DEF IInv, TypeOK
    <3> QED
      BY <1>11, <3>1, <3>2, <3>3, <3>4 DEF Tick
  <2> QED
    BY <2>1, <2>2, SameRanks
<1>12. CASE UNCHANGED vars
  BY <1>12, SameRanks DEF vars
<1> QED
  BY <1>1, <1>2, <1>3, <1>4, <1>5, <1>6, <1>7, <1>8, <1>9, <1>10, <1>11, <1>12 DEF Next

\* In every behaviour the counts of ranks that distributions divide by are the numbers of
\* members of each rank, whatever inductions, resignations, renames and batches of counting
\* come in between; a budget can be divided by them between elections, where the top rank
\* has one member at most; and nobody is on the board without being an active member.
THEOREM RanksStayKept == Spec => []RanksKept
<1>1. Init => IInv /\ KInv
  BY InitIInv, InitKInv
<1>2. IInv /\ KInv /\ [Next]_vars => (IInv /\ KInv)'
  BY NextIInv, NextKInv
<1>3. IInv /\ KInv => RanksKept
  BY KInvRanksKept
<1> QED
  BY <1>1, <1>2, <1>3, PTL DEF Spec

-----------------------------------------------------------------------------
(***************************************************************************)
(* Meetings: groups.                                                       *)
(***************************************************************************)
\* The members of a group, by the index of each.
GroupOf(v, r, c, g) == {m \in rows(v, r) : member_index_to_group(c, v[m].index) = g}

\* The groups of a round end where its voters end: a voter sits in one of them, between the
\* first index of it and that of the next.
LEMMA SeatInGroup ==
  ASSUME NEW c \in Configs, c.num_groups > 0, NEW i \in Nat, i < c.num_participants
  PROVE  LET g == member_index_to_group(c, i)
         IN  g \in Nat /\ g + 1 \in Nat /\ g + 1 <= c.num_groups
<1> DEFINE g == member_index_to_group(c, i)
           G == c.num_groups
<1>1. G \in Nat /\ c.num_participants \in Nat /\ c.num_participants > 0
  BY ConstantsAssumption DEF Configs, RoundConfigs
<1>2. /\ group_to_first_member_index(c, G) \in Nat
      /\ ~(group_to_first_member_index(c, G) < c.num_participants)
  <2>1. G <= c.num_groups
    BY <1>1
  <2> QED
    BY <1>1, <2>1, WalkOverGroups
<1>3. g \in Nat /\ (g < G <=> i < group_to_first_member_index(c, G))
  BY <1>1, GroupsInOrder
<1> HIDE DEF g, G
<1>4. g < G
  BY <1>1, <1>2, <1>3
<1> QED
  BY <1>1, <1>3, <1>4 DEF g, G

\* A group of a round has somebody in it.
LEMMA GroupHasSeats ==
  ASSUME NEW c \in Configs, c.num_groups > 0, NEW i \in Nat, i < c.num_participants
  PROVE  group_size_at(c, i) \in Nat /\ group_size_at(c, i) >= 1
<1> DEFINE mx == group_max_size(c)
           L == num_large_groups(c)
           G == c.num_groups
           p == c.num_participants
<1>1. p \in Nat /\ p > 0
  BY ConstantsAssumption DEF Configs, RoundConfigs
<1>2. /\ mx \in Nat /\ mx >= 1 /\ L \in Nat /\ G \in Nat
      /\ group_min_size(c) = mx - 1 /\ p = L * mx + (G - L) * (mx - 1)
  BY <1>1, RoundShape
<1>3. group_size_at(c, i) = (mx - 1) + (IF i < L * mx THEN 1 ELSE 0)
  BY <1>2 DEF group_size_at
<1> HIDE DEF mx, L, G, p
<1>4. mx = 1 => p = L * mx
  BY <1>1, <1>2
<1>5. mx = 1 => i < L * mx
  BY <1>4 DEF p
<1>6. CASE mx = 1
  <2>1. group_size_at(c, i) = (mx - 1) + 1
    BY <1>3, <1>5, <1>6
  <2> QED
    BY <1>6, <2>1
<1>7. CASE mx > 1
  BY <1>2, <1>3, <1>7
<1> QED
  BY <1>2, <1>6, <1>7

\* What get_group_members collects is the group: the rows that follow the first index of a
\* group, up to the first one of another group, are those whose index belongs to it.
LEMMA MembersOfGroup ==
  ASSUME IInv, state.type = "active", NEW m \in rows(vote, state.round)
  PROVE  get_group_members(group_id(m)) = GroupOf(vote, state.round, state.config, group_id(m)[2])
<1> DEFINE c == state.config
           r == state.round
           ix(x) == vote[x].index
           gr(x) == member_index_to_group(c, vote[x].index)
           g == gr(m)
           first(h) == group_to_first_member_index(c, h)
<1>1. /\ r \in Nat /\ c \in Configs /\ c.num_groups \in Nat
      /\ c.num_participants \in Nat
  <2>1. state \in [type : {"active"}, round : 0..(RoundLimit - 1), config : Configs, left : Nat]
    BY StateFields DEF IInv, TypeOK
  <2> QED
    BY <2>1, ConstantsAssumption DEF Configs, RoundConfigs
<1>2. /\ DOMAIN vote = rows(vote, r) /\ c.num_groups > 0
      /\ \A x \in DOMAIN vote : 0 <= ix(x) /\ ix(x) < c.num_participants
  BY DEF IInv, VotersNumbered, numbered, rows
<1>3. \A x \in DOMAIN vote : vote[x].round = r /\ ix(x) \in Nat
  BY <1>2, ConstantsAssumption DEF IInv, TypeOK, VoteRows, Indices, rows
<1>4. m \in DOMAIN vote /\ group_id(m) = <<r, g>>
  BY DEF rows, group_id
<1>5. g \in Nat /\ g + 1 \in Nat /\ g + 1 <= c.num_groups /\ g <= c.num_groups
  <2>1. g \in Nat /\ g + 1 \in Nat /\ g + 1 <= c.num_groups
    BY <1>1, <1>2, <1>3, <1>4, SeatInGroup
  <2> QED
    BY <1>1, <2>1
<1>6. first(g) \in Nat /\ first(g + 1) \in Nat
  <2>1. c.num_participants > 0
    BY <1>1, <1>2, <1>3, <1>4
  <2> QED
    BY <1>1, <1>2, <1>5, <2>1, WalkOverGroups
<1>7. \A x \in DOMAIN vote : /\ gr(x) \in Nat
                             /\ gr(x) < g <=> ix(x) < first(g)
                             /\ gr(x) < g + 1 <=> ix(x) < first(g + 1)
  BY <1>1, <1>2, <1>3, <1>5, GroupsInOrder
<1> DEFINE key(x) == bygroup(vote[x].round, vote[x].index)
           from == bygroup(r, first(g))
           onward == {x \in DOMAIN vote : key(x) >= from}
           others == {x \in onward : gr(x) # g}
<1>8. get_group_members(group_id(m)) = {x \in onward : \A y \in others : key(x) < key(y)}
  BY <1>4 DEF get_group_members
<1>9. /\ \A x \in DOMAIN vote : key(x) >= from <=> ix(x) >= first(g)
      /\ \A x, y \in DOMAIN vote : key(x) < key(y) <=> ix(x) < ix(y)
  BY <1>1, <1>3, <1>6 DEF bygroup
<1> HIDE DEF key, from, ix, gr, g, first, c, r
<1>10. /\ \A x : x \in onward <=> x \in DOMAIN vote /\ gr(x) >= g
       /\ \A x : x \in others <=> x \in DOMAIN vote /\ gr(x) >= g + 1
  <2>1. \A x : x \in onward <=> x \in DOMAIN vote /\ key(x) >= from
    OBVIOUS
  <2>2. \A x \in DOMAIN vote : ix(x) \in Nat
    BY <1>3 DEF ix
  <2>3. \A x \in DOMAIN vote : ix(x) >= first(g) <=> gr(x) >= g
    BY <1>5, <1>6, <1>7, <2>2
  <2>4. \A x : x \in onward <=> x \in DOMAIN vote /\ gr(x) >= g
    BY <1>9, <2>1, <2>3
  <2> QED
    BY <1>5, <1>7, <2>4
<1> HIDE DEF onward, others
<1>11. ASSUME NEW x \in DOMAIN vote
       PROVE  (x \in onward /\ \A y \in others : key(x) < key(y)) <=> gr(x) = g
  <2>1. CASE gr(x) = g
    <3>1. x \in onward
      BY <1>5, <1>10, <2>1
    <3>2. ASSUME NEW y \in others PROVE key(x) < key(y)
      <4>1. y \in DOMAIN vote /\ gr(y) >= g + 1
        BY <1>10, <3>2
      <4>2. ix(x) \in Nat /\ ix(y) \in Nat
        BY <1>3, <4>1 DEF ix
      <4>3. ix(x) < first(g + 1) /\ ~(ix(y) < first(g + 1))
        BY <1>5, <1>7, <2>1, <4>1
      <4>4. ix(x) < ix(y)
        BY <1>6, <4>2, <4>3
      <4> QED
        BY <1>9, <4>1, <4>4
    <3> QED
      BY <2>1, <3>1, <3>2
  <2>2. CASE gr(x) < g
    BY <1>5, <1>7, <1>10, <2>2
  <2>3. CASE gr(x) > g
    <3>1. x \in others
      BY <1>5, <1>7, <1>10, <2>3
    <3>2. ~(key(x) < key(x))
      <4>1. ix(x) \in Nat
        BY <1>3 DEF ix
      <4> QED
        BY <1>9, <4>1
    <3> QED
      BY <1>5, <1>7, <2>3, <3>1, <3>2
  <2> QED
    BY <1>5, <1>7, <2>1, <2>2, <2>3
<1>12. {x \in onward : \A y \in others : key(x) < key(y)} = {x \in DOMAIN vote : gr(x) = g}
  BY <1>10, <1>11
<1>13. GroupOf(vote, state.round, state.config, group_id(m)[2]) = {x \in DOMAIN vote : gr(x) = g}
  BY <1>2, <1>4 DEF GroupOf, gr, c, r
<1> QED
  BY <1>8, <1>12, <1>13

-----------------------------------------------------------------------------
(***************************************************************************)
(* Steps.                                                                  *)
(***************************************************************************)
\* The round that meets: the one in progress or the one being counted.
this_round == IF counting THEN counted_round.prev_round ELSE counted_round.round
this_config == IF counting THEN counted_round.prev_config ELSE counted_round.config

\* An id is a round and a group.
IdsArePairs == \A id \in DOMAIN encrypted : id = <<id[1], id[2]>>

MInv == IInv /\ GInv /\ MeetingsOfGroups /\ IdsArePairs

\* Where no round is in progress nothing is stored.
LEMMA StoredInRounds ==
  ASSUME MeetingsOfGroups, DOMAIN encrypted # {}
  PROVE  /\ state.type \in {"active", "post_round"}
         /\ rows(vote, this_round) # {}
<1>1. PICK id \in DOMAIN encrypted : TRUE
  OBVIOUS
<1>2. /\ counted_round.type \in {"active", "post_round"}
      /\ encrypted[id].group # {}
      /\ encrypted[id].group = GroupOf(vote, this_round, this_config, id[2])
  BY <1>1 DEF MeetingsOfGroups, GroupOf, this_round, this_config
<1>3. rows(vote, this_round) # {}
  BY <1>2 DEF GroupOf
<1>4. state.type \in {"active", "post_round"}
  BY <1>2 DEF counted_round
<1> QED
  BY <1>3, <1>4

\* A step that keeps the rounds, the indices of the round that meets and what is stored.
LEMMA SameMeetings ==
  ASSUME MeetingsOfGroups, encrypted' = encrypted,
         counted_round'.type \in {"active", "post_round"},
         this_round' = this_round, this_config' = this_config,
         rows(vote', this_round) = rows(vote, this_round),
         \A x \in rows(vote, this_round) : vote'[x].index = vote[x].index
  PROVE  MeetingsOfGroups'
<1> SUFFICES ASSUME NEW id \in DOMAIN encrypted
             PROVE  /\ counted_round'.type \in {"active", "post_round"} /\ id[1] = this_round'
                    /\ encrypted'[id].group # {}
                    /\ encrypted'[id].group = GroupOf(vote', this_round', this_config', id[2])
  BY DEF MeetingsOfGroups, GroupOf, this_round, this_config
<1>1. /\ id[1] = this_round /\ encrypted[id].group # {}
      /\ encrypted[id].group = GroupOf(vote, this_round, this_config, id[2])
  BY DEF MeetingsOfGroups, GroupOf, this_round, this_config
<1>2. GroupOf(vote', this_round, this_config, id[2]) = GroupOf(vote, this_round, this_config, id[2])
  BY DEF GroupOf
<1> QED
  BY <1>1, <1>2

\* A step that leaves the election and what is stored alone.
LEMMA SameAll ==
  ASSUME MeetingsOfGroups, encrypted' = encrypted, vote' = vote, state' = state
  PROVE  MeetingsOfGroups'
  BY DEF MeetingsOfGroups, counting, counted_round, rows

\* The rows of the round that finish_group counts: those of the group go, the others stay as
\* they are.
LEMMA RowsAfterGroup ==
  ASSUME IInv, GInv, NEW pos, finish_group(pos)
  PROVE  LET s  == counted_round
             c  == s.prev_config
             g  == member_index_to_group(c, s.next_input_index)
         IN  /\ counting' /\ counted_round'.type = "post_round"
             /\ counted_round'.prev_round = s.prev_round /\ counted_round'.prev_config = c
             /\ \A h : h # g =>
                  GroupOf(vote', s.prev_round, c, h) = GroupOf(vote, s.prev_round, c, h)
<1> DEFINE s      == counted_round
           c      == s.prev_config
           prev   == s.prev_round
           next   == next_round(s)
           lo     == s.next_input_index
           n      == s.next_output_index
           hi     == c.num_participants
           size   == group_size_at(c, lo)
           group  == rows_between(vote, prev, lo, lo + size)
           votes  == [m \in group |-> vote[m].candidate]
           winner == group_winner(votes, row_at(vote, prev, lo))
           erased == remove_rows(vote, group)
           up     == lo + size
           gr(x)  == member_index_to_group(c, vote[x].index)
<1>1. /\ counting /\ rows(vote, prev) # {}
      /\ winner > 0 => /\ can_add_voter(erased, next, n, winner, pos)
                       /\ vote' = add_voter(erased, next, n, winner, pos)
      /\ ~(winner > 0) => vote' = erased
      /\ state' = [s EXCEPT !.next_input_index = lo + size,
                            !.next_output_index = n + (IF winner > 0 THEN 1 ELSE 0)]
  BY DEF finish_group
<1>2. /\ s \in PostRounds /\ c.num_groups > 0 /\ numbered(vote, prev, lo, hi)
      /\ AtGroup(c, lo)
  BY <1>1, CountedRound, CountedVotes
<1>3. /\ prev \in 0..(RoundLimit - 1) /\ prev # next
      /\ lo \in Nat /\ c \in Configs /\ hi \in Nat /\ c.num_groups \in Nat
  BY <1>2, NextRound, ConstantsAssumption DEF PostRounds, Configs, RoundConfigs
<1>4. /\ vote \in [DOMAIN vote -> VoteRows]
      /\ \A x \in DOMAIN vote : vote[x].index \in Nat
  BY ConstantsAssumption DEF IInv, TypeOK, VoteRows, Indices
<1>5. \A x \in rows(vote, prev) : /\ x \in DOMAIN vote /\ vote[x].index \in Nat
                                  /\ lo <= vote[x].index /\ vote[x].index < hi
  BY <1>2, <1>4 DEF rows, numbered
<1>6. lo < hi
  BY <1>1, <1>3, <1>5
<1>7. /\ counting' /\ counted_round'.type = "post_round"
      /\ counted_round'.prev_round = prev /\ counted_round'.prev_config = c
  <2>1. state'.type = "post_round" /\ state'.prev_round = prev /\ state'.prev_config = c
    BY <1>1, <1>2 DEF PostRounds
  <2> QED
    BY <2>1 DEF counting, counted_round
<1>8. PICK g \in 0..c.num_groups : lo = group_to_first_member_index(c, g)
  BY <1>2 DEF AtGroup
<1>9. /\ g \in Nat /\ g + 1 \in Nat /\ g + 1 <= c.num_groups /\ g <= c.num_groups
      /\ up = group_to_first_member_index(c, g + 1)
  <2>1. g < c.num_groups /\ up = group_to_first_member_index(c, g + 1)
    BY <1>2, <1>3, <1>6, <1>8, WalkOverGroups
  <2> QED
    BY <1>3, <2>1
<1>10. size \in Nat /\ size >= 1
  BY <1>2, <1>3, <1>6, GroupHasSeats
<1>11. member_index_to_group(c, lo) = g
  <2>1. /\ member_index_to_group(c, lo) \in Nat
        /\ member_index_to_group(c, lo) < g <=> lo < group_to_first_member_index(c, g)
        /\ member_index_to_group(c, lo) < g + 1 <=> lo < group_to_first_member_index(c, g + 1)
    BY <1>2, <1>3, <1>6, <1>9, GroupsInOrder
  <2> HIDE DEF size
  <2> QED
    BY <1>3, <1>8, <1>9, <1>10, <2>1
<1>12. \A x \in rows(vote, prev) : /\ gr(x) \in Nat /\ (gr(x) < g <=> vote[x].index < lo)
                                   /\ gr(x) < g + 1 <=> vote[x].index < up
  BY <1>2, <1>3, <1>5, <1>8, <1>9, GroupsInOrder
<1>13. /\ DOMAIN erased = DOMAIN vote \ group
       /\ \A x \in DOMAIN erased : erased[x] = vote[x] /\ erased[x] \in VoteRows
  BY <1>4 DEF remove_rows
<1>14. \A x : x \in rows(erased, prev) <=> x \in rows(vote, prev) /\ vote[x].index >= up
  <2>1. \A x : x \in group <=> x \in rows(vote, prev) /\ lo <= vote[x].index /\ vote[x].index < up
    BY DEF rows_between
  <2>2. \A x : x \in rows(erased, prev) <=> x \in rows(vote, prev) /\ x \notin group
    BY <1>13 DEF rows
  <2> HIDE DEF group, erased
  <2> QED
    BY <1>3, <1>5, <1>10, <2>1, <2>2
<1> HIDE DEF s, size, votes, winner, erased, group, next, prev, n, lo, c, hi
<1>15. /\ rows(vote', prev) = rows(erased, prev)
       /\ \A x \in rows(erased, prev) : vote'[x] = erased[x]
  <2>1. CASE winner > 0
    <3>1. /\ vote' = add_voter(erased, next, n, winner, pos)
          /\ can_add_voter(erased, next, n, winner, pos)
      BY <1>1, <2>1
    <3>2. \A x \in DOMAIN erased : erased[x].round # next => vote'[x] = erased[x]
      BY <3>1, AddVoterOthers
    <3>3. /\ DOMAIN vote' = DOMAIN erased \cup {winner} /\ winner \notin DOMAIN erased
          /\ vote'[winner].round = next
      BY <3>1 DEF add_voter, can_add_voter
    <3>4. ASSUME NEW x \in DOMAIN erased PROVE vote'[x].round = erased[x].round
      <4>1. erased[x] \in VoteRows /\ x # winner
        BY <1>13, <3>3
      <4>2. vote'[x] = erased[x] \/ vote'[x] = [erased[x] EXCEPT !.index = n]
        BY <3>1, <4>1 DEF add_voter
      <4> QED
        BY <4>1, <4>2 DEF VoteRows
    <3>5. rows(vote', prev) = rows(erased, prev)
      BY <1>3, <3>3, <3>4 DEF rows
    <3>6. \A x \in rows(erased, prev) : vote'[x] = erased[x]
      BY <1>3, <3>2 DEF rows
    <3> QED
      BY <3>5, <3>6
  <2>2. CASE ~(winner > 0)
    BY <1>1, <2>2
  <2> QED
    BY <2>1, <2>2
<1>16. \A x \in rows(erased, prev) : vote'[x] = vote[x]
  BY <1>13, <1>15 DEF rows
<1> HIDE DEF up
<1>17. ASSUME NEW h, h # g PROVE GroupOf(vote', prev, c, h) = GroupOf(vote, prev, c, h)
  <2>1. \A x \in rows(vote, prev) : gr(x) = h => x \in rows(erased, prev)
    <3> SUFFICES ASSUME NEW x \in rows(vote, prev), gr(x) = h PROVE x \in rows(erased, prev)
      OBVIOUS
    <3>1. gr(x) \in Nat /\ ~(gr(x) < g) /\ gr(x) # g
      BY <1>3, <1>5, <1>12, <1>17
    <3>2. ~(gr(x) < g + 1)
      <4> HIDE DEF gr
      <4> QED
        BY <1>9, <3>1
    <3>3. ~(vote[x].index < up) /\ vote[x].index \in Nat /\ up \in Int
      BY <1>3, <1>5, <1>10, <1>12, <3>2 DEF up
    <3> QED
      BY <1>14, <3>3
  <2>2. rows(vote', prev) \subseteq rows(vote, prev)
    BY <1>14, <1>15
  <2> QED
    BY <1>15, <1>16, <2>1, <2>2 DEF GroupOf
<1> QED
  BY <1>7, <1>11, <1>17 DEF s, c, prev, lo

\* The data of the group that is counted goes; what is stored for the others stays right.
LEMMA counts_groupKeeps ==
  ASSUME IInv, GInv, MeetingsOfGroups, IdsArePairs, NEW pos, counts_group(pos)
  PROVE  MeetingsOfGroups'
<1> DEFINE s == counted_round
           c == s.prev_config
           prev == s.prev_round
           g == member_index_to_group(c, s.next_input_index)
<1>1. /\ counting /\ finish_group(pos)
      /\ encrypted' = [x \in DOMAIN encrypted \ {<<prev, g>>} |-> encrypted[x]]
  BY DEF counts_group, finish_group, erase
<1>2. /\ counting' /\ counted_round'.type = "post_round"
      /\ counted_round'.prev_round = prev /\ counted_round'.prev_config = c
      /\ \A h : h # g => GroupOf(vote', prev, c, h) = GroupOf(vote, prev, c, h)
  BY <1>1, RowsAfterGroup
<1> SUFFICES ASSUME NEW id \in DOMAIN encrypted'
             PROVE  /\ id[1] = prev /\ encrypted'[id].group # {}
                    /\ encrypted'[id].group = GroupOf(vote', prev, c, id[2])
  BY <1>2 DEF MeetingsOfGroups, GroupOf
<1>3. id \in DOMAIN encrypted /\ id # <<prev, g>> /\ encrypted'[id] = encrypted[id]
  BY <1>1
<1>4. /\ id[1] = prev /\ encrypted[id].group # {}
      /\ encrypted[id].group = GroupOf(vote, prev, c, id[2])
  BY <1>1, <1>3 DEF MeetingsOfGroups, GroupOf
<1>5. id[2] # g
  BY <1>3, <1>4 DEF IdsArePairs
<1> QED
  BY <1>2, <1>3, <1>4, <1>5

\* What is stored is for the group of whoever stores it.
LEMMA electmeetingKeeps ==
  ASSUME IInv, MeetingsOfGroups, IdsArePairs,
         NEW m, NEW given, NEW data, NEW old_data,
         electmeeting(m, state.round, given, data, old_data)
  PROVE  MeetingsOfGroups' /\ IdsArePairs'
<1> DEFINE id == group_id(m)
           group == get_group_members(id)
           row == [keys |-> given, data |-> data, group |-> group]
<1>1. /\ state.type = "active" /\ state.left > 0 /\ m \in rows(vote, state.round)
      /\ encrypted' = [x \in DOMAIN encrypted \cup {id} |-> IF x = id THEN row ELSE encrypted[x]]
      /\ state' = state /\ vote' = vote
  BY DEF electmeeting, check_active, set, vars
<1>2. /\ ~counting /\ counted_round = state
      /\ ~counting' /\ counted_round' = state
  <2>1. state \in [type : {"active"}, round : 0..(RoundLimit - 1), config : Configs, left : Nat]
    BY <1>1, StateFields DEF IInv, TypeOK
  <2> QED
    BY <1>1, <2>1 DEF counting, counted_round
<1>3. id = <<state.round, id[2]>> /\ id[1] = state.round
  BY DEF group_id
<1>4. group = GroupOf(vote, state.round, state.config, id[2])
  BY <1>1, MembersOfGroup
<1>5. m \in group
  BY <1>1, <1>4 DEF GroupOf, group_id
<1> HIDE DEF group, id
<1>6. \A x \in DOMAIN encrypted' :
        /\ x[1] = state.round /\ encrypted'[x].group # {}
        /\ encrypted'[x].group = GroupOf(vote, state.round, state.config, x[2])
  <2> SUFFICES ASSUME NEW x \in DOMAIN encrypted'
               PROVE  /\ x[1] = state.round /\ encrypted'[x].group # {}
                      /\ encrypted'[x].group = GroupOf(vote, state.round, state.config, x[2])
    OBVIOUS
  <2>1. CASE x = id
    <3>1. encrypted'[x].group = group
      BY <1>1, <2>1
    <3> QED
      BY <1>3, <1>4, <1>5, <2>1, <3>1
  <2>2. CASE x # id
    <3>1. x \in DOMAIN encrypted /\ encrypted'[x] = encrypted[x]
      BY <1>1, <2>2
    <3> QED
      BY <1>2, <3>1 DEF MeetingsOfGroups, GroupOf
  <2> QED
    BY <2>1, <2>2
<1>7. MeetingsOfGroups'
  BY <1>1, <1>2, <1>6 DEF MeetingsOfGroups, GroupOf
<1>8. IdsArePairs'
  BY <1>1, <1>3 DEF IdsArePairs
<1> QED
  BY <1>7, <1>8

\* A vote changes neither a row's round nor its index.
LEMMA electvoteKeeps ==
  ASSUME IInv, MeetingsOfGroups, encrypted' = encrypted,
         NEW voter, NEW candidate, electvote(voter, candidate)
  PROVE  MeetingsOfGroups'
<1>1. /\ vote' = [vote EXCEPT ![voter].candidate = candidate] /\ voter \in DOMAIN vote
      /\ state' = state /\ state.type = "active" /\ state.left > 0
  BY DEF electvote, rows
<1>2. vote \in [DOMAIN vote -> VoteRows]
  BY DEF IInv, TypeOK
<1>3. /\ DOMAIN vote' = DOMAIN vote
      /\ \A x \in DOMAIN vote : vote'[x].round = vote[x].round /\ vote'[x].index = vote[x].index
  BY <1>1, <1>2 DEF VoteRows
<1>4. /\ counted_round'.type = "active" /\ this_round' = this_round /\ this_config' = this_config
  <2>1. state \in [type : {"active"}, round : 0..(RoundLimit - 1), config : Configs, left : Nat]
    BY <1>1, StateFields DEF IInv, TypeOK
  <2> QED
    BY <1>1, <2>1 DEF this_round, this_config, counting, counted_round
<1>5. /\ rows(vote', this_round) = rows(vote, this_round)
      /\ \A x \in rows(vote, this_round) : vote'[x].index = vote[x].index
  BY <1>3 DEF rows
<1> QED
  BY <1>4, <1>5, SameMeetings

\* When the time of a round is up it is counted with the configuration it was held with.
LEMMA TickKeeps ==
  ASSUME IInv, MeetingsOfGroups, encrypted' = encrypted, Tick
  PROVE  MeetingsOfGroups'
<1>1. /\ state.type \in {"registration", "seeding", "active", "final"} /\ state.left > 0
      /\ state' = [state EXCEPT !.left = @ - 1] /\ vote' = vote
  BY DEF Tick
<1>2. CASE state.type # "active"
  <2>1. DOMAIN encrypted = {}
    BY <1>1, <1>2, StoredInRounds
  <2> QED
    BY <2>1 DEF MeetingsOfGroups
<1>3. CASE state.type = "active"
  <2>1. state \in [type : {"active"}, round : 0..(RoundLimit - 1), config : Configs, left : Nat]
    BY <1>3, StateFields DEF IInv, TypeOK
  <2>2. /\ state'.type = "active" /\ state'.round = state.round /\ state'.config = state.config
    BY <1>1, <2>1
  <2>3. this_round = state.round /\ this_config = state.config
    BY <1>1, <1>3, <2>1 DEF this_round, this_config, counting, counted_round
  <2>4. /\ counted_round'.type \in {"active", "post_round"}
        /\ this_round' = state.round /\ this_config' = state.config
    BY <2>2 DEF this_round, this_config, counting, counted_round, post_round
  <2> QED
    BY <1>1, <2>3, <2>4, SameMeetings
<1> QED
  BY <1>2, <1>3

-----------------------------------------------------------------------------
(***************************************************************************)
(* All steps.                                                              *)
(***************************************************************************)
LEMMA MeetingsInitMInv == MeetingsInit => MInv
<1> SUFFICES ASSUME MeetingsInit PROVE MInv
  OBVIOUS
<1>1. /\ state = registration(SeedingWindow + 1, never, 1) /\ state.type = "registration"
      /\ DOMAIN vote = {} /\ DOMAIN encrypted = {}
  BY DEF MeetingsInit, registration
<1>2. state \in States
  BY <1>1, ConstantsAssumption DEF registration, States, never, Versions
<1>3. vote \in [DOMAIN vote -> VoteRows]
  BY DEF MeetingsInit
<1>4. DOMAIN member \subseteq Member /\ member \in [DOMAIN member -> MemberRows]
  <2>1. new_member \in MemberRows
    BY ConstantsAssumption DEF new_member, MemberRows, no_representative
  <2> QED
    BY <2>1 DEF MeetingsInit
<1>5. /\ elect \in [lead_representative : Member \cup {0}, board : SUBSET Member]
      /\ ranks \in Seq(Int) /\ entrants \subseteq Member
  BY DEF MeetingsInit
<1>6. dateSet \in BOOLEAN /\ paying \in BOOLEAN
  BY Zenon DEF MeetingsInit
<1>7. TypeOK
  BY <1>1, <1>2, <1>3, <1>4, <1>5, <1>6, Zenon DEF TypeOK
<1>8. VotersNumbered /\ GInv
  BY <1>1 DEF VotersNumbered, GInv
<1>9. MeetingsOfGroups /\ IdsArePairs
  BY <1>1 DEF MeetingsOfGroups, IdsArePairs
<1> QED
  BY <1>7, <1>8, <1>9 DEF MInv, IInv

\* The election takes steps of Elections or none.
LEMMA StepOfElections ==
  ASSUME [MeetingsNext]_meeting_vars
  PROVE  [Next]_vars
<1>1. CASE elections_step
  BY <1>1, Zenon DEF elections_step, Next, electprocess
<1>2. CASE \E pos \in 0..Cardinality(DOMAIN vote) : counts_group(pos)
  BY <1>2, Zenon DEF counts_group, Next, electprocess
<1>3. CASE \E m \in KeyHolders, k \in Keys : setencpubkey(m, k)
  BY <1>3, Zenon DEF setencpubkey
<1>4. CASE \E m \in DOMAIN vote, data \in Data, old_data \in Data \cup {no_data} :
             electmeeting(m, state.round, expected_keys(get_group_members(group_id(m))), data,
                          old_data)
  BY <1>4, Zenon DEF electmeeting
<1>5. CASE UNCHANGED meeting_vars
  BY <1>5 DEF meeting_vars
<1> QED
  BY <1>1, <1>2, <1>3, <1>4, <1>5, Zenon DEF MeetingsNext

LEMMA elections_stepKeeps ==
  ASSUME MInv, elections_step, encrypted' = encrypted
  PROVE  MeetingsOfGroups'
<1> USE DEF MInv
<1>0. DOMAIN encrypted = {} => MeetingsOfGroups'
  BY DEF MeetingsOfGroups
<1>1. state.type \notin {"active", "post_round"} => MeetingsOfGroups'
  BY <1>0, StoredInRounds
<1>2. CASE \E m \in Member : electopt(m, TRUE)
  BY <1>2, SameAll DEF electopt
<1>3. CASE \E m, c \in Member : electvote(m, c)
  BY <1>3, electvoteKeeps
<1>4. CASE \E hash \in 0..(NumHashes - 1) : electseed(hash)
  BY <1>1, <1>4 DEF electseed
<1>5. CASE start_election
  BY <1>1, <1>5 DEF start_election
<1>6. CASE distribute_first
  BY <1>1, <1>6 DEF distribute_first
<1>7. CASE \E m \in DOMAIN member : \E pos \in 0..Cardinality(DOMAIN vote) : randomize_voter(m, pos)
  BY <1>1, <1>7 DEF randomize_voter
<1>8. CASE report_first_round \/ open_first_round \/ finish_without_rounds
  BY <1>1, <1>8 DEF report_first_round, open_first_round, finish_without_rounds,
                    first_round_reported, voters_ready
<1>9. CASE report_next_round \/ open_next_round
  <2>1. counting /\ rows(vote, counted_round.prev_round) = {}
    BY <1>9 DEF report_next_round, open_next_round
  <2>2. DOMAIN encrypted = {}
    BY <2>1, StoredInRounds DEF this_round
  <2> QED
    BY <1>0, <2>2
<1>10. CASE \E m \in DOMAIN vote : finish_with_seed(m)
  BY <1>1, <1>10 DEF finish_with_seed
<1>11. CASE Tick
  BY <1>11, TickKeeps
<1> QED
  BY <1>2, <1>3, <1>4, <1>5, <1>6, <1>7, <1>8, <1>9, <1>10, <1>11 DEF elections_step

LEMMA MeetingsNextMInv == MInv /\ [MeetingsNext]_meeting_vars => MInv'
<1> SUFFICES ASSUME MInv, [MeetingsNext]_meeting_vars PROVE MInv'
  OBVIOUS
<1>1. IInv' /\ GInv'
  BY StepOfElections, NextIInv, NextGInv DEF MInv
<1>2. CASE elections_step /\ UNCHANGED <<keys, encrypted>>
  <2>1. IdsArePairs'
    BY <1>2 DEF MInv, IdsArePairs
  <2> QED
    BY <1>1, <1>2, <2>1, elections_stepKeeps DEF MInv
<1>3. CASE \E pos \in 0..Cardinality(DOMAIN vote) : counts_group(pos)
  <2>1. PICK pos : counts_group(pos)
    BY <1>3
  <2>2. DOMAIN encrypted' \subseteq DOMAIN encrypted
    BY <2>1 DEF counts_group, erase
  <2>3. IdsArePairs'
    BY <2>2 DEF MInv, IdsArePairs
  <2> QED
    BY <1>1, <2>1, <2>3, counts_groupKeeps DEF MInv
<1>4. CASE \E m \in KeyHolders, k \in Keys : setencpubkey(m, k)
  <2>1. encrypted' = encrypted /\ vote' = vote /\ state' = state
    BY <1>4 DEF setencpubkey, vars
  <2> QED
    BY <1>1, <2>1, SameAll DEF MInv, IdsArePairs
<1>5. CASE \E m \in DOMAIN vote, data \in Data, old_data \in Data \cup {no_data} :
             electmeeting(m, state.round, expected_keys(get_group_members(group_id(m))), data,
                          old_data)
  BY <1>1, <1>5, electmeetingKeeps DEF MInv
<1>6. CASE UNCHANGED meeting_vars
  <2>1. encrypted' = encrypted /\ vote' = vote /\ state' = state
    BY <1>6 DEF meeting_vars, vars
  <2> QED
    BY <1>1, <2>1, SameAll DEF MInv, IdsArePairs
<1> QED
  BY <1>2, <1>3, <1>4, <1>5, <1>6, Zenon DEF MeetingsNext

\* Encrypted data belongs to a group that meets (encrypt.cpp, electmeeting, finish_round): it
\* was stored for exactly the members of a group of the round in progress that has not been
\* counted yet, for any number of members, groups, rounds and elections, although
\* get_group_members scans rows until one of another group while finish_round erases the
\* data of one group at a time.
THEOREM MeetingsStayOfGroups == MeetingsSpec => []MeetingsOfGroups
<1>1. MeetingsSpec => []MInv
  BY MeetingsInitMInv, MeetingsNextMInv, PTL DEF MeetingsSpec
<1>2. MInv => MeetingsOfGroups
  BY DEF MInv
<1> QED
  BY <1>1, <1>2, PTL

=============================================================================
