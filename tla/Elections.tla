----------------------------- MODULE Elections -----------------------------
(***************************************************************************)
(* The election state machine of the Eden contract                         *)
(* (contracts/eden/src/elections.cpp, src/actions/elect.cpp), with the     *)
(* part of the member table it works on (src/members.cpp) and the actions  *)
(* that change membership while elections are scheduled (inducted, resign, *)
(* rename in src/actions/induct.cpp).                                      *)
(*                                                                         *)
(* Every contract action is one atomic step; a failed eosio::check rolls   *)
(* it back and is a disabled action here.  electprocess(max_steps) does up *)
(* to max_steps units of work and keeps all it needs in tables between     *)
(* units, so it is modelled by its units: electprocess(n) is n consecutive *)
(* ones, and other transactions may come between any two.                  *)
(*                                                                         *)
(* Time is kept as the time left to the one deadline that the current      *)
(* state has (start_time, end_time or round_end): "now >= deadline" is     *)
(* left = 0.  The random generators and the seeds they start from are      *)
(* nondeterministic choices.                                               *)
(***************************************************************************)
EXTENDS Integers, Sequences, FiniteSets, RoundConfig, GroupVote

CONSTANTS
  Member,                   \* account names: positive numbers, in table order
  Founders,                 \* the members after genesis
  make_election_config(_),  \* n voters -> sequence of round configurations
  UndefinedConfigs,         \* what config.front() of an empty vector may read
  max_active_members,
  min_election_threshold,
  VersionLimit,             \* election_schedule_version is below it (2^8)
  RoundLimit,               \* rounds are counted modulo it (2^8)
  NumHashes,                \* hashes of seed blocks are below it; less is more work
  SeedingWindow,            \* election_seeding_window, and the notice of electsettime
  DefaultLead,              \* longest time to the election that follows an election
  TriggerLead,              \* shortest time to a triggered election (30 days)
  Week,                     \* longest wait for the weekly election time
  MaxLead,                  \* bound on the time to an election set by electsettime
  RoundTime,                \* election_round_time_sec
  FinalWindow               \* election_final_seeding_window

ASSUME ConstantsAssumption ==
  /\ Member \subseteq Nat \ {0} /\ IsFiniteSet(Member)
  /\ Founders \subseteq Member
  /\ max_active_members \in Nat \ {0}
  /\ min_election_threshold \in 0..max_active_members
  /\ VersionLimit \in Nat /\ VersionLimit > 1
  /\ RoundLimit \in Nat /\ RoundLimit > 1
  /\ {NumHashes, SeedingWindow, DefaultLead, TriggerLead} \subseteq Nat
  /\ {Week, MaxLead, RoundTime, FinalWindow} \subseteq Nat
  /\ UndefinedConfigs \subseteq RoundConfigs(max_active_members)

\* The \post lines of make_election_config that the state machine relies on.
ASSUME ConfigAssumption ==
  /\ make_election_config(0) = << >>
  /\ \A n \in 1..max_active_members :
       /\ make_election_config(n) \in Seq(RoundConfigs(max_active_members))
       /\ make_election_config(n) # << >>
       /\ make_election_config(n)[1].num_participants = n
       /\ make_election_config(n)[1].num_groups \in 1..n

VARIABLES
  state,    \* elect.curr: the current_election_state variant
  vote,     \* votes table: member -> [round, index, candidate]
  member,   \* member table (active rows): account -> [participation, rank, representative]
  ranks,    \* memberstats.ranks: number of members at each rank, from rank 0
  elect,    \* elect.state: [lead_representative, board]
  dateSet,  \* globals.election_start_time has been set
  paying,   \* a current_distribution is still being paid out
  entrants  \* history: who has opted in to the election as now scheduled

vars == <<state, vote, member, ranks, elect, dateSet, paying, entrants>>

no_representative == -1  \* eosio::name(-1)
no_hash == NumHashes     \* election_seeder::current before the first block

-----------------------------------------------------------------------------
(***************************************************************************)
(* The alternatives of current_election_state.                             *)
(***************************************************************************)
no_state == [type |-> "none"]  \* the singleton does not exist yet

pending_date == [type |-> "pending_date"]

registration(left, threshold, version) ==
  [type |-> "registration", left |-> left,
   election_threshold |-> threshold, election_schedule_version |-> version]

seeding(seed, left, version) ==
  [type |-> "seeding", seed |-> seed, left |-> left, election_schedule_version |-> version]

init_voters(next, last, report, version) ==
  [type |-> "init_voters", next_member_idx |-> next, last_processed |-> last,
   next_report_index |-> report, election_schedule_version |-> version]

active(round, config, left) ==
  [type |-> "active", round |-> round, config |-> config, left |-> left]

post_round(prev, config, input, output, report) ==
  [type |-> "post_round", prev_round |-> prev, prev_config |-> config,
   next_input_index |-> input, next_output_index |-> output,
   next_report_index |-> report]

final(seed, left) == [type |-> "final", seed |-> seed, left |-> left]

\* The threshold of a rescheduled election: more members than there can be.
never == max_active_members + 1

is_election_running ==
  CASE state.type \in {"none", "pending_date"} -> FALSE
    [] state.type = "registration" -> state.left = 0
    [] OTHER -> TRUE

-----------------------------------------------------------------------------
(***************************************************************************)
(* Members: rows of the member table and the rank statistics.              *)
(***************************************************************************)
new_member == [participation |-> 0, rank |-> 0, representative |-> no_representative]

\* Mutant: the count of the rank is set, not added to.
Mut_add_rank(rs, rank, k) ==
  IF k = 0 THEN rs
  ELSE [i \in 1..(IF Len(rs) <= rank THEN rank + 1 ELSE Len(rs)) |->
          IF i = rank + 1 THEN k ELSE IF i <= Len(rs) THEN rs[i] ELSE 0]

\* stats.ranks after k more members are given a rank.
add_rank(rs, rank, k) ==
  IF k = 0 THEN rs
  ELSE [i \in 1..(IF Len(rs) <= rank THEN rank + 1 ELSE Len(rs)) |->
          (IF i <= Len(rs) THEN rs[i] ELSE 0) + (IF i = rank + 1 THEN k ELSE 0)]

\* Mutant: the opt-in survives.
Mut_set_rank(tb, ms, rank, representative) ==
  [m \in DOMAIN tb |->
     IF m \in ms THEN [tb[m] EXCEPT !.rank = rank, !.representative = representative]
     ELSE tb[m]]

\* members::set_rank for every member of ms: the row, and the opt-in is used up.
set_rank(tb, ms, rank, representative) ==
  [m \in DOMAIN tb |->
     IF m \in ms
     THEN [participation |-> 0, rank |-> rank, representative |-> representative]
     ELSE tb[m]]

-----------------------------------------------------------------------------
(***************************************************************************)
(* Votes.                                                                  *)
(***************************************************************************)
rows(v, round) == {m \in DOMAIN v : v[m].round = round}

row_at(v, round, index) == CHOOSE m \in rows(v, round) : v[m].index = index

\* Mutant: whoever held the position stays there.
Mut_add_voter(v, round, next_index, m, pos) ==
  [x \in DOMAIN v \cup {m} |->
     IF x = m THEN [round |-> round, index |-> pos, candidate |-> no_candidate] ELSE v[x]]

\* add_voter: one step of an incremental shuffle.  The new voter takes position
\* pos and whoever held it moves to the end.
add_voter(v, round, next_index, m, pos) ==
  [x \in DOMAIN v \cup {m} |->
     IF x = m THEN [round |-> round, index |-> pos, candidate |-> no_candidate]
     ELSE IF pos # next_index /\ x = row_at(v, round, pos)
          THEN [v[x] EXCEPT !.index = next_index]
          ELSE v[x]]

\* The checks inside add_voter: the displaced row exists, the primary key is free.
can_add_voter(v, round, next_index, m, pos) ==
  /\ m \notin DOMAIN v
  /\ pos # next_index => \E x \in rows(v, round) : v[x].index = pos

\* The rows of a round from index lo on, below index hi.
rows_between(v, round, lo, hi) ==
  {m \in rows(v, round) : lo <= v[m].index /\ v[m].index < hi}

remove_rows(v, ms) == [m \in DOMAIN v \ ms |-> v[m]]

-----------------------------------------------------------------------------
(***************************************************************************)
(* Scheduling.                                                             *)
(***************************************************************************)
max(a, b) == IF a >= b THEN a ELSE b
min(a, b) == IF a <= b THEN a ELSE b

\* set_default_election: at the weekly time, 3 days after the last election began.
\* How much of that is left depends on how long the election took.
set_default_election(num_active) ==
  LET wanted    == num_active + (num_active + 9) \div 10
      threshold == min(max(wanted, min_election_threshold), max_active_members)
  IN  {registration(left, threshold, 1) : left \in 0..DefaultLead}

\* trigger_election: the states it may leave behind; none if it fails.
trigger_election ==
  IF ~dateSet THEN {pending_date}
  ELSE IF state.type # "registration" THEN {state}
  ELSE UNION {IF lead >= state.left THEN {state}
              ELSE {registration(lead, never, version) :
                      version \in {state.election_schedule_version + 1} \cap 1..(VersionLimit - 1)} :
                lead \in TriggerLead..(TriggerLead + Week)}

\* A schedule that replaced another one starts without entrants.
rescheduled(s, others) == IF s = state THEN others ELSE {}

-----------------------------------------------------------------------------
(***************************************************************************)
(* Actions of the contract account.                                        *)
(***************************************************************************)
\* Mutant: the version may overflow.
Mut_electsettime(left) ==
  /\ left \in SeedingWindow..MaxLead
  /\ \/ state.type = "none" /\ state' = registration(left, never, 1)
     \/ /\ state.type = "registration"
        /\ state.left >= SeedingWindow
        /\ state' = registration(left, never, (state.election_schedule_version + 1) % VersionLimit)
  /\ entrants' = {}
  /\ UNCHANGED <<vote, member, ranks, elect, dateSet, paying>>

\* electsettime(election_time)
electsettime(left) ==
  /\ left \in SeedingWindow..MaxLead
  /\ \/ state.type = "none" /\ state' = registration(left, never, 1)
     \/ /\ state.type = "registration"
        /\ state.election_schedule_version + 1 < VersionLimit
        /\ state.left >= SeedingWindow
        /\ state' = registration(left, never, state.election_schedule_version + 1)
  /\ entrants' = {}
  /\ UNCHANGED <<vote, member, ranks, elect, dateSet, paying>>

\* electconfig(day, time, duration): set_time.  The date is set before trigger_election
\* looks at it, which then finds no registration to move.
electconfig ==
  /\ dateSet' = TRUE
  /\ IF state.type = "none"
     THEN state' \in set_default_election(Cardinality(DOMAIN member))
     ELSE UNCHANGED state
  /\ UNCHANGED <<vote, member, ranks, elect, paying, entrants>>

-----------------------------------------------------------------------------
(***************************************************************************)
(* Actions of members.                                                     *)
(***************************************************************************)
registration_open ==
  state.type \in {"registration", "seeding"} /\ state.left > SeedingWindow

\* electopt(m, true) and electopt(m, false)
electopt(m, participating) ==
  /\ m \in DOMAIN member
  /\ registration_open
  /\ LET version == state.election_schedule_version
     IN  /\ participating <=> member[m].participation # version
         /\ member' = [member EXCEPT ![m].participation = IF participating THEN version ELSE 0]
  /\ entrants' = IF participating THEN entrants \cup {m} ELSE entrants \ {m}
  /\ UNCHANGED <<state, vote, ranks, elect, dateSet, paying>>

\* Mutant: any voter of the round can be voted for.
Mut_electvote(voter, candidate) ==
  /\ state.type = "active" /\ state.left > 0
  /\ {voter, candidate} \subseteq rows(vote, state.round)
  /\ vote' = [vote EXCEPT ![voter].candidate = candidate]
  /\ UNCHANGED <<state, member, ranks, elect, dateSet, paying, entrants>>

\* electvote(round, voter, candidate)
electvote(voter, candidate) ==
  /\ state.type = "active" /\ state.left > 0
  /\ {voter, candidate} \subseteq rows(vote, state.round)
  /\ member_index_to_group(state.config, vote[voter].index)
       = member_index_to_group(state.config, vote[candidate].index)
  /\ vote' = [vote EXCEPT ![voter].candidate = candidate]
  /\ UNCHANGED <<state, member, ranks, elect, dateSet, paying, entrants>>

\* inducted(m): set_active, then the election may be moved forward.
inducted(m) ==
  /\ m \in Member \ DOMAIN member
  /\ Cardinality(DOMAIN member) < max_active_members
  /\ member' = [x \in DOMAIN member \cup {m} |-> IF x = m THEN new_member ELSE member[x]]
  /\ IF /\ state.type = "registration"
        /\ Cardinality(DOMAIN member) + 1 >= state.election_threshold
     THEN state' \in trigger_election
     ELSE UNCHANGED state
  /\ entrants' = rescheduled(state', entrants)
  /\ UNCHANGED <<vote, ranks, elect, dateSet, paying>>

\* resign(m): elections::on_resign, then members::remove.  remove_from_board stores
\* the shortened board; it clears lead_representative only in its local copy.
resign(m) ==
  /\ m \in DOMAIN member
  /\ ~is_election_running
  /\ elect' = [elect EXCEPT !.board = @ \ {m}]
  /\ IF m = elect.lead_representative
     THEN state' \in trigger_election
     ELSE UNCHANGED state
  /\ member' = [x \in DOMAIN member \ {m} |-> member[x]]
  /\ ranks' = IF member[m].representative = no_representative THEN ranks
              ELSE [ranks EXCEPT ![member[m].rank + 1] = @ - 1]
  /\ entrants' = rescheduled(state', entrants \ {m})
  /\ UNCHANGED <<vote, dateSet, paying>>

\* rename(m, new): elections::on_rename and members::rename, which also follows the
\* representative column for ranks up to the member's own.
rename(m, new) ==
  LET renamed(x) == IF x = m THEN new ELSE x
      row(r) == [r EXCEPT !.representative =
                   IF @ = m /\ r.rank <= member[m].rank THEN new ELSE @]
  IN  /\ m \in DOMAIN member
      /\ new \in Member \ DOMAIN member
      /\ ~is_election_running
      /\ ~paying
      /\ elect' = [lead_representative |-> renamed(elect.lead_representative),
                   board |-> {renamed(x) : x \in elect.board}]
      /\ member' = [x \in (DOMAIN member \ {m}) \cup {new} |->
                      row(member[IF x = new THEN m ELSE x])]
      /\ entrants' = {renamed(x) : x \in entrants}
      /\ UNCHANGED <<state, vote, ranks, dateSet, paying>>

-----------------------------------------------------------------------------
(***************************************************************************)
(* Anyone: seeding, and electprocess one unit of work at a time.           *)
(***************************************************************************)
\* electseed(btc_header), for a header with the given hash.
electseed(hash) ==
  /\ \/ /\ state.type = "registration" /\ state.left <= SeedingWindow
        /\ hash < no_hash
        /\ state' = seeding(hash, state.left, state.election_schedule_version)
     \/ /\ state.type \in {"seeding", "final"}
        /\ hash < state.seed
        /\ state' = [state EXCEPT !.seed = hash]
  /\ UNCHANGED <<vote, member, ranks, elect, dateSet, paying, entrants>>

\* start_election: setup_distribution may put rows to be paid in the table.
start_election ==
  /\ state.type = "seeding" /\ state.left = 0
  /\ state' = init_voters(0, 0, 0, state.election_schedule_version)
  /\ paying' \in {paying, TRUE}
  /\ ranks' = << >>
  /\ UNCHANGED <<vote, member, elect, dateSet, entrants>>

\* The call of distribute_monthly in prepare_election.
distribute_first ==
  /\ state.type = "init_voters" /\ paying
  /\ paying' \in BOOLEAN
  /\ UNCHANGED <<state, vote, member, ranks, elect, dateSet, entrants>>

\* Members that randomize_voters has not reached.
unprocessed == {m \in DOMAIN member : m > state.last_processed}

\* randomize_voters: the next row of the member table.
randomize_voter(m, pos) ==
  /\ state.type = "init_voters" /\ ~paying
  /\ m \in unprocessed /\ \A x \in unprocessed : m <= x
  /\ IF member[m].participation = state.election_schedule_version
     THEN /\ state.next_member_idx < max_active_members  \* bound: no more voters than members
          /\ pos \in 0..state.next_member_idx
          /\ can_add_voter(vote, 0, state.next_member_idx, m, pos)
          /\ vote' = add_voter(vote, 0, state.next_member_idx, m, pos)
          /\ state' = [state EXCEPT !.next_member_idx = @ + 1, !.last_processed = m]
          /\ UNCHANGED member
     ELSE /\ pos = 0
          /\ member' = set_rank(member, {m}, 0, no_representative)
          /\ state' = [state EXCEPT !.last_processed = m]
          /\ UNCHANGED vote
  /\ UNCHANGED <<ranks, elect, dateSet, paying, entrants>>

\* prepare_election has nothing left to distribute or to number, and found voters.
voters_ready ==
  /\ state.type = "init_voters" /\ ~paying
  /\ unprocessed = {}
  /\ state.next_member_idx > 0

\* election_event_create_group for the next group of the first round.
report_first_round ==
  /\ voters_ready
  /\ \E m \in rows(vote, 0) : vote[m].index >= state.next_report_index
  /\ LET c == make_election_config(state.next_member_idx)[1]
     IN  state' = [state EXCEPT !.next_report_index = @ + group_size_at(c, @)]
  /\ UNCHANGED <<vote, member, ranks, elect, dateSet, paying, entrants>>

first_round_reported ==
  /\ voters_ready
  /\ \A m \in rows(vote, 0) : vote[m].index < state.next_report_index

\* Voting in the first round begins.
open_first_round ==
  /\ first_round_reported
  /\ LET configs == make_election_config(state.next_member_idx)
     IN  /\ Len(configs) > 1
         /\ state' = active(0, configs[1], RoundTime)
  /\ UNCHANGED <<vote, member, ranks, elect, dateSet, paying, entrants>>

\* Mutant: the winner gets the rank of the board (the line commented out in the code).
Mut_finish_election(winner) ==
  LET board == DOMAIN vote
      round == Len(ranks)
  IN  /\ Cardinality(board) < 12
      /\ board \subseteq DOMAIN member
      /\ vote' = remove_rows(vote, board)
      /\ elect' = [lead_representative |-> winner, board |-> board]
      /\ member' = set_rank(member, board, round, winner)
      /\ ranks' = add_rank(ranks, round, Cardinality(board))
      /\ paying' \in {paying, TRUE}
      /\ state' \in set_default_election(Cardinality(DOMAIN member))
      /\ entrants' = {}
      /\ UNCHANGED dateSet

\* extract_board and finish_election: whoever still has a vote row is the board.
finish_election(winner) ==
  LET board == DOMAIN vote
      round == Len(ranks)
  IN  /\ Cardinality(board) < 12
      /\ board \subseteq DOMAIN member
      /\ vote' = remove_rows(vote, board)
      /\ elect' = [lead_representative |-> winner, board |-> board]
      /\ member' = set_rank(set_rank(member, board \ {winner}, round, winner),
                            {winner}, round + 1, winner)
      /\ ranks' = add_rank(add_rank(ranks, round, Cardinality(board \ {winner})), round + 1, 1)
      /\ paying' \in {paying, TRUE}  \* process_election_distribution
      /\ state' \in set_default_election(Cardinality(DOMAIN member))
      /\ entrants' = {}
      /\ UNCHANGED dateSet

\* Too few voters for a round of voting: all of them are the board and the first
\* of them leads it.
finish_without_rounds ==
  /\ first_round_reported
  /\ Len(make_election_config(state.next_member_idx)) = 1
  /\ finish_election(row_at(vote, 0, 0))

\* finish_round first turns a round whose time is up into the round to be counted.
counted_round ==
  IF state.type = "active" /\ state.left = 0
  THEN post_round(state.round, state.config, 0, 0, 0)
  ELSE state

counting == counted_round.type = "post_round"

next_round(s) == (s.prev_round + 1) % RoundLimit

\* finish_round, one group: count it, give its losers their rank and enter its
\* winner, if it has one, in the next round.  pos is where the winner is shuffled to.
finish_group(pos) ==
  LET s      == counted_round
      size   == group_size_at(s.prev_config, s.next_input_index)
      group  == rows_between(vote, s.prev_round, s.next_input_index, s.next_input_index + size)
      votes  == [m \in group |-> vote[m].candidate]
      winner == group_winner(votes, row_at(vote, s.prev_round, s.next_input_index))
      erased == remove_rows(vote, group)
  IN  /\ counting
      /\ rows(vote, s.prev_round) # {}
      /\ group \subseteq DOMAIN member
      /\ IF winner > 0
         THEN /\ s.next_output_index < max_active_members  \* bound: no more winners than members
              /\ pos \in 0..s.next_output_index
              /\ can_add_voter(erased, next_round(s), s.next_output_index, winner, pos)
              /\ vote' = add_voter(erased, next_round(s), s.next_output_index, winner, pos)
         ELSE /\ pos = 0
              /\ vote' = erased
      /\ state' = [s EXCEPT !.next_input_index = @ + size,
                            !.next_output_index = @ + (IF winner > 0 THEN 1 ELSE 0)]
      /\ member' = set_rank(member, group \ {winner}, s.prev_round, winner)
      /\ ranks' = add_rank(ranks, s.prev_round, Cardinality(group \ {winner}))
      /\ UNCHANGED <<elect, dateSet, paying, entrants>>

\* Mutant: the report does not move on.
Mut_report_next_round ==
  /\ counting
  /\ rows(vote, counted_round.prev_round) = {}
  /\ \E m \in rows(vote, next_round(counted_round)) :
       vote[m].index >= counted_round.next_report_index
  /\ state' = counted_round
  /\ UNCHANGED <<vote, member, ranks, elect, dateSet, paying, entrants>>

\* election_event_create_group for the next group of the next round.
report_next_round ==
  LET s == counted_round
  IN  /\ counting
      /\ rows(vote, s.prev_round) = {}
      /\ \E m \in rows(vote, next_round(s)) : vote[m].index >= s.next_report_index
      /\ LET c == make_election_config(s.next_output_index)[1]
         IN  state' = [s EXCEPT !.next_report_index = @ + group_size_at(c, @)]
      /\ UNCHANGED <<vote, member, ranks, elect, dateSet, paying, entrants>>

\* The next round begins, or the wait for the seed that picks the leader.  With
\* no winner in any group config is empty and config.front() reads past its end.
open_next_round ==
  LET s      == counted_round
      config == make_election_config(s.next_output_index)
  IN  /\ counting
      /\ rows(vote, s.prev_round) = {}
      /\ \A m \in rows(vote, next_round(s)) : vote[m].index < s.next_report_index
      /\ IF Len(config) = 1
         THEN state' = final(no_hash, FinalWindow)
         ELSE \E c \in (IF config = << >> THEN UndefinedConfigs ELSE {config[1]}) :
                state' = active(next_round(s), c, RoundTime)
      /\ UNCHANGED <<vote, member, ranks, elect, dateSet, paying, entrants>>

\* The seed picks the leader among the board.
finish_with_seed(winner) ==
  /\ state.type = "final" /\ state.left = 0
  /\ winner \in DOMAIN vote
  /\ finish_election(winner)

electprocess ==
  \/ start_election
  \/ distribute_first
  \/ \E m \in DOMAIN member : \E pos \in 0..Cardinality(DOMAIN vote) : randomize_voter(m, pos)
  \/ report_first_round
  \/ open_first_round
  \/ finish_without_rounds
  \/ \E pos \in 0..Cardinality(DOMAIN vote) : finish_group(pos)
  \/ report_next_round
  \/ open_next_round
  \/ \E m \in DOMAIN vote : finish_with_seed(m)

-----------------------------------------------------------------------------
(***************************************************************************)
(* The environment: distributions (see Treasury) and time.                 *)
(***************************************************************************)
\* Distributions are set up between elections only, and paid at any time.
distribute ==
  /\ paying \/ state.type \in {"registration", "seeding"}
  /\ paying' = ~paying
  /\ UNCHANGED <<state, vote, member, ranks, elect, dateSet, entrants>>

Tick ==
  /\ state.type \in {"registration", "seeding", "active", "final"}
  /\ state.left > 0
  /\ state' = [state EXCEPT !.left = @ - 1]
  /\ UNCHANGED <<vote, member, ranks, elect, dateSet, paying, entrants>>

\* After genesis an election is scheduled.  A contract that ran genesis before
\* elections existed has neither a date nor a schedule.
Init ==
  /\ \/ state \in set_default_election(Cardinality(Founders)) /\ dateSet = TRUE
     \/ state = no_state /\ dateSet = FALSE
  /\ vote = [m \in {} |-> no_candidate]
  /\ member = [m \in Founders |-> new_member]
  /\ ranks = << >>
  /\ elect = [lead_representative |-> 0, board |-> {}]
  /\ paying = FALSE
  /\ entrants = {}

Next ==
  \/ \E left \in SeedingWindow..MaxLead : electsettime(left)
  \/ electconfig
  \/ \E m \in Member, participating \in BOOLEAN : electopt(m, participating)
  \/ \E m, c \in Member : electvote(m, c)
  \/ \E m \in Member : inducted(m)
  \/ \E m \in Member : resign(m)
  \/ \E m, new \in Member : rename(m, new)
  \/ \E hash \in 0..(NumHashes - 1) : electseed(hash)
  \/ electprocess
  \/ distribute
  \/ Tick

Spec == Init /\ [][Next]_vars

-----------------------------------------------------------------------------
(***************************************************************************)
(* Properties.                                                             *)
(***************************************************************************)
Indices == 0..max_active_members
Versions == 1..(VersionLimit - 1)
Configs == RoundConfigs(max_active_members)

States ==
  {no_state, pending_date}
    \cup [type : {"registration"}, left : Nat, election_threshold : Nat,
          election_schedule_version : Versions]
    \cup [type : {"seeding"}, seed : Nat, left : Nat, election_schedule_version : Versions]
    \cup [type : {"init_voters"}, next_member_idx : Indices, last_processed : Nat,
          next_report_index : Nat, election_schedule_version : Versions]
    \cup [type : {"active"}, round : 0..(RoundLimit - 1), config : Configs, left : Nat]
    \cup [type : {"post_round"}, prev_round : 0..(RoundLimit - 1), prev_config : Configs,
          next_input_index : Nat, next_output_index : Indices, next_report_index : Nat]
    \cup [type : {"final"}, seed : Nat, left : Nat]

VoteRows ==
  [round : 0..(RoundLimit - 1), index : Indices, candidate : Member \cup {no_candidate}]

MemberRows ==
  [participation : 0..(VersionLimit - 1), rank : Nat, representative : Int]

\* The values of the contract's tables: versions and rounds fit their uint8,
\* indices stay within the membership, and rows belong to known accounts.
TypeOK ==
  /\ state \in States
  /\ DOMAIN vote \subseteq Member
  /\ vote \in [DOMAIN vote -> VoteRows]
  /\ DOMAIN member \subseteq Member
  /\ member \in [DOMAIN member -> MemberRows]
  /\ ranks \in Seq(Int)
  /\ elect \in [lead_representative : Member \cup {0}, board : SUBSET Member]
  /\ dateSet \in BOOLEAN
  /\ paying \in BOOLEAN
  /\ entrants \subseteq Member

\* The voters of a round hold the indices lo..hi-1, each exactly one of them.
numbered(v, round, lo, hi) ==
  /\ \A m \in rows(v, round) : lo <= v[m].index /\ v[m].index < hi
  /\ \A i \in lo..(hi - 1) : \E m \in rows(v, round) : v[m].index = i
  /\ \A m, x \in rows(v, round) : v[m].index = v[x].index => m = x

\* What add_voter and the vote table promise (elections.cpp:234-236, elections.hpp:22-24):
\* voters are numbered from 0 without gaps or duplicates while they are being added,
\* in every batch of electprocess; a voter who advances leaves no row behind in the
\* round just counted; between elections no vote row exists.
VotersNumbered ==
  /\ state.type \in {"none", "pending_date", "registration", "seeding"} =>
       DOMAIN vote = {}
  /\ state.type = "init_voters" =>
       /\ DOMAIN vote = rows(vote, 0)
       /\ numbered(vote, 0, 0, state.next_member_idx)
  /\ state.type = "active" =>
       /\ DOMAIN vote = rows(vote, state.round)
       /\ DOMAIN vote # {} =>
            /\ state.config.num_groups > 0
            /\ numbered(vote, state.round, 0, state.config.num_participants)
  /\ state.type = "post_round" =>
       /\ DOMAIN vote = rows(vote, state.prev_round) \cup rows(vote, next_round(state))
       /\ rows(vote, state.prev_round) # {} =>
            /\ state.prev_config.num_groups > 0
            /\ numbered(vote, state.prev_round, state.next_input_index,
                        state.prev_config.num_participants)
       /\ numbered(vote, next_round(state), 0, state.next_output_index)
  /\ state.type = "final" =>
       \E round \in 0..(RoundLimit - 1), n \in 1..max_active_members :
         DOMAIN vote = rows(vote, round) /\ numbered(vote, round, 0, n)

\* A vote that electvote accepted stays a vote for someone of the same group
\* until the group is counted: the candidate still has a row in the round, and
\* finish_group's walk puts voter and candidate in the same group.
VotesWithinGroup ==
  LET s == counted_round
      r == IF counting THEN s.prev_round ELSE s.round
      c == IF counting THEN s.prev_config ELSE s.config
  IN  state.type \in {"active", "post_round"} =>
        \A m \in rows(vote, r) :
          vote[m].candidate # no_candidate =>
            /\ vote[m].candidate \in rows(vote, r)
            /\ member_index_to_group(c, vote[m].index)
                 = member_index_to_group(c, vote[vote[m].candidate].index)

\* memberstats.ranks counts the members of each rank.  Members being elected keep
\* their old rank in the table until they are counted, and resignations,
\* inductions and renames come in between.  Distributions divide by these counts.
RanksCounted ==
  LET ranked(r) == {m \in DOMAIN member \ DOMAIN vote :
                      member[m].representative # no_representative /\ member[m].rank = r}
      all_ranks == 0..(Len(ranks) - 1) \cup {member[m].rank : m \in DOMAIN member}
  IN  state.type # "init_voters" =>
        \A r \in all_ranks :
          (IF r < Len(ranks) THEN ranks[r + 1] ELSE 0) = Cardinality(ranked(r))

\* make_distribution divides the budget by ranks.size() - 1 and gives the remainder to
\* the top rank, so whenever a distribution can be set up the top rank has at most
\* one member and is not rank 0.
RanksPayable ==
  state.type \in {"registration", "seeding"} /\ ranks # << >> =>
    Len(ranks) >= 2 /\ ranks[Len(ranks)] <= 1

\* The voters of an election are those who opted in to it as it is scheduled now:
\* an opt-in does not survive a new date or the end of an election, and a member
\* inducted while voters are being numbered does not become one of them.
EntrantsAreVoters ==
  CASE state.type \in {"registration", "seeding"} ->
         entrants = {m \in DOMAIN member :
                       member[m].participation = state.election_schedule_version}
    [] state.type = "init_voters" ->
         entrants = DOMAIN vote \cup
                      {m \in unprocessed :
                         member[m].participation = state.election_schedule_version}
    [] OTHER -> DOMAIN vote \subseteq entrants

\* The board consists of active members, although members resign and are renamed.
BoardIsActive == elect.board \subseteq DOMAIN member

\* What elections hand to distributions, bylaws and statistics stays right between them: the
\* counts of ranks are those of the members, a budget can be divided by them, and the board
\* is active, although set_rank, add_rank, resign and rename change them one at a time.
RanksKept == RanksCounted /\ RanksPayable /\ BoardIsActive

\* An election leaves a hierarchy behind: the representative of everyone who took
\* part in it outranks them, and only the leader represents itself.
ElectionLeavesHierarchy ==
  [][state.type \in {"init_voters", "final"} /\ state'.type = "registration" =>
       \A m \in entrants :
         LET rep == member'[m].representative
         IN  \/ rep < no_representative
             \/ rep = m /\ m = elect'.lead_representative
             \/ rep \in DOMAIN member' /\ member'[rep].rank > member'[m].rank]_vars

-----------------------------------------------------------------------------
(***************************************************************************)
(* Liveness.                                                               *)
(***************************************************************************)
\* Time passes, anyone may call electprocess, and a distribution has finitely many
\* rows to pay.
Fairness ==
  /\ WF_vars(Tick)
  /\ WF_vars(electprocess)
  /\ WF_vars(distribute_first /\ ~paying')

FairSpec == Spec /\ Fairness

\* prepare_election fails with "No voters" forever.
nobody_entered ==
  state.type = "init_voters" /\ unprocessed = {} /\ state.next_member_idx = 0

\* No group of a round agreed on a winner.
nobody_advanced == state.type = "active" /\ DOMAIN vote = {}

\* An election that has begun ends with a new schedule, unless nobody entered it
\* or no group of a round agreed on a winner.
ElectionEnds ==
  state.type \in {"init_voters", "active", "post_round", "final"} ~>
    (state.type = "registration" \/ nobody_entered \/ nobody_advanced)

\* A leader who resigned leads no more: "Only the lead representative can set the proposed
\* bylaws" (bylaws.cpp:17).  Does not hold: remove_from_board changes a copy of the row.
LeaderIsActive == elect.lead_representative \in DOMAIN member \cup {0}

\* "wait until the date is set before scheduling the election" (trigger_election):
\* setting the date schedules a pending election.  Does not hold: trigger_election leaves
\* pending_date as it is.
DateSchedulesElection ==
  [][state.type = "pending_date" /\ ~dateSet /\ dateSet' =>
       state'.type = "registration"]_vars
=============================================================================
