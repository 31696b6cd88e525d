---------------------------- MODULE ElectionView ----------------------------
(***************************************************************************)
(* The election as the micro chain shows it                                *)
(* (contracts/eden/src/eden-micro-chain.cpp).  The contract pushes events  *)
(* while it works (elections.cpp, push_event; the order is documented in   *)
(* include/events.hpp) and the micro chain applies them, and the actions   *)
(* electopt and electvote it sees, to tables of its own.  A handler whose  *)
(* check fails stops the micro chain for good.                             *)
(*                                                                         *)
(* Every action of Elections that this module follows is taken together    *)
(* with the events of that same unit of work: events and state change      *)
(* belong to one transaction.  Elections are numbered in the order of      *)
(* their times, which is the order in which they begin.                    *)
(***************************************************************************)
EXTENDS Elections, SequencesExt

CONSTANT MaxElections  \* elections that begin while the system is observed

VARIABLE view  \* the micro chain's tables

view_vars == <<vars, view>>

no_final_group == 0

(***************************************************************************)
(* The tables: elections in order; rounds by (election, round); groups by  *)
(* id in order of creation; votes by (voter, election, round); the members *)
(* shown as participating and how many there are said to be.               *)
(***************************************************************************)
empty_view ==
  [elections |-> << >>, rounds |-> << >>, groups |-> << >>, votes |-> << >>,
   participating |-> {}, num_participating |-> 0, aborted |-> FALSE]

current(v) == Len(v.elections)

aborted(v) == [v EXCEPT !.aborted = TRUE]

-----------------------------------------------------------------------------
(***************************************************************************)
(* The handlers of events.                                                 *)
(***************************************************************************)
on_schedule(v) == [v EXCEPT !.participating = {}]

on_begin(v) ==
  [v EXCEPT !.elections =
     Append(@, [seeding |-> FALSE, results |-> FALSE, num_rounds |-> 0,
                num_participants |-> 0, final_group |-> no_final_group])]

on_election(v, field, value) ==
  IF v.elections = << >> THEN aborted(v)
  ELSE [v EXCEPT !.elections[current(v)][field] = value]

on_config_summary(v, rounds, participants) ==
  on_election(on_election(v, "num_rounds", rounds), "num_participants", participants)

on_create_round(v, round, requires_voting, config) ==
  LET key == <<current(v), round>>
      row == [participants |-> config.num_participants, groups |-> config.num_groups,
              requires_voting |-> requires_voting,
              started |-> FALSE, finished |-> FALSE, results |-> FALSE]
  IN  IF key \in DOMAIN v.rounds THEN aborted(v)
      ELSE [v EXCEPT !.rounds = [k \in DOMAIN @ \cup {key} |-> IF k = key THEN row ELSE @[k]]]

on_round(v, round, field) ==
  LET key == <<current(v), round>>
  IN  IF key \notin DOMAIN v.rounds THEN aborted(v)
      ELSE [v EXCEPT !.rounds[key][field] = TRUE]

\* No handler touches the votes of a round after its end: their candidates, which
\* stay in the table, are not kept here.
on_end_round(v, round) ==
  [on_round(v, round, "results") EXCEPT !.votes =
     [k \in DOMAIN @ |-> IF k[2] = current(v) /\ k[3] = round
                         THEN [@[k] EXCEPT !.candidate = no_candidate] ELSE @[k]]]

\* The group's id is how many there are, its key the least of its voters.
on_create_group(v, round, voters) ==
  LET id   == Len(v.groups) + 1
      keys == {<<m, current(v), round>> : m \in voters}
  IN  IF voters = {} \/ keys \cap DOMAIN v.votes # {} THEN aborted(v)
      ELSE [v EXCEPT !.groups = Append(@, [election |-> current(v), round |-> round,
                                           first_member |-> Min(voters), winner |-> 0]),
                     !.votes = [k \in DOMAIN @ \cup keys |->
                                  IF k \in keys THEN [group |-> id, candidate |-> no_candidate]
                                  ELSE @[k]]]

\* The groups with the given key.
groups_of(v, round, voters) ==
  {i \in DOMAIN v.groups : /\ v.groups[i].election = current(v) /\ v.groups[i].round = round
                           /\ v.groups[i].first_member = Min(voters)}

on_report_group(v, round, winner, votes) ==
  LET voters == DOMAIN votes
      keys   == {<<m, current(v), round>> : m \in voters}
  IN  IF voters = {} \/ groups_of(v, round, voters) = {} \/ ~keys \subseteq DOMAIN v.votes
      THEN aborted(v)
      ELSE [v EXCEPT !.groups[Min(groups_of(v, round, voters))].winner = winner,
                     !.votes = [k \in DOMAIN @ |->
                                  IF k \in keys THEN [@[k] EXCEPT !.candidate = votes[k[1]]]
                                  ELSE @[k]]]

\* The final group is the first one of the last of the rounds announced at the start.
on_end(v) ==
  LET e     == current(v)
      last  == v.elections[e].num_rounds - 1
      ids   == {i \in DOMAIN v.groups : v.groups[i].election = e /\ v.groups[i].round = last}
      least == {i \in ids : \A j \in ids : v.groups[i].first_member <= v.groups[j].first_member}
  IN  IF e = 0 THEN aborted(v)
      ELSE [v EXCEPT !.elections[e].results = TRUE,
                     !.elections[e].final_group = IF ids = {} THEN @ ELSE Min(least),
                     !.participating = {}, !.num_participating = 0]

handled(v, ev) ==
  CASE v.aborted                  -> v
    [] ev.type = "schedule"       -> on_schedule(v)
    [] ev.type = "begin"          -> on_begin(v)
    [] ev.type = "seeding"        -> on_election(v, "seeding", TRUE)
    [] ev.type = "end_seeding"    -> on_election(v, "seeding", FALSE)
    [] ev.type = "config_summary" -> on_config_summary(v, ev.num_rounds, ev.num_participants)
    [] ev.type = "create_round"   -> on_create_round(v, ev.round, ev.requires_voting, ev.config)
    [] ev.type = "create_group"   -> on_create_group(v, ev.round, ev.voters)
    [] ev.type = "begin_voting"   -> on_round(v, ev.round, "started")
    [] ev.type = "end_voting"     -> on_round(v, ev.round, "finished")
    [] ev.type = "report_group"   -> on_report_group(v, ev.round, ev.winner, ev.votes)
    [] ev.type = "end_round"      -> on_end_round(v, ev.round)
    [] ev.type = "end"            -> on_end(v)

\* The same, with its arguments computed once.
handle_event(v, ev) == CHOOSE w \in {handled(x, y) : x \in {v}, y \in {ev}} : TRUE

\* send_events: the events of a transaction in the order they were pushed.
push(events) == \E pushed \in {events} : view' = FoldLeft(handle_event, view, pushed)

-----------------------------------------------------------------------------
(***************************************************************************)
(* What the contract pushes.                                               *)
(***************************************************************************)
event(type) == [type |-> type]
round_event(type, round) == [type |-> type, round |-> round]

create_round(round, configs) ==
  [type |-> "create_round", round |-> round, requires_voting |-> Len(configs) > 1,
   config |-> IF configs = << >> THEN CHOOSE c \in UndefinedConfigs : TRUE ELSE configs[1]]

\* Mutant: every group is reported as large as the largest.
Mut_report_create_group(round, config, index) ==
  [type |-> "create_group", round |-> round,
   voters |-> rows_between(vote, round, index, index + group_max_size(config))]

report_create_group(round, config, index) ==
  [type |-> "create_group", round |-> round,
   voters |-> rows_between(vote, round, index, index + group_size_at(config, index))]

report_group(round, winner, votes) ==
  [type |-> "report_group", round |-> round, winner |-> winner, votes |-> votes]

\* set_state_sing
set_state_sing ==
  IF state' = state THEN << >>
  ELSE CASE state'.type = "registration"      -> <<event("schedule")>>
         [] state'.type \in {"seeding", "final"} -> <<event("seeding")>>
         [] OTHER                             -> << >>

finish_election_events(winner) ==
  LET round == Len(ranks)
  IN  (IF round > 0 THEN <<event("end_seeding")>> ELSE << >>)
        \o <<round_event("end_voting", round),
             report_group(round, winner, [m \in DOMAIN vote |-> 0]),
             round_event("end_round", round), event("end")>>
        \o set_state_sing

\* finish_round: what it pushes once, when the time of a round is up ...
close_voting ==
  IF state.type = "active" THEN <<round_event("end_voting", state.round)>> ELSE << >>

\* ... and once, when all groups of a round are counted.
close_round(s) ==
  IF s.next_report_index > 0 THEN << >>
  ELSE <<round_event("end_round", s.prev_round),
         create_round(next_round(s), make_election_config(s.next_output_index))>>

-----------------------------------------------------------------------------
(***************************************************************************)
(* The actions with their events.                                          *)
(***************************************************************************)
seed_shown(hash) ==
  /\ electseed(hash)
  /\ state.type = "registration" => current(view) < MaxElections  \* bound
  /\ push((IF state.type = "registration" THEN <<event("begin")>> ELSE << >>) \o set_state_sing)

start_shown == start_election /\ push(<<event("end_seeding")>>)

prepare_shown ==
  /\ \/ distribute_first
     \/ \E m \in DOMAIN member : \E pos \in 0..Cardinality(DOMAIN vote) : randomize_voter(m, pos)
  /\ UNCHANGED view

report_first_shown ==
  LET configs == make_election_config(state.next_member_idx)
  IN  /\ report_first_round
      /\ push((IF state.next_report_index > 0 THEN << >>
               ELSE <<[type |-> "config_summary", num_rounds |-> Len(configs),
                       num_participants |-> configs[1].num_participants],
                      create_round(0, configs)>>)
              \o <<report_create_group(0, configs[1], state.next_report_index)>>)

open_first_shown == open_first_round /\ push(<<round_event("begin_voting", 0)>>)

finish_without_rounds_shown ==
  /\ finish_without_rounds
  /\ push(<<round_event("begin_voting", 0)>> \o finish_election_events(row_at(vote, 0, 0)))

finish_group_shown(pos) ==
  LET s      == counted_round
      size   == group_size_at(s.prev_config, s.next_input_index)
      group  == rows_between(vote, s.prev_round, s.next_input_index, s.next_input_index + size)
      votes  == [m \in group |-> vote[m].candidate]
      winner == group_winner(votes, row_at(vote, s.prev_round, s.next_input_index))
  IN  /\ finish_group(pos)
      /\ push(close_voting \o <<report_group(s.prev_round, winner, votes)>>)

report_next_shown ==
  LET s == counted_round
  IN  /\ report_next_round
      /\ push(close_voting \o close_round(s)
              \o <<report_create_group(next_round(s), make_election_config(s.next_output_index)[1],
                                       s.next_report_index)>>)

open_next_shown ==
  /\ open_next_round
  /\ push(close_voting \o close_round(counted_round)
          \o <<round_event("begin_voting", next_round(counted_round))>> \o set_state_sing)

finish_with_seed_shown(winner) ==
  finish_with_seed(winner) /\ push(finish_election_events(winner))

\* The micro chain's electvote: the row of the voter in the latest election.
electvote_shown(voter, candidate) ==
  LET key == <<voter, current(view), state.round>>
  IN  /\ electvote(voter, candidate)
      /\ view' = IF view.aborted THEN view
                 ELSE IF key \notin DOMAIN view.votes THEN aborted(view)
                 ELSE [view EXCEPT !.votes[key].candidate = candidate]

\* The micro chain's electopt.
electopt_shown(m, participating) ==
  /\ current(view) < MaxElections  \* bound
  /\ electopt(m, participating)
  /\ view' = [view EXCEPT !.participating = IF participating THEN @ \cup {m} ELSE @ \ {m},
                          !.num_participating = @ + (IF participating THEN 1 ELSE -1)]

-----------------------------------------------------------------------------
(***************************************************************************)
(* One election, or MaxElections of them, of a membership that does not    *)
(* change; distributions are paid by electprocess alone.                   *)
(***************************************************************************)
electprocess_shown ==
  \/ start_shown
  \/ prepare_shown
  \/ report_first_shown
  \/ open_first_shown
  \/ finish_without_rounds_shown
  \/ \E pos \in 0..Cardinality(DOMAIN vote) : finish_group_shown(pos)
  \/ report_next_shown
  \/ open_next_shown
  \/ \E m \in DOMAIN vote : finish_with_seed_shown(m)

InitShown ==
  /\ state = registration(SeedingWindow + 1, never, 1)
  /\ dateSet = TRUE
  /\ vote = << >>
  /\ member = [m \in Founders |-> new_member]
  /\ ranks = << >>
  /\ elect = [lead_representative |-> 0, board |-> {}]
  /\ paying = FALSE
  /\ entrants = {}
  /\ view = empty_view

NextShown ==
  \/ \E m \in Member, participating \in BOOLEAN : electopt_shown(m, participating)
  \/ \E m, c \in Member : electvote_shown(m, c)
  \/ \E hash \in 0..(NumHashes - 1) : seed_shown(hash)
  \/ electprocess_shown
  \/ Tick /\ UNCHANGED view

SpecShown == InitShown /\ [][NextShown]_view_vars

\* Events are always delivered, so the fairness of Elections is what is assumed here.
FairSpecShown == SpecShown /\ Fairness

-----------------------------------------------------------------------------
(***************************************************************************)
(* What queries read.                                                      *)
(***************************************************************************)
\* ElectionGroup::votes: by_group from (id, 0) on while the id is the same.
group_votes(id) == {k[1] : k \in {k \in DOMAIN view.votes : view.votes[k].group = id}}

\* MemberElection::votes: the rounds between (account, time, 0) and (account, time, 255).
member_rounds(m, e) == {k[3] : k \in {k \in DOMAIN view.votes : k[1] = m /\ k[2] = e}}

\* ElectionRound::groups: by_round from (time, round, 0) to (time, round, ~0).
round_groups(e, round) ==
  {i \in DOMAIN view.groups : view.groups[i].election = e /\ view.groups[i].round = round}

(***************************************************************************)
(* Properties.                                                             *)
(***************************************************************************)
\* The micro chain follows a running election.  No handler ever misses the record
\* it looks up ("missing record") or finds its key taken, although groups are
\* created, voted in and reported by different calls of electprocess that compute
\* their bounds anew; the groups it shows are the groups the contract counts, and
\* every vote it shows is the one the contract has, until the group is counted.
\* (When no group of a round agrees the contract opens empty rounds until their
\* number wraps around, and only then the key of a round is taken.)
RoundsShown ==
  LET s == counted_round
      r == IF counting THEN s.prev_round ELSE s.round
      c == IF counting THEN s.prev_config ELSE s.config
      shown(m) == view.votes[<<m, current(view), r>>]
  IN  /\ ~view.aborted \/ nobody_advanced
      /\ state.type \in {"registration", "seeding"} =>
           /\ view.participating = entrants
           /\ view.num_participating = Cardinality(entrants)
      /\ state.type \in {"active", "post_round"} =>
           \A m \in rows(vote, r) :
             /\ <<m, current(view), r>> \in DOMAIN view.votes
             /\ shown(m).candidate = vote[m].candidate
             /\ group_votes(shown(m).group) =
                  {x \in rows(vote, r) : member_index_to_group(c, vote[x].index)
                                           = member_index_to_group(c, vote[m].index)}

\* Once an election is over its record agrees with the member table it left behind:
\* whoever took part is shown in all rounds up to the one that gave the member its
\* rank, in a group whose winner is the member's representative; every round shown
\* has its results and its number of groups.
ResultsShown ==
  LET e        == current(view)
      voters   == {k[1] : k \in {k \in DOMAIN view.votes : k[2] = e}}
      last(m)  == Max(member_rounds(m, e))
      group(m) == view.groups[view.votes[<<m, e, last(m)>>].group]
  IN  state.type = "registration" /\ e > 0 =>
        /\ view.elections[e].results
        /\ \A m \in voters :
             /\ member_rounds(m, e) = 0..last(m)
             /\ last(m) = member[m].rank - (IF m = elect.lead_representative THEN 1 ELSE 0)
             /\ group(m).winner = member[m].representative
        /\ \A k \in DOMAIN view.rounds :
             /\ view.rounds[k].results /\ view.rounds[k].finished
             /\ k[1] = e => Cardinality(round_groups(e, k[2])) = view.rounds[k].groups

\* The micro chain shows the election that the contract holds: its rounds, groups and votes
\* while it runs, and its results when it is over.
ElectionShown == RoundsShown /\ ResultsShown

=============================================================================
