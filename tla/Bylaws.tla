------------------------------- MODULE Bylaws -------------------------------
(***************************************************************************)
(* The bylaws of the community: contracts/eden/src/bylaws.cpp and          *)
(* src/actions/bylaws.cpp, with what elections and members do to them.     *)
(*                                                                         *)
(* Elections appear as their effect on the board (remove_from_board,       *)
(* on_rename, start_election, finish_election of src/elections.cpp), which *)
(* the module Elections models in full.  A text stands for its hash.       *)
(***************************************************************************)
EXTENDS Integers, FiniteSets

CONSTANTS
  Member,       \* account names
  Founders,     \* the members after genesis
  Text,         \* bylaws
  Quarter,      \* 90 days
  TriggerLead,  \* shortest time to a triggered election (30 days)
  MaxLead,      \* bound on the time to an election
  Horizon       \* bound on time

ASSUME BylawsAssumption ==
  /\ IsFiniteSet(Member) /\ Founders \subseteq Member
  /\ Quarter \in Nat \ {0}
  /\ {TriggerLead, MaxLead, Horizon} \subseteq Nat

VARIABLES
  now,
  running,             \* an election has started and is not finished
  electionTime,        \* of the scheduled or running election
  last_election_time,  \* elect.state; never before the first election
  board,               \* elect.state
  lead,                \* elect.state: lead_representative
  member,              \* active members
  bylaws,              \* bylaws table: type -> [text, time, approvals, term, by]
  term                 \* history: how many boards have been elected

vars == <<now, running, electionTime, last_election_time, board, lead, member, bylaws, term>>

never == -1

Stages == {"proposed", "pending", "ratified"}

\* A row of the table.  term and by are history: when and by whom it was brought there.
row(text, by) == [text |-> text, time |-> now, approvals |-> {}, term |-> term, by |-> by]

put(stage, r) == [s \in DOMAIN bylaws \cup {stage} |-> IF s = stage THEN r ELSE bylaws[s]]

\* bylaws::on_resign and bylaws::on_rename: the approvals of what can still be approved.
on_resign(m) ==
  [s \in DOMAIN bylaws |->
     IF s = "ratified" THEN bylaws[s] ELSE [bylaws[s] EXCEPT !.approvals = @ \ {m}]]

renamed(m, new, as) == {IF x = m THEN new ELSE x : x \in as}

on_rename(m, new) ==
  [s \in DOMAIN bylaws |->
     IF s = "ratified" THEN bylaws[s]
     ELSE [bylaws[s] EXCEPT !.approvals = renamed(m, new, @)]]

-----------------------------------------------------------------------------
(***************************************************************************)
(* The actions on bylaws.                                                  *)
(***************************************************************************)
\* set_proposed: it looks at elect.state and at nothing else.
bylawspropose(proposer, text) ==
  /\ last_election_time # never
  /\ proposer = lead
  /\ bylaws' = put("proposed", row(text, {proposer}))
  /\ UNCHANGED <<now, running, electionTime, last_election_time, board, lead, member, term>>

\* Mutant: one approval too few is asked for.
Mut_enough(approvals) == Cardinality(approvals) + 1 >= (Cardinality(board) * 2) \div 3

\* The approvals that are already there suffice for the next one to be the last.
enough(approvals) == Cardinality(approvals) >= (Cardinality(board) * 2) \div 3

\* Mutant: bylaws may be ratified as soon as they are pending.
Mut_old_enough(r) == TRUE

\* Pending bylaws can be ratified by a board elected 90 days after they were made.
old_enough(r) == r.time + Quarter <= last_election_time

\* bylaws::approve(current, next, approver, hash of text)
approve(current, next, approver, text) ==
  /\ current \in DOMAIN bylaws
  /\ bylaws[current].text = text
  /\ last_election_time # never
  /\ ~running /\ now < electionTime
  /\ approver \notin bylaws[current].approvals
  /\ approver \in board
  /\ next = "ratified" => old_enough(bylaws[current])
  /\ bylaws' =
       IF enough(bylaws[current].approvals)
       THEN [s \in (DOMAIN bylaws \cup {next}) \ {current} |->
               IF s = next THEN row(text, bylaws[current].approvals \cup {approver})
               ELSE bylaws[s]]
       ELSE [bylaws EXCEPT ![current].approvals = @ \cup {approver}]
  /\ UNCHANGED <<now, running, electionTime, last_election_time, board, lead, member, term>>

bylawsapprove(approver, text) == approve("proposed", "pending", approver, text)

bylawsratify(approver, text) == approve("pending", "ratified", approver, text)

-----------------------------------------------------------------------------
(***************************************************************************)
(* Members.                                                                *)
(***************************************************************************)
is_election_running == running \/ now >= electionTime

inducted(m) ==
  /\ m \in Member \ member
  /\ member' = member \cup {m}
  /\ UNCHANGED <<now, running, electionTime, last_election_time, board, lead, bylaws, term>>

\* Mutant: whoever leaves stays on the board.
Mut_resign(m) ==
  /\ m \in member
  /\ ~is_election_running
  /\ member' = member \ {m}
  /\ bylaws' = on_resign(m)
  /\ UNCHANGED <<now, running, electionTime, last_election_time, board, lead, term>>

\* resign: remove_from_board, which does not store that the lead representative is gone,
\* and on_resign of bylaws.  Without its leader a board may get an earlier election.
resign(m) ==
  /\ m \in member
  /\ ~is_election_running
  /\ board' = board \ {m}
  /\ IF m = lead
     THEN electionTime' \in {electionTime} \cup (now + TriggerLead)..electionTime
     ELSE UNCHANGED electionTime
  /\ member' = member \ {m}
  /\ bylaws' = on_resign(m)
  /\ UNCHANGED <<now, running, last_election_time, lead, term>>

\* rename: on_rename of elections and of bylaws.
rename(m, new) ==
  /\ m \in member
  /\ new \in Member \ member
  /\ ~is_election_running
  /\ board' = renamed(m, new, board)
  /\ lead' = IF lead = m THEN new ELSE lead
  /\ member' = renamed(m, new, member)
  /\ bylaws' = on_rename(m, new)
  /\ UNCHANGED <<now, running, electionTime, last_election_time, term>>

-----------------------------------------------------------------------------
(***************************************************************************)
(* Elections and time.                                                     *)
(***************************************************************************)
\* electsettime
electsettime(time) ==
  /\ ~running /\ now < electionTime
  /\ electionTime' = time
  /\ UNCHANGED <<now, running, last_election_time, board, lead, member, bylaws, term>>

\* Mutant: approvals of pending bylaws survive the board that gave them.
Mut_new_board ==
  [s \in DOMAIN bylaws \ {"proposed"} |-> bylaws[s]]

\* bylaws::new_board
new_board ==
  [s \in DOMAIN bylaws \ {"proposed"} |->
     IF s = "pending" THEN [bylaws[s] EXCEPT !.approvals = {}] ELSE bylaws[s]]

\* start_election
start_election ==
  /\ ~running /\ now >= electionTime
  /\ running' = TRUE
  /\ last_election_time' = electionTime
  /\ bylaws' = new_board
  /\ UNCHANGED <<now, electionTime, board, lead, member, term>>

\* finish_election, for the voters of the last group and the winner among them.
finish_election(voters, winner, time) ==
  /\ running
  /\ running' = FALSE
  /\ board' = voters /\ lead' = winner
  /\ electionTime' = time
  /\ term' = term + 1
  /\ UNCHANGED <<now, last_election_time, member, bylaws>>

Tick ==
  /\ now < Horizon  \* bound
  /\ now' = now + 1
  /\ UNCHANGED <<running, electionTime, last_election_time, board, lead, member, bylaws, term>>

-----------------------------------------------------------------------------
Init ==
  /\ now = 0
  /\ running = FALSE /\ electionTime \in 0..MaxLead
  /\ last_election_time = never
  /\ board = {} /\ lead = never
  /\ member = Founders
  /\ bylaws = [s \in {} |-> row(s, {})]
  /\ term = 0

Next ==
  \/ \E m \in Member, text \in Text : bylawspropose(m, text)
  \/ \E m \in Member, text \in Text : bylawsapprove(m, text)
  \/ \E m \in Member, text \in Text : bylawsratify(m, text)
  \/ \E m \in Member : inducted(m)
  \/ \E m \in Member : resign(m)
  \/ \E m, new \in Member : rename(m, new)
  \/ \E time \in (now + 1)..(now + MaxLead) : electsettime(time)
  \/ start_election
  \/ \E voters \in SUBSET member, time \in (last_election_time + 1)..(now + MaxLead) :
       \E winner \in voters : finish_election(voters, winner, time)
  \/ Tick

Spec == Init /\ [][Next]_vars

-----------------------------------------------------------------------------
(***************************************************************************)
(* Properties.                                                             *)
(***************************************************************************)
Rows ==
  [text : Text, time : Nat, approvals : SUBSET Member, term : Nat, by : SUBSET Member]

\* The types of the tables; the board consists of active members, although resign and rename
\* change the two in different calls.
TypeOK ==
  /\ now \in Nat /\ electionTime \in Nat
  /\ running \in BOOLEAN
  /\ last_election_time \in Nat \cup {never}
  /\ member \subseteq Member
  /\ board \subseteq member
  /\ lead \in Member \cup {never}
  /\ DOMAIN bylaws \subseteq Stages
  /\ bylaws \in [DOMAIN bylaws -> Rows]
  /\ term \in Nat

\* Only approvals of the present board count (bylaws.cpp, approve): board members resign, are
\* renamed and are replaced by an election, and no approval of theirs outlives their seat.
ApprovalsFromBoard ==
  \A s \in DOMAIN bylaws :
    /\ bylaws[s].approvals \subseteq board
    /\ running \/ s = "ratified" => bylaws[s].approvals = {}

\* A step brings new bylaws to a stage.
Gains(stage) ==
  /\ stage \in DOMAIN bylaws'
  /\ stage \in DOMAIN bylaws => \/ bylaws'[stage].text # bylaws[stage].text
                               \/ bylaws'[stage].time # bylaws[stage].time

\* "pending: 2/3+1 approval of proposed", "ratified: 2/3+1 approval of pending" (bylaws.hpp:37):
\* bylaws advance by approvals of more than two thirds of the board as it is now, all of them
\* given to this text, however the board has shrunk or been renamed meanwhile.
AdoptedBySupermajority ==
  [][\A stage \in {"pending", "ratified"} :
       Gains(stage) =>
         LET by == bylaws'[stage].by
         IN  by \subseteq board /\ 3 * Cardinality(by) > 2 * Cardinality(board)]_vars

\* "ratified: 2/3+1 approval of pending by a later board" (bylaws.hpp:38): what is ratified
\* was pending when an earlier board was in office.
RatifiedByLaterBoard ==
  [][Gains("ratified") =>
       /\ "pending" \in DOMAIN bylaws
       /\ bylaws["pending"].text = bylaws'["ratified"].text
       /\ bylaws["pending"].term < term]_vars

\* "The vote to approve a proposal as well as ratify a proposed set of bylaws shall be
\* approved by 2/3+1 vote, which shall include the lead representative"
\* (eden-ricardian.cpp:138): a board that has a leader ratifies nothing without it.  Does not
\* hold: approve() treats all board members alike, and of four the other three suffice.
LeaderRatifies ==
  [][Gains("ratified") /\ lead \in board => lead \in bylaws'["ratified"].by]_vars

\* "Resets state at the beginning of a term.  The proposed bylaws are cleared outright"
\* (bylaws.hpp:58).  Does not hold: they are cleared when the election starts, and the
\* outgoing leader can propose again until it is finished.
NewTermStartsClean ==
  "proposed" \in DOMAIN bylaws /\ ~running => bylaws["proposed"].term = term

=============================================================================
