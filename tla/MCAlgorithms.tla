---------------------------- MODULE MCAlgorithms ----------------------------
(***************************************************************************)
(* The pure algorithms of the project, each against the rule it stands     *)
(* for: the rounds of an election for every number of participants         *)
(* (max_active_members = 10000), the count of a group's votes for every    *)
(* vote, the division of a budget for all small rank statistics and        *)
(* amounts, the pages of a table that changes while a client asks for one  *)
(* page after the other, the conversions of MCCodecs and the transactions, *)
(* resolvers and queries of MCReadModel.  The variable holds the input     *)
(* under test.                                                             *)
(***************************************************************************)
EXTENDS MCReadModel, ElectionConfig, GroupVote, Distribution, Connection

CONSTANTS
  MaxParticipants, MaxWalked,     \* of the rounds, and of the walk over groups
  MaxGroup,                       \* size of a group that votes
  MaxRanks, MaxCount, MaxAmount,  \* of a division
  MaxKey, MaxPage                 \* of a table, and of a page

ASSUME BoundsAssumption ==
  {MaxParticipants, MaxWalked, MaxGroup, MaxRanks, MaxCount, MaxAmount, MaxKey, MaxPage} \subseteq Nat

-----------------------------------------------------------------------------
(***************************************************************************)
(* Rounds.                                                                 *)
(***************************************************************************)
RoundsInit == \E n \in {0, 500, 2500, 5000, 7500} : n <= MaxParticipants /\ input = [kind |-> "rounds", n |-> n]

MoreParticipants == is("rounds") /\ input.n < MaxParticipants /\ input' = [input EXCEPT !.n = @ + 1]

\* The chain of rounds (elections.hpp, the \post lines of make_election_config):
\* the first round takes every participant, the winners of a round, one per
\* group, are exactly the participants of the next, and the last round has one
\* group.  finish_round recomputes the configuration of the remaining rounds
\* from the number of winners, so a broken chain would lose or invent voters.
ParticipantsChain ==
  is("rounds") =>
    \A config \in make_election_config(input.n) :
      IF input.n = 0 THEN config = << >>
      ELSE /\ config[1].num_participants = input.n
           /\ config[Len(config)].num_groups = 1
           /\ \A i \in 1..(Len(config) - 1) :
                config[i].num_groups = config[i + 1].num_participants

\* The sizes the header requires: groups of 4 to 6 in every round but the last,
\* a last group of at least 3 (when there are 3 voters at all) and of fewer than
\* 12, the limit at which extract_board gives up on the election.
GroupSizesBounded ==
  is("rounds") =>
    \A config \in make_election_config(input.n) :
      \A i \in DOMAIN config :
        LET c        == config[i]
            smallest == IF num_short_groups(c) > 0 THEN group_min_size(c) ELSE group_max_size(c)
        IN  IF i < Len(config)
            THEN smallest >= 4 /\ group_max_size(c) <= 6
            ELSE group_max_size(c) < 12 /\ (input.n >= 3 => smallest >= 3)

\* The rounds that make_election_config makes, for every number of participants and every
\* result of the floating-point logarithms: they chain, and their groups have the sizes that
\* the header promises.
RoundsChain == ParticipantsChain /\ GroupSizesBounded

\* The two places that cut a round into groups agree for every voter: electvote
\* asks member_index_to_group whether two voters share a group, while the counting
\* loop walks from index to index by group_size_at.  If they disagreed, a
\* vote could be counted in another group than the one it was accepted in.
WalkMatchesGroups ==
  is("rounds") /\ input.n <= MaxWalked =>
    \A config \in make_election_config(input.n) :
      \A r \in DOMAIN config :
        LET c == config[r]
        IN  \A g \in 0..(c.num_groups - 1) :
              LET start == group_to_first_member_index(c, g)
                  size  == group_size_at(c, start)
              IN  /\ size >= 1
                  /\ \A i \in start..(start + size - 1) : member_index_to_group(c, i) = g
                  /\ start + size = IF g = c.num_groups - 1 THEN c.num_participants
                                    ELSE group_to_first_member_index(c, g + 1)

-----------------------------------------------------------------------------
(***************************************************************************)
(* Times.  electsettime gives a day of the week, an hour and a minute.     *)
(***************************************************************************)
second_of_week(day, hours, minutes) == ((24 * day + hours) * 60 + minutes) * 60

TimesInit ==
  \E day \in 0..6, hours \in {0, 16, 23}, minutes \in {0, 59}, base_day \in 19000..19006, time \in {0, 1, 57600, 86399} :
    input = [kind |-> "time", start |-> second_of_week(day, hours, minutes), base |-> base_day * day_seconds + time]

\* set_default_election and trigger_election ask for the first moment from a time on that has
\* the day of the week and the time of the day that electsettime set: never an earlier one,
\* though both wrap around and the time of the day may have passed, and none a week too late.
\* Day 0 of the epoch, 1 January 1970, was a Thursday (4).
ElectionTimeRight ==
  is("time") =>
    \A t \in {get_election_time(input.start, input.base)} :
      /\ t >= input.base /\ t < input.base + 7 * day_seconds
      /\ (t + 4 * day_seconds) % (7 * day_seconds) = input.start

-----------------------------------------------------------------------------
(***************************************************************************)
(* Votes.  electvote only accepts candidates of the voter's own group, and *)
(* each voter may choose any of them or none.                              *)
(***************************************************************************)
VotesInit ==
  \E size \in 1..MaxGroup : input = [kind |-> "votes", votes |-> [m \in 1..size |-> no_candidate], next |-> 1]

Vote ==
  /\ is("votes")
  /\ input.next \in DOMAIN input.votes
  /\ \E c \in DOMAIN input.votes \cup {no_candidate} :
       input' = [input EXCEPT !.votes[input.next] = c, !.next = @ + 1]

\* Who a group has agreed on: a member who stands (votes for itself) and has more
\* than two thirds of the votes that were cast.
AgreedOn(votes, c) ==
  /\ votes[c] = c
  /\ 3 * Cardinality({m \in DOMAIN votes : votes[m] = c}) > 2 * Cardinality(voted(votes))

\* finish_group's single comparison, in which a vote for oneself weighs the size
\* of the group, elects exactly the member the group has agreed on, and reports
\* the complement of the first member's name when there is none.  In particular
\* std::max_element's choice among several maxima never matters.
WinnerIsAgreed ==
  is("votes") =>
    \A winner \in {group_winner(input.votes, 1)} :
      LET agreed == {c \in DOMAIN input.votes : AgreedOn(input.votes, c)}
      IN  IF winner \in DOMAIN input.votes THEN agreed = {winner} ELSE agreed = {} /\ winner = bitnot(1)

-----------------------------------------------------------------------------
(***************************************************************************)
(* Budgets.                                                                *)
(***************************************************************************)
\* Every statistic that RanksPayable of Elections allows.
Statistics ==
  UNION {{s \in [1..n -> 0..MaxCount] : s[n] <= 1} : n \in 2..MaxRanks}

BudgetInit == \E s \in Statistics : input = [kind |-> "budget", ranks |-> s, amount |-> 0]

MoreMoney == is("budget") /\ input.amount < MaxAmount /\ input' = [input EXCEPT !.amount = @ + 1]

shares == rank_distribution(input.ranks, input.amount)

\* distribute_monthly walks over the members and pays each the shares up to its rank.
\* All of them together get exactly what make_distribution takes for them, and not more than
\* the amount, and no share is negative.  Otherwise the walk fails with "Overdrawn
\* balance" for ever, or leaves funds in an account that nobody can use.
DividesExactly ==
  is("budget") =>
    LET ranks  == input.ranks
        pay(r) == SumFunctionOnSet(shares, 1..r)
        paid   == SumFunction([r \in 1..(Len(ranks) - 1) |->
                                 IF ranks[r + 1] = 0 THEN 0 ELSE ranks[r + 1] * pay(r)])
    IN  /\ paid = distributed(ranks, input.amount) /\ paid <= input.amount
        /\ \A k \in DOMAIN shares : shares[k] >= 0

-----------------------------------------------------------------------------
(***************************************************************************)
(* Pages.  A client walks forwards or backwards with the cursors it gets,  *)
(* while blocks insert and remove rows.                                    *)
(***************************************************************************)
Key == 1..MaxKey

PagesInit ==
  \E S \in SUBSET Key, ge \in {none, 2}, lt \in {none, MaxKey}, size \in 1..MaxPage, forward \in BOOLEAN :
    input = [kind |-> "pages", table |-> S, ge |-> ge, lt |-> lt, size |-> size, forward |-> forward,
             cursor |-> none, more |-> TRUE, seen |-> << >>, stable |-> S]

page ==
  IF input.forward
  THEN make_connection(input.table, none, input.ge, input.lt, none, input.size, none, none, input.cursor)
  ELSE make_connection(input.table, none, input.ge, input.lt, none, none, input.size, input.cursor, none)

NextPage ==
  /\ is("pages") /\ input.more
  /\ \E p \in {page} :
       input' = [input EXCEPT
         !.seen = IF input.forward THEN @ \o p.edges ELSE p.edges \o @,
         !.more = IF input.forward THEN p.hasNextPage ELSE p.hasPreviousPage,
         !.cursor = IF p.edges = << >> THEN @
                    ELSE IF input.forward THEN p.edges[Len(p.edges)] ELSE p.edges[1]]

ChangeRows ==
  /\ is("pages") /\ input.more
  /\ \E k \in Key : \/ k \notin input.table /\ input' = [input EXCEPT !.table = @ \cup {k}]
                    \/ k \in input.table /\ input' = [input EXCEPT !.table = @ \ {k}, !.stable = @ \ {k}]

\* A walk from page to page shows each row at most once and in order, and when it ends it has
\* shown every row of the range that was there all the time, although the row that a cursor
\* names may have been removed and rows appear on either side of it.
PagesCover ==
  is("pages") =>
    /\ \A i \in 1..(Len(input.seen) - 1) : input.seen[i] < input.seen[i + 1]
    /\ ~input.more =>
         \A k \in input.stable :
           (input.ge = none \/ k >= input.ge) /\ (input.lt = none \/ k < input.lt)
             => \E i \in DOMAIN input.seen : input.seen[i] = k

-----------------------------------------------------------------------------
Init ==
  \/ RoundsInit \/ TimesInit \/ VotesInit \/ BudgetInit \/ PagesInit
  \/ CodecsInit \/ BlocksInit \/ ResolversInit \/ QueryInit \/ TokenTextInit \/ SchemaInit

Next == NextDay \/ NextAction \/ MoreParticipants \/ Vote \/ MoreMoney \/ NextPage \/ ChangeRows

Spec == Init /\ [][Next]_input

=============================================================================
