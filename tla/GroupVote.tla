----------------------------- MODULE GroupVote -----------------------------
(***************************************************************************)
(* Counting the votes of one election group: finish_group in               *)
(* contracts/eden/src/elections.cpp.                                       *)
(*                                                                         *)
(* An account name is a positive number (its 64-bit value), as the tables  *)
(* are ordered by it.  0 is the empty name, the candidate of a voter who   *)
(* has not voted.  A group without a winner reports the bitwise complement *)
(* of its first member's name, which is no account's name and identifies   *)
(* the group; in two's complement ~m = -m-1.                               *)
(***************************************************************************)
EXTENDS Integers, FiniteSets

no_candidate == 0

bitnot(m) == -m - 1

\* The members of the group that cast a vote.  votes maps each member of the
\* group to the candidate in its vote row.
voted(votes) == {m \in DOMAIN votes : votes[m] # no_candidate}

\* votes_by_candidate[c]: one per vote, and a vote for oneself adds the size
\* of the group on top.
votes_by_candidate(votes, c) ==
  Cardinality({m \in voted(votes) : votes[m] = c})
    + (IF c \in DOMAIN votes /\ votes[c] = c THEN Cardinality(DOMAIN votes) ELSE 0)

\* Mutant: two thirds of the votes are enough.
Mut_agreed_candidates(votes) ==
  LET cands == {votes[m] : m \in voted(votes)}
      count(c) == votes_by_candidate(votes, c)
  IN  {c \in cands :
         /\ \A d \in cands : count(d) <= count(c)
         /\ 3 * count(c) >= 2 * Cardinality(voted(votes)) + 3 * Cardinality(DOMAIN votes)}

\* The candidates with the most votes, if those exceed two thirds of the votes
\* cast plus the size of the group.
agreed_candidates(votes) ==
  LET cands == {votes[m] : m \in voted(votes)}
      count(c) == votes_by_candidate(votes, c)
  IN  {c \in cands :
         /\ \A d \in cands : count(d) <= count(c)
         /\ 3 * count(c) > 2 * Cardinality(voted(votes)) + 3 * Cardinality(DOMAIN votes)}

\* The winner finish_group returns for a group whose first member is first.
group_winner(votes, first) ==
  IF agreed_candidates(votes) = {}
  THEN bitnot(first)
  ELSE CHOOSE c \in agreed_candidates(votes) : TRUE

=============================================================================
