---------------------------- MODULE Distribution ----------------------------
(***************************************************************************)
(* How a budget is divided among the ranks of delegates: make_distribution *)
(* in contracts/eden/src/distributions.cpp.  Pure operators.               *)
(*                                                                         *)
(* ranks is memberstats.ranks: ranks[r + 1] members have rank r.  A member *)
(* of rank r is paid the shares of the ranks 1..r, so the holders of share *)
(* k are all members of rank k and above.                                  *)
(***************************************************************************)
EXTENDS Integers, Sequences, Functions

top_rank(ranks) == Len(ranks) - 1

\* total, at the iteration of the loop that handles rank k.
holders(ranks, k) == SumFunctionOnSet(ranks, (k + 1)..Len(ranks))

per_rank(ranks, amount) == amount \div (Len(ranks) - 1)

\* this_rank: the lead representative's rank has no share, the board's is doubled.
this_rank(ranks, amount, k) ==
  CASE k = top_rank(ranks)     -> 0
    [] k = top_rank(ranks) - 1 -> (2 * per_rank(ranks, amount)) \div holders(ranks, k)
    [] OTHER                   -> per_rank(ranks, amount) \div holders(ranks, k)

\* The ranks with holders: shares are computed from the top, and all ranks below
\* one that has holders have some too.
shared_ranks(ranks) == {k \in 1..top_rank(ranks) : holders(ranks, k) > 0}

used(ranks, amount) ==
  SumFunction([k \in shared_ranks(ranks) |-> this_rank(ranks, amount, k) * holders(ranks, k)])

\* rank_distribution: what is left over goes to the lead representative.
rank_distribution(ranks, amount) ==
  [k \in shared_ranks(ranks) |->
     this_rank(ranks, amount, k)
       + (IF k = top_rank(ranks) THEN amount - used(ranks, amount) ELSE 0)]

\* Mutant: the amount is taken whether or not there is someone to get the rest.
Mut_distributed(ranks, amount) == amount

\* What make_distribution leaves in amount: without a lead representative only
\* what is used is taken.
distributed(ranks, amount) ==
  IF ranks[Len(ranks)] # 0 THEN amount ELSE used(ranks, amount)

=============================================================================
