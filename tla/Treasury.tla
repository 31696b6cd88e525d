------------------------------ MODULE Treasury ------------------------------
(***************************************************************************)
(* The money of the Eden contract: user accounts and the master pool       *)
(* (contracts/eden/src/accounts.cpp, src/actions/accounts.cpp) and the     *)
(* monthly distributions to delegates (src/distributions.cpp).             *)
(*                                                                         *)
(* Elections appear as the source of ranks and of the next election time:  *)
(* what finish_election may leave in memberstats.ranks is what RanksPayable*)
(* and RanksCounted of Elections say.  While an election runs, ranks are   *)
(* rewritten row by row, but no current_distribution exists then and only  *)
(* those read ranks, so the rewriting is one step here.                    *)
(*                                                                         *)
(* Every contract action is one step.  distribute(max_steps) is modelled   *)
(* by its units of work, as electprocess is in Elections.  The inline      *)
(* transfer of withdraw and its notification are part of the action, so    *)
(* the "outgoing" scope is empty between steps.                            *)
(***************************************************************************)
EXTENDS Integers, Sequences, FiniteSets, Functions, Distribution

CONSTANTS
  Account,                   \* accounts that hold balances: positive numbers
  Founders,                  \* the members after genesis
  InitialPool,               \* the master pool after genesis
  monthly_distribution_pct,
  Month,                     \* 30 days
  MinimumDeposit,            \* of a new account
  Amounts,                   \* quantities that are transferred
  MaxToken,                  \* bound on the token balance of the contract
  MaxRanks,                  \* bound on the number of ranks
  MaxLead,                   \* bound on the time to an election
  Horizon                    \* bound on time

ASSUME TreasuryAssumption ==
  /\ Account \subseteq Nat \ {0} /\ IsFiniteSet(Account) /\ Founders \subseteq Account
  /\ {InitialPool, MinimumDeposit, MaxToken, MaxLead, Horizon} \subseteq Nat
  /\ Amounts \subseteq Nat \ {0}
  /\ monthly_distribution_pct \in 0..100
  /\ Month \in Nat \ {0} /\ MaxRanks \in Nat /\ MaxRanks >= 2

VARIABLES
  now,
  phase,         \* of the election: "scheduled", "numbering" voters or "voting"
  electionTime,  \* of the scheduled or running election
  member,        \* active members: account -> rank
  ranks,         \* memberstats.ranks; the entry of rank 0 is never read and stays 0
  user,          \* account table, default scope: account -> balance, 0 without a row
  pool,          \* account table, scope "owned": balance of master
  dist,          \* distaccount table: <<owner, time, rank>> -> balance
  table,         \* distribution table, in the order of its primary key, the time
  token          \* balance of the contract in the token contract

vars == <<now, phase, electionTime, member, ranks, user, pool, dist, table, token>>

contract == 0  \* owner of the account a distribution is paid from
none == -1     \* no next election time

-----------------------------------------------------------------------------
next_distribution(time) == [type |-> "next", time |-> time]

election_distribution(time, amount) == [type |-> "election", time |-> time, amount |-> amount]

current_distribution(time, last, shares) ==
  [type |-> "current", time |-> time, last_processed |-> last, rank_distribution |-> shares]

has_current(tb) == tb # << >> /\ tb[1].type = "current"

\* Sum of the shares a member of the given rank is paid.
pay(d, rank) == SumFunctionOnSet(d.rank_distribution, 1..rank)

\* Operations on the rows of distaccount.
put(d, key, amount) == [k \in DOMAIN d \cup {key} |-> IF k = key THEN amount ELSE d[k]]
drop(d, keys) == [k \in DOMAIN d \ keys |-> d[k]]
take(d, key, amount) ==
  IF d[key] = amount THEN drop(d, {key}) ELSE [d EXCEPT ![key] = @ - amount]

-----------------------------------------------------------------------------
(***************************************************************************)
(* setup_distribution: turns every distribution that is due into one that  *)
(* can be paid now, or after the running election.  It works on the        *)
(* "books": the pool and the two distribution tables.                      *)
(***************************************************************************)
books == [pool |-> pool, table |-> table, dist |-> dist]

store(b) == pool' = b.pool /\ table' = b.table /\ dist' = b.dist

last_row(b) == b.table[Len(b.table)]

due(b) == b.table # << >> /\ last_row(b).time <= now

\* get_next_election_time
next_election_time == IF phase = "scheduled" THEN electionTime ELSE none

\* One turn of the loop.  The month before an election is cut short and pays
\* its part of the monthly percentage.
setup_once(b, election) ==
  LET time      == last_row(b).time
      before    == election # none /\ election > time
      cut       == before /\ election < time + Month
      next_time == IF cut THEN election ELSE time + Month
      total     == IF cut
                   THEN ((election - time) * monthly_distribution_pct * b.pool) \div (100 * Month)
                   ELSE (monthly_distribution_pct * b.pool) \div 100
      taken     == IF before THEN distributed(ranks, total) ELSE total
      row       == IF before THEN current_distribution(time, 0, rank_distribution(ranks, total))
                   ELSE election_distribution(time, total)
      earlier   == SubSeq(b.table, 1, Len(b.table) - 1)
  IN  IF total = 0
      THEN [b EXCEPT !.table = Append(earlier, next_distribution(next_time))]
      ELSE [pool  |-> b.pool - taken,
            table |-> earlier \o <<row, next_distribution(next_time)>>,
            dist  |-> put(b.dist, <<contract, time, 0>>, taken)]

\* Every turn moves the time of the last row on.
setup_loop(b, election) ==
  LET turns[i \in 0..(Horizon + 1)] ==
        IF i = 0 THEN b
        ELSE LET before == turns[i - 1]
             IN  IF due(before) THEN setup_once(before, election) ELSE before
  IN  IF due(b) THEN turns[Horizon + 1] ELSE b

setup_distribution(b) == setup_loop(b, next_election_time)

add_to_pool(b, amount) == [setup_distribution(b) EXCEPT !.pool = @ + amount]

-----------------------------------------------------------------------------
(***************************************************************************)
(* Transfers.                                                              *)
(***************************************************************************)
elections_unchanged == UNCHANGED <<now, phase, electionTime, member, ranks>>
books_unchanged == UNCHANGED <<pool, dist, table>>

\* The rows of account, scope "eden", where 0 stands for no row.
add_user_balance(u, a, quantity) == [u EXCEPT ![a] = @ + quantity]
sub_user_balance(u, a, quantity) == [u EXCEPT ![a] = @ - quantity]
on_rename(u, m, new) == IF u[m] > 0 THEN [u EXCEPT ![new] = u[m], ![m] = 0] ELSE u

\* notify_transfer to the contract, by an account that may deposit.
deposit(a, quantity) ==
  /\ token + quantity <= MaxToken  \* bound
  /\ user[a] = 0 => quantity >= MinimumDeposit
  /\ user' = add_user_balance(user, a, quantity)
  /\ token' = token + quantity
  /\ books_unchanged /\ elections_unchanged

\* notify_transfer to the contract, by a system account or with memo "donate".
donation(quantity) ==
  /\ token + quantity <= MaxToken  \* bound
  /\ store(add_to_pool(books, quantity))
  /\ token' = token + quantity
  /\ UNCHANGED user /\ elections_unchanged

\* donate, and the donation of an inductee
donate(a, quantity) ==
  /\ user[a] >= quantity
  /\ user' = sub_user_balance(user, a, quantity)
  /\ store(add_to_pool(books, quantity))
  /\ UNCHANGED token /\ elections_unchanged

\* withdraw moves the balance to scope "outgoing" and transfers it to edendelegate;
\* the notification of that transfer takes it from "outgoing" again.
withdraw(a, quantity) ==
  /\ user[a] >= quantity
  /\ user' = sub_user_balance(user, a, quantity)
  /\ token' = token - quantity
  /\ books_unchanged /\ elections_unchanged

\* Mutant: both balances are read before either is written.
Mut_usertransfer(from, to, amount) ==
  /\ {from, to} \subseteq DOMAIN member
  /\ user[from] >= amount
  /\ user' = [user EXCEPT ![from] = user[from] - amount, ![to] = user[to] + amount]
  /\ UNCHANGED token /\ books_unchanged /\ elections_unchanged

usertransfer(from, to, amount) ==
  /\ {from, to} \subseteq DOMAIN member
  /\ user[from] >= amount
  /\ user' = add_user_balance(sub_user_balance(user, from, amount), to, amount)
  /\ UNCHANGED token /\ books_unchanged /\ elections_unchanged

\* fundtransfer: out of a distribution, to the user account of a member.
fundtransfer(key, to, amount) ==
  /\ {key[1], to} \subseteq DOMAIN member
  /\ dist[key] >= amount
  /\ dist' = take(dist, key, amount)
  /\ user' = add_user_balance(user, to, amount)
  /\ UNCHANGED <<pool, table, token>> /\ elections_unchanged

-----------------------------------------------------------------------------
(***************************************************************************)
(* distribute, and the same work done by electprocess.                     *)
(***************************************************************************)
setup_due ==
  /\ due(books)
  /\ store(setup_distribution(books))
  /\ UNCHANGED <<user, token>> /\ elections_unchanged

\* The next member is paid the shares of all ranks up to its own.
pay_member(m) ==
  LET d       == table[1]
      account == <<contract, d.time, 0>>
      amount  == pay(d, member[m])
      funds   == {<<m, d.time, r>> : r \in 1..member[m]}
      paid    == [k \in DOMAIN dist \cup funds |->
                    IF k \in funds THEN d.rank_distribution[k[3]] ELSE dist[k]]
  IN  /\ ~due(books)
      /\ has_current(table)
      /\ m > d.last_processed
      /\ \A x \in DOMAIN member : x > d.last_processed => m <= x
      /\ 1..member[m] \subseteq DOMAIN d.rank_distribution
      /\ IF account \in DOMAIN dist
         THEN /\ dist[account] >= amount
              /\ dist' = take(paid, account, amount)
         ELSE /\ amount = 0
              /\ dist' = paid
      /\ table' = [table EXCEPT ![1].last_processed = m]
      /\ UNCHANGED <<pool, user, token>> /\ elections_unchanged

\* Everyone has been paid.
end_distribution ==
  LET account == <<contract, table[1].time, 0>>
  IN  /\ ~due(books)
      /\ has_current(table)
      /\ \A x \in DOMAIN member : x <= table[1].last_processed
      /\ dist' = drop(dist, {k \in {account} \cap DOMAIN dist : dist[k] = 0})
      /\ table' = Tail(table)
      /\ UNCHANGED <<pool, user, token>> /\ elections_unchanged

distribute ==
  \/ setup_due
  \/ \E m \in DOMAIN member : pay_member(m)
  \/ end_distribution

-----------------------------------------------------------------------------
(***************************************************************************)
(* Members.                                                                *)
(***************************************************************************)
is_election_running == phase # "scheduled" \/ now >= electionTime

inducted(m) ==
  /\ m \notin DOMAIN member
  /\ member' = [x \in DOMAIN member \cup {m} |-> IF x = m THEN 0 ELSE member[x]]
  /\ UNCHANGED <<now, phase, electionTime, ranks, user, token>> /\ books_unchanged

\* members::erase, of an active member
leave(m) ==
  /\ member' = [x \in DOMAIN member \ {m} |-> member[x]]
  /\ ranks' = IF member[m] = 0 THEN ranks ELSE [ranks EXCEPT ![member[m] + 1] = @ - 1]
  /\ UNCHANGED <<now, phase, electionTime, user, token>>

own_accounts(b, m) == {k \in DOMAIN b.dist : k[1] = m}

\* The places in the table of the distributions in progress that still owe the member.
owing(b, m) ==
  {i \in DOMAIN b.table :
     /\ \A j \in 1..i : b.table[j].type = "current"
     /\ b.table[i].last_processed < m
     /\ member[m] > 0}
owed(b, m) == [i \in owing(b, m) |-> pay(b.table[i], member[m])]
payer(b, i) == <<contract, b.table[i].time, 0>>

can_return(b, m) ==
  \A i \in owing(b, m) :
    /\ 1..member[m] \subseteq DOMAIN b.table[i].rank_distribution
    /\ IF payer(b, i) \in DOMAIN b.dist THEN owed(b, m)[i] <= b.dist[payer(b, i)]
       ELSE owed(b, m)[i] = 0

\* The accounts of others, less what they owe; then those that are empty are erased.
reduced(b, m) ==
  [k \in DOMAIN b.dist \ own_accounts(b, m) |->
     b.dist[k] - SumFunctionOnSet(owed(b, m), {i \in owing(b, m) : payer(b, i) = k})]
emptied(b, m) ==
  {k \in DOMAIN reduced(b, m) : reduced(b, m)[k] = 0 /\ \E i \in owing(b, m) : payer(b, i) = k}

\* distributions::on_resign: what the member has not spent goes back to the pool, and
\* so does what distributions in progress still owe it.
on_resign(b, m) ==
  [pool  |-> b.pool + SumFunctionOnSet(b.dist, own_accounts(b, m)) + SumFunction(owed(b, m)),
   table |-> b.table,
   dist  |-> drop(reduced(b, m), emptied(b, m))]

\* Mutant: what distributions in progress owe the member stays in them.
Mut_resign(m) ==
  /\ ~is_election_running
  /\ \E b \in {setup_distribution(books)} :
       store([b EXCEPT !.pool = @ + SumFunctionOnSet(b.dist, own_accounts(b, m)),
                       !.dist = drop(@, own_accounts(b, m))])
  /\ leave(m)

resign(m) ==
  /\ ~is_election_running
  /\ \E b \in {setup_distribution(books)} : can_return(b, m) /\ store(on_resign(b, m))
  /\ leave(m)

\* accounts::on_rename, distributions::on_rename and members::rename.
rename(m, new) ==
  LET old(k) == IF k[1] = new THEN <<m, k[2], k[3]>> ELSE k
      key(k) == IF k[1] = m THEN <<new, k[2], k[3]>> ELSE k
  IN  /\ new \notin DOMAIN member
      /\ user[m] > 0 => user[new] = 0
      /\ ~has_current(table)
      /\ ~is_election_running
      /\ user' = on_rename(user, m, new)
      /\ \E b \in {setup_distribution(books)} :
           store([b EXCEPT !.dist = [k \in {key(j) : j \in DOMAIN b.dist} |-> b.dist[old(k)]]])
      /\ member' = [x \in (DOMAIN member \ {m}) \cup {new} |-> member[IF x = new THEN m ELSE x]]
      /\ UNCHANGED <<now, phase, electionTime, ranks, token>>

-----------------------------------------------------------------------------
(***************************************************************************)
(* Elections, as far as they concern distributions.                        *)
(***************************************************************************)
\* electsettime and trigger_election
reschedule(time) ==
  /\ phase = "scheduled" /\ now < electionTime
  /\ electionTime' = time
  /\ UNCHANGED <<now, phase, member, ranks, user, token>> /\ books_unchanged

\* start_election sets distributions up with the old ranks, then clears those.  The
\* very first election starts the schedule of distributions.
start_election ==
  LET b == IF table = << >> THEN [books EXCEPT !.table = <<next_distribution(electionTime)>>]
           ELSE books
  IN  /\ phase = "scheduled" /\ now >= electionTime
      /\ store(setup_loop(b, electionTime))
      /\ phase' = "numbering"
      /\ ranks' = << >>
      /\ UNCHANGED <<now, electionTime, member, user, token>>

\* prepare_election numbers the voters when nothing is left to be paid.
begin_voting ==
  /\ phase = "numbering"
  /\ ~due(books) /\ ~has_current(table)
  /\ phase' = "voting"
  /\ UNCHANGED <<now, electionTime, member, ranks, user, token>> /\ books_unchanged

\* The ranks an election may leave behind: one leader above all others.
outcomes ==
  {f \in [DOMAIN member -> 0..(MaxRanks - 1)] :
     \E m \in DOMAIN member : f[m] > 0 /\ \A x \in DOMAIN member \ {m} : f[x] < f[m]}

statistics(f) ==
  LET top == CHOOSE r \in 0..(MaxRanks - 1) :
               /\ \E m \in DOMAIN f : f[m] = r
               /\ \A m \in DOMAIN f : f[m] <= r
  IN  [i \in 1..(top + 1) |-> IF i = 1 THEN 0 ELSE Cardinality({m \in DOMAIN f : f[m] = i - 1})]

\* process_election_distribution for a row.
process_row(d, rs) ==
  IF d.type = "election" THEN current_distribution(d.time, 0, rank_distribution(rs, d.amount))
  ELSE d

\* finish_election: the ranks are set, then the distributions made during the election are
\* divided, and the next election is scheduled.
finish_election(f, time) ==
  LET rs == statistics(f)
  IN  /\ phase = "voting"
      /\ phase' = "scheduled" /\ electionTime' = time
      /\ member' = f /\ ranks' = rs
      /\ \A i \in DOMAIN table :
           table[i].type = "election" => distributed(rs, table[i].amount) = table[i].amount
      /\ table' = [i \in DOMAIN table |-> process_row(table[i], rs)]
      /\ UNCHANGED <<now, user, pool, dist, token>>

Tick ==
  /\ now < Horizon  \* bound
  /\ now' = now + 1
  /\ UNCHANGED <<phase, electionTime, member, ranks, user, token>> /\ books_unchanged

-----------------------------------------------------------------------------
Init ==
  /\ now = 0
  /\ phase = "scheduled" /\ electionTime \in 0..MaxLead
  /\ member = [m \in Founders |-> 0] /\ ranks = << >>
  /\ user = [a \in Account |-> 0]
  /\ pool = InitialPool /\ token = InitialPool
  /\ dist = [k \in {} |-> 0] /\ table = << >>

TransferNext ==
  \/ \E a \in Account, q \in Amounts : deposit(a, q)
  \/ \E q \in Amounts : donation(q)
  \/ \E a \in Account, q \in Amounts : donate(a, q)
  \/ \E a \in Account, q \in Amounts : withdraw(a, q)
  \/ \E a, b \in Account, q \in Amounts : usertransfer(a, b, q)
  \/ \E k \in DOMAIN dist, a \in Account, q \in Amounts : fundtransfer(k, a, q)

DistributionNext ==
  \/ distribute
  \/ \E m \in Account : inducted(m)
  \/ \E m \in DOMAIN member : resign(m)
  \/ \E m \in DOMAIN member, new \in Account : rename(m, new)
  \/ \E time \in (now + 1)..(now + MaxLead) : reschedule(time)
  \/ start_election
  \/ begin_voting
  \/ \E f \in outcomes, time \in (electionTime + 1)..(now + MaxLead) : finish_election(f, time)
  \/ Tick

Next == TransferNext \/ DistributionNext

Spec == Init /\ [][Next]_vars

\* Without transfers, for longer histories of distributions and elections.
DistributionSpec == Init /\ [][DistributionNext]_vars

-----------------------------------------------------------------------------
(***************************************************************************)
(* Properties.                                                             *)
(***************************************************************************)
\* "The total of all accounts (including internal and user accounts) is equal to the
\* eosio.token balance of the contract" (accounts.hpp:43): no action, in any order
\* with distributions set up late, paid in parts and taken back, creates or loses funds.
FundsConserved == token = SumFunction(user) + pool + SumFunction(dist)

\* The account of a distribution holds exactly what is still to be paid, although members
\* resign, are renamed and join while it is paid in batches: the checks "Overdrawn
\* balance" and "rank too high" never fail, and nothing is left over.
AccountsFunded ==
  \A i \in DOMAIN table :
    LET d       == table[i]
        account == <<contract, d.time, 0>>
        balance == IF account \in DOMAIN dist THEN dist[account] ELSE 0
        unpaid  == {m \in DOMAIN member : m > d.last_processed}
    IN  /\ d.type = "current" =>
             /\ \A m \in unpaid : 1..member[m] \subseteq DOMAIN d.rank_distribution
             /\ balance = SumFunction([m \in unpaid |-> pay(d, member[m])])
        /\ d.type = "election" => balance = d.amount

\* Funds can always be reached: an account that is no member's belongs to a
\* distribution that is still to be paid.
FundsReachable ==
  \A k \in DOMAIN dist :
    \/ k[1] \in DOMAIN member
    \/ /\ k[1] = contract
       /\ \E i \in DOMAIN table : table[i].time = k[2] /\ table[i].type # "next"

\* The order that the loops over the distribution table rely on when they stop early:
\* distributions that can be paid, then those that wait for the end of an election, then the
\* one next distribution; and those that wait exist only around an election.
TableOrdered ==
  LET place(type) == CASE type = "current" -> 1 [] type = "election" -> 2 [] OTHER -> 3
  IN  table # << >> =>
        /\ table[Len(table)].type = "next"
        /\ \A i \in 1..(Len(table) - 1) :
             /\ table[i].time < table[i + 1].time
             /\ place(table[i].type) <= place(table[i + 1].type)
             /\ table[i].type # "next"
             /\ table[i].type = "election" => phase # "scheduled" \/ now >= electionTime
        /\ phase = "voting" => table[1].type # "current"

\* A distribution can be paid to the end, whatever happens to members and elections while it
\* is set up late and paid in batches (setup_distribution, distribute_monthly,
\* on_resign, on_rename): its account holds exactly what is to be paid, no account is out of
\* reach, and the table has the order in which the loops walk over it.
DistributionsFunded == AccountsFunded /\ FundsReachable /\ TableOrdered

=============================================================================
