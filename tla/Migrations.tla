----------------------------- MODULE Migrations -----------------------------
(***************************************************************************)
(* The migrations of the Eden contract's tables (contracts/eden/src/       *)
(* migrations.cpp) and the NFT auctions (src/auctions.cpp).                *)
(*                                                                         *)
(* A deployed contract gains tables: rows for the running auctions, the    *)
(* master account with the tokens that belong to no user, the index byrep  *)
(* of the members.  migrate(max_steps) fills them in bounded pieces, one   *)
(* alternative of migration_variant after the other, while users go on     *)
(* depositing, withdrawing, donating and minting.  Distributions do not    *)
(* exist before the migration of accounts; add_to_pool has none to set up. *)
(*                                                                         *)
(* gc finishes auctions one row at a time, as its loop does; the inline    *)
(* actions it sends to the market, and the transfer the market answers     *)
(* with, belong to the step.  The market (atomicmarket) is external.       *)
(***************************************************************************)
EXTENDS Integers, FiniteSetsExt, Functions

CONSTANTS
  Account,          \* user accounts: positive numbers, in the order of names
  InitialBalances,  \* balances they may have before the migration
  InitialToken,     \* tokens of the contract then
  MinimumDeposit,   \* of a new account
  Amounts,          \* quantities that are transferred
  minimum_donation,
  MemberCount,      \* rows of the member table
  StepLimits,       \* values of max_steps
  auction_duration,
  MaxAuctions,      \* bound on the auctions of the market
  MaxToken,         \* bound on the tokens of the contract
  MaxDrift,         \* bound on drift
  Horizon           \* bound on time

ASSUME MigrationsAssumption ==
  /\ Account \subseteq Nat \ {0} /\ InitialBalances \subseteq Nat
  /\ Amounts \subseteq Nat \ {0} /\ minimum_donation \in Amounts
  /\ StepLimits \subseteq Nat \ {0}
  /\ {InitialToken, MinimumDeposit, MemberCount, auction_duration, MaxAuctions, MaxToken, MaxDrift,
      Horizon} \subseteq Nat

VARIABLES
  migration,  \* the singleton: index of the alternative and the fields of each
  user,       \* account table, default scope: 0 without a row
  master,     \* account table, scope "owned": 0 without a row
  auctions,   \* auction table: asset -> last known end time
  market,     \* auctions of the market: id -> record
  token,      \* tokens of the contract
  now,
  shown,      \* migrationIndex of the micro chain
  drift       \* history: what user_total has too much since it was started, and whether it ever did

vars == <<migration, user, master, auctions, market, token, now, shown, drift>>

absent == -1  \* no singleton
no_drift == [by |-> 0, ever |-> FALSE]
migrate_auction_v0 == 0
migrate_account_v0 == 1
migrate_member_v0 == 3
last_migration == 5
no_migration == {2, 4, 5}

\* A default-constructed alternative.
fresh(index) ==
  [index |-> index, last_auction_id |-> 0, last_visited |-> 0, user_total |-> 0, next_member |-> 1]

is_completed(alternative) == migration.index > alternative

put(f, k, v) == [x \in DOMAIN f \cup {k} |-> IF x = k THEN v ELSE f[x]]
drop(f, k) == [x \in DOMAIN f \ {k} |-> f[x]]

-----------------------------------------------------------------------------
(***************************************************************************)
(* migrate.  A transaction in progress is the record of what it writes,    *)
(* the steps it has left and whether a check has failed.                   *)
(***************************************************************************)
begin(max_steps) ==
  [m |-> IF migration.index = absent THEN fresh(0) ELSE migration,
   master |-> master, auctions |-> auctions, shown |-> shown, steps |-> max_steps, failed |-> FALSE]

\* An alternative that leaves steps is completed: migration_event, and the next one.
advance(t) == [t EXCEPT !.m = fresh(t.m.index + 1), !.shown = t.m.index]

\* The rows of the market; what was sold and claimed, or cancelled, is not listed.
listed == {i \in DOMAIN market : market[i].listed}

\* migrate_auction_v0::migrate_some, one row of the market.
auction_step(t) ==
  LET later == {i \in listed : i > t.m.last_auction_id}
      i     == Min(later)
      asset == market[i].asset
  IN  IF later = {} THEN advance(t)
      ELSE [t EXCEPT !.m.last_auction_id = i, !.steps = @ - 1,
              !.auctions = IF market[i].own /\ asset \notin DOMAIN @
                           THEN put(@, asset, market[i].end) ELSE @]

\* The part of migrate_account_v0::migrate_some that follows the last account.
master_step(t) ==
  LET rest == token - t.m.user_total
  IN  CASE rest < 0                           -> [t EXCEPT !.failed = TRUE]
        [] rest = 0                           -> advance(t)
        [] rest > 0 /\ t.master = 0           ->
             LET made == [t EXCEPT !.master = rest, !.steps = @ - 1]
             IN  IF made.steps > 0 THEN advance(made) ELSE made
        [] rest > 0 /\ t.master = rest        -> advance(t)
        [] rest > 0 /\ t.master \notin {0, rest} -> [t EXCEPT !.failed = TRUE]

\* migrate_account_v0::migrate_some, one account.
account_step(t) ==
  LET later == {a \in Account : user[a] > 0 /\ a > t.m.last_visited}
  IN  IF later = {} THEN master_step(t)
      ELSE [t EXCEPT !.m.last_visited = Min(later), !.m.user_total = @ + user[Min(later)],
                     !.steps = @ - 1]

\* migrate_member_v0::migrate_some, one row.
member_step(t) ==
  IF t.m.next_member > MemberCount THEN advance(t)
  ELSE [t EXCEPT !.m.next_member = @ + 1, !.steps = @ - 1]

\* One turn of the loops of migrations::migrate_some.
migrate_step(t) ==
  CASE t.failed \/ t.steps = 0 \/ t.m.index = last_migration -> t
    [] t.m.index = migrate_auction_v0 /\ ~t.failed /\ t.steps > 0 -> auction_step(t)
    [] t.m.index = migrate_account_v0 /\ ~t.failed /\ t.steps > 0 -> account_step(t)
    [] t.m.index = migrate_member_v0 /\ ~t.failed /\ t.steps > 0 -> member_step(t)
    [] t.m.index \in no_migration \ {last_migration} /\ ~t.failed /\ t.steps > 0 -> advance(t)

\* A turn takes a step or moves to the next alternative.
migrate_some(max_steps) ==
  LET turns[i \in 0..(max_steps + last_migration)] ==
        IF i = 0 THEN begin(max_steps) ELSE migrate_step(turns[i - 1])
  IN  turns[max_steps + last_migration]

\* A call that uses no step fails with "Nothing to do" and changes nothing.
migrate(max_steps) ==
  \E t \in {migrate_some(max_steps)} :
    /\ ~t.failed /\ t.steps # max_steps
    /\ migration' = t.m /\ master' = t.master /\ auctions' = t.auctions /\ shown' = t.shown
    /\ UNCHANGED <<user, market, token, now, drift>>

unmigrate ==
  /\ migration' = fresh(absent) /\ auctions' = [a \in {} |-> 0] /\ master' = 0 /\ drift' = no_drift
  /\ UNCHANGED <<user, market, token, now, shown>>

-----------------------------------------------------------------------------
(***************************************************************************)
(* Transfers (src/actions/accounts.cpp, inductdonate, rename).             *)
(***************************************************************************)
Mut_adjust_balance(owner, amount) ==
  migration' = IF migration.index = migrate_account_v0 /\ owner < migration.last_visited
               THEN [migration EXCEPT !.user_total = @ + amount] ELSE migration

adjust_balance(owner, amount) ==
  migration' = IF migration.index = migrate_account_v0 /\ owner <= migration.last_visited
               THEN [migration EXCEPT !.user_total = @ + amount] ELSE migration

\* notify_transfer from an account that may deposit.
deposit(a, quantity) ==
  /\ token + quantity <= MaxToken  \* bound
  /\ user[a] = 0 => quantity >= MinimumDeposit
  /\ user' = [user EXCEPT ![a] = @ + quantity] /\ token' = token + quantity
  /\ adjust_balance(a, quantity)
  /\ UNCHANGED <<master, auctions, market, now, shown, drift>>

\* What notify_transfer does with a donation, or with the proceeds of an auction.
donated(quantity) ==
  /\ token' = token + quantity
  /\ master' = IF is_completed(migrate_account_v0) THEN master + quantity ELSE master

donation(quantity) ==
  /\ token + quantity <= MaxToken  \* bound
  /\ donated(quantity)
  /\ UNCHANGED <<migration, user, auctions, market, now, shown, drift>>

withdraw(a, quantity) ==
  /\ user[a] >= quantity
  /\ user' = [user EXCEPT ![a] = @ - quantity] /\ token' = token - quantity
  /\ adjust_balance(a, -quantity)
  /\ UNCHANGED <<master, auctions, market, now, shown, drift>>

donate(a, quantity) ==
  /\ is_completed(migrate_account_v0) /\ user[a] >= quantity
  /\ user' = [user EXCEPT ![a] = @ - quantity] /\ master' = master + quantity
  /\ UNCHANGED <<migration, auctions, market, token, now, shown, drift>>

\* inductdonate, without the induction (see Inductions).
inductdonate(a) ==
  /\ user[a] >= minimum_donation
  /\ user' = [user EXCEPT ![a] = @ - minimum_donation]
  /\ adjust_balance(a, -minimum_donation)
  /\ master' = IF is_completed(migrate_account_v0) THEN master + minimum_donation ELSE master
  /\ UNCHANGED <<auctions, market, token, now, shown, drift>>

\* usertransfer does not adjust user_total.
usertransfer(from, to, amount) ==
  LET counted(a) == migration.index = migrate_account_v0 /\ a <= migration.last_visited
  IN  /\ user[from] >= amount
      /\ user' = [[user EXCEPT ![from] = @ - amount] EXCEPT ![to] = @ + amount]
      /\ drift' = IF counted(from) = counted(to) THEN drift
                  ELSE [by |-> drift.by + (IF counted(from) THEN amount ELSE -amount), ever |-> TRUE]
      /\ drift'.by \in -MaxDrift..MaxDrift  \* bound
      /\ UNCHANGED <<migration, master, auctions, market, token, now, shown>>

\* rename, of a member's balance; on_rename of migrations refuses it.
rename(old, new) ==
  /\ migration.index \in no_migration \cup {absent}
  /\ user[old] > 0 /\ user[new] = 0
  /\ user' = [user EXCEPT ![new] = user[old], ![old] = 0]
  /\ UNCHANGED <<migration, master, auctions, market, token, now, shown, drift>>

-----------------------------------------------------------------------------
(***************************************************************************)
(* Auctions.                                                               *)
(***************************************************************************)
next_id == Cardinality(DOMAIN market) + 1

listing(own, asset, end) ==
  [own |-> own, asset |-> asset, end |-> end, bid |-> FALSE, claimed |-> FALSE, listed |-> TRUE]

\* notify_logmint: start_auction and add_auction, of a new asset.
notify_logmint ==
  /\ next_id <= MaxAuctions  \* bound
  /\ market' = put(market, next_id, listing(TRUE, next_id, now + auction_duration))
  /\ auctions' = put(auctions, next_id, now + auction_duration)
  /\ UNCHANGED <<migration, user, master, token, now, shown, drift>>

\* External: a bid, which extends an auction that is about to end.
auctionbid(i) ==
  /\ i \in listed /\ market[i].end > now /\ ~market[i].bid
  /\ market' = [market EXCEPT ![i].bid = TRUE, ![i].end = Max({@, now + 2})]
  /\ UNCHANGED <<migration, user, master, auctions, token, now, shown, drift>>

\* External: the buyer claims the asset and puts it up for auction.
reauction(i) ==
  /\ next_id <= MaxAuctions  \* bound
  /\ i \in listed /\ market[i].own /\ market[i].bid /\ market[i].end <= now
  /\ \A j \in DOMAIN market : j # i => market[j].asset # market[i].asset
  /\ market' = put([market EXCEPT ![i].listed = ~market[i].claimed], next_id,
                   listing(FALSE, market[i].asset, now + auction_duration))
  /\ UNCHANGED <<migration, user, master, auctions, token, now, shown, drift>>

\* The proceeds of a claimed auction come as a transfer from the market.
claimed(i) == market' = [market EXCEPT ![i].claimed = TRUE] /\ donated(1)

\* The contract's account may claim without gc.
auctclaimsel(i) ==
  /\ i \in listed /\ market[i].own /\ market[i].bid /\ market[i].end <= now /\ ~market[i].claimed
  /\ token + 1 <= MaxToken  \* bound
  /\ claimed(i)
  /\ UNCHANGED <<migration, user, auctions, now, shown, drift>>

\* The order of index bytime.
earlier(a, b) == auctions[a] < auctions[b] \/ (auctions[a] = auctions[b] /\ a <= b)

\* The contract's own auction of the asset, by index byassets.  Without a row
\* of the asset the loop reads the next row, or the end iterator, and stops.
own_auction(asset) == {i \in listed : market[i].own /\ market[i].asset = asset}

\* One turn of the loop of finish_auctions, for the row of asset a.
finish_auction(a) ==
  \/ /\ \A i \in own_auction(a) : market[i].claimed
     /\ auctions' = drop(auctions, a) /\ UNCHANGED <<market, token, master>>
  \/ \E i \in own_auction(a) :
       /\ ~market[i].claimed /\ market[i].end < now
       /\ auctions' = drop(auctions, a)
       /\ IF market[i].bid
          THEN token + 1 <= MaxToken /\ claimed(i)  \* bound
          ELSE market' = [market EXCEPT ![i].listed = FALSE] /\ UNCHANGED <<token, master>>
  \/ \E i \in own_auction(a) :
       /\ ~market[i].claimed /\ market[i].end >= now
       /\ auctions' = [auctions EXCEPT ![a] = market[i].end]
       /\ UNCHANGED <<market, token, master>>

\* gc, when it comes to auctions.
gc ==
  \E a \in DOMAIN auctions :
    /\ auctions[a] < now /\ \A b \in DOMAIN auctions : earlier(a, b)
    /\ finish_auction(a)
    /\ UNCHANGED <<migration, user, now, shown, drift>>

tick ==
  /\ now < Horizon  \* bound
  /\ now' = now + 1
  /\ UNCHANGED <<migration, user, master, auctions, market, token, shown, drift>>

-----------------------------------------------------------------------------
\* An old contract, or one that starts with genesis (migrations::init, accounts::init).
Init ==
  /\ \/ migration = fresh(absent) /\ master = 0 /\ shown = 0
        /\ user \in [Account -> InitialBalances] /\ SumFunction(user) <= InitialToken
     \/ /\ migration = fresh(last_migration) /\ shown = last_migration
        /\ user = [a \in Account |-> 0] /\ master = InitialToken
  /\ auctions = [a \in {} |-> 0] /\ market = [i \in {} |-> 0]
  /\ token = InitialToken /\ now = 0 /\ drift = no_drift

Next ==
  \/ \E n \in StepLimits : migrate(n)
  \/ unmigrate
  \/ \E a \in Account, q \in Amounts : deposit(a, q) \/ withdraw(a, q) \/ donate(a, q)
  \/ \E q \in Amounts : donation(q)
  \/ \E a \in Account : inductdonate(a)
  \/ \E a, b \in Account, q \in Amounts : usertransfer(a, b, q)
  \/ \E a, b \in Account : rename(a, b)
  \/ notify_logmint
  \/ \E i \in DOMAIN market : auctionbid(i) \/ reauction(i) \/ auctclaimsel(i)
  \/ gc
  \/ tick

Spec == Init /\ [][Next]_vars

-----------------------------------------------------------------------------
(***************************************************************************)
(* Properties.                                                             *)
(***************************************************************************)

\* While accounts are migrated, user_total is what accounts.hpp:24 says, "\sum
\* balance(account) \forall account <= last_visited", through every deposit, withdrawal
\* and donation of an inductee on either side of last_visited; only usertransfer, which
\* does not adjust it, moves it away, by the amounts transferred across last_visited.
VisitedTotal ==
  migration.index = migrate_account_v0 =>
    migration.user_total =
      SumFunctionOnSet(user, {a \in Account : a <= migration.last_visited}) + drift.by

\* Once accounts are migrated, in whatever pieces and between whatever transfers, user
\* accounts and the master account add up to the tokens of the contract ("The total of
\* all accounts ... is equal to the eosio.token balance of the contract", accounts.hpp:42),
\* unless usertransfer has moved an amount across last_visited during the migration.
MigratedFunds ==
  is_completed(migrate_account_v0) /\ ~drift.ever =>
    SumFunctionOnSet(user, Account) + master = token

\* Once auctions are migrated the auction table has a row for every auction of the
\* contract whose proceeds are not claimed, or gc would never claim them: whether it
\* was running before the migration, passed during it, or was extended by a bid.
AuctionsTracked ==
  is_completed(migrate_auction_v0) =>
    \A i \in listed : market[i].own /\ ~market[i].claimed => market[i].asset \in DOMAIN auctions

\* The micro chain, which learns of migrations by events only, takes every migration
\* for completed that is (isMigrationCompleted and is_completed).
MigrationsShown == \A i \in 0..(last_migration - 1) : is_completed(i) => shown >= i

\* Migrations run in batches beside the transfers, inductions, auctions and gc of a live
\* community, and each leaves the table it migrates, and what the micro chain knows of it, as
\* if it had run at once (migrations.cpp, accounts.cpp, auctions.cpp).
MigratedRight == VisitedTotal /\ MigratedFunds /\ AuctionsTracked /\ MigrationsShown

\* migrate answers "Nothing to do" (actions/migrate.cpp:9) only when all migrations are
\* completed.
NothingToDoWhenMigrated ==
  \A n \in StepLimits :
    LET t == migrate_some(n)
    IN  ~t.failed /\ t.steps = n => migration.index = last_migration
=============================================================================
