--------------------------- MODULE TreasuryLedger ---------------------------
(***************************************************************************)
(* The contract's treasury together with the ledger that the micro chain   *)
(* keeps of it: each step is an action of Treasury and what the micro      *)
(* chain makes of the action, of its inline transfers and of its events.   *)
(***************************************************************************)
EXTENDS Treasury, Ledger

VARIABLES
  ledger,     \* the micro chain's
  memoed,     \* history: what an account has given to the pool by the memo "donate"
  withdrawn   \* history: what an account has withdrawn

ledger_vars == <<vars, ledger, memoed, withdrawn>>

\* setup_distribution reserves funds of the pool and returns what is not distributed.
setup_shown(l) ==
  IF due(books) THEN event_reserve(l, pool - setup_distribution(books).pool) ELSE l

history_unchanged == UNCHANGED <<memoed, withdrawn>>

shows(l) == ledger' = l /\ history_unchanged

ledger_deposit(a, quantity) ==
  deposit(a, quantity) /\ shows(notify_deposit(ledger, a, quantity))

\* The micro chain does not look at the memo.
ledger_donation(from, quantity) ==
  /\ donation(quantity)
  /\ ledger' = setup_shown(notify_deposit(ledger, from, quantity))
  /\ memoed' = IF from = system_account THEN memoed ELSE [memoed EXCEPT ![from] = @ + quantity]
  /\ UNCHANGED withdrawn

ledger_donate(a, quantity) ==
  /\ donate(a, quantity)
  /\ shows(setup_shown(transfer_funds(ledger, a, master_pool, quantity)))

ledger_withdraw(a, quantity) ==
  /\ withdraw(a, quantity)
  /\ ledger' = notify_withdraw(ledger, edendelegate, quantity)
  /\ withdrawn' = [withdrawn EXCEPT ![a] = @ + quantity]
  /\ UNCHANGED memoed

ledger_usertransfer(from, to, amount) ==
  usertransfer(from, to, amount) /\ shows(transfer_funds(ledger, from, to, amount))

ledger_fundtransfer(key, to, amount) ==
  fundtransfer(key, to, amount) /\ shows(fund_transferred(ledger, key, to, amount))

ledger_setup == setup_due /\ shows(setup_shown(ledger))

ledger_pay(m) ==
  /\ pay_member(m)
  /\ shows(event_fund(ledger, [k \in {<<m, table[1].time, r>> : r \in 1..member[m]} |->
                                 table[1].rank_distribution[k[3]]]))

\* The member's funds are returned one by one; what distributions in progress owe it is
\* returned as an excess.
ledger_resign(m) ==
  /\ resign(m)
  /\ \E b \in {setup_distribution(books)} :
       LET own  == {k \in DOMAIN b.dist : k[1] = m}
           back == FoldFunctionOnSet(LAMBDA k, l : event_return(l, k, b.dist[k]),
                                     setup_shown(ledger), [k \in own |-> k], own)
       IN  shows(event_return_excess(back, pool' - b.pool - SumFunctionOnSet(b.dist, own)))

ledger_rename(m, new) ==
  LET move(f) == [f EXCEPT ![new] = @ + f[m], ![m] = 0]
  IN  /\ rename(m, new)
      /\ ledger' = setup_shown(account_renamed(ledger, m, new))
      /\ memoed' = move(memoed) /\ withdrawn' = move(withdrawn)

\* start_election sets distributions up with the ranks and the time of the old election.
ledger_start_election ==
  start_election /\ shows(event_reserve(ledger, pool - pool'))

ledger_other ==
  /\ \/ end_distribution
     \/ \E m \in Account : inducted(m)
     \/ \E time \in (now + 1)..(now + MaxLead) : reschedule(time)
     \/ begin_voting
     \/ \E f \in outcomes, time \in (electionTime + 1)..(now + MaxLead) : finish_election(f, time)
     \/ Tick
  /\ shows(ledger)

\* The pool was funded by system accounts before genesis.
LedgerInit ==
  /\ Init
  /\ ledger = notify_deposit(empty_ledger, system_account, InitialPool)
  /\ memoed = [a \in Account |-> 0] /\ withdrawn = [a \in Account |-> 0]

LedgerTransfers ==
  \/ \E a \in Account, q \in Amounts : ledger_deposit(a, q)
  \/ \E a \in Account \cup {system_account}, q \in Amounts : ledger_donation(a, q)
  \/ \E a \in Account, q \in Amounts : ledger_donate(a, q)
  \/ \E a \in Account, q \in Amounts : ledger_withdraw(a, q)
  \/ \E a, b \in Account, q \in Amounts : ledger_usertransfer(a, b, q)
  \/ \E k \in DOMAIN dist, a \in Account, q \in Amounts : ledger_fundtransfer(k, a, q)

LedgerDistributions ==
  \/ ledger_setup
  \/ \E m \in DOMAIN member : ledger_pay(m)
  \/ \E m \in DOMAIN member : ledger_resign(m)
  \/ \E m \in DOMAIN member, new \in Account : ledger_rename(m, new)
  \/ ledger_start_election
  \/ ledger_other

LedgerSpec == LedgerInit /\ [][LedgerTransfers \/ LedgerDistributions]_ledger_vars

-----------------------------------------------------------------------------
(***************************************************************************)
(* Properties.                                                             *)
(***************************************************************************)
\* "sum of amount across all balance records = 0" and "token_account record holds negative
\* of total tokens held in eden_account's balance" (eden-micro-chain.cpp:253): no order of
\* actions, notifications and events makes the books of the micro chain unbalanced.
LedgerBalanced ==
  ~ledger.aborted =>
    SumFunction(ledger.balances) = 0 /\ ledger.balances[token_account] = -token

\* "distribution_fund record holds funds which are distributed, or in the middle of being
\* distributed, but not yet spent", and each delegate's fund is the row of the contract,
\* 0 when the contract has erased it.
FundsShown ==
  ~ledger.aborted =>
    /\ shown(ledger, distribution_fund) = SumFunction(dist)
    /\ \A k \in DOMAIN dist : k[1] # contract => k \in DOMAIN ledger.funds
    /\ \A k \in DOMAIN ledger.funds :
         ledger.funds[k] = IF k \in DOMAIN dist THEN dist[k] ELSE 0

\* What the micro chain shows of users and of the pool differs from the contract by the
\* donations made with a memo, which it takes for deposits, and by withdrawals, which it takes
\* from edendelegate, and by nothing else.
DifferenceExplained ==
  ~ledger.aborted =>
    /\ \A a \in Account : shown(ledger, a) = user[a] + memoed[a] + withdrawn[a]
    /\ shown(ledger, edendelegate) = -SumFunction(withdrawn)
    /\ shown(ledger, master_pool) = pool - SumFunction(memoed)

\* The ledger that the micro chain keeps from actions, notifications and events explains every
\* token of the contract: it balances, shows the funds of delegates, and shows users and
\* the pool but for memos and withdrawals, in whatever order transfers, distributions,
\* resignations and elections come.
LedgerExplained == LedgerBalanced /\ FundsShown /\ DifferenceExplained

=============================================================================
