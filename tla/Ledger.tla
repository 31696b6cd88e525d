------------------------------- MODULE Ledger -------------------------------
(***************************************************************************)
(* The money the micro chain shows (contracts/eden/src/                    *)
(* eden-micro-chain.cpp): balances and distribution funds, kept up to date *)
(* by the contract's actions, the notifications of the token contract and  *)
(* the events of distributions.  A ledger is a record of both tables; a    *)
(* handler that misses its record, or would make two with the same key,    *)
(* aborts the micro chain for good.  The history of balances has the same  *)
(* amounts as the balances and is left out.                                *)
(***************************************************************************)
EXTENDS Integers, Functions

token_account == -1      \* holds the negative of the contract's tokens
master_pool == -2
distribution_fund == -3  \* funds of delegates, and of distributions in progress
edendelegate == -4       \* the account that withdraw transfers to
system_account == -5     \* any account that is_possible_deposit_account excludes

empty_ledger == [balances |-> [a \in {} |-> 0], funds |-> [k \in {} |-> 0], aborted |-> FALSE]

shown(l, a) == IF a \in DOMAIN l.balances THEN l.balances[a] ELSE 0
abort(l) == [l EXCEPT !.aborted = TRUE]

add_balance(l, a, delta) ==
  [l EXCEPT !.balances = [b \in DOMAIN @ \cup {a} |-> IF b = a THEN shown(l, a) + delta ELSE @[b]]]

transfer_funds(l, from, to, amount) ==
  IF l.aborted THEN l ELSE add_balance(add_balance(l, from, -amount), to, amount)

\* Mutant: deposits of system accounts stay with them.
Mut_notify_deposit(l, from, quantity) == transfer_funds(l, token_account, from, quantity)

\* notify_transfer, of a transfer to the contract.
notify_deposit(l, from, quantity) ==
  LET deposited == transfer_funds(l, token_account, from, quantity)
  IN  IF from = system_account THEN transfer_funds(deposited, from, master_pool, quantity)
      ELSE deposited

\* notify_transfer, of the transfer that withdraw sends.
notify_withdraw(l, to, quantity) == transfer_funds(l, to, token_account, quantity)

\* distribution_event_reserve and distribution_event_return_excess
event_reserve(l, amount) == transfer_funds(l, master_pool, distribution_fund, amount)
event_return_excess(l, amount) == transfer_funds(l, distribution_fund, master_pool, amount)

\* current_balance of a fund; the row stays when the balance is 0.
spend_fund(l, key, amount) ==
  IF l.aborted THEN l
  ELSE IF key \notin DOMAIN l.funds THEN abort(l)
  ELSE [l EXCEPT !.funds[key] = @ - amount]

event_return(l, key, amount) ==
  spend_fund(transfer_funds(l, distribution_fund, master_pool, amount), key, amount)

fund_transferred(l, key, to, amount) ==
  spend_fund(transfer_funds(l, distribution_fund, to, amount), key, amount)

\* distribution_event_fund, for several funds at once.
event_fund(l, funds) ==
  IF l.aborted THEN l
  ELSE IF DOMAIN funds \cap DOMAIN l.funds # {} THEN abort(l)
  ELSE [l EXCEPT !.funds = [k \in DOMAIN @ \cup DOMAIN funds |->
                              IF k \in DOMAIN funds THEN funds[k] ELSE @[k]]]

\* rename: rows with the new key may exist, since no row is ever removed.
account_renamed(l, old, new) ==
  LET key(k)  == IF k[1] = old THEN <<new, k[2], k[3]>> ELSE k
      was(k)  == IF k[1] = new /\ k \notin DOMAIN l.funds THEN <<old, k[2], k[3]>> ELSE k
      name(a) == IF a = old THEN new ELSE a
      prev(a) == IF a = new /\ old \in DOMAIN l.balances THEN old ELSE a
      clash   == \/ {old, new} \subseteq DOMAIN l.balances
                 \/ \E k \in DOMAIN l.funds : k[1] = old /\ key(k) \in DOMAIN l.funds
  IN  IF l.aborted THEN l
      ELSE IF clash THEN abort(l)
      ELSE [l EXCEPT !.balances = [a \in {name(b) : b \in DOMAIN @} |-> @[prev(a)]],
                     !.funds = [k \in {key(j) : j \in DOMAIN @} |-> @[was(k)]]]

=============================================================================
