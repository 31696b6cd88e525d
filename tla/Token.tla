-------------------------------- MODULE Token --------------------------------
(***************************************************************************)
(* The token contract the tests run beside the eden contract               *)
(* (contracts/token): tables stat and accounts, and its six actions.  An   *)
(* action that fails a check is rolled back: the check is a guard.         *)
(*                                                                         *)
(* An asset is [amount, symbol]; a symbol is [code, precision].  Tables    *)
(* are keyed by the code alone, which is why the precision is compared.    *)
(* Memos, and who pays for a row, are left out.                            *)
(***************************************************************************)
EXTENDS Integers, FiniteSetsExt, Functions

CONSTANTS
  Accounts,      \* accounts of the chain
  Codes,         \* symbol codes
  Precisions,    \* precisions of a symbol
  MaxAmount      \* asset::max_amount, 2^62 - 1 in the code

VARIABLES
  stat,          \* table stat: code -> [supply, max_supply, issuer]
  accounts       \* table accounts: <<owner, code>> -> asset

token_vars == <<stat, accounts>>

Symbols == [code : Codes, precision : Precisions]

\* Bound: amounts up to one beyond the valid ones.
Assets == [amount : -1 .. MaxAmount + 1, symbol : Symbols]

-----------------------------------------------------------------------------
is_amount_within_range(amount) == -MaxAmount <= amount /\ amount <= MaxAmount

is_valid(a) == is_amount_within_range(a.amount)

\* operator += and operator -=, as the set of what they can leave: nothing when they fail.
plus(a, b) ==
  {[a EXCEPT !.amount = @ + b.amount] : x \in {y \in {0} : a.symbol = b.symbol /\ is_amount_within_range(a.amount + b.amount)}}

minus(a, b) ==
  {[a EXCEPT !.amount = @ - b.amount] : x \in {y \in {0} : a.symbol = b.symbol /\ is_amount_within_range(a.amount - b.amount)}}

-----------------------------------------------------------------------------
(***************************************************************************)
(* The balances, as the table that is left; none when a check fails.       *)
(***************************************************************************)
put(table, key, row) == [k \in DOMAIN table \cup {key} |-> IF k = key THEN row ELSE table[k]]

sub_balance(table, owner, value) ==
  LET key == <<owner, value.symbol.code>>
  IN  {put(table, key, b) : b \in UNION {minus(table[k], value) :
         k \in {x \in {key} \cap DOMAIN table : table[x].amount >= value.amount}}}

add_balance(table, owner, value) ==
  LET key == <<owner, value.symbol.code>>
  IN  IF key \notin DOMAIN table THEN {put(table, key, value)}
      ELSE {put(table, key, b) : b \in plus(table[key], value)}

-----------------------------------------------------------------------------
(***************************************************************************)
(* Actions.                                                                *)
(***************************************************************************)
create(issuer, maximum_supply) ==
  LET code == maximum_supply.symbol.code
  IN  /\ is_valid(maximum_supply) /\ maximum_supply.amount > 0
      /\ code \notin DOMAIN stat
      /\ stat' = put(stat, code, [supply |-> [maximum_supply EXCEPT !.amount = 0],
                                  max_supply |-> maximum_supply, issuer |-> issuer])
      /\ UNCHANGED accounts

issue(to, quantity) ==
  LET code == quantity.symbol.code
  IN  /\ code \in DOMAIN stat
      /\ LET st == stat[code]
         IN  /\ to = st.issuer
             /\ is_valid(quantity) /\ quantity.amount > 0
             /\ quantity.symbol = st.supply.symbol
             /\ quantity.amount <= st.max_supply.amount - st.supply.amount
             /\ \E s \in plus(st.supply, quantity) : stat' = [stat EXCEPT ![code].supply = s]
             /\ accounts' \in add_balance(accounts, st.issuer, quantity)

\* Nothing here compares the quantity with the supply: the issuer's balance does.
retire(quantity) ==
  LET code == quantity.symbol.code
  IN  /\ code \in DOMAIN stat
      /\ LET st == stat[code]
         IN  /\ is_valid(quantity) /\ quantity.amount > 0
             /\ quantity.symbol = st.supply.symbol
             /\ \E s \in minus(st.supply, quantity) : stat' = [stat EXCEPT ![code].supply = s]
             /\ accounts' \in sub_balance(accounts, st.issuer, quantity)

transfer(from, to, quantity) ==
  /\ from # to
  /\ quantity.symbol.code \in DOMAIN stat
  /\ is_valid(quantity) /\ quantity.amount > 0
  /\ quantity.symbol = stat[quantity.symbol.code].supply.symbol
  /\ accounts' \in UNION {add_balance(table, to, quantity) : table \in sub_balance(accounts, from, quantity)}
  /\ UNCHANGED stat

open(owner, symbol) ==
  /\ symbol.code \in DOMAIN stat
  /\ stat[symbol.code].supply.symbol = symbol
  /\ IF <<owner, symbol.code>> \in DOMAIN accounts THEN UNCHANGED accounts
     ELSE accounts' = put(accounts, <<owner, symbol.code>>, [amount |-> 0, symbol |-> symbol])
  /\ UNCHANGED stat

\* Mutant: a row may be closed whatever it holds.
Mut_close(owner, symbol) ==
  /\ <<owner, symbol.code>> \in DOMAIN accounts
  /\ accounts' = Restrict(accounts, DOMAIN accounts \ {<<owner, symbol.code>>})
  /\ UNCHANGED stat

\* The precision of the symbol is not compared.
close(owner, symbol) ==
  LET key == <<owner, symbol.code>>
  IN  /\ key \in DOMAIN accounts
      /\ accounts[key].amount = 0
      /\ accounts' = Restrict(accounts, DOMAIN accounts \ {key})
      /\ UNCHANGED stat

-----------------------------------------------------------------------------
TokenInit == stat = << >> /\ accounts = << >>

TokenNext ==
  \/ \E a \in Accounts, q \in Assets : create(a, q)
  \/ \E a \in Accounts, q \in Assets : issue(a, q)
  \/ \E q \in Assets : retire(q)
  \/ \E from, to \in Accounts, q \in Assets : transfer(from, to, q)
  \/ \E a \in Accounts, s \in Symbols : open(a, s)
  \/ \E a \in Accounts, s \in Symbols : close(a, s)

TokenSpec == TokenInit /\ [][TokenNext]_token_vars

-----------------------------------------------------------------------------
\* What a table of balances holds of a code.
of_code(table, code) == {key \in DOMAIN table : key[2] = code}

total(table, code) ==
  SumFunctionOnSet([key \in DOMAIN table |-> table[key].amount], of_code(table, code))

\* What get_supply tells is what there is: the balances of a code, all of the precision it
\* was created with, sum to its supply, which is between nothing and its maximum.  Supply and
\* balances are checked separately (retire subtracts from the supply unchecked, rows come and
\* go with open and close), so it takes all the actions together to keep them equal.
SupplyHeld ==
  /\ \A key \in DOMAIN accounts : /\ key[2] \in DOMAIN stat
                                  /\ accounts[key].symbol = stat[key[2]].supply.symbol
                                  /\ accounts[key].amount >= 0
  /\ \A code \in DOMAIN stat : /\ stat[code].supply.amount = total(accounts, code)
                               /\ stat[code].supply.amount <= stat[code].max_supply.amount

=============================================================================
