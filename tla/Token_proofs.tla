---------------------------- MODULE Token_proofs ----------------------------
(***************************************************************************)
(* The token contract's balances sum to its supply, for any number of      *)
(* accounts, codes, precisions and for any largest amount.                 *)
(***************************************************************************)
EXTENDS Token, Sums_proofs

Asset == [amount : Int, symbol : Symbols]

Stat == [supply : Asset, max_supply : Asset, issuer : Accounts]

\* A table of balances: finitely many rows, whatever the number of accounts.
IsTable(table) ==
  /\ DOMAIN table \subseteq Accounts \X Codes /\ IsFiniteSet(DOMAIN table)
  /\ table \in [DOMAIN table -> Asset]

TokenTypeOK ==
  /\ IsTable(accounts)
  /\ DOMAIN stat \subseteq Codes /\ stat \in [DOMAIN stat -> Stat]

TInv == TokenTypeOK /\ SupplyHeld

-----------------------------------------------------------------------------
\* Writing a row changes what the table holds of its code, and of no other.
LEMMA PutTotal ==
  ASSUME NEW table, IsTable(table), NEW key \in Accounts \X Codes, NEW c, c = key[2],
         NEW row \in Asset, NEW new, new = put(table, key, row)
  PROVE  /\ IsTable(new) /\ DOMAIN new = DOMAIN table \cup {key}
         /\ new[key] = row /\ \A k \in DOMAIN table : k # key => new[k] = table[k]
         /\ \A code : total(table, code) \in Int
         /\ total(new, c) = total(table, c) + (row.amount - (IF key \in DOMAIN table THEN table[key].amount ELSE 0))
         /\ \A code : code # c => total(new, code) = total(table, code)
<1> DEFINE f == [k \in DOMAIN table |-> table[k].amount]
           g == [k \in DOMAIN new |-> new[k].amount]
<1>1. /\ DOMAIN table \subseteq Accounts \X Codes /\ IsFiniteSet(DOMAIN table)
      /\ \A k \in DOMAIN table : table[k] \in Asset /\ f[k] = table[k].amount /\ f[k] \in Int
  BY DEF IsTable, Asset
<1>2. /\ DOMAIN new = DOMAIN table \cup {key} /\ new[key] = row
      /\ \A k \in DOMAIN table : k # key => new[k] = table[k]
  BY DEF put
<1>3. IsTable(new)
  <2>1. IsFiniteSet(DOMAIN new) /\ DOMAIN new \subseteq Accounts \X Codes
    BY <1>1, <1>2, FS_AddElement
  <2>2. new \in [DOMAIN new -> Asset]
    BY <1>1, <1>2 DEF put
  <2> QED
    BY <2>1, <2>2 DEF IsTable
<1>4. \A k \in DOMAIN new : g[k] = new[k].amount /\ g[k] \in Int
  BY <1>3 DEF IsTable, Asset
<1>5. \A code : /\ IsFiniteSet(of_code(table, code)) /\ of_code(table, code) \subseteq DOMAIN table
                /\ total(table, code) = SumFunctionOnSet(f, of_code(table, code))
                /\ total(table, code) \in Int
  <2>1. \A code : IsFiniteSet(of_code(table, code)) /\ of_code(table, code) \subseteq DOMAIN table
    BY <1>1, FS_Subset DEF of_code
  <2>2. \A code : SumFunctionOnSet(f, of_code(table, code)) \in Int
    BY <1>1, <2>1, SumType
  <2> QED
    BY <2>1, <2>2 DEF total
<1>6. \A code : total(new, code) = SumFunctionOnSet(g, of_code(new, code))
  BY DEF total
<1> HIDE DEF f, g
<1>7. \A code : code # c => total(new, code) = total(table, code)
  <2> SUFFICES ASSUME NEW code, code # c PROVE total(new, code) = total(table, code)
    OBVIOUS
  <2>1. of_code(new, code) = of_code(table, code)
    BY <1>2 DEF of_code
  <2>2. \A k \in of_code(table, code) : f[k] = g[k]
    BY <1>1, <1>2, <1>4 DEF of_code
  <2>3. SumFunctionOnSet(f, of_code(table, code)) = SumFunctionOnSet(g, of_code(table, code))
    BY <1>5, <2>2, SumSame
  <2> QED
    BY <1>5, <1>6, <2>1, <2>3
<1>8. total(new, c) = total(table, c) + (row.amount - (IF key \in DOMAIN table THEN table[key].amount ELSE 0))
  <2> DEFINE S == of_code(new, c)
  <2>1. key \in S /\ IsFiniteSet(S) /\ S \subseteq DOMAIN new /\ g[key] = row.amount
    <3>1. key \in S /\ S \subseteq DOMAIN new
      BY <1>2 DEF of_code
    <3>2. IsFiniteSet(S)
      BY <1>3, <3>1, FS_Subset DEF IsTable
    <3> QED
      BY <1>2, <1>4, <3>1, <3>2
  <2>2. S \ {key} = of_code(table, c) \ {key}
    BY <1>2 DEF of_code
  <2>3. \A k \in S \ {key} : f[k] = g[k]
    BY <1>1, <1>2, <1>4, <2>2 DEF of_code
  <2>4. CASE key \in DOMAIN table
    <3>1. S = of_code(table, c) /\ f[key] = table[key].amount
      BY <1>1, <1>2, <2>4 DEF of_code
    <3>2. SumFunctionOnSet(g, S) = SumFunctionOnSet(f, S) + (g[key] - f[key])
      <4>1. \A x \in S : f[x] \in Int /\ g[x] \in Int
        BY <1>1, <1>4, <1>5, <2>1, <3>1
      <4> QED
        BY <2>1, <2>3, <4>1, SumChange
    <3> QED
      BY <1>5, <1>6, <2>1, <2>4, <3>1, <3>2
  <2>5. CASE key \notin DOMAIN table
    <3>1. S \ {key} = of_code(table, c)
      BY <2>2, <2>5 DEF of_code
    <3>2. SumFunctionOnSet(g, S) = g[key] + SumFunctionOnSet(g, S \ {key})
      <4>1. \A x \in S : g[x] \in Int
        BY <1>4, <2>1
      <4> QED
        BY <2>1, <4>1, SumRemove
    <3>3. SumFunctionOnSet(g, S \ {key}) = SumFunctionOnSet(f, S \ {key})
      BY <1>5, <2>3, <3>1, SumSame
    <3>4. row.amount \in Int
      BY DEF Asset
    <3>5. total(new, c) = row.amount + total(table, c) /\ total(table, c) \in Int
      BY <1>5, <1>6, <2>1, <3>1, <3>2, <3>3
    <3> QED
      BY <2>5, <3>4, <3>5
  <2> QED
    BY <2>4, <2>5
<1> QED
  BY <1>2, <1>3, <1>5, <1>7, <1>8

\* Every balance is in the symbol its code was created with.
InSymbol(table, st) ==
  \A key \in DOMAIN table : /\ key[2] \in DOMAIN st /\ table[key].symbol = st[key[2]].supply.symbol
                            /\ table[key].amount >= 0

LEMMA SubBalance ==
  ASSUME NEW table, IsTable(table), NEW st, InSymbol(table, st), NEW o \in Accounts,
         NEW v \in Asset, NEW new \in sub_balance(table, o, v)
  PROVE  /\ IsTable(new) /\ InSymbol(new, st)
         /\ \A code : total(table, code) \in Int
         /\ total(new, v.symbol.code) = total(table, v.symbol.code) - v.amount
         /\ \A code : code # v.symbol.code => total(new, code) = total(table, code)
<1> DEFINE c == v.symbol.code
           key == <<o, c>>
<1>1. c \in Codes /\ v.amount \in Int /\ key \in Accounts \X Codes /\ key[2] = c
  BY DEF Asset, Symbols
<1>2. PICK b : /\ key \in DOMAIN table /\ table[key].amount >= v.amount
               /\ b \in minus(table[key], v) /\ new = put(table, key, b)
  BY DEF sub_balance
<1>3. table[key] \in Asset
  BY <1>2 DEF IsTable
<1>4. b \in Asset /\ b.symbol = table[key].symbol /\ b.amount = table[key].amount - v.amount
  BY <1>1, <1>2, <1>3 DEF minus, Asset
<1>5. table[key].amount \in Int /\ b.amount >= 0
  BY <1>1, <1>2, <1>3, <1>4 DEF Asset
<1>6. /\ IsTable(new) /\ DOMAIN new = DOMAIN table \cup {key}
      /\ new[key] = b /\ \A k \in DOMAIN table : k # key => new[k] = table[k]
      /\ \A code : total(table, code) \in Int
      /\ total(new, c) = total(table, c) + (b.amount - (IF key \in DOMAIN table THEN table[key].amount ELSE 0))
      /\ \A code : code # c => total(new, code) = total(table, code)
  <2>1. key \in Accounts \X Codes /\ c = key[2] /\ b \in Asset /\ new = put(table, key, b)
    BY <1>1, <1>2, <1>4
  <2> QED
    BY <2>1, PutTotal
<1>7. InSymbol(new, st)
  BY <1>2, <1>4, <1>5, <1>6 DEF InSymbol
<1> QED
  BY <1>1, <1>2, <1>4, <1>5, <1>6, <1>7

LEMMA AddBalance ==
  ASSUME NEW table, IsTable(table), NEW st, InSymbol(table, st), NEW o \in Accounts,
         NEW v \in Asset, v.amount >= 0,
         v.symbol.code \in DOMAIN st, st[v.symbol.code].supply.symbol = v.symbol,
         NEW new \in add_balance(table, o, v)
  PROVE  /\ IsTable(new) /\ InSymbol(new, st)
         /\ \A code : total(table, code) \in Int
         /\ total(new, v.symbol.code) = total(table, v.symbol.code) + v.amount
         /\ \A code : code # v.symbol.code => total(new, code) = total(table, code)
<1> DEFINE c == v.symbol.code
           key == <<o, c>>
<1>1. c \in Codes /\ v.amount \in Int /\ key \in Accounts \X Codes /\ key[2] = c
  BY DEF Asset, Symbols
<1>2. PICK b : /\ new = put(table, key, b)
               /\ IF key \in DOMAIN table THEN b \in plus(table[key], v) ELSE b = v
  BY DEF add_balance
<1>3. key \in DOMAIN table => table[key] \in Asset
  BY DEF IsTable
<1>4. /\ b \in Asset /\ b.symbol = v.symbol
      /\ b.amount = v.amount + (IF key \in DOMAIN table THEN table[key].amount ELSE 0)
  BY <1>1, <1>2, <1>3 DEF plus, Asset
<1>5. (key \in DOMAIN table => table[key].amount \in Int) /\ b.amount >= 0
  BY <1>1, <1>3, <1>4 DEF Asset, InSymbol
<1>6. /\ IsTable(new) /\ DOMAIN new = DOMAIN table \cup {key}
      /\ new[key] = b /\ \A k \in DOMAIN table : k # key => new[k] = table[k]
      /\ \A code : total(table, code) \in Int
      /\ total(new, c) = total(table, c) + (b.amount - (IF key \in DOMAIN table THEN table[key].amount ELSE 0))
      /\ \A code : code # c => total(new, code) = total(table, code)
  BY <1>1, <1>2, <1>4, PutTotal
<1>7. InSymbol(new, st)
  BY <1>1, <1>4, <1>5, <1>6 DEF InSymbol
<1> QED
  BY <1>1, <1>4, <1>5, <1>6, <1>7

\* The invariant in terms of the two lemmas.
LEMMA HeldInSymbol ==
  ASSUME TInv
  PROVE  /\ IsTable(accounts) /\ InSymbol(accounts, stat)
         /\ \A code \in DOMAIN stat :
              /\ code \in Codes /\ stat[code] \in Stat
              /\ stat[code].supply \in Asset /\ stat[code].max_supply \in Asset
              /\ stat[code].supply.amount = total(accounts, code)
              /\ stat[code].supply.amount <= stat[code].max_supply.amount
BY DEF TInv, TokenTypeOK, SupplyHeld, InSymbol, Stat

LEMMA CreateKeeps ==
  ASSUME TInv, NEW a \in Accounts, NEW q \in Asset, create(a, q)
  PROVE  TInv'
<1> DEFINE c == q.symbol.code
           row == [supply |-> [q EXCEPT !.amount = 0], max_supply |-> q, issuer |-> a]
<1>0. TokenTypeOK /\ SupplyHeld
  BY DEF TInv
<1>1. c \notin DOMAIN stat /\ stat' = put(stat, c, row) /\ accounts' = accounts /\ q.amount > 0 /\ c \in Codes
  BY DEF create, Asset, Symbols
<1>2. /\ row \in Stat /\ row.supply.amount = 0 /\ row.max_supply = q
  BY DEF Stat, Asset
<1>3. /\ DOMAIN stat' = DOMAIN stat \cup {c} /\ stat'[c] = row
      /\ \A k \in DOMAIN stat : stat'[k] = stat[k]
      /\ stat' \in [DOMAIN stat' -> Stat]
  BY <1>0, <1>1, <1>2 DEF put, TokenTypeOK
<1>4. total(accounts, c) = 0
  <2>1. of_code(accounts, c) = {}
    BY <1>0, <1>1 DEF of_code, SupplyHeld
  <2> QED
    BY <2>1, SumEmpty DEF total
<1>5. TokenTypeOK'
  BY <1>0, <1>1, <1>3 DEF TokenTypeOK
<1>6. SupplyHeld'
  <2>1. \A code \in DOMAIN stat' : /\ stat'[code].supply.amount = total(accounts, code)
                                   /\ stat'[code].supply.amount <= stat'[code].max_supply.amount
    <3>1. 0 <= q.amount
      BY <1>1 DEF Asset
    <3> QED
      BY <1>0, <1>2, <1>3, <1>4, <3>1 DEF SupplyHeld
  <2>2. \A key \in DOMAIN accounts : /\ key[2] \in DOMAIN stat'
                                     /\ accounts[key].symbol = stat'[key[2]].supply.symbol
                                     /\ accounts[key].amount >= 0
    BY <1>0, <1>3 DEF SupplyHeld
  <2> QED
    BY <1>1, <2>1, <2>2 DEF SupplyHeld, total, of_code
<1> QED
  BY <1>5, <1>6 DEF TInv

\* issue and retire change the supply of a code and one balance of it by as much.
LEMMA SupplyKeeps ==
  ASSUME TInv, NEW c \in DOMAIN stat, NEW s \in Asset, s.symbol = stat[c].supply.symbol,
         s.amount <= stat[c].max_supply.amount,
         stat' = [stat EXCEPT ![c].supply = s],
         IsTable(accounts'), InSymbol(accounts', stat),
         total(accounts', c) = s.amount,
         \A code : code # c => total(accounts', code) = total(accounts, code)
  PROVE  TInv'
<1>0. TokenTypeOK /\ SupplyHeld /\ stat[c] \in Stat
  BY HeldInSymbol DEF TInv
<1>1. /\ DOMAIN stat' = DOMAIN stat /\ stat' \in [DOMAIN stat' -> Stat]
      /\ stat'[c].supply = s /\ stat'[c].max_supply = stat[c].max_supply
      /\ \A k \in DOMAIN stat : k # c => stat'[k] = stat[k]
  BY <1>0 DEF TokenTypeOK, Stat
<1>2. TokenTypeOK'
  BY <1>0, <1>1 DEF TokenTypeOK
<1>3. \A key \in DOMAIN accounts' : /\ key[2] \in DOMAIN stat'
                                    /\ accounts'[key].symbol = stat'[key[2]].supply.symbol
                                    /\ accounts'[key].amount >= 0
  BY <1>1 DEF InSymbol
<1>4. \A code \in DOMAIN stat' : /\ stat'[code].supply.amount = total(accounts', code)
                                 /\ stat'[code].supply.amount <= stat'[code].max_supply.amount
  BY <1>0, <1>1 DEF SupplyHeld
<1>5. SupplyHeld'
  BY <1>3, <1>4 DEF SupplyHeld
<1> QED
  BY <1>2, <1>5 DEF TInv

LEMMA IssueKeeps ==
  ASSUME TInv, NEW a \in Accounts, NEW q \in Asset, issue(a, q)
  PROVE  TInv'
<1> DEFINE c == q.symbol.code
<1>1. /\ c \in DOMAIN stat /\ q.amount > 0 /\ q.symbol = stat[c].supply.symbol
      /\ q.amount <= stat[c].max_supply.amount - stat[c].supply.amount
      /\ accounts' \in add_balance(accounts, stat[c].issuer, q)
  BY DEF issue
<1>2. PICK s \in plus(stat[c].supply, q) : stat' = [stat EXCEPT ![c].supply = s]
  BY DEF issue
<1>3. /\ IsTable(accounts) /\ InSymbol(accounts, stat) /\ stat[c] \in Stat
      /\ stat[c].supply \in Asset /\ stat[c].max_supply \in Asset /\ stat[c].issuer \in Accounts
      /\ stat[c].supply.amount = total(accounts, c)
  BY <1>1, HeldInSymbol DEF Stat
<1>4. /\ s \in Asset /\ s.symbol = stat[c].supply.symbol /\ s.amount = stat[c].supply.amount + q.amount
      /\ q.amount \in Int /\ stat[c].supply.amount \in Int /\ stat[c].max_supply.amount \in Int
  BY <1>1, <1>2, <1>3 DEF plus, Asset
<1>5. /\ IsTable(accounts') /\ InSymbol(accounts', stat)
      /\ total(accounts', c) = total(accounts, c) + q.amount
      /\ \A code : code # c => total(accounts', code) = total(accounts, code)
  <2>1. q.amount >= 0
    BY <1>1, <1>4
  <2> QED
    BY <1>1, <1>3, <2>1, AddBalance
<1>6. s.amount <= stat[c].max_supply.amount /\ total(accounts', c) = s.amount
  BY <1>1, <1>3, <1>4, <1>5
<1> QED
  BY <1>1, <1>2, <1>4, <1>5, <1>6, SupplyKeeps

LEMMA RetireKeeps ==
  ASSUME TInv, NEW q \in Asset, retire(q)
  PROVE  TInv'
<1> DEFINE c == q.symbol.code
<1>1. /\ c \in DOMAIN stat /\ q.amount > 0 /\ q.symbol = stat[c].supply.symbol
      /\ accounts' \in sub_balance(accounts, stat[c].issuer, q)
  BY DEF retire
<1>2. PICK s \in minus(stat[c].supply, q) : stat' = [stat EXCEPT ![c].supply = s]
  BY DEF retire
<1>3. /\ IsTable(accounts) /\ InSymbol(accounts, stat) /\ stat[c] \in Stat
      /\ stat[c].supply \in Asset /\ stat[c].max_supply \in Asset /\ stat[c].issuer \in Accounts
      /\ stat[c].supply.amount = total(accounts, c)
      /\ stat[c].supply.amount <= stat[c].max_supply.amount
  BY <1>1, HeldInSymbol DEF Stat
<1>4. /\ s \in Asset /\ s.symbol = stat[c].supply.symbol /\ s.amount = stat[c].supply.amount - q.amount
      /\ q.amount \in Int /\ stat[c].supply.amount \in Int /\ stat[c].max_supply.amount \in Int
  BY <1>1, <1>2, <1>3 DEF minus, Asset
<1>5. /\ IsTable(accounts') /\ InSymbol(accounts', stat)
      /\ total(accounts', c) = total(accounts, c) - q.amount
      /\ \A code : code # c => total(accounts', code) = total(accounts, code)
  BY <1>1, <1>3, SubBalance
<1>6. s.amount <= stat[c].max_supply.amount /\ total(accounts', c) = s.amount
  BY <1>1, <1>3, <1>4, <1>5
<1> QED
  BY <1>1, <1>2, <1>4, <1>5, <1>6, SupplyKeeps

\* The other actions leave the supply alone and what there is of a code too.
LEMMA BalancesKeep ==
  ASSUME TInv, stat' = stat, IsTable(accounts'), InSymbol(accounts', stat),
         \A code \in DOMAIN stat : total(accounts', code) = total(accounts, code)
  PROVE  TInv'
<1>1. TokenTypeOK'
  BY DEF TInv, TokenTypeOK
<1>2. SupplyHeld'
  BY DEF TInv, SupplyHeld, InSymbol
<1> QED
  BY <1>1, <1>2 DEF TInv

LEMMA TransferKeeps ==
  ASSUME TInv, NEW from \in Accounts, NEW to \in Accounts, NEW q \in Asset, transfer(from, to, q)
  PROVE  TInv'
<1> DEFINE c == q.symbol.code
<1>1. /\ c \in DOMAIN stat /\ q.amount > 0 /\ q.symbol = stat[c].supply.symbol /\ stat' = stat
      /\ q.amount \in Int
  BY DEF transfer, Asset
<1>2. PICK table \in sub_balance(accounts, from, q) : accounts' \in add_balance(table, to, q)
  BY DEF transfer
<1>3. IsTable(accounts) /\ InSymbol(accounts, stat)
  BY HeldInSymbol
<1>4. /\ IsTable(table) /\ InSymbol(table, stat)
      /\ \A code : total(accounts, code) \in Int
      /\ total(table, c) = total(accounts, c) - q.amount
      /\ \A code : code # c => total(table, code) = total(accounts, code)
  BY <1>3, SubBalance
<1>5. /\ IsTable(accounts') /\ InSymbol(accounts', stat)
      /\ total(accounts', c) = total(table, c) + q.amount
      /\ \A code : code # c => total(accounts', code) = total(table, code)
  <2>1. q.amount >= 0
    BY <1>1
  <2> QED
    BY <1>1, <1>2, <1>4, <2>1, AddBalance
<1>6. total(accounts', c) = total(accounts, c)
  BY <1>1, <1>4, <1>5
<1> QED
  BY <1>1, <1>4, <1>5, <1>6, BalancesKeep

LEMMA OpenKeeps ==
  ASSUME TInv, NEW a \in Accounts, NEW s \in Symbols, open(a, s)
  PROVE  TInv'
<1> DEFINE key == <<a, s.code>>
           row == [amount |-> 0, symbol |-> s]
<1>1. s.code \in DOMAIN stat /\ stat[s.code].supply.symbol = s /\ stat' = stat /\ s.code \in Codes
  BY DEF open, Symbols
<1>2. IsTable(accounts) /\ InSymbol(accounts, stat)
  BY HeldInSymbol
<1>3. CASE key \in DOMAIN accounts
  <2>1. accounts' = accounts
    BY <1>3 DEF open
  <2> QED
    BY <1>1, <1>2, <2>1, BalancesKeep
<1>4. CASE key \notin DOMAIN accounts
  <2>1. accounts' = put(accounts, key, row)
    BY <1>4 DEF open
  <2>2. row \in Asset /\ row.amount = 0 /\ key \in Accounts \X Codes /\ key[2] = s.code
    BY <1>1 DEF Asset
  <2>3. /\ IsTable(accounts') /\ DOMAIN accounts' = DOMAIN accounts \cup {key}
        /\ accounts'[key] = row /\ \A k \in DOMAIN accounts : k # key => accounts'[k] = accounts[k]
        /\ \A code : total(accounts, code) \in Int
        /\ total(accounts', s.code) = total(accounts, s.code) + (row.amount - (IF key \in DOMAIN accounts THEN accounts[key].amount ELSE 0))
        /\ \A code : code # s.code => total(accounts', code) = total(accounts, code)
    BY <1>2, <2>1, <2>2, PutTotal
  <2>4. InSymbol(accounts', stat)
    BY <1>1, <1>2, <2>2, <2>3 DEF InSymbol
  <2>5. total(accounts', s.code) = total(accounts, s.code)
    BY <1>4, <2>2, <2>3
  <2> QED
    BY <1>1, <2>3, <2>4, <2>5, BalancesKeep
<1> QED
  BY <1>3, <1>4

LEMMA CloseKeeps ==
  ASSUME TInv, NEW a \in Accounts, NEW s \in Symbols, close(a, s)
  PROVE  TInv'
<1> DEFINE key == <<a, s.code>>
           f == [k \in DOMAIN accounts |-> accounts[k].amount]
           g == [k \in DOMAIN accounts' |-> accounts'[k].amount]
<1>1. /\ key \in DOMAIN accounts /\ accounts[key].amount = 0 /\ stat' = stat
      /\ accounts' = [k \in DOMAIN accounts \ {key} |-> accounts[k]]
  BY DEF close, Restrict
<1>2. /\ IsTable(accounts) /\ InSymbol(accounts, stat)
      /\ \A k \in DOMAIN accounts : accounts[k].amount \in Int
  BY HeldInSymbol DEF IsTable, Asset
<1>3. /\ DOMAIN accounts' = DOMAIN accounts \ {key}
      /\ \A k \in DOMAIN accounts' : accounts'[k] = accounts[k]
  BY <1>1
<1>4. IsTable(accounts')
  <2>1. IsFiniteSet(DOMAIN accounts')
    BY <1>2, <1>3, FS_RemoveElement DEF IsTable
  <2> QED
    BY <1>1, <1>2, <1>3, <2>1 DEF IsTable
<1>5. InSymbol(accounts', stat)
  BY <1>2, <1>3 DEF InSymbol
<1>6. ASSUME NEW code \in DOMAIN stat PROVE total(accounts', code) = total(accounts, code)
  <2> DEFINE S == of_code(accounts, code)
             D == of_code(accounts', code)
  <2>1. IsFiniteSet(S) /\ S \subseteq DOMAIN accounts /\ D = S \ {key} /\ D \subseteq DOMAIN accounts'
    <3>1. S \subseteq DOMAIN accounts /\ D = S \ {key} /\ D \subseteq DOMAIN accounts'
      BY <1>3 DEF of_code
    <3> QED
      BY <1>2, <3>1, FS_Subset DEF IsTable
  <2>2. /\ \A k \in S : f[k] \in Int
        /\ \A k \in D : f[k] = g[k]
        /\ f[key] = 0
    BY <1>1, <1>2, <1>3, <2>1
  <2>3. total(accounts, code) = SumFunctionOnSet(f, S) /\ total(accounts', code) = SumFunctionOnSet(g, D)
    BY DEF total
  <2> HIDE DEF f, g, S, D
  <2>4. IsFiniteSet(D) /\ SumFunctionOnSet(f, D) \in Int /\ SumFunctionOnSet(g, D) = SumFunctionOnSet(f, D)
    <3>1. IsFiniteSet(D)
      BY <2>1, FS_RemoveElement
    <3>2. \A k \in D : f[k] \in Int
      BY <2>1, <2>2
    <3>3. SumFunctionOnSet(f, D) \in Int
      BY <3>1, <3>2, SumType
    <3> QED
      BY <2>2, <3>1, <3>3, SumSame
  <2>5. SumFunctionOnSet(f, S) = SumFunctionOnSet(f, D)
    <3>1. CASE key \in S
      <4>1. SumFunctionOnSet(f, S) = f[key] + SumFunctionOnSet(f, S \ {key})
        BY <2>1, <2>2, <3>1, SumRemove
      <4> QED
        BY <2>1, <2>2, <2>4, <4>1
    <3>2. CASE key \notin S
      <4>1. D = S
        BY <2>1, <3>2
      <4> QED
        BY <4>1
    <3> QED
      BY <3>1, <3>2
  <2> QED
    BY <2>3, <2>4, <2>5
<1> QED
  BY <1>1, <1>4, <1>5, <1>6, BalancesKeep

-----------------------------------------------------------------------------
\* The token contract's supply is what its accounts hold (token.cpp), however issue, retire,
\* transfer, open and close follow one another, for any accounts and symbols and whatever the
\* largest amount is.
THEOREM SupplyStaysHeld == TokenSpec => []SupplyHeld
<1>1. TokenInit => TInv
  <2> SUFFICES ASSUME TokenInit PROVE TInv
    OBVIOUS
  <2>1. accounts = << >> /\ stat = << >> /\ DOMAIN accounts = {} /\ DOMAIN stat = {}
    BY DEF TokenInit
  <2>2. IsTable(accounts)
    BY <2>1, FS_EmptySet DEF IsTable
  <2> QED
    BY <2>1, <2>2 DEF TInv, TokenTypeOK, SupplyHeld
<1>2. TInv /\ [TokenNext]_token_vars => TInv'
  <2> SUFFICES ASSUME TInv, [TokenNext]_token_vars PROVE TInv'
    OBVIOUS
  <2>0. \A q \in Assets : q \in Asset
    BY DEF Assets, Asset
  <2>1. CASE \E a \in Accounts, q \in Assets : create(a, q)
    BY <2>0, <2>1, CreateKeeps
  <2>2. CASE \E a \in Accounts, q \in Assets : issue(a, q)
    BY <2>0, <2>2, IssueKeeps
  <2>3. CASE \E q \in Assets : retire(q)
    BY <2>0, <2>3, RetireKeeps
  <2>4. CASE \E from, to \in Accounts, q \in Assets : transfer(from, to, q)
    BY <2>0, <2>4, TransferKeeps
  <2>5. CASE \E a \in Accounts, s \in Symbols : open(a, s)
    BY <2>5, OpenKeeps
  <2>6. CASE \E a \in Accounts, s \in Symbols : close(a, s)
    BY <2>6, CloseKeeps
  <2>7. CASE UNCHANGED token_vars
    <3>1. stat' = stat /\ accounts' = accounts
      BY <2>7 DEF token_vars
    <3> QED
      BY <3>1, HeldInSymbol, BalancesKeep
  <2> QED
    BY <2>1, <2>2, <2>3, <2>4, <2>5, <2>6, <2>7 DEF TokenNext
<1>3. TInv => SupplyHeld
  BY DEF TInv
<1> QED
  BY <1>1, <1>2, <1>3, PTL DEF TokenSpec

=============================================================================
