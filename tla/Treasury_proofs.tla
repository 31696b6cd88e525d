--------------------------- MODULE Treasury_proofs ---------------------------
(***************************************************************************)
(* That the accounts add up to the tokens of the contract and that every   *)
(* distribution can be paid to the end, for every set of accounts, every   *)
(* percentage, month and length of history.                                *)
(*                                                                         *)
(* An action writes rows of distaccount without looking whether they       *)
(* exist, so funds are kept only because it never meets one: TInv says     *)
(* that the rows of the distribution table are in order, that an account   *)
(* of distaccount is older than the next distribution, and that a member   *)
(* has an account of a distribution only once it was paid.  SetUp says     *)
(* what setup_distribution, however many months it is late, may do.        *)
(*                                                                         *)
(* FInv adds what each account of a distribution holds.  make_distribution *)
(* divides by the counts of memberstats, payments follow the ranks of the  *)
(* members: Divided says that these agree when the counts are right, and   *)
(* counts are right whenever no election runs.  The proof then follows     *)
(* each account through payments, resignations and renamings.              *)
(*                                                                         *)
(* LInv adds the ledger of the micro chain.  Booked says what a transfer   *)
(* does to it, Explains and FundsMatch what it has to do with the          *)
(* contract.  Resignations return funds one by one, by a fold; GoneBack    *)
(* is what is so far explained.  That no balance is negative (Solvent) is  *)
(* needed where an account is renamed.                                     *)
(***************************************************************************)
EXTENDS TreasuryLedger, Sums_proofs, SequenceTheorems

-----------------------------------------------------------------------------
(***************************************************************************)
(* Shares and rows.                                                        *)
(***************************************************************************)
Shares == UNION {[K -> Int] : K \in SUBSET Int}

NextRow == [type : {"next"}, time : Int]
ElectionRow == [type : {"election"}, time : Int, amount : Int]
CurrentRow == [type : {"current"}, time : Int, last_processed : Int, rank_distribution : Shares]
Row == NextRow \cup ElectionRow \cup CurrentRow

\* The ranks that get a share, and what the shares use up.
used_parts(rs, amount) == [k \in shared_ranks(rs) |-> this_rank(rs, amount, k) * holders(rs, k)]

LEMMA RanksShared ==
  ASSUME NEW rs \in Seq(Int), NEW amount \in Int
  PROVE  /\ Len(rs) \in Nat /\ rs \in [1..Len(rs) -> Int]
         /\ shared_ranks(rs) \in SUBSET (1..(Len(rs) - 1)) /\ IsFiniteSet(shared_ranks(rs))
         /\ \A k \in shared_ranks(rs) : this_rank(rs, amount, k) \in Int /\ holders(rs, k) \in Int
         /\ used(rs, amount) = SumFunctionOnSet(used_parts(rs, amount), shared_ranks(rs))
         /\ used(rs, amount) \in Int
<1> DEFINE K == shared_ranks(rs)
<1>1. Len(rs) \in Nat /\ rs \in [1..Len(rs) -> Int]
  BY LenProperties
<1>2. K \in SUBSET (1..(Len(rs) - 1)) /\ IsFiniteSet(K)
  <2>1. K \in SUBSET (1..(Len(rs) - 1)) /\ Len(rs) - 1 \in Int
    BY <1>1 DEF shared_ranks, top_rank
  <2>2. IsFiniteSet(1..(Len(rs) - 1))
    BY <2>1, FS_Interval
  <2> QED
    BY <2>1, <2>2, FS_Subset
<1>3. ASSUME NEW k \in K
      PROVE  this_rank(rs, amount, k) \in Int /\ holders(rs, k) \in Int
  <2>1. k \in Int /\ 1 <= k /\ k <= Len(rs) - 1 /\ holders(rs, k) > 0
    BY <1>1 DEF shared_ranks, top_rank
  <2>2. holders(rs, k) \in Int
    <3>1. IsFiniteSet((k + 1)..Len(rs))
      BY <1>1, <2>1, FS_Interval
    <3>2. \A i \in (k + 1)..Len(rs) : rs[i] \in Int
      BY <1>1, <2>1
    <3> QED
      BY <3>1, <3>2, SumType DEF holders
  <2>3. per_rank(rs, amount) \in Int
    BY <1>1, <2>1 DEF per_rank
  <2> DEFINE p == per_rank(rs, amount)
             h == holders(rs, k)
  <2>4. p \in Int /\ h \in Int /\ h > 0
    BY <2>1, <2>2, <2>3
  <2> HIDE DEF p, h
  <2>5. p \div h \in Int /\ (2 * p) \div h \in Int
    BY <2>4
  <2> QED
    BY <2>2, <2>5 DEF this_rank, p, h
<1>4. used(rs, amount) = SumFunctionOnSet(used_parts(rs, amount), K)
  BY DEF used, SumFunction, used_parts
<1>5. used(rs, amount) \in Int
  <2> DEFINE f == used_parts(rs, amount)
  <2>1. \A k \in K : f[k] \in Int
    BY <1>3 DEF used_parts
  <2> HIDE DEF f
  <2>2. SumFunctionOnSet(f, K) \in Int
    BY <1>2, <2>1, SumType
  <2> QED
    BY <1>4, <2>2 DEF f
<1> QED
  BY <1>1, <1>2, <1>3, <1>4, <1>5

LEMMA SharesTyped ==
  ASSUME NEW rs \in Seq(Int), NEW amount \in Int
  PROVE  /\ rank_distribution(rs, amount) \in Shares
         /\ distributed(rs, amount) \in Int
<1> DEFINE K == shared_ranks(rs)
<1>1. /\ Len(rs) \in Nat /\ K \in SUBSET (1..(Len(rs) - 1)) /\ used(rs, amount) \in Int
      /\ \A k \in K : this_rank(rs, amount, k) \in Int
  BY RanksShared
<1>2. K \in SUBSET Int
  BY <1>1
<1>3. \A k \in K : rank_distribution(rs, amount)[k] \in Int
  BY <1>1 DEF rank_distribution
<1>4. rank_distribution(rs, amount) \in [K -> Int]
  <2> DEFINE d == rank_distribution(rs, amount)
  <2>1. d = [k \in K |-> d[k]]
    BY DEF rank_distribution
  <2> HIDE DEF d, K
  <2> QED
    BY <1>3, <2>1 DEF d
<1>5. distributed(rs, amount) \in Int
  BY <1>1 DEF distributed
<1> QED
  BY <1>2, <1>4, <1>5 DEF Shares

LEMMA RowsTyped ==
  ASSUME NEW time \in Int
  PROVE  /\ next_distribution(time) \in Row /\ next_distribution(time).type = "next"
         /\ next_distribution(time).time = time
         /\ \A amount \in Int : /\ election_distribution(time, amount) \in Row
                                /\ election_distribution(time, amount).type = "election"
                                /\ election_distribution(time, amount).time = time
         /\ \A last \in Int, s \in Shares : /\ current_distribution(time, last, s) \in Row
                                            /\ current_distribution(time, last, s).type = "current"
                                            /\ current_distribution(time, last, s).time = time
BY DEF Row, NextRow, ElectionRow, CurrentRow, next_distribution, election_distribution, current_distribution

LEMMA RowFacts ==
  ASSUME NEW d \in Row
  PROVE  /\ d.time \in Int /\ d.type \in {"next", "election", "current"}
         /\ d.type = "election" => d.amount \in Int
         /\ d.type = "current" => d \in CurrentRow /\ d.last_processed \in Int /\ d.rank_distribution \in Shares
BY DEF Row, NextRow, ElectionRow, CurrentRow

-----------------------------------------------------------------------------
(***************************************************************************)
(* Books.  A row of distaccount is never written over: its time is earlier *)
(* than that of the last row of the distribution table, and a member has   *)
(* rows of a distribution only once it has been paid.                      *)
(***************************************************************************)
Owner == Account \cup {contract}

BooksTyped(b) ==
  /\ DOMAIN b = {"pool", "table", "dist"}
  /\ b.pool \in Int /\ b.table \in Seq(Row)
  /\ IsFiniteSet(DOMAIN b.dist) /\ b.dist \in [DOMAIN b.dist -> Int]
  /\ DOMAIN b.dist \subseteq Owner \X Int \X Int

\* The last row is the next distribution; the ones that can be paid come first.
Scheduled(t) ==
  t # << >> =>
    /\ t[Len(t)].type = "next"
    /\ \A i \in 1..(Len(t) - 1) : t[i].type # "next"
    /\ \A i, j \in 1..Len(t) :
         i < j => t[i].time < t[j].time /\ (t[j].type = "current" => t[i].type = "current")

EarlierKeys(d, t) == \A k \in DOMAIN d : t # << >> /\ k[2] < t[Len(t)].time

PaidKeys(d, t) ==
  \A k \in DOMAIN d : \A i \in 1..Len(t) :
    k[1] # contract /\ t[i].time = k[2] => t[i].type = "current" /\ k[1] <= t[i].last_processed

BooksInv(b) == BooksTyped(b) /\ Scheduled(b.table) /\ EarlierKeys(b.dist, b.table) /\ PaidKeys(b.dist, b.table)

\* No distribution can become payable while one waits for the end of an election.
Waiting(t, election) ==
  (\E i \in 1..Len(t) : t[i].type = "election") =>
    election = none \/ (election <= now /\ election <= t[Len(t)].time)

\* No account of a member belongs to a distribution in the table.
Settled(d, t) == \A k \in DOMAIN d : k[1] # contract => \A i \in 1..Len(t) : t[i].time # k[2]

Total(b) == b.pool + SumFunction(b.dist)

LEMMA SumDomain ==
  ASSUME NEW d, IsFiniteSet(DOMAIN d), d \in [DOMAIN d -> Int]
  PROVE  SumFunction(d) \in Int /\ SumFunction(d) = SumFunctionOnSet(d, DOMAIN d)
BY SumType DEF SumFunction

\* The accounts of members, and what they hold.
OthersSame(d, e) ==
  /\ \A k \in DOMAIN d : k[1] # contract => k \in DOMAIN e /\ e[k] = d[k]
  /\ \A k \in DOMAIN e : k[1] # contract => k \in DOMAIN d

\* What setting up may do to the books.
SetUp(b, c, election) ==
  /\ BooksInv(c) /\ Waiting(c.table, election)
  /\ c.table = << >> => b.table = << >>
  /\ Total(c) = Total(b)
  /\ Settled(b.dist, b.table) => Settled(c.dist, c.table)
  /\ \A k \in DOMAIN c.dist : k \in DOMAIN b.dist \/ k[1] = contract
  /\ OthersSame(b.dist, c.dist)

LEMMA KeyTyped ==
  ASSUME NEW k \in Owner \X Int \X Int
  PROVE  k = <<k[1], k[2], k[3]>> /\ k[1] \in Owner /\ k[2] \in Int /\ k[3] \in Int
OBVIOUS

LEMMA OwnerTyped ==
  ASSUME NEW a \in Owner PROVE a \in Int
BY TreasuryAssumption DEF Owner, contract

LEMMA TableFacts ==
  ASSUME NEW t \in Seq(Row), t # << >>, Scheduled(t), NEW d, DOMAIN d \subseteq Owner \X Int \X Int, EarlierKeys(d, t)
  PROVE  /\ Len(t) \in Nat /\ Len(t) >= 1 /\ \A i \in 1..Len(t) : t[i] \in Row /\ t[i].time \in Int
         /\ t[Len(t)].type = "next" /\ t[Len(t)].time \in Int
         /\ \A i \in 1..(Len(t) - 1) : i \in 1..Len(t) /\ t[i].type # "next" /\ t[i].time < t[Len(t)].time
         /\ \A i, j \in 1..Len(t) : i < j => t[i].time < t[j].time /\ (t[j].type = "current" => t[i].type = "current")
         /\ \A k \in DOMAIN d : k[2] \in Int /\ k[2] < t[Len(t)].time
<1>1. Len(t) \in Nat /\ Len(t) >= 1 /\ t \in [1..Len(t) -> Row]
  BY EmptySeq, LenProperties
<1>2. \A i \in 1..Len(t) : t[i] \in Row /\ t[i].time \in Int
  BY <1>1, RowFacts
<1>3. \A i \in 1..(Len(t) - 1) : i \in 1..Len(t) /\ Len(t) \in 1..Len(t) /\ i < Len(t)
  BY <1>1
<1>4. \A k \in DOMAIN d : k[2] \in Int
  BY KeyTyped
<1>5. \A k \in DOMAIN d : k[2] < t[Len(t)].time
  BY DEF EarlierKeys
<1>6. /\ t[Len(t)].type = "next"
      /\ \A i \in 1..(Len(t) - 1) : t[i].type # "next"
      /\ \A i, j \in 1..Len(t) : i < j => t[i].time < t[j].time /\ (t[j].type = "current" => t[i].type = "current")
  BY DEF Scheduled
<1>7. Len(t) \in 1..Len(t)
  BY <1>1
<1> QED
  BY <1>1, <1>2, <1>3, <1>4, <1>5, <1>6, <1>7

LEMMA PutKeeps ==
  ASSUME NEW d, IsFiniteSet(DOMAIN d), d \in [DOMAIN d -> Int], NEW key, key \notin DOMAIN d, NEW amount \in Int
  PROVE  /\ DOMAIN put(d, key, amount) = DOMAIN d \cup {key} /\ IsFiniteSet(DOMAIN d \cup {key})
         /\ put(d, key, amount) \in [DOMAIN d \cup {key} -> Int]
         /\ SumFunction(put(d, key, amount)) = SumFunction(d) + amount
<1> DEFINE p == put(d, key, amount)
<1>1. DOMAIN p = DOMAIN d \cup {key} /\ p[key] = amount /\ (\A k \in DOMAIN d : p[k] = d[k])
      /\ p \in [DOMAIN d \cup {key} -> Int]
  BY DEF put
<1> HIDE DEF p
<1>2. SumFunctionOnSet(p, DOMAIN d \cup {key}) = p[key] + SumFunctionOnSet(p, DOMAIN d)
  BY <1>1, SumAdd
<1>3. SumFunctionOnSet(p, DOMAIN d) = SumFunctionOnSet(d, DOMAIN d)
  BY <1>1, SumSame
<1>4. SumFunction(d) \in Int
  BY SumDomain
<1>5. SumFunction(p) = SumFunction(d) + amount
  BY <1>1, <1>2, <1>3, <1>4 DEF SumFunction
<1> QED
  BY <1>1, <1>5, FS_AddElement DEF p

LEMMA OnceTyped ==
  ASSUME NEW b, BooksInv(b), b.table # << >>, NEW election \in Int, ranks \in Seq(Int)
  PROVE  LET time      == last_row(b).time
             before    == election # none /\ election > time
             cut       == before /\ election < time + Month
             next_time == IF cut THEN election ELSE time + Month
             total     == IF cut
                          THEN ((election - time) * monthly_distribution_pct * b.pool) \div (100 * Month)
                          ELSE (monthly_distribution_pct * b.pool) \div 100
             taken     == IF before THEN distributed(ranks, total) ELSE total
             row       == IF before THEN current_distribution(time, 0, rank_distribution(ranks, total))
                          ELSE election_distribution(time, total)
         IN  /\ time \in Int /\ next_time \in Int /\ next_time > time /\ taken \in Int /\ total \in Int
             /\ row \in Row /\ row.time = time /\ row.type = IF before THEN "current" ELSE "election"
<1> DEFINE time      == last_row(b).time
           before    == election # none /\ election > time
           cut       == before /\ election < time + Month
           next_time == IF cut THEN election ELSE time + Month
           total     == IF cut
                        THEN ((election - time) * monthly_distribution_pct * b.pool) \div (100 * Month)
                        ELSE (monthly_distribution_pct * b.pool) \div 100
           taken     == IF before THEN distributed(ranks, total) ELSE total
           row       == IF before THEN current_distribution(time, 0, rank_distribution(ranks, total))
                        ELSE election_distribution(time, total)
<1>1. b.table \in Seq(Row) /\ b.pool \in Int
  BY DEF BooksInv, BooksTyped
<1>2. Len(b.table) \in Nat /\ Len(b.table) >= 1 /\ b.table[Len(b.table)] \in Row
  BY <1>1, EmptySeq, LenProperties
<1>3. time \in Int
  BY <1>2, RowFacts DEF last_row
<1>4. Month \in Int /\ Month > 0 /\ monthly_distribution_pct \in Int
  BY TreasuryAssumption
<1> HIDE DEF time
<1>5. next_time \in Int /\ next_time > time
  BY <1>3, <1>4
<1>6. total \in Int
  <2>1. \A x \in Int, y \in Int : y > 0 => x \div y \in Int
    OBVIOUS
  <2>2. 100 * Month \in Int /\ 100 * Month > 0
    BY <1>4
  <2>3. (election - time) * monthly_distribution_pct \in Int
    BY <1>3, <1>4
  <2>4. \A x \in Int : x * b.pool \in Int
    BY <1>1
  <2>5. (election - time) * monthly_distribution_pct * b.pool \in Int /\ monthly_distribution_pct * b.pool \in Int
    BY <1>4, <2>3, <2>4
  <2> QED
    BY <2>1, <2>2, <2>5
<1> HIDE DEF total, next_time
<1>7. taken \in Int /\ rank_distribution(ranks, total) \in Shares
  BY <1>6, SharesTyped
<1>8. row \in Row /\ row.time = time /\ row.type = IF before THEN "current" ELSE "election"
  <2> HIDE DEF before
  <2>1. CASE before
    <3>1. row = current_distribution(time, 0, rank_distribution(ranks, total))
      BY <2>1
    <3> QED
      BY <1>3, <1>7, <2>1, <3>1, RowsTyped
  <2>2. CASE ~before
    <3>1. row = election_distribution(time, total)
      BY <2>2
    <3> QED
      BY <1>3, <1>6, <2>2, <3>1, RowsTyped
  <2> QED
    BY <2>1, <2>2
<1> QED
  BY <1>3, <1>5, <1>6, <1>7, <1>8 DEF time, total, next_time

\* The last row is replaced by a later one, ...
LEMMA TableMoved ==
  ASSUME NEW t \in Seq(Row), t # << >>, NEW time \in Int, time > t[Len(t)].time
  PROVE  LET u == Append(SubSeq(t, 1, Len(t) - 1), next_distribution(time))
         IN  /\ u \in Seq(Row) /\ Len(u) = Len(t) /\ u # << >> /\ u[Len(t)] = next_distribution(time)
             /\ \A i \in 1..(Len(t) - 1) : u[i] = t[i]
<1> DEFINE e == SubSeq(t, 1, Len(t) - 1)
           r == next_distribution(time)
           u == Append(e, r)
<1>1. Len(t) \in Nat /\ Len(t) >= 1
  BY EmptySeq
<1>2. e \in Seq(Row) /\ Len(e) = Len(t) - 1 /\ \A i \in 1..(Len(t) - 1) : e[i] = t[i]
  <2>1. t \in [1..Len(t) -> Row]
    BY LenProperties
  <2> QED
    BY <1>1, <2>1, SubSeqProperties
<1>3. r \in Row
  BY RowsTyped
<1> HIDE DEF e, r
<1>4. /\ u \in Seq(Row) /\ u # << >> /\ Len(u) = Len(e) + 1
      /\ \A i \in 1..Len(e) : u[i] = e[i]
      /\ u[Len(e) + 1] = r
  BY <1>2, <1>3, AppendProperties
<1> HIDE DEF u
<1>5. Len(u) = Len(t) /\ u[Len(t)] = r /\ \A i \in 1..(Len(t) - 1) : u[i] = t[i]
  BY <1>1, <1>2, <1>4
<1> QED
  BY <1>4, <1>5 DEF u, e, r

\* ... or becomes a distribution that is followed by a later one.
grown_table(t, row, time) == SubSeq(t, 1, Len(t) - 1) \o <<row, next_distribution(time)>>

LEMMA TableGrown ==
  ASSUME NEW t \in Seq(Row), t # << >>, NEW time \in Int, NEW row \in Row
  PROVE  LET u == grown_table(t, row, time)
         IN  /\ u \in Seq(Row) /\ Len(u) = Len(t) + 1 /\ u # << >>
             /\ u[Len(t) + 1] = next_distribution(time) /\ u[Len(t)] = row
             /\ \A i \in 1..(Len(t) - 1) : u[i] = t[i]
<1> DEFINE e == SubSeq(t, 1, Len(t) - 1)
           r == next_distribution(time)
           f == <<row, r>>
           u == e \o f
<1>1. Len(t) \in Nat /\ Len(t) >= 1
  BY EmptySeq
<1>2. e \in Seq(Row) /\ Len(e) = Len(t) - 1 /\ \A i \in 1..(Len(t) - 1) : e[i] = t[i]
  <2>1. t \in [1..Len(t) -> Row]
    BY LenProperties
  <2> QED
    BY <1>1, <2>1, SubSeqProperties
<1>3. r \in Row
  BY RowsTyped
<1> HIDE DEF e, r
<1>4. f \in Seq(Row) /\ Len(f) = 2 /\ f[1] = row /\ f[2] = r
  BY <1>3
<1> HIDE DEF f
<1>5. /\ u \in Seq(Row) /\ Len(u) = Len(e) + 2
      /\ \A i \in 1..(Len(e) + 2) : u[i] = IF i <= Len(e) THEN e[i] ELSE f[i - Len(e)]
  <2>1. /\ e \o f \in Seq(Row) /\ Len(e \o f) = Len(e) + Len(f)
        /\ \A i \in 1..(Len(e) + Len(f)) : (e \o f)[i] = IF i <= Len(e) THEN e[i] ELSE f[i - Len(e)]
    BY <1>2, <1>4, ConcatProperties, Zenon
  <2> QED
    BY <1>4, <2>1
<1> HIDE DEF u
<1>6. Len(u) = Len(t) + 1 /\ \A i \in 1..(Len(t) - 1) : u[i] = t[i]
  <2>1. Len(u) = Len(t) + 1
    BY <1>1, <1>2, <1>5
  <2>2. ASSUME NEW i \in 1..(Len(t) - 1) PROVE u[i] = t[i]
    <3>1. i \in 1..(Len(e) + 2) /\ i <= Len(e)
      BY <1>1, <1>2
    <3>2. u[i] = e[i]
      BY <1>5, <3>1
    <3> QED
      BY <1>2, <3>2
  <2> QED
    BY <2>1, <2>2
<1>7. u[Len(t)] = row /\ u[Len(t) + 1] = r
  <2>1. Len(t) \in 1..(Len(e) + 2) /\ ~(Len(t) <= Len(e)) /\ Len(t) - Len(e) = 1
    BY <1>1, <1>2
  <2>2. Len(t) + 1 \in 1..(Len(e) + 2) /\ ~(Len(t) + 1 <= Len(e)) /\ (Len(t) + 1) - Len(e) = 2
    BY <1>1, <1>2
  <2> QED
    BY <1>4, <1>5, <2>1, <2>2
<1>8. u # << >>
  BY <1>1, <1>5, <1>6, EmptySeq
<1> QED
  BY <1>5, <1>6, <1>7, <1>8 DEF u, e, r, f, grown_table

LEMMA MovedKeeps ==
  ASSUME NEW b, BooksInv(b), b.table # << >>, NEW election \in Int, now \in Int,
         Waiting(b.table, election), NEW time \in Int, time > last_row(b).time,
         NEW c, c = [b EXCEPT !.table = Append(SubSeq(b.table, 1, Len(b.table) - 1), next_distribution(time))]
  PROVE  SetUp(b, c, election)
<1> DEFINE t == b.table
           n == Len(b.table)
           u == Append(SubSeq(b.table, 1, Len(b.table) - 1), next_distribution(time))
           d == b.dist
<1>1. /\ DOMAIN b = {"pool", "table", "dist"} /\ b.pool \in Int /\ t \in Seq(Row)
      /\ IsFiniteSet(DOMAIN d) /\ d \in [DOMAIN d -> Int] /\ DOMAIN d \subseteq Owner \X Int \X Int
  BY DEF BooksInv, BooksTyped
<1>2. t[n].time < time
  BY <1>1 DEF last_row
<1>3. /\ u \in Seq(Row) /\ Len(u) = n /\ u # << >> /\ u[n] = next_distribution(time)
      /\ \A i \in 1..(n - 1) : u[i] = t[i]
  BY <1>1, <1>2, TableMoved
<1>4. DOMAIN c = {"pool", "table", "dist"} /\ c.pool = b.pool /\ c.dist = d /\ c.table = u
  BY <1>1
<1>5. n \in Nat /\ n >= 1 /\ \A i \in 1..n : t[i] \in Row /\ t[i].time \in Int
  <2>1. t \in [1..n -> Row] /\ n \in Nat /\ n >= 1
    BY <1>1, LenProperties, EmptySeq
  <2> QED
    BY <2>1, RowFacts
<1>6. u[n].type = "next" /\ u[n].time = time
  BY <1>3, RowsTyped
<1> HIDE DEF u, t, n, d
<1>7. BooksTyped(c)
  BY <1>1, <1>3, <1>4 DEF BooksTyped
<1>8. Scheduled(t) /\ EarlierKeys(d, t) /\ PaidKeys(d, t) /\ Waiting(t, election) /\ t # << >> /\ Len(t) = n
  BY DEF BooksInv, t, d, n
<1>9. /\ \A i \in 1..(n - 1) : t[i].type # "next" /\ t[i].time < t[n].time
      /\ \A i, j \in 1..n : i < j => t[i].time < t[j].time /\ (t[j].type = "current" => t[i].type = "current")
      /\ \A k \in DOMAIN d : k[2] \in Int /\ k[2] < t[n].time
  BY <1>1, <1>8, TableFacts
<1>10. \A i \in 1..n : i = n \/ i \in 1..(n - 1)
  BY <1>5
<1>11. Scheduled(u)
  <2>1. \A i, j \in 1..n : i < j => u[i].time < u[j].time /\ (u[j].type = "current" => u[i].type = "current")
    <3> SUFFICES ASSUME NEW i \in 1..n, NEW j \in 1..n, i < j
                 PROVE  u[i].time < u[j].time /\ (u[j].type = "current" => u[i].type = "current")
      OBVIOUS
    <3>1. i \in 1..(n - 1) /\ u[i] = t[i] /\ t[i].time \in Int /\ t[n].time \in Int
      BY <1>3, <1>5
    <3>2. CASE j = n
      BY <1>2, <1>6, <1>9, <3>1, <3>2
    <3>3. CASE j \in 1..(n - 1)
      BY <1>3, <1>9, <3>1, <3>3
    <3> QED
      BY <1>10, <3>2, <3>3
  <2> QED
    BY <1>3, <1>6, <1>9, <2>1 DEF Scheduled
<1>12. \A k \in DOMAIN d : k[2] < time
  BY <1>2, <1>5, <1>9
<1>13. EarlierKeys(d, u)
  BY <1>3, <1>6, <1>12 DEF EarlierKeys
<1>14. PaidKeys(d, u)
  <2> SUFFICES ASSUME NEW k \in DOMAIN d, NEW i \in 1..n, k[1] # contract, u[i].time = k[2]
               PROVE  u[i].type = "current" /\ k[1] <= u[i].last_processed
    BY <1>3 DEF PaidKeys
  <2>1. i # n
    BY <1>6, <1>9, <1>12
  <2> QED
    BY <1>3, <1>8, <1>10, <2>1 DEF PaidKeys
<1>15. Settled(d, t) => Settled(d, u)
  BY <1>3, <1>6, <1>8, <1>9, <1>10, <1>12 DEF Settled
<1>16. Waiting(u, election)
  <2> SUFFICES ASSUME NEW i \in 1..n, u[i].type = "election"
               PROVE  election = none \/ (election <= now /\ election <= u[n].time)
    BY <1>3 DEF Waiting
  <2>1. i \in 1..(n - 1) /\ t[i].type = "election"
    BY <1>3, <1>6, <1>10
  <2>2. election = none \/ (election <= now /\ election <= t[n].time)
    BY <1>5, <1>8, <2>1 DEF Waiting
  <2> QED
    BY <1>2, <1>5, <1>6, <2>2
<1>17. BooksInv(c) /\ Total(c) = Total(b)
  BY <1>4, <1>7, <1>11, <1>13, <1>14 DEF BooksInv, Total, d
<1>18. OthersSame(b.dist, c.dist)
  BY <1>4 DEF OthersSame, d
<1> QED
  BY <1>3, <1>4, <1>15, <1>16, <1>17, <1>18 DEF SetUp, d, t

LEMMA GrownKeeps ==
  ASSUME NEW b, BooksInv(b), b.table # << >>, NEW election \in Int, now \in Int, last_row(b).time <= now,
         Waiting(b.table, election), NEW time \in Int, time > last_row(b).time, NEW taken \in Int,
         NEW row \in Row, row.time = last_row(b).time,
         row.type = IF election # none /\ election > last_row(b).time THEN "current" ELSE "election",
         NEW c, c = [pool  |-> b.pool - taken,
                     table |-> SubSeq(b.table, 1, Len(b.table) - 1) \o <<row, next_distribution(time)>>,
                     dist  |-> put(b.dist, <<contract, last_row(b).time, 0>>, taken)]
  PROVE  SetUp(b, c, election)
<1> DEFINE t == b.table
           n == Len(b.table)
           u == grown_table(b.table, row, time)
           d == b.dist
           key == <<contract, last_row(b).time, 0>>
           p == put(b.dist, <<contract, last_row(b).time, 0>>, taken)
<1>1. /\ DOMAIN b = {"pool", "table", "dist"} /\ b.pool \in Int /\ t \in Seq(Row)
      /\ IsFiniteSet(DOMAIN d) /\ d \in [DOMAIN d -> Int] /\ DOMAIN d \subseteq Owner \X Int \X Int
  BY DEF BooksInv, BooksTyped
<1>2. last_row(b) = t[n] /\ t[n].time < time
  BY <1>1 DEF last_row
<1>3. /\ u \in Seq(Row) /\ Len(u) = n + 1 /\ u # << >> /\ u[n + 1] = next_distribution(time) /\ u[n] = row
      /\ \A i \in 1..(n - 1) : u[i] = t[i]
  <2>1. t # << >> /\ t \in Seq(Row) /\ u = grown_table(t, row, time)
    BY <1>1
  <2> HIDE DEF t, u, n
  <2>2. /\ u \in Seq(Row) /\ Len(u) = Len(t) + 1 /\ u # << >>
        /\ u[Len(t) + 1] = next_distribution(time) /\ u[Len(t)] = row
        /\ \A i \in 1..(Len(t) - 1) : u[i] = t[i]
    BY <2>1, TableGrown
  <2> QED
    BY <2>2 DEF n, t
<1>4. DOMAIN c = {"pool", "table", "dist"} /\ c.pool = b.pool - taken /\ c.dist = p /\ c.table = u
  BY <1>1 DEF grown_table
<1>5. n \in Nat /\ n >= 1 /\ \A i \in 1..n : t[i] \in Row /\ t[i].time \in Int
  <2>1. t \in [1..n -> Row] /\ n \in Nat /\ n >= 1
    BY <1>1, LenProperties, EmptySeq
  <2> QED
    BY <2>1, RowFacts
<1>6. /\ u[n + 1].type = "next" /\ u[n + 1].time = time /\ u[n].time = t[n].time /\ t[n].time \in Int
      /\ u[n].type = IF election # none /\ election > t[n].time THEN "current" ELSE "election"
  <2> HIDE DEF t, n, u
  <2>1. n \in 1..n
    BY <1>5
  <2>2. u[n + 1].type = "next" /\ u[n + 1].time = time
    BY <1>3 DEF next_distribution
  <2>3. u[n] = row /\ row.time = t[n].time /\ row.type = IF election # none /\ election > t[n].time THEN "current" ELSE "election"
    BY <1>2, <1>3
  <2>4. t[n].time \in Int
    BY <1>5, <2>1
  <2> QED
    BY <2>2, <2>3, <2>4
<1>7. key = <<contract, t[n].time, 0>> /\ key \in Owner \X Int \X Int
  <2>1. n \in 1..n /\ contract \in Owner
    BY <1>5 DEF Owner
  <2>2. t[n].time \in Int
    BY <1>5, <2>1
  <2> HIDE DEF t, n
  <2> QED
    BY <1>2, <2>1, <2>2
<1>8. Scheduled(t) /\ EarlierKeys(d, t) /\ PaidKeys(d, t) /\ Waiting(t, election) /\ t # << >> /\ Len(t) = n
  BY DEF BooksInv
<1>9. /\ \A i \in 1..(n - 1) : t[i].type # "next" /\ t[i].time < t[n].time
      /\ \A i, j \in 1..n : i < j => t[i].time < t[j].time /\ (t[j].type = "current" => t[i].type = "current")
      /\ \A k \in DOMAIN d : k[2] \in Int /\ k[2] < t[n].time
  <2> HIDE DEF t, n, d, u, p, key
  <2> QED
    BY <1>1, <1>8, TableFacts
<1>10. key \notin DOMAIN d /\ key[1] = contract /\ key[2] = t[n].time
  <2> HIDE DEF t, n, d, u, p
  <2>1. key[1] = contract /\ key[2] = t[n].time
    BY <1>7
  <2> QED
    BY <1>5, <1>9, <2>1
<1>11. /\ DOMAIN p = DOMAIN d \cup {key} /\ IsFiniteSet(DOMAIN p) /\ p \in [DOMAIN p -> Int]
       /\ SumFunction(p) = SumFunction(d) + taken
  <2> HIDE DEF d, key
  <2>1. p = put(d, key, taken)
    BY DEF d, key
  <2> HIDE DEF p, t, n, u
  <2>2. /\ DOMAIN p = DOMAIN d \cup {key} /\ IsFiniteSet(DOMAIN d \cup {key})
        /\ p \in [DOMAIN d \cup {key} -> Int]
        /\ SumFunction(p) = SumFunction(d) + taken
    BY <1>1, <1>10, <2>1, PutKeeps
  <2> QED
    BY <2>2
<1> HIDE DEF t, n, d, u, p, key
<1>12. BooksTyped(c)
  <2>1. c.pool \in Int
    BY <1>1, <1>4
  <2> QED
    BY <1>1, <1>3, <1>4, <1>7, <1>11, <2>1 DEF BooksTyped
<1>13. \A i \in 1..(n + 1) : i = n + 1 \/ i = n \/ i \in 1..(n - 1)
  BY <1>5
<1>14. ASSUME u[n].type = "current"
       PROVE  election # none /\ election > t[n].time /\ \A i \in 1..(n - 1) : t[i].type = "current"
  <2>1. election # none /\ election > t[n].time
    BY <1>6, <1>14
  <2>2. \A i \in 1..n : t[i].type # "election"
    BY <1>5, <1>8, <2>1 DEF Waiting
  <2>3. \A i \in 1..(n - 1) : t[i].type \in {"next", "election", "current"}
    BY <1>5, RowFacts
  <2>4. \A i \in 1..(n - 1) : i \in 1..n
    BY <1>5
  <2> QED
    BY <1>9, <2>1, <2>2, <2>3, <2>4
<1>15. Scheduled(u)
  <2>1. ASSUME NEW i \in 1..(n + 1), NEW j \in 1..(n + 1), i < j
        PROVE  u[i].time < u[j].time /\ (u[j].type = "current" => u[i].type = "current")
    <3>1. CASE j = n + 1
      <4>1. i = n \/ i \in 1..(n - 1)
        BY <1>5, <1>13, <2>1, <3>1
      <4>2. u[i].time \in Int /\ u[i].time <= t[n].time
        <5>1. CASE i = n
          BY <1>6, <5>1
        <5>2. CASE i \in 1..(n - 1)
          <6>1. i \in 1..n /\ u[i] = t[i]
            BY <1>3, <1>5, <5>2
          <6>2. t[i].time \in Int
            BY <1>5, <6>1
          <6>3. t[i].time < t[n].time
            BY <1>9, <5>2
          <6> QED
            BY <1>6, <6>1, <6>2, <6>3
        <5> QED
          BY <4>1, <5>1, <5>2
      <4>3. u[j].time = time /\ u[j].type = "next"
        BY <1>6, <3>1
      <4>4. t[n].time < time /\ t[n].time \in Int
        BY <1>2, <1>6
      <4> QED
        BY <4>2, <4>3, <4>4
    <3>2. CASE j = n
      <4>1. i \in 1..(n - 1)
        BY <1>5, <2>1, <3>2
      <4> QED
        BY <1>3, <1>6, <1>9, <1>14, <3>2, <4>1
    <3>3. CASE j \in 1..(n - 1)
      <4>1. i \in 1..(n - 1) /\ i \in 1..n /\ j \in 1..n
        BY <1>5, <2>1, <3>3
      <4> QED
        BY <1>3, <1>9, <2>1, <3>3, <4>1
    <3> QED
      BY <1>13, <3>1, <3>2, <3>3
  <2>2. ASSUME NEW i \in 1..((n + 1) - 1) PROVE u[i].type # "next"
    <3>1. i = n \/ i \in 1..(n - 1)
      BY <1>5
    <3> QED
      BY <1>3, <1>6, <1>9, <3>1
  <2> QED
    BY <1>3, <1>6, <2>1, <2>2 DEF Scheduled
<1>16. \A k \in DOMAIN p : k[2] < time /\ (k \in DOMAIN d \/ k[1] = contract)
  <2>1. ASSUME NEW k \in DOMAIN d PROVE k[2] < time
    BY <1>2, <1>6, <1>9
  <2>2. key[2] < time /\ key[1] = contract
    BY <1>2, <1>10
  <2> QED
    BY <1>11, <2>1, <2>2
<1>17. EarlierKeys(p, u)
  BY <1>3, <1>6, <1>16 DEF EarlierKeys
<1>18. PaidKeys(p, u)
  <2> SUFFICES ASSUME NEW k \in DOMAIN p, NEW i \in 1..(n + 1), k[1] # contract, u[i].time = k[2]
               PROVE  u[i].type = "current" /\ k[1] <= u[i].last_processed
    BY <1>3 DEF PaidKeys
  <2>1. k \in DOMAIN d
    BY <1>16
  <2>2. i # n + 1 /\ i # n
    BY <1>5, <1>6, <1>9, <1>16, <2>1
  <2>3. i \in 1..(n - 1) /\ i \in 1..n
    BY <1>5, <1>13, <2>2
  <2> QED
    BY <1>3, <1>8, <2>1, <2>3 DEF PaidKeys
<1>19. Settled(d, t) => Settled(p, u)
  <2> SUFFICES ASSUME Settled(d, t), NEW k \in DOMAIN p, k[1] # contract, NEW i \in 1..(n + 1)
               PROVE  u[i].time # k[2]
    BY <1>3 DEF Settled
  <2>1. k \in DOMAIN d
    BY <1>16
  <2>2. CASE i = n + 1
    BY <1>6, <1>9, <1>16, <2>1, <2>2
  <2>3. CASE i = n
    BY <1>6, <1>9, <2>1, <2>3
  <2>4. CASE i \in 1..(n - 1)
    <3>1. i \in 1..n
      BY <1>5, <2>4
    <3> QED
      BY <1>3, <1>8, <2>1, <2>4, <3>1 DEF Settled
  <2> QED
    BY <1>13, <2>2, <2>3, <2>4
<1>20. Waiting(u, election)
  <2> SUFFICES ASSUME NEW i \in 1..(n + 1), u[i].type = "election"
               PROVE  election = none \/ (election <= now /\ election <= u[n + 1].time)
    BY <1>3 DEF Waiting
  <2>1. CASE i = n
    <3>1. election = none \/ election <= t[n].time
      BY <1>6, <2>1
    <3> QED
      BY <1>2, <1>6, <3>1
  <2>2. CASE i \in 1..(n - 1)
    <3>1. i \in 1..n /\ t[i].type = "election"
      BY <1>3, <1>5, <2>2
    <3>2. election = none \/ (election <= now /\ election <= t[n].time)
      BY <1>8, <3>1 DEF Waiting
    <3> QED
      BY <1>2, <1>6, <3>2
  <2>3. i # n + 1
    BY <1>6
  <2> QED
    BY <1>13, <2>1, <2>2, <2>3
<1>21. BooksInv(c)
  BY <1>4, <1>12, <1>15, <1>17, <1>18 DEF BooksInv
<1>22. Total(c) = Total(b)
  <2>1. SumFunction(d) \in Int
    BY <1>1, SumDomain
  <2>2. Total(c) = (b.pool - taken) + (SumFunction(d) + taken) /\ Total(b) = b.pool + SumFunction(d)
    BY <1>4, <1>11 DEF Total, d
  <2> QED
    BY <1>1, <2>1, <2>2
<1>23. OthersSame(d, p)
  <2>1. \A k \in DOMAIN d : p[k] = d[k]
    BY <1>10 DEF p, put, key, d
  <2> QED
    BY <1>10, <1>11, <2>1 DEF OthersSame
<1> QED
  BY <1>3, <1>4, <1>16, <1>19, <1>20, <1>21, <1>22, <1>23 DEF SetUp, d, t

LEMMA OnceKeeps ==
  ASSUME NEW b, BooksInv(b), due(b), NEW election \in Int, now \in Int, ranks \in Seq(Int), Waiting(b.table, election)
  PROVE  SetUp(b, setup_once(b, election), election)
<1> DEFINE time      == last_row(b).time
           before    == election # none /\ election > time
           cut       == before /\ election < time + Month
           next_time == IF cut THEN election ELSE time + Month
           total     == IF cut
                        THEN ((election - time) * monthly_distribution_pct * b.pool) \div (100 * Month)
                        ELSE (monthly_distribution_pct * b.pool) \div 100
           taken     == IF before THEN distributed(ranks, total) ELSE total
           row       == IF before THEN current_distribution(time, 0, rank_distribution(ranks, total))
                        ELSE election_distribution(time, total)
           moved     == [b EXCEPT !.table = Append(SubSeq(b.table, 1, Len(b.table) - 1), next_distribution(next_time))]
           grown     == [pool  |-> b.pool - taken,
                         table |-> SubSeq(b.table, 1, Len(b.table) - 1) \o <<row, next_distribution(next_time)>>,
                         dist  |-> put(b.dist, <<contract, time, 0>>, taken)]
<1>1. b.table # << >> /\ last_row(b).time <= now
  BY DEF due
<1>2. /\ time \in Int /\ next_time \in Int /\ next_time > time /\ taken \in Int
      /\ row \in Row /\ row.time = time /\ row.type = IF before THEN "current" ELSE "election"
  BY <1>1, OnceTyped, Zenon
<1>3. setup_once(b, election) = IF total = 0 THEN moved ELSE grown
  BY Zenon DEF setup_once
<1> HIDE DEF next_time, total, taken, row
<1>4. SetUp(b, moved, election)
  BY <1>1, <1>2, MovedKeeps
<1>5. SetUp(b, grown, election)
  BY <1>1, <1>2, GrownKeeps
<1> HIDE DEF moved, grown
<1> QED
  BY <1>3, <1>4, <1>5

LEMMA SetUpSame ==
  ASSUME NEW b, BooksInv(b), NEW election, Waiting(b.table, election)
  PROVE  SetUp(b, b, election)
BY DEF SetUp, OthersSame

LEMMA SetUpFurther ==
  ASSUME NEW b, NEW c, NEW e, NEW election, SetUp(b, c, election), SetUp(c, e, election)
  PROVE  SetUp(b, e, election)
BY DEF SetUp, OthersSame

\* The turns of the loop.
setup_turns(b, election) ==
  CHOOSE f : f = [i \in 0..(Horizon + 1) |->
                    IF i = 0 THEN b
                    ELSE LET before == f[i - 1]
                         IN  IF due(before) THEN setup_once(before, election) ELSE before]

turn(c, election) == IF due(c) THEN setup_once(c, election) ELSE c

LEMMA TurnsDefined ==
  ASSUME NEW b, NEW election
  PROVE  \A i \in 0..(Horizon + 1) :
           setup_turns(b, election)[i] = IF i = 0 THEN b ELSE turn(setup_turns(b, election)[i - 1], election)
<1> DEFINE P == {n \in Nat : \E f : f = [k \in 0..n |-> IF k = 0 THEN b ELSE turn(f[k - 1], election)]}
<1>1. 0 \in P
  <2> DEFINE f == [k \in 0..0 |-> b]
  <2>1. f = [k \in 0..0 |-> IF k = 0 THEN b ELSE turn(f[k - 1], election)]
    <3>1. \A k \in 0..0 : k = 0
      OBVIOUS
    <3> QED
      BY <3>1
  <2> HIDE DEF f
  <2> QED
    BY <2>1
<1>2. ASSUME NEW n \in P PROVE n + 1 \in P
  <2>1. n \in Nat /\ n + 1 \in Nat
    OBVIOUS
  <2>2. PICK f : f = [k \in 0..n |-> IF k = 0 THEN b ELSE turn(f[k - 1], election)]
    OBVIOUS
  <2> DEFINE h == [k \in 0..(n + 1) |-> IF k = 0 THEN b ELSE turn(f[k - 1], election)]
  <2>3. \A k \in 0..n : h[k] = f[k]
    BY <2>1, <2>2
  <2>4. \A k \in 0..(n + 1) : k # 0 => k - 1 \in 0..n
    BY <2>1
  <2>5. \A k \in 0..(n + 1) : h[k] = IF k = 0 THEN b ELSE turn(h[k - 1], election)
    BY <2>3, <2>4
  <2>6. h = [k \in 0..(n + 1) |-> h[k]]
    OBVIOUS
  <2> HIDE DEF h
  <2>7. h = [k \in 0..(n + 1) |-> IF k = 0 THEN b ELSE turn(h[k - 1], election)]
    BY <2>5, <2>6
  <2> QED
    BY <2>1, <2>7
<1>3. Horizon + 1 \in P
  <2>1. P \in SUBSET Nat
    OBVIOUS
  <2>2. Horizon + 1 \in Nat
    BY TreasuryAssumption
  <2> HIDE DEF P
  <2> QED
    BY <1>1, <1>2, <2>1, <2>2, NaturalsAll
<1>4. PICK f : f = [k \in 0..(Horizon + 1) |-> IF k = 0 THEN b ELSE turn(f[k - 1], election)]
  BY <1>3
<1>5. f = [i \in 0..(Horizon + 1) |->
             IF i = 0 THEN b
             ELSE LET before == f[i - 1]
                  IN  IF due(before) THEN setup_once(before, election) ELSE before]
  BY <1>4, Zenon DEF turn
<1>6. setup_turns(b, election) =
        [i \in 0..(Horizon + 1) |->
           IF i = 0 THEN b
           ELSE LET before == setup_turns(b, election)[i - 1]
                IN  IF due(before) THEN setup_once(before, election) ELSE before]
  BY <1>5, Zenon DEF setup_turns
<1>7. setup_turns(b, election) =
        [i \in 0..(Horizon + 1) |-> IF i = 0 THEN b ELSE turn(setup_turns(b, election)[i - 1], election)]
  BY <1>6, Zenon DEF turn
<1> QED
  BY <1>7

\* setup_distribution moves funds between the pool and the accounts of distributions.
LEMMA TurnsKeep ==
  ASSUME NEW b, BooksInv(b), NEW election \in Int, now \in Int, ranks \in Seq(Int), Waiting(b.table, election)
  PROVE  \A n \in 0..(Horizon + 1) : SetUp(b, setup_turns(b, election)[n], election)
<1> DEFINE f == setup_turns(b, election)
           P == {n \in Nat : n \in 0..(Horizon + 1) => SetUp(b, f[n], election)}
<1>1. \A i \in 0..(Horizon + 1) : f[i] = IF i = 0 THEN b ELSE turn(f[i - 1], election)
  BY TurnsDefined
<1>2. Horizon \in Nat
  BY TreasuryAssumption
<1>3. SetUp(b, b, election)
  BY SetUpSame
<1> HIDE DEF f
<1>4. 0 \in P
  <2>1. 0 \in 0..(Horizon + 1)
    BY <1>2
  <2>2. f[0] = b
    BY <1>1, <2>1
  <2> QED
    BY <1>3, <2>2
<1>5. ASSUME NEW n \in P PROVE n + 1 \in P
  <2>1. n + 1 \in Nat
    OBVIOUS
  <2> SUFFICES ASSUME n + 1 \in 0..(Horizon + 1) PROVE SetUp(b, f[n + 1], election)
    BY <2>1
  <2>2. n \in 0..(Horizon + 1) /\ n + 1 # 0 /\ (n + 1) - 1 = n
    BY <1>2
  <2>3. f[n + 1] = turn(f[n], election)
    BY <1>1, <2>2
  <2>4. SetUp(b, f[n], election)
    BY <2>2
  <2>5. BooksInv(f[n]) /\ Waiting(f[n].table, election)
    BY <2>4 DEF SetUp
  <2>6. CASE due(f[n])
    <3>1. SetUp(f[n], setup_once(f[n], election), election)
      BY <2>5, <2>6, OnceKeeps
    <3>2. f[n + 1] = setup_once(f[n], election)
      BY <2>3, <2>6 DEF turn
    <3> QED
      BY <2>4, <3>1, <3>2, SetUpFurther
  <2>7. CASE ~due(f[n])
    BY <2>3, <2>4, <2>7 DEF turn
  <2> QED
    BY <2>6, <2>7
<1>6. \A n \in 0..(Horizon + 1) : n \in Nat /\ n \in P
  <2>1. P \in SUBSET Nat
    OBVIOUS
  <2>2. \A n \in Nat : n \in P
    <3> HIDE DEF P
    <3> QED
      BY <1>4, <1>5, <2>1, NaturalsAll
  <2>3. \A n \in 0..(Horizon + 1) : n \in Nat
    BY <1>2
  <2> HIDE DEF P
  <2> QED
    BY <2>2, <2>3
<1> QED
  BY <1>6 DEF f

LEMMA LoopTurns ==
  ASSUME NEW b, NEW election
  PROVE  /\ setup_loop(b, election) = IF due(b) THEN setup_turns(b, election)[Horizon + 1] ELSE b
         /\ Horizon + 1 \in 0..(Horizon + 1)
<1>1. setup_loop(b, election) = IF due(b) THEN setup_turns(b, election)[Horizon + 1] ELSE b
  BY Zenon DEF setup_loop, setup_turns
<1>2. Horizon + 1 \in 0..(Horizon + 1)
  BY TreasuryAssumption
<1> QED
  BY <1>1, <1>2

LEMMA LoopKeeps ==
  ASSUME NEW b, BooksInv(b), NEW election \in Int, now \in Int, ranks \in Seq(Int), Waiting(b.table, election)
  PROVE  SetUp(b, setup_loop(b, election), election)
<1>1. SetUp(b, setup_turns(b, election)[Horizon + 1], election)
  BY TurnsKeep, LoopTurns
<1>2. SetUp(b, b, election)
  BY SetUpSame
<1>3. setup_loop(b, election) = IF due(b) THEN setup_turns(b, election)[Horizon + 1] ELSE b
  BY LoopTurns
<1> QED
  BY <1>1, <1>2, <1>3

-----------------------------------------------------------------------------
(***************************************************************************)
(* The invariant.                                                          *)
(***************************************************************************)
Types ==
  /\ now \in Nat /\ electionTime \in Nat /\ token \in Int
  /\ DOMAIN member \subseteq Account /\ \A m \in DOMAIN member : member[m] \in Nat
  /\ ranks \in Seq(Int)
  /\ user \in [Account -> Int]

Kept == BooksInv(books)

\* Only members, and the contract, have accounts.
Owned == \A k \in DOMAIN dist : k[1] \in DOMAIN member \cup {contract}

Awaited == Waiting(table, next_election_time)

Conserved == token = SumFunction(user) + Total(books)

TInv == Types /\ Kept /\ Owned /\ Awaited /\ Conserved

LEMMA ConservedFunds ==
  ASSUME TInv PROVE FundsConserved
<1>1. /\ BooksTyped(books) /\ user \in [Account -> Int] /\ IsFiniteSet(Account)
  BY TreasuryAssumption DEF TInv, Types, Kept, BooksInv
<1>2. books.pool = pool /\ books.dist = dist
  BY DEF books
<1>3. pool \in Int /\ SumFunction(dist) \in Int
  <2>1. pool \in Int /\ IsFiniteSet(DOMAIN dist) /\ dist \in [DOMAIN dist -> Int]
    BY <1>1, <1>2 DEF BooksTyped
  <2> QED
    BY <2>1, SumDomain
<1>4. SumFunction(user) \in Int
  <2>1. DOMAIN user = Account
    BY <1>1
  <2> QED
    BY <1>1, <2>1, SumDomain
<1>5. token = SumFunction(user) + (pool + SumFunction(dist))
  BY <1>2 DEF TInv, Conserved, Total
<1> QED
  BY <1>3, <1>4, <1>5 DEF FundsConserved

LEMMA SetUpNow ==
  ASSUME TInv
  PROVE  SetUp(books, setup_distribution(books), next_election_time)
<1>1. next_election_time \in Int /\ now \in Int /\ ranks \in Seq(Int)
  BY DEF TInv, Types, next_election_time, none
<1>2. BooksInv(books) /\ Waiting(books.table, next_election_time)
  BY DEF TInv, Kept, Awaited, books
<1> QED
  BY <1>1, <1>2, LoopKeeps DEF setup_distribution

\* Books that are stored.
LEMMA StoredBooks ==
  ASSUME NEW c, BooksInv(c), store(c)
  PROVE  /\ Kept' /\ Total(books)' = Total(c) /\ Total(c) \in Int
         /\ dist' = c.dist /\ table' = c.table /\ pool' = c.pool
<1>1. dist' = c.dist /\ table' = c.table /\ pool' = c.pool
  BY DEF store
<1>2. books' = [pool |-> c.pool, table |-> c.table, dist |-> c.dist]
  BY <1>1 DEF books
<1> DEFINE e == [pool |-> c.pool, table |-> c.table, dist |-> c.dist]
<1>3. DOMAIN e = {"pool", "table", "dist"} /\ e.pool = c.pool /\ e.table = c.table /\ e.dist = c.dist
  OBVIOUS
<1> HIDE DEF e
<1>4. BooksInv(e) /\ Total(e) = Total(c)
  BY <1>3 DEF BooksInv, BooksTyped, Total
<1>5. Total(c) \in Int
  <2>1. c.pool \in Int /\ IsFiniteSet(DOMAIN c.dist) /\ c.dist \in [DOMAIN c.dist -> Int]
    BY DEF BooksInv, BooksTyped
  <2> QED
    BY <2>1, SumDomain DEF Total
<1>6. Kept' /\ Total(books)' = Total(c)
  BY <1>2, <1>4 DEF Kept, e
<1> QED
  BY <1>1, <1>5, <1>6

LEMMA SameBooks ==
  ASSUME books_unchanged
  PROVE  books' = books /\ (Kept => Kept') /\ Total(books)' = Total(books)
<1>1. books' = books
  BY DEF books_unchanged, books
<1> QED
  BY <1>1 DEF Kept

LEMMA UserSum ==
  ASSUME NEW u \in [Account -> Int], NEW a \in Account, NEW q \in Int
  PROVE  /\ add_user_balance(u, a, q) \in [Account -> Int]
         /\ sub_user_balance(u, a, q) \in [Account -> Int]
         /\ SumFunction(u) \in Int
         /\ SumFunction(add_user_balance(u, a, q)) = SumFunction(u) + q
         /\ SumFunction(sub_user_balance(u, a, q)) = SumFunction(u) - q
<1>1. IsFiniteSet(Account)
  BY TreasuryAssumption
<1>2. \A v \in [Account -> Int] : DOMAIN v = Account /\ SumFunction(v) = SumFunctionOnSet(v, Account)
  BY DEF SumFunction
<1>3. SumFunction(u) \in Int
  BY <1>1, <1>2, SumType
<1>4. ASSUME NEW v \in [Account -> Int], \A x \in Account \ {a} : v[x] = u[x]
      PROVE  SumFunction(v) = SumFunction(u) + (v[a] - u[a])
  <2>1. SumFunctionOnSet(v, Account) = SumFunctionOnSet(u, Account) + (v[a] - u[a])
    BY <1>1, <1>4, SumChange
  <2> QED
    BY <1>2, <2>1
<1> DEFINE v == add_user_balance(u, a, q)
           w == sub_user_balance(u, a, q)
<1>5. v \in [Account -> Int] /\ v[a] = u[a] + q /\ \A x \in Account \ {a} : v[x] = u[x]
  BY DEF add_user_balance
<1>6. w \in [Account -> Int] /\ w[a] = u[a] - q /\ \A x \in Account \ {a} : w[x] = u[x]
  BY DEF sub_user_balance
<1> HIDE DEF v, w
<1>7. SumFunction(v) = SumFunction(u) + q
  BY <1>3, <1>4, <1>5
<1>8. SumFunction(w) = SumFunction(u) - q
  BY <1>3, <1>4, <1>6
<1> QED
  BY <1>3, <1>5, <1>6, <1>7, <1>8 DEF v, w

LEMMA TotalTyped ==
  ASSUME TInv
  PROVE  /\ pool \in Int /\ IsFiniteSet(DOMAIN dist) /\ dist \in [DOMAIN dist -> Int] /\ SumFunction(dist) \in Int
         /\ Total(books) = pool + SumFunction(dist) /\ Total(books) \in Int
         /\ table \in Seq(Row) /\ DOMAIN dist \subseteq Owner \X Int \X Int
<1>1. BooksTyped(books)
  BY DEF TInv, Kept, BooksInv
<1>2. /\ pool \in Int /\ IsFiniteSet(DOMAIN dist) /\ dist \in [DOMAIN dist -> Int]
      /\ table \in Seq(Row) /\ DOMAIN dist \subseteq Owner \X Int \X Int
  BY <1>1 DEF BooksTyped, books
<1>3. SumFunction(dist) \in Int
  BY <1>2, SumDomain
<1>4. Total(books) = pool + SumFunction(dist)
  BY DEF Total, books
<1> QED
  BY <1>2, <1>3, <1>4

-----------------------------------------------------------------------------
(***************************************************************************)
(* Transfers.                                                              *)
(***************************************************************************)
LEMMA SameElections ==
  ASSUME elections_unchanged
  PROVE  /\ next_election_time' = next_election_time
         /\ now' = now /\ electionTime' = electionTime /\ member' = member /\ ranks' = ranks
BY DEF elections_unchanged, next_election_time

LEMMA QuantityTyped ==
  ASSUME NEW q \in Amounts PROVE q \in Int
BY TreasuryAssumption

\* Elections aside, what a step has to keep.
LEMMA StepKeeps ==
  ASSUME TInv, elections_unchanged, Kept', user' \in [Account -> Int], token' \in Int,
         Waiting(table', next_election_time),
         \A k \in DOMAIN dist' : k \in DOMAIN dist \/ k[1] \in DOMAIN member \cup {contract},
         token' = SumFunction(user') + Total(books)'
  PROVE  TInv'
<1>1. /\ next_election_time' = next_election_time
      /\ now' = now /\ electionTime' = electionTime /\ member' = member /\ ranks' = ranks
  BY SameElections
<1>2. Types'
  BY <1>1 DEF TInv, Types
<1>3. Owned'
  BY <1>1 DEF TInv, Owned
<1>4. Awaited'
  BY <1>1 DEF Awaited, Waiting
<1>5. Conserved'
  BY DEF Conserved
<1> QED
  BY <1>2, <1>3, <1>4, <1>5 DEF TInv

LEMMA ConservedSums ==
  ASSUME TInv
  PROVE  /\ token = SumFunction(user) + Total(books) /\ token \in Int /\ Total(books) \in Int
         /\ SumFunction(user) \in Int /\ user \in [Account -> Int]
<1>1. user \in [Account -> Int] /\ DOMAIN user = Account /\ IsFiniteSet(Account)
  BY TreasuryAssumption DEF TInv, Types
<1>2. SumFunction(user) \in Int
  BY <1>1, SumDomain
<1> QED
  BY <1>1, <1>2, TotalTyped DEF TInv, Conserved, Types

LEMMA DepositKeeps ==
  ASSUME TInv, NEW a \in Account, NEW q \in Amounts, deposit(a, q) \/ withdraw(a, q)
  PROVE  TInv'
<1>1. /\ q \in Int /\ user \in [Account -> Int] /\ token \in Int
      /\ token = SumFunction(user) + Total(books) /\ SumFunction(user) \in Int
  BY QuantityTyped, ConservedSums
<1>2. elections_unchanged /\ books_unchanged
  BY DEF deposit, withdraw
<1>3. Kept' /\ Total(books)' = Total(books) /\ Total(books) \in Int
  BY <1>2, SameBooks, TotalTyped DEF TInv
<1>4. dist' = dist /\ table' = table
  BY <1>2 DEF books_unchanged
<1>5. Waiting(table', next_election_time)
  BY <1>4 DEF TInv, Awaited
<1>6. user' \in [Account -> Int] /\ token' \in Int /\ token' = SumFunction(user') + Total(books)'
  <2>1. CASE deposit(a, q)
    <3>1. user' = add_user_balance(user, a, q) /\ token' = token + q
      BY <2>1 DEF deposit
    <3>2. user' \in [Account -> Int] /\ SumFunction(user') = SumFunction(user) + q
      BY <1>1, <3>1, UserSum
    <3> QED
      BY <1>1, <1>3, <3>1, <3>2
  <2>2. CASE withdraw(a, q)
    <3>1. user' = sub_user_balance(user, a, q) /\ token' = token - q
      BY <2>2 DEF withdraw
    <3>2. user' \in [Account -> Int] /\ SumFunction(user') = SumFunction(user) - q
      BY <1>1, <3>1, UserSum
    <3> QED
      BY <1>1, <1>3, <3>1, <3>2
  <2> QED
    BY <2>1, <2>2
<1> QED
  BY <1>2, <1>3, <1>4, <1>5, <1>6, StepKeeps

LEMMA UserTransferKeeps ==
  ASSUME TInv, NEW from \in Account, NEW to \in Account, NEW q \in Amounts, usertransfer(from, to, q)
  PROVE  TInv'
<1>1. /\ q \in Int /\ user \in [Account -> Int] /\ token \in Int
      /\ token = SumFunction(user) + Total(books) /\ SumFunction(user) \in Int
  BY QuantityTyped, ConservedSums
<1>2. elections_unchanged /\ books_unchanged /\ token' = token
  BY DEF usertransfer
<1>3. Kept' /\ Total(books)' = Total(books) /\ Total(books) \in Int
  BY <1>2, SameBooks, TotalTyped DEF TInv
<1>4. dist' = dist /\ table' = table
  BY <1>2 DEF books_unchanged
<1>5. Waiting(table', next_election_time)
  BY <1>4 DEF TInv, Awaited
<1>6. user' \in [Account -> Int] /\ SumFunction(user') = SumFunction(user)
  <2> DEFINE v == sub_user_balance(user, from, q)
  <2>1. user' = add_user_balance(v, to, q)
    BY DEF usertransfer
  <2>2. v \in [Account -> Int] /\ SumFunction(v) = SumFunction(user) - q /\ SumFunction(user) \in Int
    BY <1>1, UserSum
  <2> HIDE DEF v
  <2>3. user' \in [Account -> Int] /\ SumFunction(user') = SumFunction(v) + q
    BY <1>1, <2>1, <2>2, UserSum
  <2> QED
    BY <1>1, <2>2, <2>3
<1>7. token' = SumFunction(user') + Total(books)'
  BY <1>1, <1>2, <1>3, <1>6
<1> QED
  BY <1>1, <1>2, <1>3, <1>4, <1>5, <1>6, <1>7, StepKeeps

\* What setting distributions up leaves, with something added to the pool.
LEMMA AddedToPool ==
  ASSUME TInv, NEW q \in Int, store(add_to_pool(books, q))
  PROVE  /\ Kept' /\ Total(books)' = Total(books) + q /\ Total(books) \in Int
         /\ Waiting(table', next_election_time)
         /\ \A k \in DOMAIN dist' : k \in DOMAIN dist \/ k[1] \in DOMAIN member \cup {contract}
<1> DEFINE b == setup_distribution(books)
           c == add_to_pool(books, q)
<1>1. SetUp(books, b, next_election_time) /\ Total(books) \in Int
  BY SetUpNow, TotalTyped
<1>2. c = [b EXCEPT !.pool = @ + q]
  BY DEF add_to_pool
<1> HIDE DEF b
<1>3. BooksInv(b) /\ Waiting(b.table, next_election_time) /\ Total(b) = Total(books)
  BY <1>1 DEF SetUp
<1>4. \A k \in DOMAIN b.dist : k \in DOMAIN dist \/ k[1] = contract
  BY <1>1 DEF SetUp, books
<1>5. BooksTyped(b)
  BY <1>3 DEF BooksInv
<1>6. DOMAIN b = {"pool", "table", "dist"} /\ b.pool \in Int
  BY <1>5 DEF BooksTyped
<1>7. DOMAIN c = {"pool", "table", "dist"} /\ c.pool = b.pool + q /\ c.table = b.table /\ c.dist = b.dist
  BY <1>2, <1>6
<1> HIDE DEF c
<1>8. BooksInv(c)
  BY <1>3, <1>6, <1>7 DEF BooksInv, BooksTyped
<1>9. Total(c) = Total(books) + q
  <2>1. SumFunction(b.dist) \in Int
    <3>1. IsFiniteSet(DOMAIN b.dist) /\ b.dist \in [DOMAIN b.dist -> Int]
      BY <1>5 DEF BooksTyped
    <3> QED
      BY <3>1, SumDomain
  <2>2. Total(c) = (b.pool + q) + SumFunction(b.dist) /\ Total(b) = b.pool + SumFunction(b.dist)
    BY <1>7 DEF Total
  <2> QED
    BY <1>3, <1>6, <2>1, <2>2
<1>10. store(c)
  BY DEF c
<1>11. Kept' /\ Total(books)' = Total(c) /\ dist' = c.dist /\ table' = c.table
  BY <1>8, <1>10, StoredBooks
<1> QED
  BY <1>1, <1>3, <1>4, <1>7, <1>9, <1>11

LEMMA DonationKeeps ==
  ASSUME TInv, NEW q \in Amounts, donation(q) \/ \E a \in Account : donate(a, q)
  PROVE  TInv'
<1>1. /\ q \in Int /\ user \in [Account -> Int] /\ token \in Int
      /\ token = SumFunction(user) + Total(books) /\ SumFunction(user) \in Int
  BY QuantityTyped, ConservedSums
<1>2. elections_unchanged /\ store(add_to_pool(books, q))
  BY DEF donation, donate
<1>3. /\ Kept' /\ Total(books)' = Total(books) + q /\ Total(books) \in Int
      /\ Waiting(table', next_election_time)
      /\ \A k \in DOMAIN dist' : k \in DOMAIN dist \/ k[1] \in DOMAIN member \cup {contract}
  BY <1>1, <1>2, AddedToPool
<1>4. user' \in [Account -> Int] /\ token' \in Int /\ token' = SumFunction(user') + Total(books)'
  <2>1. CASE donation(q)
    <3>1. user' = user /\ token' = token + q
      BY <2>1 DEF donation
    <3> QED
      BY <1>1, <1>3, <3>1
  <2>2. CASE \E a \in Account : donate(a, q)
    <3>1. PICK a \in Account : donate(a, q)
      BY <2>2
    <3>2. user' = sub_user_balance(user, a, q) /\ token' = token
      BY <3>1 DEF donate
    <3>3. user' \in [Account -> Int] /\ SumFunction(user') = SumFunction(user) - q
      BY <1>1, <3>2, UserSum
    <3> QED
      BY <1>1, <1>3, <3>2, <3>3
  <2> QED
    BY <2>1, <2>2
<1> QED
  BY <1>2, <1>3, <1>4, StepKeeps

LEMMA DropKeeps ==
  ASSUME NEW d, IsFiniteSet(DOMAIN d), d \in [DOMAIN d -> Int], NEW keys, \A k \in keys \cap DOMAIN d : d[k] = 0
  PROVE  /\ DOMAIN drop(d, keys) = DOMAIN d \ keys /\ IsFiniteSet(DOMAIN drop(d, keys))
         /\ drop(d, keys) \in [DOMAIN drop(d, keys) -> Int]
         /\ SumFunction(drop(d, keys)) = SumFunction(d)
<1> DEFINE e == drop(d, keys)
           D == DOMAIN d
           Z == keys \cap DOMAIN d
<1>1. DOMAIN e = D \ keys /\ e \in [D \ keys -> Int] /\ \A k \in D \ keys : e[k] = d[k]
  BY DEF drop
<1>2. IsFiniteSet(D \ keys) /\ IsFiniteSet(Z) /\ (D \ keys) \cap Z = {} /\ D = (D \ keys) \cup Z
  <2>1. D \ keys \in SUBSET D /\ Z \in SUBSET D
    OBVIOUS
  <2> QED
    BY <2>1, FS_Subset
<1>3. \A k \in D : d[k] \in Int
  OBVIOUS
<1> HIDE DEF e, D, Z
<1>4. SumFunctionOnSet(d, (D \ keys) \cup Z) = SumFunctionOnSet(d, D \ keys) + SumFunctionOnSet(d, Z)
      /\ SumFunctionOnSet(d, D \ keys) \in Int
  BY <1>2, <1>3, SumUnion
<1>5. SumFunctionOnSet(d, Z) = 0
  BY <1>2, SumZero DEF Z
<1>6. SumFunctionOnSet(e, D \ keys) = SumFunctionOnSet(d, D \ keys)
  BY <1>1, <1>2, SumSame
<1>7. SumFunction(e) = SumFunctionOnSet(e, D \ keys) /\ SumFunction(d) = SumFunctionOnSet(d, D)
  BY <1>1 DEF SumFunction, D
<1>8. SumFunction(e) = SumFunction(d)
  <2>1. SumFunctionOnSet(d, D) = SumFunctionOnSet(d, (D \ keys) \cup Z)
    BY <1>2, Zenon
  <2> QED
    BY <1>4, <1>5, <1>6, <1>7, <2>1
<1> QED
  BY <1>1, <1>2, <1>8 DEF e, D

LEMMA TakeKeeps ==
  ASSUME NEW d, IsFiniteSet(DOMAIN d), d \in [DOMAIN d -> Int], NEW key \in DOMAIN d, NEW amount \in Int
  PROVE  /\ DOMAIN take(d, key, amount) \subseteq DOMAIN d /\ IsFiniteSet(DOMAIN take(d, key, amount))
         /\ take(d, key, amount) \in [DOMAIN take(d, key, amount) -> Int]
         /\ SumFunction(take(d, key, amount)) = SumFunction(d) - amount
<1> DEFINE e == [d EXCEPT ![key] = @ - amount]
           D == DOMAIN d
<1>1. e \in [D -> Int] /\ DOMAIN e = D /\ e[key] = d[key] - amount /\ \A k \in D \ {key} : d[k] = e[k]
  OBVIOUS
<1>2. \A k \in D : d[k] \in Int
  OBVIOUS
<1> HIDE DEF e, D
<1>3. SumFunctionOnSet(e, D) = SumFunctionOnSet(d, D) + (e[key] - d[key]) /\ SumFunctionOnSet(d, D) \in Int
  <2>1. IsFiniteSet(D) /\ key \in D /\ \A k \in D : d[k] \in Int /\ e[k] \in Int
    BY <1>1, <1>2 DEF D
  <2> QED
    BY <1>1, <2>1, SumChange, SumType
<1>4. SumFunction(e) = SumFunction(d) - amount
  <2>1. SumFunction(e) = SumFunctionOnSet(e, D) /\ SumFunction(d) = SumFunctionOnSet(d, D)
    BY <1>1 DEF SumFunction, D
  <2>2. d[key] \in Int
    BY <1>2 DEF D
  <2> QED
    BY <1>1, <1>3, <2>1, <2>2
<1>5. CASE d[key] = amount
  <2>1. take(d, key, amount) = drop(d, {key})
    BY <1>5 DEF take
  <2>2. drop(d, {key}) = drop(e, {key})
    BY <1>1 DEF drop, D
  <2>3. e[key] = 0
    BY <1>1, <1>5
  <2>4. /\ DOMAIN drop(e, {key}) = DOMAIN e \ {key} /\ IsFiniteSet(DOMAIN drop(e, {key}))
        /\ drop(e, {key}) \in [DOMAIN drop(e, {key}) -> Int]
        /\ SumFunction(drop(e, {key})) = SumFunction(e)
    <3>1. IsFiniteSet(DOMAIN e) /\ e \in [DOMAIN e -> Int] /\ \A k \in {key} \cap DOMAIN e : e[k] = 0
      BY <1>1, <2>3 DEF D
    <3> QED
      BY <3>1, DropKeeps
  <2> QED
    BY <1>1, <1>4, <2>1, <2>2, <2>4 DEF D
<1>6. CASE d[key] # amount
  <2>1. take(d, key, amount) = e
    BY <1>6 DEF take, e
  <2> QED
    BY <1>1, <1>4, <2>1 DEF D
<1> QED
  BY <1>5, <1>6

LEMMA FewerAccounts ==
  ASSUME NEW b, BooksInv(b), NEW c, DOMAIN c = {"pool", "table", "dist"}, c.pool \in Int, c.table = b.table,
         DOMAIN c.dist \subseteq DOMAIN b.dist, IsFiniteSet(DOMAIN c.dist), c.dist \in [DOMAIN c.dist -> Int]
  PROVE  BooksInv(c)
<1>1. BooksTyped(c)
  BY DEF BooksInv, BooksTyped
<1>2. EarlierKeys(c.dist, c.table) /\ PaidKeys(c.dist, c.table)
  BY DEF BooksInv, EarlierKeys, PaidKeys
<1> QED
  BY <1>1, <1>2 DEF BooksInv

LEMMA FundTransferKeeps ==
  ASSUME TInv, NEW key \in DOMAIN dist, NEW to \in Account, NEW q \in Amounts, fundtransfer(key, to, q)
  PROVE  TInv'
<1>1. /\ q \in Int /\ user \in [Account -> Int] /\ token \in Int
      /\ token = SumFunction(user) + Total(books) /\ SumFunction(user) \in Int
  BY QuantityTyped, ConservedSums
<1>2. /\ elections_unchanged /\ pool' = pool /\ table' = table /\ token' = token
      /\ dist' = take(dist, key, q) /\ user' = add_user_balance(user, to, q)
  BY DEF fundtransfer
<1>3. /\ pool \in Int /\ IsFiniteSet(DOMAIN dist) /\ dist \in [DOMAIN dist -> Int] /\ SumFunction(dist) \in Int
      /\ Total(books) = pool + SumFunction(dist)
  BY TotalTyped
<1>4. /\ DOMAIN dist' \subseteq DOMAIN dist /\ IsFiniteSet(DOMAIN dist') /\ dist' \in [DOMAIN dist' -> Int]
      /\ SumFunction(dist') = SumFunction(dist) - q
  BY <1>1, <1>2, <1>3, TakeKeeps
<1>5. /\ DOMAIN books' = {"pool", "table", "dist"} /\ books'.pool = pool /\ books'.table = books.table
      /\ books'.dist = dist' /\ books.dist = dist
  BY <1>2 DEF books
<1>6. Kept'
  <2>1. BooksInv(books)
    BY DEF TInv, Kept
  <2>2. BooksInv(books')
    BY <1>3, <1>4, <1>5, <2>1, FewerAccounts
  <2> QED
    BY <2>2 DEF Kept
<1>7. Total(books)' = pool + (SumFunction(dist) - q)
  BY <1>4, <1>5 DEF Total
<1>8. user' \in [Account -> Int] /\ SumFunction(user') = SumFunction(user) + q
  BY <1>1, <1>2, UserSum
<1>9. token' = SumFunction(user') + Total(books)' /\ token' \in Int
  BY <1>1, <1>2, <1>3, <1>7, <1>8
<1>10. Waiting(table', next_election_time)
  BY <1>2 DEF TInv, Awaited
<1> QED
  BY <1>2, <1>4, <1>6, <1>8, <1>9, <1>10, StepKeeps

-----------------------------------------------------------------------------
(***************************************************************************)
(* distribute.                                                             *)
(***************************************************************************)
LEMMA SetUpDueKeeps ==
  ASSUME TInv, setup_due
  PROVE  TInv'
<1> DEFINE b == setup_distribution(books)
<1>1. SetUp(books, b, next_election_time)
  BY SetUpNow
<1>2. store(b) /\ user' = user /\ token' = token /\ elections_unchanged
  BY DEF setup_due
<1> HIDE DEF b
<1>3. BooksInv(b) /\ Waiting(b.table, next_election_time) /\ Total(b) = Total(books)
      /\ \A k \in DOMAIN b.dist : k \in DOMAIN dist \/ k[1] = contract
  BY <1>1 DEF SetUp, books
<1>4. Kept' /\ Total(books)' = Total(b) /\ dist' = b.dist /\ table' = b.table
  BY <1>2, <1>3, StoredBooks
<1>5. /\ user' \in [Account -> Int] /\ token' \in Int /\ token' = SumFunction(user') + Total(books)'
  BY <1>2, <1>3, <1>4, ConservedSums
<1> QED
  BY <1>2, <1>3, <1>4, <1>5, StepKeeps

\* The first row, changed.
processed(t, m) == [t EXCEPT ![1].last_processed = m]

LEMMA PaidTable ==
  ASSUME NEW t \in Seq(Row), has_current(t), NEW m \in Int, NEW u, u = processed(t, m)
  PROVE  /\ u \in Seq(Row) /\ Len(u) = Len(t) /\ Len(t) \in Nat /\ Len(t) >= 1 /\ u # << >>
         /\ u[1].type = "current" /\ u[1].time = t[1].time /\ u[1].last_processed = m
         /\ u[1].rank_distribution = t[1].rank_distribution
         /\ \A i \in 1..Len(t) : i # 1 => u[i] = t[i]
<1>1. t # << >> /\ t[1].type = "current"
  BY DEF has_current
<1>2. Len(t) \in Nat /\ Len(t) >= 1 /\ t \in [1..Len(t) -> Row]
  BY <1>1, EmptySeq, LenProperties
<1>3. 1 \in 1..Len(t)
  BY <1>2
<1>4. t[1] \in CurrentRow
  BY <1>1, <1>2, <1>3, RowFacts
<1> DEFINE r == [t[1] EXCEPT !.last_processed = m]
<1>5. /\ r \in Row /\ r.type = "current" /\ r.time = t[1].time /\ r.last_processed = m
      /\ r.rank_distribution = t[1].rank_distribution
  BY <1>4 DEF Row, CurrentRow
<1>6. u = [t EXCEPT ![1] = r]
  BY DEF processed
<1> HIDE DEF r
<1>7. u \in [1..Len(t) -> Row] /\ u[1] = r /\ \A i \in 1..Len(t) : i # 1 => u[i] = t[i]
  BY <1>2, <1>3, <1>5, <1>6
<1>8. u \in Seq(Row) /\ Len(u) = Len(t)
  <2>1. \A n \in Nat : \A f \in [1..n -> Row] : f \in Seq(Row) /\ Len(f) = n
    <3> SUFFICES ASSUME NEW n \in Nat, NEW f \in [1..n -> Row] PROVE f \in Seq(Row) /\ Len(f) = n
      OBVIOUS
    <3>1. f \in Seq(Row)
      OBVIOUS
    <3>2. Len(f) \in Nat /\ DOMAIN f = 1..Len(f) /\ DOMAIN f = 1..n
      BY <3>1, LenProperties
    <3> QED
      BY <3>1, <3>2
  <2> QED
    BY <1>2, <1>7, <2>1
<1>9. u # << >>
  BY <1>2, <1>8, EmptySeq
<1> QED
  BY <1>2, <1>5, <1>7, <1>8, <1>9

\* The shares a member is paid become accounts of its own.
funds_of(m, time, n) == {<<m, time, r>> : r \in 1..n}

paid_out(e, F, shares) == [k \in DOMAIN e \cup F |-> IF k \in F THEN shares[k[3]] ELSE e[k]]

\* The total of one set of accounts is that of another and an amount.
Raised(d, e, amount) == SumFunction(d) = SumFunction(e) + amount

LEMMA PaidFunds ==
  ASSUME NEW e, IsFiniteSet(DOMAIN e), e \in [DOMAIN e -> Int], NEW m, NEW time, NEW n \in Nat,
         NEW shares \in Shares, 1..n \subseteq DOMAIN shares,
         NEW F, F = funds_of(m, time, n), F \cap DOMAIN e = {},
         NEW paid, paid = paid_out(e, F, shares)
  PROVE  /\ IsFiniteSet(DOMAIN paid) /\ paid \in [DOMAIN paid -> Int]
         /\ DOMAIN paid = DOMAIN e \cup F
         /\ SumFunctionOnSet(shares, 1..n) \in Int
         /\ Raised(paid, e, SumFunctionOnSet(shares, 1..n))
<1> DEFINE S == 1..n
           h == [r \in 1..n |-> <<m, time, r>>]
<1>1. IsFiniteSet(S) /\ \A r \in S : shares[r] \in Int
  <2>1. IsFiniteSet(S)
    BY FS_Interval
  <2>2. PICK K \in SUBSET Int : shares \in [K -> Int]
    BY DEF Shares
  <2>3. \A r \in S : r \in K
    BY <2>2
  <2> QED
    BY <2>1, <2>2, <2>3
<1>2. \A r \in S : h[r] = <<m, time, r>> /\ h[r] \in F /\ h[r][3] = r
  BY DEF funds_of
<1>3. F = {h[r] : r \in S}
  BY DEF funds_of
<1> HIDE DEF h, S
<1>4. DOMAIN paid = DOMAIN e \cup F /\ (\A k \in F : paid[k] = shares[k[3]])
  BY DEF paid_out
<1>5. \A k \in DOMAIN e : paid[k] = e[k]
  BY DEF paid_out
<1>6. paid = [k \in DOMAIN paid |-> paid[k]]
  BY DEF paid_out
<1>7. \A r \in S : shares[r] \in Int /\ paid[h[r]] = shares[r]
  BY <1>1, <1>2, <1>4
<1>8. \A r, x \in S : h[r] = h[x] => r = x
  BY <1>2
<1>9. F \cap DOMAIN e = {}
  OBVIOUS
<1>10. IsFiniteSet(F) /\ SumFunctionOnSet(paid, F) = SumFunctionOnSet(shares, S)
  <2>1. (\A r \in S : h[r] \in F) /\ (\A k \in F : \E r \in S : k = h[r])
    BY <1>2, <1>3
  <2>2. Renames(h, shares, S, paid, F)
    BY <1>7, <1>8, <2>1 DEF Renames
  <2> QED
    BY <1>1, <2>2, SumReindex
<1>11. \A k \in F : paid[k] \in Int
  BY <1>3, <1>7
<1> DEFINE D == DOMAIN e
<1>12. IsFiniteSet(D) /\ D \cap F = {} /\ (\A k \in D \cup F : paid[k] \in Int) /\ (\A k \in D : paid[k] = e[k])
  BY <1>5, <1>9, <1>11
<1>13. DOMAIN paid = D \cup F /\ SumFunction(e) = SumFunctionOnSet(e, D)
  BY <1>4 DEF SumFunction
<1> HIDE DEF D
<1>14. SumFunctionOnSet(paid, D \cup F) = SumFunctionOnSet(paid, D) + SumFunctionOnSet(paid, F)
  BY <1>10, <1>12, SumUnion
<1>15. SumFunctionOnSet(paid, D) = SumFunctionOnSet(e, D)
  BY <1>12, SumSame
<1>16. SumFunction(paid) = SumFunctionOnSet(paid, D \cup F)
  BY <1>13, Zenon DEF SumFunction
<1>17. SumFunction(paid) = SumFunction(e) + SumFunctionOnSet(shares, S)
  BY <1>10, <1>13, <1>14, <1>15, <1>16
<1>18. IsFiniteSet(D \cup F)
  BY <1>10, <1>12, FS_Union
<1>19. SumFunctionOnSet(shares, S) \in Int
  BY <1>1, SumType
<1>20. paid \in [DOMAIN paid -> Int]
  BY <1>6, <1>12, <1>13
<1> QED
  BY <1>4, <1>13, <1>17, <1>18, <1>19, <1>20 DEF S, Raised

LEMMA PayKeeps ==
  ASSUME TInv, NEW m \in DOMAIN member, pay_member(m)
  PROVE  TInv'
<1> DEFINE d       == table[1]
           account == <<contract, d.time, 0>>
           amount  == pay(d, member[m])
           funds   == {<<m, d.time, r>> : r \in 1..member[m]}
           paid    == [k \in DOMAIN dist \cup funds |->
                         IF k \in funds THEN d.rank_distribution[k[3]] ELSE dist[k]]
<1>1. /\ has_current(table) /\ m > d.last_processed
      /\ 1..member[m] \subseteq DOMAIN d.rank_distribution
      /\ IF account \in DOMAIN dist
         THEN dist[account] >= amount /\ dist' = take(paid, account, amount)
         ELSE amount = 0 /\ dist' = paid
      /\ table' = [table EXCEPT ![1].last_processed = m]
      /\ pool' = pool /\ user' = user /\ token' = token /\ elections_unchanged
  BY Zenon DEF pay_member
<1>2. /\ pool \in Int /\ IsFiniteSet(DOMAIN dist) /\ dist \in [DOMAIN dist -> Int] /\ SumFunction(dist) \in Int
      /\ Total(books) = pool + SumFunction(dist) /\ table \in Seq(Row) /\ DOMAIN dist \subseteq Owner \X Int \X Int
  BY TotalTyped
<1>3. /\ Scheduled(table) /\ EarlierKeys(dist, table) /\ PaidKeys(dist, table)
  BY DEF TInv, Kept, BooksInv, books
<1>4. m \in Account /\ m \in Int /\ m > 0 /\ m # contract /\ member[m] \in Nat
  <2>1. m \in Account /\ member[m] \in Nat
    BY DEF TInv, Types
  <2> QED
    BY <2>1, TreasuryAssumption DEF contract
<1>5. /\ table' \in Seq(Row) /\ Len(table') = Len(table) /\ Len(table) \in Nat /\ Len(table) >= 1 /\ table' # << >>
      /\ table'[1].type = "current" /\ table'[1].time = d.time /\ table'[1].last_processed = m
      /\ \A i \in 1..Len(table) : i # 1 => table'[i] = table[i]
  <2>1. table' = processed(table, m)
    BY <1>1, Zenon DEF processed
  <2>2. has_current(table) /\ table \in Seq(Row) /\ m \in Int
    BY <1>1, <1>2, <1>4
  <2> QED
    BY <2>1, <2>2, PaidTable
<1>6. d \in Row /\ d.type = "current" /\ table # << >>
  <2>1. table # << >> /\ d.type = "current"
    BY <1>1 DEF has_current
  <2>2. d \in Row
    <3>1. table \in [1..Len(table) -> Row] /\ 1 \in 1..Len(table)
      BY <1>2, <1>5, LenProperties
    <3> QED
      BY <3>1
  <2> QED
    BY <2>1, <2>2
<1>7. d.time \in Int /\ d.last_processed \in Int /\ d.rank_distribution \in Shares
  BY <1>6, RowFacts
<1> HIDE DEF d
<1>8. \A k \in funds : \E r \in 1..member[m] : k = <<m, d.time, r>> /\ k[1] = m /\ k[2] = d.time
  OBVIOUS
<1>9. funds \subseteq Owner \X Int \X Int
  <2>1. \A r \in 1..member[m] : r \in Int
    BY <1>4
  <2> QED
    BY <1>4, <1>7, <2>1 DEF Owner
<1>10. funds \cap DOMAIN dist = {}
  <2> SUFFICES ASSUME NEW k \in funds, k \in DOMAIN dist PROVE FALSE
    OBVIOUS
  <2>1. k[1] = m /\ k[2] = d.time
    BY <1>8
  <2>2. 1 \in 1..Len(table) /\ table[1] = d
    BY <1>5 DEF d
  <2>3. m <= d.last_processed
    BY <1>3, <1>4, <2>1, <2>2 DEF PaidKeys
  <2> QED
    BY <1>1, <1>4, <1>7, <2>3
<1> HIDE DEF funds
<1>11. /\ IsFiniteSet(DOMAIN paid) /\ paid \in [DOMAIN paid -> Int] /\ DOMAIN paid = DOMAIN dist \cup funds
       /\ amount \in Int /\ SumFunction(paid) = SumFunction(dist) + amount
  <2>1. amount = SumFunctionOnSet(d.rank_distribution, 1..member[m])
    BY DEF pay
  <2>2. /\ IsFiniteSet(DOMAIN paid) /\ paid \in [DOMAIN paid -> Int] /\ DOMAIN paid = DOMAIN dist \cup funds
        /\ SumFunctionOnSet(d.rank_distribution, 1..member[m]) \in Int
        /\ SumFunction(paid) = SumFunction(dist) + SumFunctionOnSet(d.rank_distribution, 1..member[m])
    <3> DEFINE shares == d.rank_distribution
               n == member[m]
               time == d.time
    <3>1. funds = funds_of(m, time, n)
      BY DEF funds, funds_of
    <3>2. paid = paid_out(dist, funds, shares)
      BY Zenon DEF paid_out
    <3>3. 1..n \subseteq DOMAIN shares /\ shares \in Shares /\ n \in Nat
      BY <1>1, <1>4, <1>7
    <3>4. funds \cap DOMAIN dist = {} /\ IsFiniteSet(DOMAIN dist) /\ dist \in [DOMAIN dist -> Int]
      BY <1>2, <1>10
    <3> HIDE DEF paid, amount, account, shares, n, time
    <3>5. /\ IsFiniteSet(DOMAIN paid) /\ paid \in [DOMAIN paid -> Int]
          /\ SumFunctionOnSet(shares, 1..n) \in Int
          /\ Raised(paid, dist, SumFunctionOnSet(shares, 1..n))
      BY <3>1, <3>2, <3>3, <3>4, PaidFunds, Zenon
    <3>6. DOMAIN paid = DOMAIN dist \cup funds
      BY <3>2 DEF paid_out
    <3>7. SumFunction(paid) = SumFunction(dist) + SumFunctionOnSet(shares, 1..n)
      BY <3>5, Zenon DEF Raised
    <3>8. /\ IsFiniteSet(DOMAIN paid) /\ paid \in [DOMAIN paid -> Int]
          /\ SumFunctionOnSet(d.rank_distribution, 1..member[m]) \in Int
          /\ SumFunction(paid) = SumFunction(dist) + SumFunctionOnSet(d.rank_distribution, 1..member[m])
      BY <3>5, <3>7, Zenon DEF shares, n
    <3> QED
      BY <3>6, <3>8
  <2> QED
    BY <2>1, <2>2, Zenon
<1> HIDE DEF paid, amount
<1>12. /\ DOMAIN dist' \subseteq DOMAIN dist \cup funds /\ IsFiniteSet(DOMAIN dist') /\ dist' \in [DOMAIN dist' -> Int]
       /\ SumFunction(dist') = SumFunction(dist)
  <2>1. CASE account \in DOMAIN dist
    <3>1. account \in DOMAIN paid
      BY <1>11, <2>1
    <3>2. dist' = take(paid, account, amount)
      BY <1>1, <2>1
    <3>3. /\ DOMAIN dist' \subseteq DOMAIN paid /\ IsFiniteSet(DOMAIN dist') /\ dist' \in [DOMAIN dist' -> Int]
          /\ SumFunction(dist') = SumFunction(paid) - amount
      BY <1>11, <3>1, <3>2, TakeKeeps, Zenon
    <3>4. \A x, y, z \in Int : x = y + z => x - z = y
      OBVIOUS
    <3>5. SumFunction(dist') = SumFunction(dist)
      <4>1. SumFunction(paid) \in Int
        BY <1>2, <1>11
      <4> QED
        BY <1>2, <1>11, <3>3, <3>4, <4>1
    <3> QED
      BY <1>11, <3>3, <3>5
  <2>2. CASE account \notin DOMAIN dist
    <3>1. amount = 0 /\ dist' = paid
      BY <1>1, <2>2
    <3> QED
      BY <1>2, <1>11, <3>1
  <2> QED
    BY <2>1, <2>2
<1> HIDE DEF account
<1>13. \A i \in 1..Len(table) : table'[i].type = table[i].type /\ table'[i].time = table[i].time
  BY <1>5, <1>6 DEF d
<1>14. Len(table) \in 1..Len(table) /\ 1 \in 1..Len(table) /\ \A i \in 1..(Len(table) - 1) : i \in 1..Len(table)
  BY <1>5
<1>15. Scheduled(table')
  <2>1. /\ table[Len(table)].type = "next"
        /\ \A i \in 1..(Len(table) - 1) : table[i].type # "next"
        /\ \A i, j \in 1..Len(table) :
             i < j => table[i].time < table[j].time /\ (table[j].type = "current" => table[i].type = "current")
    BY <1>3, <1>6 DEF Scheduled
  <2>2. table'[Len(table')].type = "next"
    BY <1>5, <1>13, <1>14, <2>1
  <2>3. \A i \in 1..(Len(table') - 1) : table'[i].type # "next"
    BY <1>5, <1>13, <1>14, <2>1
  <2>4. \A i, j \in 1..Len(table') :
          i < j => table'[i].time < table'[j].time /\ (table'[j].type = "current" => table'[i].type = "current")
    BY <1>5, <1>13, <2>1
  <2> QED
    BY <2>2, <2>3, <2>4 DEF Scheduled
<1>16. EarlierKeys(dist', table')
  <2> SUFFICES ASSUME NEW k \in DOMAIN dist' PROVE k[2] < table[Len(table)].time
    BY <1>5, <1>13, <1>14 DEF EarlierKeys
  <2>1. CASE k \in DOMAIN dist
    BY <1>3, <2>1 DEF EarlierKeys
  <2>2. CASE k \in funds
    <3>1. k[2] = d.time
      BY <1>8, <2>2 DEF funds
    <3>2. Len(table) # 1
      BY <1>3, <1>6 DEF Scheduled, d
    <3>3. d.time < table[Len(table)].time
      BY <1>3, <1>5, <1>6, <1>14, <3>2 DEF Scheduled, d
    <3> QED
      BY <3>1, <3>3
  <2> QED
    BY <1>12, <2>1, <2>2
<1>17. PaidKeys(dist', table')
  <2> SUFFICES ASSUME NEW k \in DOMAIN dist', NEW i \in 1..Len(table), k[1] # contract, table'[i].time = k[2]
               PROVE  table'[i].type = "current" /\ k[1] <= table'[i].last_processed
    BY <1>5 DEF PaidKeys
  <2>1. table[i].time = k[2]
    BY <1>13
  <2>2. CASE k \in DOMAIN dist
    <3>1. table[i].type = "current" /\ k[1] <= table[i].last_processed
      BY <1>3, <2>1, <2>2 DEF PaidKeys
    <3>2. CASE i = 1
      <4>1. k[1] \in Int
        <5>1. k[1] \in Owner
          BY <1>2, <2>2, KeyTyped
        <5> QED
          BY <5>1, OwnerTyped
      <4> QED
        BY <1>1, <1>4, <1>5, <1>7, <3>1, <3>2, <4>1 DEF d
    <3>3. CASE i # 1
      BY <1>5, <3>1, <3>3
    <3> QED
      BY <3>2, <3>3
  <2>3. CASE k \in funds
    <3>1. k[1] = m /\ k[2] = d.time
      BY <1>8, <2>3 DEF funds
    <3>2. i = 1
      <4>1. ASSUME i # 1 PROVE FALSE
        <5>1. 1 < i
          BY <1>5, <4>1
        <5>2. table[1].time < table[i].time
          BY <1>3, <1>6, <1>14, <5>1 DEF Scheduled
        <5> QED
          BY <1>7, <2>1, <3>1, <5>2 DEF d
      <4> QED
        BY <4>1
    <3> QED
      BY <1>4, <1>5, <3>1, <3>2
  <2> QED
    BY <1>12, <2>2, <2>3
<1>18. Kept'
  <2>1. /\ DOMAIN books' = {"pool", "table", "dist"} /\ books'.pool = pool /\ books'.table = table' /\ books'.dist = dist'
    BY <1>1 DEF books
  <2>2. BooksTyped(books')
    BY <1>2, <1>5, <1>9, <1>12, <2>1 DEF BooksTyped, funds
  <2>3. BooksInv(books')
    BY <1>15, <1>16, <1>17, <2>1, <2>2 DEF BooksInv
  <2> QED
    BY <2>3 DEF Kept
<1>19. Waiting(table', next_election_time)
  <2>1. Waiting(table, next_election_time)
    BY DEF TInv, Awaited
  <2> QED
    BY <1>5, <1>13, <1>14, <2>1 DEF Waiting
<1>20. token' = SumFunction(user') + Total(books)' /\ user' \in [Account -> Int] /\ token' \in Int
  <2>1. Total(books)' = pool + SumFunction(dist)
    BY <1>1, <1>12 DEF Total, books
  <2> QED
    BY <1>1, <1>2, <2>1, ConservedSums
<1>21. \A k \in DOMAIN dist' : k \in DOMAIN dist \/ k[1] \in DOMAIN member \cup {contract}
  BY <1>8, <1>12 DEF funds
<1> QED
  BY <1>1, <1>18, <1>19, <1>20, <1>21, StepKeeps

LEMMA TailTable ==
  ASSUME NEW t \in Seq(Row), Scheduled(t), has_current(t)
  PROVE  /\ Tail(t) \in Seq(Row) /\ Len(t) \in Nat /\ Len(t) >= 2 /\ Len(Tail(t)) = Len(t) - 1 /\ Tail(t) # << >>
         /\ \A i \in 1..(Len(t) - 1) : i + 1 \in 1..Len(t) /\ Tail(t)[i] = t[i + 1]
         /\ Tail(t)[Len(t) - 1] = t[Len(t)]
<1>1. t # << >> /\ t[1].type = "current"
  BY DEF has_current
<1>2. Len(t) \in Nat /\ Len(t) >= 1
  BY <1>1, EmptySeq
<1>3. Len(t) # 1
  BY <1>1 DEF Scheduled
<1>4. Len(t) >= 2 /\ \A i \in 1..(Len(t) - 1) : i + 1 \in 1..Len(t)
  <2> DEFINE n == Len(t)
  <2>1. n \in Nat /\ n >= 1 /\ n # 1
    BY <1>2, <1>3
  <2> HIDE DEF n
  <2>2. n >= 2 /\ \A i \in 1..(n - 1) : i + 1 \in 1..n
    BY <2>1
  <2> QED
    BY <2>2 DEF n
<1>5. Tail(t) \in Seq(Row) /\ Len(Tail(t)) = Len(t) - 1 /\ \A i \in 1..Len(Tail(t)) : Tail(t)[i] = t[i + 1]
  BY <1>1, HeadTailProperties
<1>6. Len(t) - 1 \in 1..(Len(t) - 1) /\ (Len(t) - 1) + 1 = Len(t)
  BY <1>4, <1>2
<1>7. Tail(t) # << >>
  <2>1. Len(Tail(t)) # 0
    BY <1>2, <1>4, <1>5
  <2> QED
    BY <1>5, <2>1, EmptySeq
<1>8. Tail(t)[Len(t) - 1] = t[Len(t)]
  BY <1>5, <1>6
<1> QED
  BY <1>2, <1>4, <1>5, <1>7, <1>8

LEMMA EndKeeps ==
  ASSUME TInv, end_distribution
  PROVE  TInv'
<1> DEFINE keys == {k \in {<<contract, table[1].time, 0>>} \cap DOMAIN dist : dist[k] = 0}
           n == Len(table) - 1
<1>1. /\ has_current(table) /\ dist' = drop(dist, keys) /\ table' = Tail(table)
      /\ pool' = pool /\ user' = user /\ token' = token /\ elections_unchanged
  BY Zenon DEF end_distribution
<1>2. /\ pool \in Int /\ IsFiniteSet(DOMAIN dist) /\ dist \in [DOMAIN dist -> Int] /\ SumFunction(dist) \in Int
      /\ Total(books) = pool + SumFunction(dist) /\ table \in Seq(Row) /\ DOMAIN dist \subseteq Owner \X Int \X Int
  BY TotalTyped
<1>3. /\ Scheduled(table) /\ EarlierKeys(dist, table) /\ PaidKeys(dist, table)
  BY DEF TInv, Kept, BooksInv, books
<1>4. \A k \in keys \cap DOMAIN dist : dist[k] = 0
  OBVIOUS
<1> HIDE DEF keys
<1>5. /\ DOMAIN dist' \subseteq DOMAIN dist /\ IsFiniteSet(DOMAIN dist') /\ dist' \in [DOMAIN dist' -> Int]
      /\ SumFunction(dist') = SumFunction(dist)
  <2>1. /\ DOMAIN drop(dist, keys) = DOMAIN dist \ keys /\ IsFiniteSet(DOMAIN drop(dist, keys))
        /\ drop(dist, keys) \in [DOMAIN drop(dist, keys) -> Int]
        /\ SumFunction(drop(dist, keys)) = SumFunction(dist)
    BY <1>2, <1>4, DropKeeps
  <2> QED
    BY <1>1, <2>1
<1>6. /\ table' \in Seq(Row) /\ n \in Nat /\ Len(table) = n + 1 /\ n >= 1 /\ Len(table') = n /\ table' # << >>
      /\ \A i \in 1..n : i + 1 \in 1..Len(table) /\ table'[i] = table[i + 1]
      /\ table'[n] = table[Len(table)]
  <2>1. /\ Tail(table) \in Seq(Row) /\ Len(table) \in Nat /\ Len(table) >= 2 /\ Len(Tail(table)) = Len(table) - 1
        /\ Tail(table) # << >>
        /\ \A i \in 1..(Len(table) - 1) : i + 1 \in 1..Len(table) /\ Tail(table)[i] = table[i + 1]
        /\ Tail(table)[Len(table) - 1] = table[Len(table)]
    BY <1>1, <1>2, <1>3, TailTable
  <2> QED
    BY <1>1, <2>1
<1> HIDE DEF n
<1>7. table # << >>
  BY <1>1 DEF has_current
<1>8. Scheduled(table')
  <2>1. /\ table[Len(table)].type = "next"
        /\ \A i \in 1..n : table[i].type # "next"
        /\ \A i, j \in 1..Len(table) :
             i < j => table[i].time < table[j].time /\ (table[j].type = "current" => table[i].type = "current")
    <3>1. Len(table) - 1 = n
      BY <1>6
    <3> QED
      BY <1>3, <1>7, <3>1 DEF Scheduled
  <2>2. \A i \in 1..(n - 1) : table'[i].type # "next"
    <3>1. \A i \in 1..(n - 1) : i \in 1..n /\ i + 1 \in 1..n
      BY <1>6
    <3> QED
      BY <1>6, <2>1, <3>1
  <2>3. ASSUME NEW i \in 1..n, NEW j \in 1..n, i < j
        PROVE  table'[i].time < table'[j].time /\ (table'[j].type = "current" => table'[i].type = "current")
    <3>1. i + 1 < j + 1 /\ i + 1 \in 1..Len(table) /\ j + 1 \in 1..Len(table)
      BY <1>6, <2>3
    <3> QED
      BY <1>6, <2>1, <3>1
  <2> QED
    BY <1>6, <2>1, <2>2, <2>3 DEF Scheduled
<1>9. EarlierKeys(dist', table')
  BY <1>3, <1>5, <1>6 DEF EarlierKeys
<1>10. PaidKeys(dist', table')
  <2> SUFFICES ASSUME NEW k \in DOMAIN dist', NEW i \in 1..n, k[1] # contract, table'[i].time = k[2]
               PROVE  table'[i].type = "current" /\ k[1] <= table'[i].last_processed
    BY <1>6 DEF PaidKeys
  <2> QED
    BY <1>3, <1>5, <1>6 DEF PaidKeys
<1>11. Kept'
  <2>1. DOMAIN books' = {"pool", "table", "dist"} /\ books'.pool = pool /\ books'.table = table' /\ books'.dist = dist'
    BY <1>1 DEF books
  <2>2. BooksTyped(books')
    BY <1>2, <1>5, <1>6, <2>1 DEF BooksTyped
  <2>3. BooksInv(books')
    BY <1>8, <1>9, <1>10, <2>1, <2>2 DEF BooksInv
  <2> QED
    BY <2>3 DEF Kept
<1>12. Waiting(table', next_election_time)
  <2>1. Waiting(table, next_election_time)
    BY DEF TInv, Awaited
  <2> QED
    BY <1>6, <2>1 DEF Waiting
<1>13. token' = SumFunction(user') + Total(books)' /\ user' \in [Account -> Int] /\ token' \in Int
  <2>1. Total(books)' = pool + SumFunction(dist)
    BY <1>1, <1>5 DEF Total, books
  <2> QED
    BY <1>1, <1>2, <2>1, ConservedSums
<1> QED
  BY <1>1, <1>5, <1>11, <1>12, <1>13, StepKeeps

-----------------------------------------------------------------------------
(***************************************************************************)
(* Members and elections.                                                  *)
(***************************************************************************)
\* Money aside, what a step has to keep.
LEMMA QuietKeeps ==
  ASSUME TInv, books_unchanged, user' = user, token' = token, Types', Awaited',
         \A k \in DOMAIN dist : k[1] \in DOMAIN member' \cup {contract}
  PROVE  TInv'
<1>1. Kept' /\ Total(books)' = Total(books)
  BY SameBooks DEF TInv
<1>2. dist' = dist
  BY DEF books_unchanged
<1>3. Owned'
  BY <1>2 DEF Owned
<1>4. Conserved'
  BY <1>1 DEF TInv, Conserved
<1> QED
  BY <1>1, <1>3, <1>4 DEF TInv

LEMMA InductedKeeps ==
  ASSUME TInv, NEW m \in Account, inducted(m)
  PROVE  TInv'
<1>1. /\ member' = [x \in DOMAIN member \cup {m} |-> IF x = m THEN 0 ELSE member[x]]
      /\ now' = now /\ phase' = phase /\ electionTime' = electionTime /\ ranks' = ranks
      /\ user' = user /\ token' = token /\ books_unchanged
  BY DEF inducted
<1>2. Types'
  BY <1>1 DEF TInv, Types
<1>3. Awaited'
  <2>1. table' = table /\ next_election_time' = next_election_time
    BY <1>1 DEF books_unchanged, next_election_time
  <2> QED
    BY <1>1, <2>1 DEF TInv, Awaited, Waiting
<1>4. \A k \in DOMAIN dist : k[1] \in DOMAIN member' \cup {contract}
  BY <1>1 DEF TInv, Owned
<1> QED
  BY <1>1, <1>2, <1>3, <1>4, QuietKeeps

LEMMA TickKeeps ==
  ASSUME TInv, Tick
  PROVE  TInv'
<1>1. /\ now' = now + 1 /\ member' = member /\ phase' = phase /\ electionTime' = electionTime /\ ranks' = ranks
      /\ user' = user /\ token' = token /\ books_unchanged
  BY DEF Tick
<1>2. Types'
  BY <1>1 DEF TInv, Types
<1>3. Awaited'
  <2>1. table' = table /\ next_election_time' = next_election_time /\ next_election_time \in Int /\ now \in Int
    BY <1>1 DEF books_unchanged, next_election_time, TInv, Types, none
  <2>2. next_election_time <= now => next_election_time <= now'
    BY <1>1, <2>1
  <2> QED
    BY <2>1, <2>2 DEF TInv, Awaited, Waiting
<1>4. \A k \in DOMAIN dist : k[1] \in DOMAIN member' \cup {contract}
  BY <1>1 DEF TInv, Owned
<1> QED
  BY <1>1, <1>2, <1>3, <1>4, QuietKeeps

LEMMA BeginVotingKeeps ==
  ASSUME TInv, begin_voting
  PROVE  TInv'
<1>1. /\ now' = now /\ member' = member /\ phase = "numbering" /\ phase' = "voting" /\ electionTime' = electionTime
      /\ ranks' = ranks /\ user' = user /\ token' = token /\ books_unchanged
  BY DEF begin_voting
<1>2. Types'
  BY <1>1 DEF TInv, Types
<1>3. Awaited'
  <2>1. next_election_time' = none
    BY <1>1 DEF next_election_time
  <2> QED
    BY <2>1 DEF Awaited, Waiting
<1>4. \A k \in DOMAIN dist : k[1] \in DOMAIN member' \cup {contract}
  BY <1>1 DEF TInv, Owned
<1> QED
  BY <1>1, <1>2, <1>3, <1>4, QuietKeeps

\* Distributions wait only when the time of the election has come.
LEMMA RescheduleKeeps ==
  ASSUME TInv, NEW time \in (now + 1)..(now + MaxLead), reschedule(time)
  PROVE  TInv'
<1>1. /\ now' = now /\ member' = member /\ phase = "scheduled" /\ phase' = phase /\ now < electionTime
      /\ electionTime' = time /\ ranks' = ranks /\ user' = user /\ token' = token /\ books_unchanged
  BY DEF reschedule
<1>2. now \in Nat /\ electionTime \in Nat
  BY DEF TInv, Types
<1>3. Types'
  <2>1. time \in Nat
    BY <1>2, TreasuryAssumption
  <2> QED
    BY <1>1, <2>1 DEF TInv, Types
<1>4. Awaited'
  <2>1. next_election_time = electionTime /\ electionTime # none /\ ~(electionTime <= now) /\ table' = table
    BY <1>1, <1>2 DEF next_election_time, none, books_unchanged
  <2>2. ~\E i \in 1..Len(table) : table[i].type = "election"
    BY <2>1 DEF TInv, Awaited, Waiting
  <2> QED
    BY <2>1, <2>2 DEF Awaited, Waiting
<1>5. \A k \in DOMAIN dist : k[1] \in DOMAIN member' \cup {contract}
  BY <1>1 DEF TInv, Owned
<1> QED
  BY <1>1, <1>3, <1>4, <1>5, QuietKeeps

\* The first election starts the schedule, when there are no accounts yet.
LEMMA ScheduleStarts ==
  ASSUME TInv, table = << >>, phase = "scheduled"
  PROVE  LET b == [books EXCEPT !.table = <<next_distribution(electionTime)>>]
         IN  BooksInv(b) /\ Waiting(b.table, electionTime) /\ Total(b) = Total(books) /\ DOMAIN b.dist = {}
<1> DEFINE u == <<next_distribution(electionTime)>>
           b == [books EXCEPT !.table = <<next_distribution(electionTime)>>]
<1>1. b.table = u /\ b.pool = pool /\ b.dist = dist /\ DOMAIN b = {"pool", "table", "dist"}
  BY DEF books
<1>2. electionTime \in Int
  BY DEF TInv, Types
<1>3. u \in Seq(Row) /\ Len(u) = 1 /\ u # << >> /\ u[1] = next_distribution(electionTime)
  BY <1>2, RowsTyped
<1>4. u[1].type = "next" /\ u[1].time = electionTime
  BY <1>2, <1>3, RowsTyped
<1>5. DOMAIN dist = {}
  <2>1. EarlierKeys(dist, table)
    BY DEF TInv, Kept, BooksInv, books
  <2> QED
    BY <2>1 DEF EarlierKeys
<1> HIDE DEF u
<1>6. Scheduled(u)
  <2>1. \A i, j \in 1..1 : ~(i < j)
    OBVIOUS
  <2>2. \A i \in 1..(1 - 1) : FALSE
    OBVIOUS
  <2> QED
    BY <1>3, <1>4, <2>1, <2>2 DEF Scheduled
<1>7. EarlierKeys(dist, u) /\ PaidKeys(dist, u)
  BY <1>5 DEF EarlierKeys, PaidKeys
<1>8. Waiting(u, electionTime)
  <2>1. \A i \in 1..1 : i = 1
    OBVIOUS
  <2> QED
    BY <1>3, <1>4, <2>1 DEF Waiting
<1> HIDE DEF b
<1>9. BooksInv(b)
  BY <1>1, <1>3, <1>6, <1>7, TotalTyped DEF BooksInv, BooksTyped
<1>10. Total(b) = Total(books)
  BY <1>1 DEF Total, books
<1>11. DOMAIN b.dist = {}
  BY <1>1, <1>5
<1>12. Waiting(b.table, electionTime)
  BY <1>1, <1>8
<1> QED
  BY <1>9, <1>10, <1>11, <1>12 DEF b

LEMMA StartKeeps ==
  ASSUME TInv, start_election
  PROVE  TInv'
<1> DEFINE b == IF table = << >> THEN [books EXCEPT !.table = <<next_distribution(electionTime)>>] ELSE books
           c == setup_loop(b, electionTime)
<1>1. /\ phase = "scheduled" /\ store(c) /\ phase' = "numbering" /\ ranks' = << >>
      /\ now' = now /\ electionTime' = electionTime /\ member' = member /\ user' = user /\ token' = token
  BY Zenon DEF start_election
<1>2. next_election_time = electionTime
  BY <1>1 DEF next_election_time
<1>3. /\ BooksInv(b) /\ Waiting(b.table, electionTime) /\ Total(b) = Total(books)
      /\ \A k \in DOMAIN b.dist : k \in DOMAIN dist
  <2>1. CASE table = << >>
    <3>1. b = [books EXCEPT !.table = <<next_distribution(electionTime)>>]
      BY <2>1
    <3> HIDE DEF b
    <3> QED
      BY <1>1, <2>1, <3>1, ScheduleStarts
  <2>2. CASE table # << >>
    <3>1. b = books /\ books.table = table /\ books.dist = dist
      BY <2>2 DEF books
    <3> HIDE DEF b
    <3> QED
      BY <1>2, <3>1 DEF TInv, Kept, Awaited
  <2> QED
    BY <2>1, <2>2
<1> HIDE DEF b
<1>4. electionTime \in Int /\ now \in Int /\ ranks \in Seq(Int)
  BY DEF TInv, Types
<1>5. SetUp(b, c, electionTime)
  BY <1>3, <1>4, LoopKeeps
<1> HIDE DEF c
<1>6. BooksInv(c) /\ Total(c) = Total(books) /\ \A k \in DOMAIN c.dist : k \in DOMAIN dist \/ k[1] = contract
  BY <1>3, <1>5 DEF SetUp
<1>7. Kept' /\ Total(books)' = Total(c) /\ dist' = c.dist
  BY <1>1, <1>6, StoredBooks
<1>8. Types'
  <2>1. << >> \in Seq(Int)
    OBVIOUS
  <2> QED
    BY <1>1, <2>1 DEF TInv, Types
<1>9. Owned'
  BY <1>1, <1>6, <1>7 DEF TInv, Owned
<1>10. Awaited'
  <2>1. next_election_time' = none
    BY <1>1 DEF next_election_time
  <2> QED
    BY <2>1 DEF Awaited, Waiting
<1>11. Conserved'
  BY <1>1, <1>6, <1>7 DEF TInv, Conserved
<1> QED
  BY <1>7, <1>8, <1>9, <1>10, <1>11 DEF TInv

LEMMA StatisticsTyped ==
  ASSUME TInv, NEW f \in outcomes
  PROVE  /\ statistics(f) \in Seq(Int) /\ DOMAIN f = DOMAIN member
         /\ \A m \in DOMAIN member : f[m] \in Nat
<1> DEFINE top == CHOOSE r \in 0..(MaxRanks - 1) :
                    /\ \E m \in DOMAIN f : f[m] = r
                    /\ \A m \in DOMAIN f : f[m] <= r
           g == [i \in 1..(top + 1) |-> IF i = 1 THEN 0 ELSE Cardinality({m \in DOMAIN f : f[m] = i - 1})]
<1>1. MaxRanks \in Nat /\ MaxRanks >= 2 /\ IsFiniteSet(DOMAIN member)
  <2>1. IsFiniteSet(Account) /\ DOMAIN member \in SUBSET Account
    BY TreasuryAssumption DEF TInv, Types
  <2> QED
    BY <2>1, TreasuryAssumption, FS_Subset
<1>2. /\ f \in [DOMAIN member -> 0..(MaxRanks - 1)]
      /\ \E m \in DOMAIN member : f[m] > 0 /\ \A x \in DOMAIN member \ {m} : f[x] < f[m]
  BY DEF outcomes
<1>3. DOMAIN f = DOMAIN member /\ \A m \in DOMAIN member : f[m] \in Nat /\ f[m] \in 0..(MaxRanks - 1)
  BY <1>1, <1>2
<1>4. PICK m \in DOMAIN member : f[m] > 0 /\ \A x \in DOMAIN member \ {m} : f[x] < f[m]
  BY <1>2
<1>5. \A x \in DOMAIN f : f[x] <= f[m]
  BY <1>3, <1>4
<1>6. \E r \in 0..(MaxRanks - 1) : (\E x \in DOMAIN f : f[x] = r) /\ \A x \in DOMAIN f : f[x] <= r
  BY <1>3, <1>5
<1>7. top \in 0..(MaxRanks - 1)
  BY <1>6
<1>8. statistics(f) = g
  BY Zenon DEF statistics
<1> HIDE DEF top
<1>9. top + 1 \in Nat
  BY <1>1, <1>7
<1>10. \A i \in 1..(top + 1) : Cardinality({x \in DOMAIN f : f[x] = i - 1}) \in Int
  <2> SUFFICES ASSUME NEW i \in 1..(top + 1) PROVE Cardinality({x \in DOMAIN f : f[x] = i - 1}) \in Int
    OBVIOUS
  <2>1. {x \in DOMAIN f : f[x] = i - 1} \in SUBSET DOMAIN f
    OBVIOUS
  <2>2. IsFiniteSet({x \in DOMAIN f : f[x] = i - 1})
    BY <1>1, <1>3, <2>1, FS_Subset
  <2>3. Cardinality({x \in DOMAIN f : f[x] = i - 1}) \in Nat
    BY <2>2, FS_CardinalityType
  <2> QED
    BY <2>3
<1>11. g \in [1..(top + 1) -> Int]
  BY <1>10
<1> HIDE DEF g
<1>12. g \in Seq(Int)
  BY <1>9, <1>11
<1> QED
  BY <1>3, <1>8, <1>12

LEMMA ProcessedRow ==
  ASSUME NEW d \in Row, NEW rs \in Seq(Int)
  PROVE  /\ process_row(d, rs) \in Row /\ process_row(d, rs).time = d.time
         /\ process_row(d, rs).type = IF d.type = "election" THEN "current" ELSE d.type
         /\ d.type # "election" => process_row(d, rs) = d
<1>1. d.time \in Int
  BY RowFacts
<1>2. CASE d.type = "election"
  <2>1. d.amount \in Int
    BY <1>2, RowFacts
  <2>2. rank_distribution(rs, d.amount) \in Shares
    BY <2>1, SharesTyped
  <2>3. process_row(d, rs) = current_distribution(d.time, 0, rank_distribution(rs, d.amount))
    BY <1>2 DEF process_row
  <2> QED
    BY <1>1, <1>2, <2>2, <2>3, RowsTyped
<1>3. CASE d.type # "election"
  BY <1>3 DEF process_row
<1> QED
  BY <1>2, <1>3

LEMMA FinishKeeps ==
  ASSUME TInv, NEW f \in outcomes, NEW time \in (electionTime + 1)..(now + MaxLead), finish_election(f, time)
  PROVE  TInv'
<1> DEFINE rs == statistics(f)
           n == Len(table)
<1>1. /\ phase' = "scheduled" /\ electionTime' = time /\ member' = f /\ ranks' = rs
      /\ table' = [i \in DOMAIN table |-> process_row(table[i], rs)]
      /\ now' = now /\ user' = user /\ pool' = pool /\ dist' = dist /\ token' = token
  BY Zenon DEF finish_election
<1>2. rs \in Seq(Int) /\ DOMAIN f = DOMAIN member /\ \A m \in DOMAIN member : f[m] \in Nat
  BY StatisticsTyped
<1> HIDE DEF rs
<1>3. /\ table \in Seq(Row) /\ Scheduled(table) /\ EarlierKeys(dist, table) /\ PaidKeys(dist, table)
  BY TotalTyped DEF TInv, Kept, BooksInv, books
<1>4. n \in Nat /\ DOMAIN table = 1..n /\ \A i \in 1..n : table[i] \in Row
  <2>1. table \in [1..Len(table) -> Row] /\ Len(table) \in Nat
    BY <1>3, LenProperties
  <2> QED
    BY <2>1
<1> HIDE DEF n
<1>5. ASSUME NEW i \in 1..n
      PROVE  /\ table'[i] \in Row /\ table'[i].time = table[i].time
             /\ table'[i].type = (IF table[i].type = "election" THEN "current" ELSE table[i].type)
             /\ table[i].type # "election" => table'[i] = table[i]
             /\ table[i].type \in {"next", "election", "current"}
  <2>1. table'[i] = process_row(table[i], rs)
    BY <1>1, <1>4
  <2>2. table[i] \in Row
    BY <1>4
  <2> QED
    BY <1>2, <2>1, <2>2, ProcessedRow, RowFacts
<1>6. table' \in Seq(Row) /\ Len(table') = n /\ (table' = << >> <=> table = << >>)
  <2>1. table' \in [1..n -> Row] /\ DOMAIN table' = 1..n
    BY <1>1, <1>4, <1>5
  <2>2. table' \in Seq(Row)
    BY <1>4, <2>1
  <2>3. Len(table') \in Nat /\ 1..Len(table') = 1..n
    BY <2>1, <2>2, LenProperties
  <2>4. Len(table') = n
    BY <1>4, <2>3
  <2>5. table' = << >> <=> n = 0
    BY <2>2, <2>4, EmptySeq
  <2>6. table = << >> <=> n = 0
    BY <1>3, EmptySeq DEF n
  <2> QED
    BY <2>2, <2>4, <2>5, <2>6
<1>7. Scheduled(table')
  <2> SUFFICES ASSUME table # << >>
               PROVE  /\ table'[n].type = "next"
                      /\ \A i \in 1..(n - 1) : table'[i].type # "next"
                      /\ \A i, j \in 1..n : i < j => /\ table'[i].time < table'[j].time
                                                     /\ (table'[j].type = "current" => table'[i].type = "current")
    BY <1>6 DEF Scheduled
  <2>1. /\ table[n].type = "next"
        /\ \A i \in 1..(n - 1) : table[i].type # "next"
        /\ \A i, j \in 1..n :
             i < j => table[i].time < table[j].time /\ (table[j].type = "current" => table[i].type = "current")
    BY <1>3 DEF Scheduled, n
  <2>2. n >= 1 /\ n \in 1..n /\ \A i \in 1..(n - 1) : i \in 1..n
    <3>1. n # 0
      BY <1>3, EmptySeq DEF n
    <3> QED
      BY <1>4, <3>1
  <2>3. table'[n].type = "next" /\ \A i \in 1..(n - 1) : table'[i].type = "current"
    BY <1>5, <2>1, <2>2
  <2>4. ASSUME NEW i \in 1..n, NEW j \in 1..n, i < j
        PROVE  table'[i].time < table'[j].time /\ (table'[j].type = "current" => table'[i].type = "current")
    <3>1. i \in 1..(n - 1)
      BY <1>4, <2>4
    <3> QED
      BY <1>5, <2>1, <2>3, <2>4, <3>1
  <2> QED
    BY <2>3, <2>4
<1>8. EarlierKeys(dist', table')
  <2> SUFFICES ASSUME NEW k \in DOMAIN dist PROVE table # << >> /\ k[2] < table'[n].time
    BY <1>1, <1>6 DEF EarlierKeys
  <2>1. table # << >> /\ k[2] < table[n].time
    BY <1>3 DEF EarlierKeys, n
  <2>2. n \in 1..n
    <3>1. n # 0
      BY <1>3, <2>1, EmptySeq DEF n
    <3> QED
      BY <1>4, <3>1
  <2> QED
    BY <1>5, <2>1, <2>2
<1>9. PaidKeys(dist', table')
  <2> SUFFICES ASSUME NEW k \in DOMAIN dist, NEW i \in 1..n, k[1] # contract, table'[i].time = k[2]
               PROVE  table'[i].type = "current" /\ k[1] <= table'[i].last_processed
    BY <1>1, <1>6 DEF PaidKeys
  <2>1. table[i].type = "current" /\ k[1] <= table[i].last_processed
    BY <1>3, <1>5 DEF PaidKeys, n
  <2> QED
    BY <1>5, <2>1
<1>10. Kept'
  <2>1. DOMAIN books' = {"pool", "table", "dist"} /\ books'.pool = pool /\ books'.table = table' /\ books'.dist = dist
    BY <1>1 DEF books
  <2>2. BooksTyped(books')
    BY <1>6, <2>1, TotalTyped DEF BooksTyped
  <2>3. BooksInv(books')
    BY <1>1, <1>7, <1>8, <1>9, <2>1, <2>2 DEF BooksInv
  <2> QED
    BY <2>3 DEF Kept
<1>11. Types'
  <2>1. time \in Nat
    BY TreasuryAssumption DEF TInv, Types
  <2> QED
    BY <1>1, <1>2, <2>1 DEF TInv, Types
<1>12. Owned'
  BY <1>1, <1>2 DEF TInv, Owned
<1>13. Awaited'
  <2>1. ASSUME NEW i \in 1..n PROVE table'[i].type # "election"
    <3>1. table[i].type \in {"next", "election", "current"}
      BY <1>5
    <3>2. table'[i].type = (IF table[i].type = "election" THEN "current" ELSE table[i].type)
      BY <1>5
    <3> QED
      BY <3>1, <3>2
  <2> QED
    BY <1>6, <2>1 DEF Awaited, Waiting
<1>14. Conserved'
  <2>1. Total(books)' = Total(books)
    BY <1>1 DEF Total, books
  <2> QED
    BY <1>1, <2>1 DEF TInv, Conserved
<1> QED
  BY <1>10, <1>11, <1>12, <1>13, <1>14 DEF TInv

\* rename: the accounts of a member get another owner.
renamed_key(k, m, new) == IF k[1] = m THEN <<new, k[2], k[3]>> ELSE k
former_key(k, m, new) == IF k[1] = new THEN <<m, k[2], k[3]>> ELSE k
renamed(d, m, new) == [k \in {renamed_key(j, m, new) : j \in DOMAIN d} |-> d[former_key(k, m, new)]]

LEMMA RenamedAccounts ==
  ASSUME NEW d, IsFiniteSet(DOMAIN d), d \in [DOMAIN d -> Int], DOMAIN d \subseteq Owner \X Int \X Int,
         NEW m \in Account, NEW new \in Account, m # new, \A k \in DOMAIN d : k[1] # new
  PROVE  /\ IsFiniteSet(DOMAIN renamed(d, m, new)) /\ renamed(d, m, new) \in [DOMAIN renamed(d, m, new) -> Int]
         /\ DOMAIN renamed(d, m, new) \subseteq Owner \X Int \X Int
         /\ SumFunction(renamed(d, m, new)) = SumFunction(d)
         /\ \A k \in DOMAIN renamed(d, m, new) :
              \E j \in DOMAIN d : k[2] = j[2] /\ (k[1] = contract <=> j[1] = contract) /\ (k[1] = new \/ (k = j /\ k[1] # m))
<1> DEFINE D == DOMAIN d
           h == [j \in DOMAIN d |-> renamed_key(j, m, new)]
           g == renamed(d, m, new)
           F == DOMAIN renamed(d, m, new)
<1>1. \A k \in D : k = <<k[1], k[2], k[3]>> /\ k[1] \in Owner /\ k[2] \in Int /\ k[3] \in Int
  BY KeyTyped
<1>2. m # contract /\ new # contract /\ new \in Owner
  BY TreasuryAssumption DEF contract, Owner
<1>3. ASSUME NEW j \in D
      PROVE  /\ h[j] \in Owner \X Int \X Int /\ h[j][2] = j[2] /\ (h[j][1] = contract <=> j[1] = contract)
             /\ h[j][1] = new \/ (h[j] = j /\ h[j][1] # m)
             /\ former_key(h[j], m, new) = j
  <2>1. j = <<j[1], j[2], j[3]>> /\ j[1] \in Owner /\ j[2] \in Int /\ j[3] \in Int /\ j[1] # new
    BY <1>1
  <2>2. CASE j[1] = m
    <3>1. h[j] = <<new, j[2], j[3]>>
      BY <2>2 DEF renamed_key
    <3>2. h[j][1] = new /\ h[j][2] = j[2] /\ h[j][3] = j[3] /\ h[j] \in Owner \X Int \X Int
      BY <1>2, <2>1, <3>1
    <3>3. former_key(h[j], m, new) = <<m, j[2], j[3]>>
      BY <3>2 DEF former_key
    <3>4. <<m, j[2], j[3]>> = j
      BY <2>1, <2>2
    <3> QED
      BY <1>2, <2>2, <3>2, <3>3, <3>4
  <2>3. CASE j[1] # m
    <3>1. h[j] = j
      BY <2>3 DEF renamed_key
    <3>2. former_key(j, m, new) = j
      BY <2>1 DEF former_key
    <3> QED
      BY <2>1, <2>3, <3>1, <3>2
  <2> QED
    BY <2>2, <2>3
<1>4. F = {renamed_key(j, m, new) : j \in D} /\ g = [k \in F |-> d[former_key(k, m, new)]]
  BY DEF renamed
<1>5. (\A j \in D : h[j] \in F) /\ (\A k \in F : \E j \in D : k = h[j])
  BY <1>4
<1>6. \A j \in D : d[j] \in Int
  OBVIOUS
<1>7. IsFiniteSet(D) /\ SumFunction(d) = SumFunctionOnSet(d, D) /\ SumFunction(g) = SumFunctionOnSet(g, F)
  BY DEF SumFunction
<1> HIDE DEF h, g, F, D
<1>8. \A j \in D : g[h[j]] = d[j]
  BY <1>3, <1>4, <1>5
<1>9. \A j, x \in D : h[j] = h[x] => j = x
  BY <1>3
<1>10. IsFiniteSet(F) /\ SumFunctionOnSet(g, F) = SumFunctionOnSet(d, D)
  <2>1. \A j \in D : d[j] \in Int /\ g[h[j]] = d[j]
    BY <1>6, <1>8
  <2>2. IsFiniteSet(D) /\ (\A j \in D : h[j] \in F) /\ (\A k \in F : \E j \in D : k = h[j])
    BY <1>5, <1>7
  <2>3. Renames(h, d, D, g, F)
    BY <1>9, <2>1, <2>2 DEF Renames
  <2> QED
    BY <2>2, <2>3, SumReindex
<1>11. \A k \in F : g[k] \in Int /\ k \in Owner \X Int \X Int
  BY <1>3, <1>5, <1>6, <1>8
<1>12. g \in [F -> Int] /\ F = DOMAIN g
  BY <1>4, <1>11
<1>13. \A k \in F : \E j \in D : k[2] = j[2] /\ (k[1] = contract <=> j[1] = contract) /\ (k[1] = new \/ (k = j /\ k[1] # m))
  BY <1>3, <1>5
<1>14. SumFunction(g) = SumFunction(d)
  BY <1>7, <1>10
<1> QED
  BY <1>10, <1>11, <1>12, <1>13, <1>14 DEF g, F, D

LEMMA NoneCurrentSettled ==
  ASSUME TInv, ~has_current(table)
  PROVE  Settled(dist, table)
<1>1. /\ table \in Seq(Row) /\ Scheduled(table) /\ PaidKeys(dist, table)
  BY TotalTyped DEF TInv, Kept, BooksInv, books
<1> SUFFICES ASSUME NEW k \in DOMAIN dist, k[1] # contract, NEW i \in 1..Len(table), table[i].time = k[2] PROVE FALSE
  BY DEF Settled
<1>2. table[i].type = "current"
  BY <1>1 DEF PaidKeys
<1>3. Len(table) \in Nat /\ table # << >>
  BY <1>1, EmptySeq
<1>4. table[1].type = "current"
  <2>1. CASE i = 1
    BY <1>2, <2>1
  <2>2. CASE i # 1
    <3>1. 1 \in 1..Len(table) /\ 1 < i
      BY <1>3, <2>2
    <3> QED
      BY <1>1, <1>2, <1>3, <3>1 DEF Scheduled
  <2> QED
    BY <2>1, <2>2
<1> QED
  BY <1>3, <1>4 DEF has_current

LEMMA RenamedUser ==
  ASSUME NEW u \in [Account -> Int], NEW m \in Account, NEW new \in Account, m # new, u[m] > 0 => u[new] = 0
  PROVE  on_rename(u, m, new) \in [Account -> Int] /\ SumFunction(on_rename(u, m, new)) = SumFunction(u)
<1>1. CASE ~(u[m] > 0)
  BY <1>1 DEF on_rename
<1>2. CASE u[m] > 0
  <2> DEFINE v == sub_user_balance(u, m, u[m])
             w == add_user_balance(v, new, u[m])
  <2>1. u[m] \in Int /\ u[new] = 0
    BY <1>2
  <2>2. v \in [Account -> Int] /\ SumFunction(v) = SumFunction(u) - u[m] /\ SumFunction(u) \in Int
    BY <2>1, UserSum
  <2>3. v[m] = 0 /\ \A x \in Account \ {m} : v[x] = u[x]
    BY <2>1 DEF sub_user_balance
  <2> HIDE DEF v
  <2>4. w \in [Account -> Int] /\ SumFunction(w) = SumFunction(v) + u[m]
    BY <2>1, <2>2, UserSum
  <2>5. w[new] = u[m] /\ w[m] = 0 /\ \A x \in Account \ {m, new} : w[x] = u[x]
    BY <2>1, <2>2, <2>3 DEF add_user_balance
  <2> HIDE DEF w
  <2> DEFINE z == on_rename(u, m, new)
  <2>6. z \in [Account -> Int] /\ z[new] = u[m] /\ z[m] = 0 /\ \A x \in Account \ {m, new} : z[x] = u[x]
    BY <1>2, <2>1 DEF on_rename
  <2> HIDE DEF z
  <2>7. z = w
    BY <2>4, <2>5, <2>6
  <2> QED
    BY <2>1, <2>2, <2>4, <2>7 DEF z
<1> QED
  BY <1>1, <1>2

LEMMA RenameKeeps ==
  ASSUME TInv, NEW m \in DOMAIN member, NEW new \in Account, rename(m, new)
  PROVE  TInv'
<1> DEFINE b == setup_distribution(books)
           e == renamed(b.dist, m, new)
           c == [b EXCEPT !.dist = e]
<1>1. /\ new \notin DOMAIN member /\ (user[m] > 0 => user[new] = 0) /\ ~has_current(table)
      /\ user' = on_rename(user, m, new)
      /\ member' = [x \in (DOMAIN member \ {m}) \cup {new} |-> member[IF x = new THEN m ELSE x]]
      /\ now' = now /\ phase' = phase /\ electionTime' = electionTime /\ ranks' = ranks /\ token' = token
  BY DEF rename
<1>2. store(c)
  BY Zenon DEF rename, renamed, renamed_key, former_key
<1>3. SetUp(books, b, next_election_time)
  BY SetUpNow
<1>4. Settled(dist, table)
  BY <1>1, NoneCurrentSettled
<1> HIDE DEF b
<1>5. /\ BooksInv(b) /\ Waiting(b.table, next_election_time) /\ Total(b) = Total(books) /\ Settled(b.dist, b.table)
      /\ \A k \in DOMAIN b.dist : k \in DOMAIN dist \/ k[1] = contract
  BY <1>3, <1>4 DEF SetUp, books
<1>6. /\ DOMAIN b = {"pool", "table", "dist"} /\ b.pool \in Int /\ b.table \in Seq(Row)
      /\ IsFiniteSet(DOMAIN b.dist) /\ b.dist \in [DOMAIN b.dist -> Int] /\ DOMAIN b.dist \subseteq Owner \X Int \X Int
      /\ Scheduled(b.table) /\ EarlierKeys(b.dist, b.table)
  BY <1>5 DEF BooksInv, BooksTyped
<1>7. m \in Account /\ m # new /\ m # contract /\ new # contract /\ DOMAIN member \subseteq Account
  BY <1>1, TreasuryAssumption DEF TInv, Types, contract
<1>8. \A k \in DOMAIN b.dist : k[1] \in DOMAIN member \cup {contract}
  BY <1>5 DEF TInv, Owned
<1>9. \A k \in DOMAIN b.dist : k[1] # new
  BY <1>1, <1>7, <1>8
<1>10. /\ IsFiniteSet(DOMAIN e) /\ e \in [DOMAIN e -> Int] /\ DOMAIN e \subseteq Owner \X Int \X Int
       /\ SumFunction(e) = SumFunction(b.dist)
       /\ \A k \in DOMAIN e :
            \E j \in DOMAIN b.dist : k[2] = j[2] /\ (k[1] = contract <=> j[1] = contract) /\ (k[1] = new \/ (k = j /\ k[1] # m))
  BY <1>6, <1>7, <1>9, RenamedAccounts
<1>11. DOMAIN c = {"pool", "table", "dist"} /\ c.pool = b.pool /\ c.table = b.table /\ c.dist = e
  BY <1>6
<1> HIDE DEF e, c
<1>12. BooksTyped(c)
  BY <1>6, <1>10, <1>11 DEF BooksTyped
<1>13. EarlierKeys(e, b.table)
  BY <1>6, <1>10 DEF EarlierKeys
<1>14. PaidKeys(e, b.table)
  <2> SUFFICES ASSUME NEW k \in DOMAIN e, NEW i \in 1..Len(b.table), k[1] # contract, b.table[i].time = k[2] PROVE FALSE
    BY DEF PaidKeys
  <2>1. PICK j \in DOMAIN b.dist : k[2] = j[2] /\ j[1] # contract
    BY <1>10
  <2> QED
    BY <1>5, <2>1 DEF Settled
<1>15. BooksInv(c) /\ Total(c) = Total(books)
  BY <1>5, <1>6, <1>10, <1>11, <1>12, <1>13, <1>14 DEF BooksInv, Total
<1>16. Kept' /\ Total(books)' = Total(c) /\ dist' = e /\ table' = b.table
  BY <1>2, <1>11, <1>15, StoredBooks
<1>17. user \in [Account -> Int] /\ user' \in [Account -> Int] /\ SumFunction(user') = SumFunction(user)
  BY <1>1, <1>7, ConservedSums, RenamedUser
<1>18. DOMAIN member' = (DOMAIN member \ {m}) \cup {new} /\ \A x \in DOMAIN member' : member'[x] \in Nat
  BY <1>1 DEF TInv, Types
<1>19. Types'
  BY <1>1, <1>7, <1>17, <1>18 DEF TInv, Types
<1>20. Owned'
  <2> SUFFICES ASSUME NEW k \in DOMAIN e PROVE k[1] \in DOMAIN member' \cup {contract}
    BY <1>16 DEF Owned
  <2>1. k[1] = new \/ (k \in DOMAIN b.dist /\ k[1] # m)
    BY <1>10
  <2> QED
    BY <1>8, <1>18, <2>1
<1>21. Awaited'
  <2>1. next_election_time' = next_election_time
    BY <1>1 DEF next_election_time
  <2> QED
    BY <1>1, <1>5, <1>16, <2>1 DEF Awaited, Waiting
<1>22. Conserved'
  BY <1>1, <1>15, <1>16, <1>17 DEF TInv, Conserved
<1> QED
  BY <1>16, <1>19, <1>20, <1>21, <1>22 DEF TInv

\* resign: what is owed leaves the accounts it is owed from.
restored(d, own, I, w, a) ==
  [k \in DOMAIN d \ own |-> d[k] - SumFunctionOnSet(w, {i \in I : a[i] = k})]

TakesBack(d, own, I, w, a) ==
  /\ IsFiniteSet(DOMAIN d) /\ d \in [DOMAIN d -> Int] /\ own \in SUBSET DOMAIN d /\ IsFiniteSet(I)
  /\ \A i \in I : w[i] \in Int /\ (a[i] \in DOMAIN d \ own \/ w[i] = 0)

TookBack(d, own, I, w, a) ==
  /\ DOMAIN restored(d, own, I, w, a) = DOMAIN d \ own /\ IsFiniteSet(DOMAIN d \ own)
  /\ restored(d, own, I, w, a) \in [DOMAIN d \ own -> Int]
  /\ SumFunctionOnSet(d, own) \in Int /\ SumFunctionOnSet(w, I) \in Int
  /\ SumFunction(restored(d, own, I, w, a)) \in Int
  /\ SumFunction(d)
       = SumFunctionOnSet(d, own) + SumFunction(restored(d, own, I, w, a)) + SumFunctionOnSet(w, I)

LEMMA TakenBack ==
  ASSUME NEW d, NEW own, NEW I, NEW w, NEW a, TakesBack(d, own, I, w, a)
  PROVE  TookBack(d, own, I, w, a)
<1> USE DEF TakesBack
<1> DEFINE D == DOMAIN d
           R == DOMAIN d \ own
           r == restored(d, own, I, w, a)
           s == [k \in R |-> SumFunctionOnSet(w, {i \in I : a[i] = k})]
           J == {i \in I : a[i] \in R}
           Z == {i \in I : a[i] \notin R}
<1>1. IsFiniteSet(own) /\ IsFiniteSet(R) /\ IsFiniteSet(J) /\ IsFiniteSet(Z)
  <2>1. own \in SUBSET D /\ R \in SUBSET D /\ J \in SUBSET I /\ Z \in SUBSET I
    OBVIOUS
  <2> QED
    BY <2>1, FS_Subset
<1>2. \A k \in D : d[k] \in Int
  OBVIOUS
<1>3. \A k \in R : s[k] = SumFunctionOnSet(w, {i \in I : a[i] = k}) /\ s[k] \in Int
  <2> SUFFICES ASSUME NEW k \in R PROVE s[k] = SumFunctionOnSet(w, {i \in I : a[i] = k}) /\ s[k] \in Int
    OBVIOUS
  <2> DEFINE C == {i \in I : a[i] = k}
  <2>1. C \in SUBSET I /\ s[k] = SumFunctionOnSet(w, C)
    OBVIOUS
  <2>2. IsFiniteSet(C) /\ \A i \in C : w[i] \in Int
    BY <2>1, FS_Subset
  <2>3. SumFunctionOnSet(w, C) \in Int
    <3> HIDE DEF C
    <3> QED
      BY <2>2, SumType
  <2> QED
    BY <2>1, <2>3
<1>4. DOMAIN r = R /\ \A k \in R : r[k] = d[k] - s[k]
  BY DEF restored
<1>5. r \in [R -> Int]
  <2>1. \A k \in R : d[k] - SumFunctionOnSet(w, {i \in I : a[i] = k}) \in Int
    BY <1>2, <1>3
  <2> QED
    BY <2>1 DEF restored
<1>6. (\A i \in I : w[i] \in Int) /\ (\A i \in Z : w[i] = 0)
  OBVIOUS
<1>7. own \cap R = {} /\ own \cup R = D /\ J \cap Z = {} /\ J \cup Z = I
  OBVIOUS
<1>8. SumFunction(d) = SumFunctionOnSet(d, D) /\ SumFunction(r) = SumFunctionOnSet(r, R)
  BY <1>4 DEF SumFunction
<1> HIDE DEF s, r
<1>9. SumFunctionOnSet(s, R) = SumFunctionOnSet(w, J)
  <2> HIDE DEF R
  <2>1. SumsOfClasses(s, w, I, a, R)
    BY <1>3 DEF SumsOfClasses
  <2>2. SumFunctionOnSet(s, R) = SumFunctionOnSet(w, of_classes(I, a, R))
    BY <1>1, <1>6, <2>1, SumClasses
  <2>3. of_classes(I, a, R) = J
    BY DEF of_classes
  <2> QED
    BY <2>2, <2>3
<1> HIDE DEF R, J, Z, D
<1>10. SumFunctionOnSet(d, D) = SumFunctionOnSet(d, own) + SumFunctionOnSet(d, R)
       /\ SumFunctionOnSet(d, own) \in Int /\ SumFunctionOnSet(d, R) \in Int
  <2>1. \A k \in own \cup R : d[k] \in Int
    BY <1>2, <1>7
  <2> QED
    BY <1>1, <1>7, <2>1, SumUnion
<1>11. SumFunctionOnSet(w, I) = SumFunctionOnSet(w, J) + SumFunctionOnSet(w, Z)
       /\ SumFunctionOnSet(w, J) \in Int
  <2>1. \A i \in J \cup Z : w[i] \in Int
    BY <1>6, <1>7
  <2> QED
    BY <1>1, <1>7, <2>1, SumUnion
<1>12. SumFunctionOnSet(w, Z) = 0
  BY <1>1, <1>6, SumZero
<1>13. SumFunctionOnSet(r, R) = SumFunctionOnSet(d, R) - SumFunctionOnSet(s, R)
  <2>1. \A k \in R : d[k] \in Int /\ s[k] \in Int /\ r[k] = d[k] - s[k]
    BY <1>2, <1>3, <1>4, <1>7
  <2> QED
    BY <1>1, <2>1, SumMinus
<1>14. SumFunction(r) \in Int /\ SumFunctionOnSet(w, I) \in Int
       /\ SumFunction(d) = SumFunctionOnSet(d, own) + SumFunction(r) + SumFunctionOnSet(w, I)
  BY <1>8, <1>9, <1>10, <1>11, <1>12, <1>13
<1> QED
  BY <1>1, <1>4, <1>5, <1>10, <1>14 DEF R, r, TookBack

LEMMA ExceptTyped ==
  ASSUME NEW D, NEW f \in [D -> Int], NEW r
  PROVE  [f EXCEPT ![r] = @ - 1] \in [D -> Int]
<1>1. CASE r \in D
  BY <1>1
<1>2. CASE r \notin D
  <2>1. [f EXCEPT ![r] = @ - 1] = f
    BY <1>2
  <2> QED
    BY <2>1
<1> QED
  BY <1>1, <1>2

LEMMA LeaveKeeps ==
  ASSUME TInv, NEW m \in DOMAIN member, leave(m)
  PROVE  /\ Types' /\ DOMAIN member' = DOMAIN member \ {m}
         /\ now' = now /\ user' = user /\ token' = token /\ next_election_time' = next_election_time
<1>1. /\ member' = [x \in DOMAIN member \ {m} |-> member[x]]
      /\ ranks' = IF member[m] = 0 THEN ranks ELSE [ranks EXCEPT ![member[m] + 1] = @ - 1]
      /\ now' = now /\ phase' = phase /\ electionTime' = electionTime /\ user' = user /\ token' = token
  BY DEF leave
<1>2. ranks' \in Seq(Int)
  <2> DEFINE r == member[m] + 1
             e == [ranks EXCEPT ![r] = @ - 1]
  <2>1. ranks \in Seq(Int) /\ Len(ranks) \in Nat /\ ranks \in [1..Len(ranks) -> Int]
    BY LenProperties DEF TInv, Types
  <2>2. e \in [1..Len(ranks) -> Int]
    BY <2>1, ExceptTyped
  <2>3. e \in Seq(Int)
    <3> HIDE DEF e
    <3> QED
      BY <2>1, <2>2, SeqDef
  <2>4. ranks' = ranks \/ ranks' = e
    BY <1>1
  <2> HIDE DEF e
  <2> QED
    BY <2>1, <2>3, <2>4
<1>3. DOMAIN member' = DOMAIN member \ {m} /\ \A x \in DOMAIN member' : member'[x] = member[x]
  BY <1>1
<1>4. Types'
  BY <1>1, <1>2, <1>3 DEF TInv, Types
<1> QED
  BY <1>1, <1>3, <1>4 DEF next_election_time

payers(b, m) == [i \in owing(b, m) |-> payer(b, i)]

LEMMA ResignedBooks ==
  ASSUME NEW b, BooksInv(b), NEW m \in Account, member[m] \in Nat, can_return(b, m)
  PROVE  /\ BooksInv(on_resign(b, m)) /\ Total(on_resign(b, m)) = Total(b) /\ on_resign(b, m).table = b.table
         /\ \A k \in DOMAIN on_resign(b, m).dist : k \in DOMAIN b.dist /\ k[1] # m
<1> DEFINE d == b.dist
           own == own_accounts(b, m)
           I == owing(b, m)
           w == owed(b, m)
           a == payers(b, m)
           r == reduced(b, m)
           Z == emptied(b, m)
           c == on_resign(b, m)
<1>1. /\ b.pool \in Int /\ b.table \in Seq(Row) /\ IsFiniteSet(DOMAIN d) /\ d \in [DOMAIN d -> Int]
  BY DEF BooksInv, BooksTyped
<1>2. m # contract /\ own \in SUBSET DOMAIN d /\ \A k \in DOMAIN d \ own : k[1] # m
  BY TreasuryAssumption DEF contract, own_accounts
<1>3. IsFiniteSet(I) /\ \A i \in I : b.table[i] \in Row /\ b.table[i].type = "current"
  <2>1. Len(b.table) \in Nat /\ DOMAIN b.table = 1..Len(b.table) /\ b.table \in [1..Len(b.table) -> Row]
    BY <1>1, LenProperties
  <2>2. I \in SUBSET (1..Len(b.table)) /\ \A i \in I : \A j \in 1..i : b.table[j].type = "current"
    BY <2>1 DEF owing
  <2>3. IsFiniteSet(1..Len(b.table))
    BY <2>1, FS_Interval
  <2>4. \A i \in I : i \in 1..i
    BY <2>1, <2>2
  <2> QED
    BY <2>1, <2>2, <2>3, <2>4, FS_Subset
<1>4. ASSUME NEW i \in I PROVE w[i] \in Int /\ (a[i] \in DOMAIN d \ own \/ w[i] = 0)
  <2>1. w[i] = SumFunctionOnSet(b.table[i].rank_distribution, 1..member[m]) /\ a[i] = payer(b, i)
    BY DEF owed, pay, payers
  <2>2. b.table[i].rank_distribution \in Shares
    BY <1>3, RowFacts
  <2>3. IsFiniteSet(1..member[m])
    BY FS_Interval
  <2>4. \A x \in 1..member[m] : b.table[i].rank_distribution[x] \in Int
    <3> DEFINE sh == b.table[i].rank_distribution
    <3>1. PICK K \in SUBSET Int : sh \in [K -> Int]
      BY <2>2 DEF Shares
    <3>2. 1..member[m] \subseteq DOMAIN sh
      BY DEF can_return
    <3> HIDE DEF sh
    <3>3. \A x \in 1..member[m] : sh[x] \in Int
      BY <3>1, <3>2
    <3> QED
      BY <3>3 DEF sh
  <2>5. w[i] \in Int
    BY <2>1, <2>3, <2>4, SumType
  <2>6. payer(b, i)[1] = contract
    BY DEF payer
  <2>7. payer(b, i) \notin own
    BY <1>2, <2>6 DEF own_accounts
  <2>8. payer(b, i) \in DOMAIN d \/ w[i] = 0
    BY DEF can_return
  <2> QED
    BY <2>1, <2>5, <2>7, <2>8
<1>5. r = restored(d, own, I, w, a)
  <2>1. \A k : {i \in I : payer(b, i) = k} = {i \in I : a[i] = k}
    BY DEF payers
  <2>2. \A k \in DOMAIN d \ own : d[k] - SumFunctionOnSet(w, {i \in I : payer(b, i) = k})
                                    = d[k] - SumFunctionOnSet(w, {i \in I : a[i] = k})
    BY <2>1
  <2> QED
    BY <2>2 DEF reduced, restored
<1>6. SumFunction(w) = SumFunctionOnSet(w, I)
  BY DEF SumFunction, owed
<1>7. \A k \in Z : k \in DOMAIN r /\ r[k] = 0
  BY DEF emptied
<1>8. /\ DOMAIN c = {"pool", "table", "dist"} /\ c.table = b.table /\ c.dist = drop(r, Z)
      /\ c.pool = b.pool + SumFunctionOnSet(d, own) + SumFunction(w)
  BY DEF on_resign
<1>9. Total(b) = b.pool + SumFunction(d) /\ Total(c) = c.pool + SumFunction(c.dist)
  BY DEF Total
<1> HIDE DEF own, I, w, a, r, Z, c
<1>10. TookBack(d, own, I, w, a)
  <2>1. \A i \in I : w[i] \in Int /\ (a[i] \in DOMAIN d \ own \/ w[i] = 0)
    BY <1>4
  <2>2. IsFiniteSet(DOMAIN d) /\ d \in [DOMAIN d -> Int] /\ own \in SUBSET DOMAIN d /\ IsFiniteSet(I)
    BY <1>1, <1>2, <1>3
  <2> HIDE DEF d
  <2> QED
    <3>1. TakesBack(d, own, I, w, a)
      BY <2>1, <2>2 DEF TakesBack
    <3> QED
      BY <3>1, TakenBack
<1>11. /\ DOMAIN r = DOMAIN d \ own /\ IsFiniteSet(DOMAIN r) /\ r \in [DOMAIN r -> Int]
       /\ SumFunctionOnSet(d, own) \in Int /\ SumFunction(w) \in Int /\ SumFunction(r) \in Int
       /\ SumFunction(d) = SumFunctionOnSet(d, own) + SumFunction(r) + SumFunction(w)
  BY <1>5, <1>6, <1>10 DEF TookBack
<1>12. /\ DOMAIN drop(r, Z) = DOMAIN r \ Z /\ IsFiniteSet(DOMAIN drop(r, Z))
       /\ drop(r, Z) \in [DOMAIN drop(r, Z) -> Int]
       /\ SumFunction(drop(r, Z)) = SumFunction(r)
  BY <1>7, <1>11, DropKeeps
<1>13. Total(c) = Total(b)
  BY <1>1, <1>8, <1>9, <1>11, <1>12
<1>14. \A k \in DOMAIN c.dist : k \in DOMAIN b.dist /\ k[1] # m
  BY <1>2, <1>8, <1>11, <1>12
<1>15. BooksInv(c)
  <2>1. /\ c.pool \in Int /\ DOMAIN c.dist \subseteq DOMAIN b.dist /\ IsFiniteSet(DOMAIN c.dist)
        /\ c.dist \in [DOMAIN c.dist -> Int]
    BY <1>1, <1>8, <1>11, <1>12, <1>14
  <2> QED
    BY <1>8, <2>1, FewerAccounts
<1> QED
  BY <1>8, <1>13, <1>14, <1>15 DEF c

LEMMA ResignKeeps ==
  ASSUME TInv, NEW m \in DOMAIN member, resign(m)
  PROVE  TInv'
<1> DEFINE b == setup_distribution(books)
           c == on_resign(b, m)
<1>1. leave(m) /\ store(c) /\ can_return(b, m)
  BY Zenon DEF resign
<1>2. SetUp(books, b, next_election_time)
  BY SetUpNow
<1> HIDE DEF b
<1>3. /\ BooksInv(b) /\ Waiting(b.table, next_election_time) /\ Total(b) = Total(books)
      /\ \A k \in DOMAIN b.dist : k \in DOMAIN dist \/ k[1] = contract
  BY <1>2 DEF SetUp, books
<1>4. m \in Account /\ member[m] \in Nat
  BY DEF TInv, Types
<1>5. /\ BooksInv(c) /\ Total(c) = Total(b) /\ c.table = b.table
      /\ \A k \in DOMAIN c.dist : k \in DOMAIN b.dist /\ k[1] # m
  BY <1>1, <1>3, <1>4, ResignedBooks
<1> HIDE DEF c
<1>6. Kept' /\ Total(books)' = Total(c) /\ dist' = c.dist /\ table' = c.table
  BY <1>1, <1>5, StoredBooks
<1>7. /\ Types' /\ DOMAIN member' = DOMAIN member \ {m}
      /\ now' = now /\ user' = user /\ token' = token /\ next_election_time' = next_election_time
  BY <1>1, LeaveKeeps
<1>8. Owned'
  <2> SUFFICES ASSUME NEW k \in DOMAIN c.dist PROVE k[1] \in DOMAIN member' \cup {contract}
    BY <1>6 DEF Owned
  <2>1. k[1] # m /\ (k \in DOMAIN dist \/ k[1] = contract)
    BY <1>3, <1>5
  <2>2. k \in DOMAIN dist => k[1] \in DOMAIN member \cup {contract}
    BY DEF TInv, Owned
  <2> QED
    BY <1>7, <2>1, <2>2
<1>9. Awaited'
  BY <1>3, <1>5, <1>6, <1>7 DEF Awaited, Waiting
<1>10. Conserved'
  BY <1>3, <1>5, <1>6, <1>7 DEF TInv, Conserved
<1> QED
  BY <1>6, <1>7, <1>8, <1>9, <1>10 DEF TInv

-----------------------------------------------------------------------------
(***************************************************************************)
(* The specification.                                                      *)
(***************************************************************************)
LEMMA InitKeeps ==
  ASSUME Init PROVE TInv
<1>1. /\ now = 0 /\ electionTime \in 0..MaxLead /\ member = [m \in Founders |-> 0] /\ ranks = << >>
      /\ user = [a \in Account |-> 0] /\ pool = InitialPool /\ token = InitialPool
      /\ dist = [k \in {} |-> 0] /\ table = << >>
  BY DEF Init
<1>2. /\ InitialPool \in Int /\ MaxLead \in Nat /\ Founders \subseteq Account /\ IsFiniteSet(Account)
  BY TreasuryAssumption
<1>3. Types
  <2>1. electionTime \in Nat /\ DOMAIN member = Founders /\ ranks \in Seq(Int)
    BY <1>1, <1>2
  <2> QED
    BY <1>1, <1>2, <2>1 DEF Types
<1>4. DOMAIN dist = {} /\ IsFiniteSet(DOMAIN dist) /\ dist \in [DOMAIN dist -> Int]
  BY <1>1, FS_EmptySet
<1>5. DOMAIN books = {"pool", "table", "dist"} /\ books.pool = pool /\ books.table = table /\ books.dist = dist
  BY DEF books
<1>6. table \in Seq(Row) /\ Len(table) = 0
  BY <1>1
<1>7. BooksTyped(books)
  BY <1>1, <1>2, <1>4, <1>5, <1>6 DEF BooksTyped
<1>8. Scheduled(table) /\ EarlierKeys(dist, table) /\ PaidKeys(dist, table)
  BY <1>1, <1>4 DEF Scheduled, EarlierKeys, PaidKeys
<1>9. Kept
  BY <1>5, <1>7, <1>8 DEF Kept, BooksInv
<1>10. Owned
  BY <1>4 DEF Owned
<1>11. Awaited
  BY <1>6 DEF Awaited, Waiting
<1>12. SumFunction(user) = 0
  <2>1. DOMAIN user = Account /\ \A a \in Account : user[a] = 0
    BY <1>1
  <2>2. SumFunctionOnSet(user, Account) = 0
    BY <1>2, <2>1, SumZero
  <2> QED
    BY <2>1, <2>2 DEF SumFunction
<1>13. SumFunction(dist) = 0
  <2>1. SumFunctionOnSet(dist, {}) = 0
    BY SumEmpty
  <2> QED
    BY <1>4, <2>1 DEF SumFunction
<1>14. Conserved
  BY <1>1, <1>2, <1>5, <1>12, <1>13 DEF Conserved, Total
<1> QED
  BY <1>3, <1>9, <1>10, <1>11, <1>14 DEF TInv

LEMMA TransferKeeps ==
  ASSUME TInv, TransferNext PROVE TInv'
<1>1. ASSUME NEW a \in Account, NEW q \in Amounts, deposit(a, q) \/ withdraw(a, q) PROVE TInv'
  BY <1>1, DepositKeeps
<1>2. ASSUME NEW q \in Amounts, donation(q) PROVE TInv'
  BY <1>2, DonationKeeps
<1>3. ASSUME NEW a \in Account, NEW q \in Amounts, donate(a, q) PROVE TInv'
  BY <1>3, DonationKeeps
<1>4. ASSUME NEW a \in Account, NEW c \in Account, NEW q \in Amounts, usertransfer(a, c, q) PROVE TInv'
  BY <1>4, UserTransferKeeps
<1>5. ASSUME NEW k \in DOMAIN dist, NEW a \in Account, NEW q \in Amounts, fundtransfer(k, a, q) PROVE TInv'
  BY <1>5, FundTransferKeeps
<1> QED
  BY <1>1, <1>2, <1>3, <1>4, <1>5 DEF TransferNext

LEMMA DistributionKeeps ==
  ASSUME TInv, DistributionNext PROVE TInv'
<1>1. ASSUME distribute PROVE TInv'
  <2>1. CASE setup_due
    BY <2>1, SetUpDueKeeps
  <2>2. ASSUME NEW m \in DOMAIN member, pay_member(m) PROVE TInv'
    BY <2>2, PayKeeps
  <2>3. CASE end_distribution
    BY <2>3, EndKeeps
  <2> QED
    BY <1>1, <2>1, <2>2, <2>3 DEF distribute
<1>2. ASSUME NEW m \in Account, inducted(m) PROVE TInv'
  BY <1>2, InductedKeeps
<1>3. ASSUME NEW m \in DOMAIN member, resign(m) PROVE TInv'
  BY <1>3, ResignKeeps
<1>4. ASSUME NEW m \in DOMAIN member, NEW new \in Account, rename(m, new) PROVE TInv'
  BY <1>4, RenameKeeps
<1>5. ASSUME NEW time \in (now + 1)..(now + MaxLead), reschedule(time) PROVE TInv'
  BY <1>5, RescheduleKeeps
<1>6. ASSUME start_election PROVE TInv'
  BY <1>6, StartKeeps
<1>7. ASSUME begin_voting PROVE TInv'
  BY <1>7, BeginVotingKeeps
<1>8. ASSUME NEW f \in outcomes, NEW time \in (electionTime + 1)..(now + MaxLead), finish_election(f, time) PROVE TInv'
  BY <1>8, FinishKeeps
<1>9. ASSUME Tick PROVE TInv'
  BY <1>9, TickKeeps
<1> QED
  BY <1>1, <1>2, <1>3, <1>4, <1>5, <1>6, <1>7, <1>8, <1>9 DEF DistributionNext

\* A step that changes nothing.
LEMMA StutterKeeps ==
  ASSUME TInv, UNCHANGED vars PROVE TInv'
<1>1. /\ now' = now /\ phase' = phase /\ electionTime' = electionTime /\ member' = member /\ ranks' = ranks
      /\ user' = user /\ pool' = pool /\ dist' = dist /\ table' = table /\ token' = token
  BY DEF vars
<1>2. books' = books /\ next_election_time' = next_election_time
  BY <1>1 DEF books, next_election_time
<1> QED
  BY <1>1, <1>2 DEF TInv, Types, Kept, Owned, Awaited, Waiting, Conserved

LEMMA AlwaysBalanced == Spec => []TInv
<1>1. Init => TInv
  BY InitKeeps
<1>2. TInv /\ [Next]_vars => TInv'
  BY TransferKeeps, DistributionKeeps, StutterKeeps DEF Next
<1> QED
  BY <1>1, <1>2, PTL DEF Spec

\* "The total of all accounts (including internal and user accounts) is equal to the
\* eosio.token balance of the contract" (accounts.hpp:43), for any accounts, amounts, months and
\* percentages: no deposit, donation, withdrawal, transfer, distribution in parts, resignation,
\* renaming or election creates or loses funds.
THEOREM FundsStayConserved == Spec => []FundsConserved
<1>1. TInv => FundsConserved
  BY ConservedFunds
<1> QED
  BY <1>1, AlwaysBalanced, PTL

-----------------------------------------------------------------------------
(***************************************************************************)
(* Shares of the ranks.                                                    *)
(***************************************************************************)
of_rank(mb, r) == {m \in DOMAIN mb : mb[m] = r}

\* memberstats counts the members of every rank, and at most one has the highest.
RanksCounted(mb, rs) ==
  /\ \A m \in DOMAIN mb : mb[m] > 0 => mb[m] + 1 <= Len(rs)
  /\ \A r \in 1..(Len(rs) - 1) : rs[r + 1] = Cardinality(of_rank(mb, r))
  /\ Len(rs) >= 2 => rs[Len(rs)] \in {0, 1}

Ranks(mb, rs) ==
  IsFiniteSet(DOMAIN mb) /\ (\A m \in DOMAIN mb : mb[m] \in Nat) /\ rs \in Seq(Int) /\ RanksCounted(mb, rs)

LEMMA HoldersCounted ==
  ASSUME NEW mb, NEW rs, Ranks(mb, rs), NEW k \in 1..(Len(rs) - 1)
  PROVE  holders(rs, k) = Cardinality(ranked(DOMAIN mb, mb, k))
<1> DEFINE S == DOMAIN mb
           one == [m \in S |-> 1]
           c == [m \in S |-> mb[m] + 1]
           K == (k + 1)..Len(rs)
<1>1. /\ IsFiniteSet(S) /\ (\A m \in S : mb[m] \in Nat) /\ rs \in Seq(Int)
      /\ Len(rs) \in Nat /\ k \in Nat /\ k >= 1 /\ k <= Len(rs) - 1
  BY LenProperties DEF Ranks
<1>2. IsFiniteSet(K)
  BY <1>1, FS_Interval
<1>3. SumsOfClasses(rs, one, S, c, K)
  <2> SUFFICES ASSUME NEW i \in K PROVE rs[i] = SumFunctionOnSet(one, {x \in S : c[x] = i})
    BY DEF SumsOfClasses
  <2>1. i \in Nat /\ i - 1 \in 1..(Len(rs) - 1) /\ (i - 1) + 1 = i
    BY <1>1
  <2>2. rs[i] = Cardinality(of_rank(mb, i - 1))
    BY <2>1 DEF Ranks, RanksCounted
  <2>3. {x \in S : c[x] = i} = of_rank(mb, i - 1)
    BY <1>1, <2>1 DEF of_rank
  <2> DEFINE T == of_rank(mb, i - 1)
  <2>4. T \in SUBSET S
    BY DEF of_rank
  <2>5. IsFiniteSet(T) /\ \A x \in T : one[x] = 1
    BY <1>1, <2>4, FS_Subset
  <2> HIDE DEF T, one, c
  <2>6. SumFunctionOnSet(one, T) = Cardinality(T)
    BY <2>5, SumOnes
  <2>7. SumFunctionOnSet(one, {x \in S : c[x] = i}) = SumFunctionOnSet(one, T)
    BY <2>3, Zenon DEF T
  <2> QED
    BY <2>2, <2>6, <2>7 DEF T
<1>4. \A x \in S : one[x] \in Int
  OBVIOUS
<1>5. of_classes(S, c, K) = ranked(S, mb, k)
  <2>1. ASSUME NEW m \in S PROVE c[m] \in K <=> mb[m] >= k
    <3>1. mb[m] \in Nat /\ c[m] = mb[m] + 1 /\ (mb[m] > 0 => mb[m] + 1 <= Len(rs))
      BY <1>1 DEF Ranks, RanksCounted
    <3> QED
      BY <1>1, <3>1
  <2> HIDE DEF S, c, K
  <2> QED
    BY <2>1 DEF of_classes, ranked
<1> DEFINE R == ranked(S, mb, k)
<1>6. IsFiniteSet(R) /\ \A x \in R : one[x] = 1
  <2>1. R \in SUBSET S
    BY DEF ranked
  <2> QED
    BY <1>1, <2>1, FS_Subset
<1> HIDE DEF S, one, c, K, R
<1>7. SumFunctionOnSet(rs, K) = SumFunctionOnSet(one, of_classes(S, c, K))
  <2>1. IsFiniteSet(S)
    BY <1>1
  <2> QED
    BY <1>2, <1>3, <1>4, <2>1, SumClasses
<1>8. SumFunctionOnSet(one, R) = Cardinality(R)
  BY <1>6, SumOnes
<1>9. SumFunctionOnSet(one, of_classes(S, c, K)) = SumFunctionOnSet(one, R)
  BY <1>5, Zenon DEF R
<1>10. SumFunctionOnSet(rs, K) = Cardinality(R)
  BY <1>7, <1>8, <1>9
<1> QED
  BY <1>10 DEF holders, K, R, S

LEMMA TopHolders ==
  ASSUME NEW rs \in Seq(Int), Len(rs) >= 2
  PROVE  holders(rs, Len(rs) - 1) = rs[Len(rs)]
<1>1. Len(rs) \in Nat /\ rs \in [1..Len(rs) -> Int] /\ Len(rs) \in 1..Len(rs)
  BY LenProperties
<1>2. ((Len(rs) - 1) + 1)..Len(rs) = {Len(rs)}
  BY <1>1
<1>3. rs[Len(rs)] \in Int
  BY <1>1
<1>4. SumFunctionOnSet(rs, {Len(rs)}) = rs[Len(rs)]
  BY <1>3, SumSingle
<1>5. holders(rs, Len(rs) - 1) = SumFunctionOnSet(rs, ((Len(rs) - 1) + 1)..Len(rs))
  BY DEF holders
<1> QED
  BY <1>2, <1>4, <1>5, Zenon

\* make_distribution pays the members, each for its rank, exactly what it takes.
LEMMA Divided ==
  ASSUME NEW mb, NEW rs, Ranks(mb, rs), Len(rs) >= 2, NEW amount \in Int
  PROVE  LET s == rank_distribution(rs, amount)
         IN  /\ \A m \in DOMAIN mb : 1..mb[m] \subseteq DOMAIN s
             /\ SumFunctionOnSet(shares_of(DOMAIN mb, mb, s), DOMAIN mb) = distributed(rs, amount)
<1> DEFINE s == rank_distribution(rs, amount)
           K == shared_ranks(rs)
           S == DOMAIN mb
           f == used_parts(rs, amount)
           p == parts_of(S, mb, K, s)
           top == Len(rs) - 1
           u == used(rs, amount)
<1>1. IsFiniteSet(S) /\ (\A m \in S : mb[m] \in Nat) /\ rs \in Seq(Int)
  BY DEF Ranks
<1>2. /\ Len(rs) \in Nat /\ rs \in [1..Len(rs) -> Int] /\ K \in SUBSET (1..top) /\ IsFiniteSet(K)
      /\ \A k \in K : this_rank(rs, amount, k) \in Int /\ holders(rs, k) \in Int
      /\ u = SumFunctionOnSet(f, K) /\ u \in Int
  BY <1>1, RanksShared
<1>3. \A k \in 1..top : holders(rs, k) = Cardinality(ranked(S, mb, k))
  BY HoldersCounted
<1>4. \A k : k \in K <=> k \in 1..top /\ holders(rs, k) > 0
  BY DEF shared_ranks, top_rank
<1>5. DOMAIN s = K /\ \A k \in K : s[k] = this_rank(rs, amount, k) + (IF k = top THEN amount - u ELSE 0)
  BY DEF rank_distribution, top_rank
<1>6. \A k \in K : s[k] \in Int
  BY <1>2, <1>5
<1>7. ASSUME NEW m \in S PROVE 1..mb[m] \subseteq K
  <2> SUFFICES ASSUME NEW k \in 1..mb[m] PROVE k \in K
    OBVIOUS
  <2>1. mb[m] \in Nat /\ (mb[m] > 0 => mb[m] + 1 <= Len(rs))
    BY <1>1 DEF Ranks, RanksCounted
  <2>2. k \in 1..top /\ mb[m] >= k
    BY <1>2, <2>1
  <2> DEFINE R == ranked(S, mb, k)
  <2>3. R \in SUBSET S /\ m \in R
    BY <2>2 DEF ranked
  <2>4. IsFiniteSet(R) /\ Cardinality(R) \in Nat /\ R # {}
    BY <1>1, <2>3, FS_Subset, FS_CardinalityType
  <2>5. Cardinality(R) # 0
    BY <2>4, FS_EmptySet
  <2>6. holders(rs, k) > 0
    BY <1>3, <2>2, <2>4, <2>5
  <2> QED
    BY <1>4, <2>2, <2>6
<1>8. Shared(S, mb, K, s)
  <2>1. \A k \in K : k >= 1 /\ k \in Int
    BY <1>2
  <2> QED
    BY <1>1, <1>2, <1>6, <1>7, <2>1 DEF Shared
<1>9. \A k \in K : p[k] = s[k] * holders(rs, k) /\ f[k] = this_rank(rs, amount, k) * holders(rs, k)
  BY <1>2, <1>3 DEF parts_of, used_parts
<1> HIDE DEF s, K, S, f, p, u
<1>10. SumFunctionOnSet(shares_of(S, mb, s), S) = SumFunctionOnSet(p, K)
  BY <1>8, CountedTwice DEF p
<1>11. \A k \in K : k # top => p[k] = f[k] /\ p[k] \in Int /\ f[k] \in Int
  <2> SUFFICES ASSUME NEW k \in K, k # top PROVE p[k] = f[k] /\ p[k] \in Int /\ f[k] \in Int
    OBVIOUS
  <2>1. s[k] = this_rank(rs, amount, k)
    <3>1. s[k] = this_rank(rs, amount, k) + 0 /\ this_rank(rs, amount, k) \in Int
      BY <1>2, <1>5, Zenon
    <3> HIDE DEF top
    <3> QED
      BY <3>1
  <2>2. this_rank(rs, amount, k) \in Int /\ holders(rs, k) \in Int
    BY <1>2
  <2>3. p[k] = s[k] * holders(rs, k) /\ f[k] = this_rank(rs, amount, k) * holders(rs, k)
    BY <1>9
  <2> DEFINE x == this_rank(rs, amount, k)
             y == holders(rs, k)
  <2>4. x \in Int /\ y \in Int /\ p[k] = x * y /\ f[k] = x * y
    BY <2>1, <2>2, <2>3, Zenon
  <2> HIDE DEF x, y
  <2>5. x * y \in Int
    BY <2>4
  <2> QED
    BY <2>4, <2>5
<1>12. holders(rs, top) = rs[Len(rs)] /\ top \in 1..top /\ rs[Len(rs)] \in {0, 1}
  BY <1>1, <1>2, TopHolders DEF Ranks, RanksCounted
<1>13. SumFunctionOnSet(p, K) = distributed(rs, amount)
  <2>1. CASE rs[Len(rs)] # 0
    <3>1. holders(rs, top) = 1
      BY <1>12, <2>1
    <3>2. top \in K
      BY <1>4, <1>12, <3>1
    <3>3. this_rank(rs, amount, top) = 0
      BY DEF this_rank, top_rank
    <3>4. f[top] = 0 * 1 /\ p[top] = (0 + (amount - u)) * 1
      <4>1. s[top] = this_rank(rs, amount, top) + (amount - u)
        BY <1>5, <3>2, Zenon
      <4>2. p[top] = s[top] * holders(rs, top) /\ f[top] = this_rank(rs, amount, top) * holders(rs, top)
        BY <1>9, <3>2, Zenon
      <4> QED
        BY <3>1, <3>3, <4>1, <4>2, Zenon
    <3>5. f[top] = 0 /\ p[top] = amount - u
      BY <1>2, <3>4
    <3>6. \A k \in K : f[k] \in Int /\ p[k] \in Int
      <4>1. f[top] \in Int /\ p[top] \in Int
        BY <1>2, <3>5
      <4> HIDE DEF top, f, p, K
      <4>2. ASSUME NEW k \in K PROVE f[k] \in Int /\ p[k] \in Int
        <5>1. CASE k = top
          BY <4>1, <5>1
        <5>2. CASE k # top
          BY <1>11, <5>2
        <5> QED
          BY <5>1, <5>2
      <4> QED
        BY <4>2
    <3>7. \A k \in K \ {top} : f[k] = p[k]
      BY <1>11
    <3> HIDE DEF top
    <3>8. SumFunctionOnSet(p, K) = SumFunctionOnSet(f, K) + (p[top] - f[top])
      BY <1>2, <3>2, <3>6, <3>7, SumChange
    <3>9. distributed(rs, amount) = amount
      BY <2>1 DEF distributed
    <3> QED
      BY <1>2, <3>5, <3>8, <3>9
  <2>2. CASE rs[Len(rs)] = 0
    <3>1. top \notin K
      BY <1>4, <1>12, <2>2
    <3>2. \A k \in K : p[k] = f[k]
      BY <1>11, <3>1
    <3>3. SumFunctionOnSet(p, K) = SumFunctionOnSet(f, K)
      BY <1>2, <3>2, SumSame
    <3>4. distributed(rs, amount) = u
      BY <2>2 DEF distributed, u
    <3> QED
      BY <1>2, <3>3, <3>4
  <2> QED
    BY <2>1, <2>2
<1> QED
  BY <1>5, <1>7, <1>10, <1>13 DEF s, S

-----------------------------------------------------------------------------
(***************************************************************************)
(* Accounts of distributions.                                              *)
(***************************************************************************)
fund(time) == <<contract, time, 0>>
funds_left(e, time) == IF fund(time) \in DOMAIN e THEN e[fund(time)] ELSE 0

to_pay(d, mb) == {m \in DOMAIN mb : m > d.last_processed}
dues(d, mb) == [m \in to_pay(d, mb) |-> pay(d, mb[m])]

RowFunded(d, left, mb) ==
  /\ d.type = "current" => /\ \A m \in to_pay(d, mb) : 1..mb[m] \subseteq DOMAIN d.rank_distribution
                           /\ left = SumFunctionOnSet(dues(d, mb), to_pay(d, mb))
  /\ d.type = "election" => left = d.amount

Funded(t, e, mb) == \A i \in 1..Len(t) : RowFunded(t[i], funds_left(e, t[i].time), mb)

\* An account of the contract belongs to a distribution that is still to be paid.
Backed(e, t) ==
  \A k \in DOMAIN e : k[1] = contract =>
    k[3] = 0 /\ \E i \in 1..Len(t) : t[i].time = k[2] /\ t[i].type # "next"

NoneCurrent(t) == \A i \in 1..Len(t) : t[i].type # "current"
Untouched(t) == \A i \in 1..Len(t) : t[i].type = "current" => t[i].last_processed = 0

Members(mb) == DOMAIN mb \subseteq Account /\ \A m \in DOMAIN mb : mb[m] \in Nat

LEMMA MembersTyped ==
  ASSUME NEW mb, Members(mb)
  PROVE  IsFiniteSet(DOMAIN mb) /\ \A m \in DOMAIN mb : m \in Int /\ m > 0 /\ m # contract /\ mb[m] \in Nat
<1>1. IsFiniteSet(Account) /\ \A a \in Account : a \in Int /\ a > 0 /\ a # contract
  BY TreasuryAssumption DEF contract
<1> QED
  BY <1>1, FS_Subset DEF Members

\* A distribution that nobody has been paid from.
LEMMA NewRowFunded ==
  ASSUME NEW mb, Members(mb), NEW rs, Ranks(mb, rs), Len(rs) >= 2, NEW amount \in Int, NEW time
  PROVE  RowFunded(current_distribution(time, 0, rank_distribution(rs, amount)), distributed(rs, amount), mb)
<1> DEFINE s == rank_distribution(rs, amount)
           d == current_distribution(time, 0, s)
           S == DOMAIN mb
<1>1. d.type = "current" /\ d.last_processed = 0 /\ d.rank_distribution = s
  BY DEF current_distribution
<1>2. IsFiniteSet(S) /\ \A m \in S : m \in Int /\ m > 0
  BY MembersTyped
<1>3. /\ \A m \in S : 1..mb[m] \subseteq DOMAIN s
      /\ SumFunctionOnSet(shares_of(S, mb, s), S) = distributed(rs, amount)
  BY Divided
<1> HIDE DEF s, d
<1>4. to_pay(d, mb) = S
  BY <1>1, <1>2 DEF to_pay
<1>5. \A m \in S : dues(d, mb)[m] = shares_of(S, mb, s)[m]
  BY <1>1, <1>4 DEF dues, shares_of, pay
<1>6. SumFunctionOnSet(dues(d, mb), S) = SumFunctionOnSet(shares_of(S, mb, s), S)
  BY <1>2, <1>5, SumSame
<1>7. SumFunctionOnSet(dues(d, mb), to_pay(d, mb)) = SumFunctionOnSet(dues(d, mb), S)
  BY <1>4, Zenon
<1> QED
  BY <1>1, <1>3, <1>4, <1>6, <1>7 DEF RowFunded, d, s

-----------------------------------------------------------------------------
(***************************************************************************)
(* Setting up.                                                             *)
(***************************************************************************)
FundsKept(b, c, election) ==
  /\ Funded(b.table, b.dist, member) => Funded(c.table, c.dist, member)
  /\ Backed(b.dist, b.table) => Backed(c.dist, c.table)
  /\ election = none /\ NoneCurrent(b.table) => NoneCurrent(c.table)
  /\ Untouched(b.table) => Untouched(c.table)

\* There are ranks to pay, or no distribution can be paid before the election is over.
Payable(b, election) ==
  b.table # << >> =>
    (Ranks(member, ranks) /\ Len(ranks) >= 2) \/ election = none \/ election <= last_row(b).time

LEMMA FundsKeptSame ==
  ASSUME NEW b, NEW election
  PROVE  FundsKept(b, b, election)
BY DEF FundsKept

LEMMA FundsKeptFurther ==
  ASSUME NEW b, NEW c, NEW e, NEW election, FundsKept(b, c, election), FundsKept(c, e, election)
  PROVE  FundsKept(b, e, election)
BY DEF FundsKept

LEMMA MovedFunds ==
  ASSUME NEW b, BooksInv(b), b.table # << >>, NEW election \in Int,
         NEW time \in Int, time > last_row(b).time, Payable(b, election),
         NEW c, c = [b EXCEPT !.table = Append(SubSeq(b.table, 1, Len(b.table) - 1), next_distribution(time))]
  PROVE  FundsKept(b, c, election) /\ Payable(c, election)
<1> DEFINE t == b.table
           n == Len(b.table)
           u == Append(SubSeq(b.table, 1, Len(b.table) - 1), next_distribution(time))
           d == b.dist
<1>1. /\ DOMAIN b = {"pool", "table", "dist"} /\ t \in Seq(Row) /\ Scheduled(t) /\ EarlierKeys(d, t)
      /\ DOMAIN d \subseteq Owner \X Int \X Int
  BY DEF BooksInv, BooksTyped
<1>2. t[n].time < time
  BY <1>1 DEF last_row
<1>3. /\ u \in Seq(Row) /\ Len(u) = n /\ u # << >> /\ u[n] = next_distribution(time)
      /\ \A i \in 1..(n - 1) : u[i] = t[i]
  BY <1>1, <1>2, TableMoved
<1>4. c.dist = d /\ c.table = u
  BY <1>1
<1>5. n \in Nat /\ n >= 1 /\ t[n].type = "next" /\ t[n].time \in Int
  BY <1>1, TableFacts
<1>6. u[n].type = "next" /\ u[n].time = time
  BY <1>3, RowsTyped
<1> HIDE DEF u, t, n, d
<1>7. \A i \in 1..n : i = n \/ i \in 1..(n - 1)
  BY <1>5
<1>8. Len(t) = n /\ t # << >>
  BY DEF t, n
<1>9. Funded(t, d, member) => Funded(u, d, member)
  <2> SUFFICES ASSUME Funded(t, d, member), NEW i \in 1..n PROVE RowFunded(u[i], funds_left(d, u[i].time), member)
    BY <1>3 DEF Funded
  <2>1. CASE i = n
    BY <1>6, <2>1 DEF RowFunded
  <2>2. CASE i \in 1..(n - 1)
    <3>1. u[i] = t[i] /\ RowFunded(t[i], funds_left(d, t[i].time), member)
      BY <1>3, <1>8, <2>2 DEF Funded
    <3> QED
      BY <3>1
  <2> QED
    BY <1>7, <2>1, <2>2
<1>10. Backed(d, t) => Backed(d, u)
  <2> SUFFICES ASSUME Backed(d, t), NEW k \in DOMAIN d, k[1] = contract
               PROVE  k[3] = 0 /\ \E i \in 1..n : u[i].time = k[2] /\ u[i].type # "next"
    BY <1>3 DEF Backed
  <2>1. k[3] = 0 /\ \E i \in 1..n : t[i].time = k[2] /\ t[i].type # "next"
    BY <1>8 DEF Backed
  <2>2. PICK i \in 1..n : t[i].time = k[2] /\ t[i].type # "next"
    BY <2>1
  <2>3. u[i] = t[i]
    BY <1>3, <1>5, <1>7, <2>2
  <2> QED
    BY <2>1, <2>2, <2>3
<1>11. (NoneCurrent(t) => NoneCurrent(u)) /\ (Untouched(t) => Untouched(u))
  <2>1. \A i \in 1..n : u[i] = t[i] \/ u[i].type = "next"
    BY <1>3, <1>6, <1>7
  <2> QED
    BY <1>3, <1>8, <2>1 DEF NoneCurrent, Untouched
<1>12. Payable(c, election)
  <2>1. last_row(c).time = time /\ last_row(b).time = t[n].time
    BY <1>3, <1>4, <1>6 DEF last_row, t, n
  <2> QED
    BY <1>2, <1>5, <2>1 DEF Payable
<1> QED
  BY <1>4, <1>9, <1>10, <1>11, <1>12 DEF FundsKept, t, d

LEMMA GrownFunds ==
  ASSUME NEW b, BooksInv(b), b.table # << >>, NEW election \in Int,
         NEW time \in Int, time > last_row(b).time, Payable(b, election), NEW taken \in Int,
         NEW row \in Row, row.time = last_row(b).time, RowFunded(row, taken, member), row.type # "next",
         row.type = "current" => row.last_processed = 0 /\ election # none,
         NEW c, c = [pool  |-> b.pool - taken,
                     table |-> SubSeq(b.table, 1, Len(b.table) - 1) \o <<row, next_distribution(time)>>,
                     dist  |-> put(b.dist, <<contract, last_row(b).time, 0>>, taken)]
  PROVE  FundsKept(b, c, election) /\ Payable(c, election)
<1> DEFINE t == b.table
           n == Len(b.table)
           u == grown_table(b.table, row, time)
           d == b.dist
           key == fund(last_row(b).time)
           p == put(b.dist, <<contract, last_row(b).time, 0>>, taken)
<1>1. /\ t \in Seq(Row) /\ Scheduled(t) /\ EarlierKeys(d, t) /\ DOMAIN d \subseteq Owner \X Int \X Int
  BY DEF BooksInv, BooksTyped
<1>2. last_row(b) = t[n] /\ t[n].time < time
  BY <1>1 DEF last_row
<1>3. /\ u \in Seq(Row) /\ Len(u) = n + 1 /\ u # << >> /\ u[n + 1] = next_distribution(time) /\ u[n] = row
      /\ \A i \in 1..(n - 1) : u[i] = t[i]
  <2>1. t # << >> /\ t \in Seq(Row) /\ u = grown_table(t, row, time)
    BY <1>1
  <2> HIDE DEF t, u, n
  <2>2. /\ u \in Seq(Row) /\ Len(u) = Len(t) + 1 /\ u # << >>
        /\ u[Len(t) + 1] = next_distribution(time) /\ u[Len(t)] = row
        /\ \A i \in 1..(Len(t) - 1) : u[i] = t[i]
    BY <2>1, TableGrown
  <2> QED
    BY <2>2 DEF n, t
<1>4. c.dist = p /\ c.table = u
  BY DEF grown_table
<1>5. /\ n \in Nat /\ n >= 1 /\ t[n].type = "next" /\ t[n].time \in Int
      /\ \A i \in 1..(n - 1) : t[i].time < t[n].time /\ t[i].time \in Int
  <2>1. t # << >>
    OBVIOUS
  <2> HIDE DEF t, d, u, p, key
  <2>2. /\ Len(t) \in Nat /\ Len(t) >= 1 /\ t[Len(t)].type = "next" /\ t[Len(t)].time \in Int
        /\ \A i \in 1..Len(t) : t[i].time \in Int
        /\ \A i \in 1..(Len(t) - 1) : i \in 1..Len(t) /\ t[i].time < t[Len(t)].time
    BY <1>1, <2>1, TableFacts
  <2> QED
    BY <2>2 DEF n, t
<1>6. u[n + 1].type = "next" /\ u[n + 1].time = time
  BY <1>3, RowsTyped
<1>7. DOMAIN p = DOMAIN d \cup {key} /\ p[key] = taken /\ \A k \in DOMAIN d \ {key} : p[k] = d[k]
  BY DEF put, fund
<1>8. key = fund(t[n].time) /\ t # << >> /\ Len(t) = n
  BY <1>2
<1> HIDE DEF u, t, n, d, p, key
<1>9. \A i \in 1..(n + 1) : i = n + 1 \/ i = n \/ i \in 1..(n - 1)
  BY <1>5
<1>10. \A x, y : fund(x) = fund(y) => x = y
  BY DEF fund
<1>11. u[n].time = t[n].time /\ u[n] = row /\ funds_left(p, t[n].time) = taken
  <2>1. u[n] = row /\ row.time = t[n].time
    BY <1>2, <1>3
  <2>2. funds_left(p, t[n].time) = taken
    BY <1>7, <1>8 DEF funds_left
  <2> QED
    BY <2>1, <2>2
<1>12. Funded(t, d, member) => Funded(u, p, member)
  <2> SUFFICES ASSUME Funded(t, d, member), NEW i \in 1..(n + 1)
               PROVE  RowFunded(u[i], funds_left(p, u[i].time), member)
    BY <1>3 DEF Funded
  <2>1. CASE i = n + 1
    BY <1>6, <2>1 DEF RowFunded
  <2>2. CASE i = n
    <3>1. RowFunded(row, taken, member) /\ u[i] = row /\ u[i].time = t[n].time
      BY <1>11, <2>2
    <3> QED
      BY <1>11, <3>1
  <2>3. CASE i \in 1..(n - 1)
    <3>1. u[i] = t[i] /\ i \in 1..n
      <4>1. i \in 1..n
        BY <1>5, <2>3
      <4> QED
        BY <1>3, <2>3, <4>1
    <3>2. RowFunded(t[i], funds_left(d, t[i].time), member)
      BY <1>8, <3>1 DEF Funded
    <3>3. t[i].time # t[n].time
      <4>1. t[i].time < t[n].time /\ t[i].time \in Int /\ t[n].time \in Int
        BY <1>5, <2>3
      <4> DEFINE x == t[i].time
                 y == t[n].time
      <4> HIDE DEF x, y
      <4>2. x # y
        BY <4>1 DEF x, y
      <4> QED
        BY <4>2 DEF x, y
    <3>4. fund(t[i].time) # key
      BY <1>8, <1>10, <3>3
    <3>5. funds_left(p, t[i].time) = funds_left(d, t[i].time)
      BY <1>7, <3>4 DEF funds_left
    <3> QED
      BY <3>1, <3>2, <3>5
  <2> QED
    BY <1>9, <2>1, <2>2, <2>3
<1>13. Backed(d, t) => Backed(p, u)
  <2> SUFFICES ASSUME Backed(d, t), NEW k \in DOMAIN p, k[1] = contract
               PROVE  k[3] = 0 /\ \E i \in 1..(n + 1) : u[i].time = k[2] /\ u[i].type # "next"
    BY <1>3 DEF Backed
  <2>1. CASE k \in DOMAIN d
    <3>1. k[3] = 0 /\ \E i \in 1..n : t[i].time = k[2] /\ t[i].type # "next"
      BY <1>8, <2>1 DEF Backed
    <3>2. PICK i \in 1..n : t[i].time = k[2] /\ t[i].type # "next"
      BY <3>1
    <3>3. i \in 1..(n - 1) /\ i \in 1..(n + 1)
      BY <1>5, <3>2
    <3>4. u[i] = t[i]
      BY <1>3, <3>3
    <3> QED
      BY <3>1, <3>2, <3>3, <3>4
  <2>2. CASE k = key
    <3>1. k[2] = t[n].time /\ k[3] = 0
      BY <1>8, <2>2 DEF fund
    <3>2. n \in 1..(n + 1)
      BY <1>5
    <3> QED
      BY <1>11, <3>1, <3>2
  <2> QED
    BY <1>7, <2>1, <2>2
<1>14. Untouched(t) => Untouched(u)
  <2> SUFFICES ASSUME Untouched(t), NEW i \in 1..(n + 1), u[i].type = "current" PROVE u[i].last_processed = 0
    BY <1>3 DEF Untouched
  <2>1. CASE i = n
    BY <1>11, <2>1
  <2>2. CASE i \in 1..(n - 1)
    <3>1. u[i] = t[i] /\ i \in 1..n
      <4>1. i \in 1..n
        BY <1>5, <2>2
      <4> QED
        BY <1>3, <2>2, <4>1
    <3> QED
      BY <1>8, <3>1 DEF Untouched
  <2> QED
    BY <1>6, <1>9, <2>1, <2>2
<1>15. election = none /\ NoneCurrent(t) => NoneCurrent(u)
  <2> SUFFICES ASSUME election = none, NoneCurrent(t), NEW i \in 1..(n + 1) PROVE u[i].type # "current"
    BY <1>3 DEF NoneCurrent
  <2>1. CASE i = n
    BY <1>11, <2>1
  <2>2. CASE i \in 1..(n - 1)
    <3>1. u[i] = t[i] /\ i \in 1..n
      <4>1. i \in 1..n
        BY <1>5, <2>2
      <4> QED
        BY <1>3, <2>2, <4>1
    <3> QED
      BY <1>8, <3>1 DEF NoneCurrent
  <2> QED
    BY <1>6, <1>9, <2>1, <2>2
<1>16. Payable(c, election)
  <2>1. last_row(c).time = time
    BY <1>3, <1>4, <1>6 DEF last_row
  <2> QED
    BY <1>2, <1>5, <2>1 DEF Payable
<1> QED
  BY <1>4, <1>12, <1>13, <1>14, <1>15, <1>16 DEF FundsKept, t, d

LEMMA FundsOnce ==
  ASSUME NEW b, BooksInv(b), due(b), NEW election \in Int, ranks \in Seq(Int), Members(member), Payable(b, election)
  PROVE  FundsKept(b, setup_once(b, election), election) /\ Payable(setup_once(b, election), election)
<1> DEFINE time      == last_row(b).time
           before    == election # none /\ election > time
           cut       == before /\ election < time + Month
           next_time == IF cut THEN election ELSE time + Month
           total     == IF cut
                        THEN ((election - time) * monthly_distribution_pct * b.pool) \div (100 * Month)
                        ELSE (monthly_distribution_pct * b.pool) \div 100
           taken     == IF before THEN distributed(ranks, total) ELSE total
           row       == IF before THEN current_distribution(time, 0, rank_distribution(ranks, total))
                        ELSE election_distribution(time, total)
           moved     == [b EXCEPT !.table = Append(SubSeq(b.table, 1, Len(b.table) - 1), next_distribution(next_time))]
           grown     == [pool  |-> b.pool - taken,
                         table |-> SubSeq(b.table, 1, Len(b.table) - 1) \o <<row, next_distribution(next_time)>>,
                         dist  |-> put(b.dist, <<contract, time, 0>>, taken)]
<1>1. b.table # << >>
  BY DEF due
<1>2. /\ time \in Int /\ next_time \in Int /\ next_time > time /\ taken \in Int /\ total \in Int
      /\ row \in Row /\ row.time = time /\ row.type = IF before THEN "current" ELSE "election"
  BY <1>1, OnceTyped, Zenon
<1>3. setup_once(b, election) = IF total = 0 THEN moved ELSE grown
  BY Zenon DEF setup_once
<1> HIDE DEF next_time, total
<1>4. RowFunded(row, taken, member) /\ row.type # "next" /\ (row.type = "current" => row.last_processed = 0 /\ election # none)
  <2>1. CASE before
    <3>1. Ranks(member, ranks) /\ Len(ranks) >= 2
      BY <1>1, <1>2, <2>1 DEF Payable
    <3>2. row = current_distribution(time, 0, rank_distribution(ranks, total)) /\ taken = distributed(ranks, total)
      BY <2>1, Zenon
    <3>3. RowFunded(current_distribution(time, 0, rank_distribution(ranks, total)), distributed(ranks, total), member)
      BY <1>2, <3>1, NewRowFunded
    <3>4. row.type = "current" /\ row.last_processed = 0
      BY <3>2 DEF current_distribution
    <3>5. RowFunded(row, taken, member)
      BY <3>2, <3>3, Zenon
    <3> QED
      BY <2>1, <3>4, <3>5
  <2>2. CASE ~before
    <3>1. row = election_distribution(time, total) /\ taken = total
      BY <2>2, Zenon
    <3> HIDE DEF row, taken
    <3>2. row.type = "election" /\ row.amount = taken
      BY <3>1 DEF election_distribution
    <3> QED
      BY <3>2 DEF RowFunded
  <2> QED
    BY <2>1, <2>2
<1> HIDE DEF taken, row
<1>5. FundsKept(b, moved, election) /\ Payable(moved, election)
  BY <1>1, <1>2, MovedFunds
<1>6. FundsKept(b, grown, election) /\ Payable(grown, election)
  BY <1>1, <1>2, <1>4, GrownFunds
<1> HIDE DEF moved, grown
<1> QED
  BY <1>3, <1>5, <1>6

LEMMA LoopFunds ==
  ASSUME NEW b, BooksInv(b), NEW election \in Int, now \in Int, ranks \in Seq(Int), Waiting(b.table, election),
         Members(member), Payable(b, election)
  PROVE  FundsKept(b, setup_loop(b, election), election)
<1> DEFINE f == setup_turns(b, election)
           P == {n \in Nat : n \in 0..(Horizon + 1) => FundsKept(b, f[n], election) /\ Payable(f[n], election)}
<1>1. \A i \in 0..(Horizon + 1) : f[i] = IF i = 0 THEN b ELSE turn(f[i - 1], election)
  BY TurnsDefined
<1>2. Horizon \in Nat
  BY TreasuryAssumption
<1>3. FundsKept(b, b, election)
  BY FundsKeptSame
<1>4. \A n \in 0..(Horizon + 1) : SetUp(b, f[n], election)
  BY TurnsKeep
<1>5. setup_loop(b, election) = (IF due(b) THEN f[Horizon + 1] ELSE b) /\ Horizon + 1 \in 0..(Horizon + 1)
  BY LoopTurns
<1> HIDE DEF f
<1>6. 0 \in P
  <2>1. 0 \in 0..(Horizon + 1)
    BY <1>2
  <2>2. f[0] = b
    BY <1>1, <2>1
  <2> QED
    BY <1>3, <2>2
<1>7. ASSUME NEW n \in P PROVE n + 1 \in P
  <2>1. n + 1 \in Nat
    OBVIOUS
  <2> SUFFICES ASSUME n + 1 \in 0..(Horizon + 1)
               PROVE  FundsKept(b, f[n + 1], election) /\ Payable(f[n + 1], election)
    BY <2>1
  <2>2. n \in 0..(Horizon + 1) /\ n + 1 # 0 /\ (n + 1) - 1 = n
    BY <1>2
  <2>3. f[n + 1] = turn(f[n], election)
    BY <1>1, <2>2
  <2>4. FundsKept(b, f[n], election) /\ Payable(f[n], election)
    BY <2>2
  <2>5. BooksInv(f[n])
    BY <1>4, <2>2 DEF SetUp
  <2>6. CASE due(f[n])
    <3>1. FundsKept(f[n], setup_once(f[n], election), election) /\ Payable(setup_once(f[n], election), election)
      BY <2>4, <2>5, <2>6, FundsOnce
    <3>2. f[n + 1] = setup_once(f[n], election)
      BY <2>3, <2>6 DEF turn
    <3> QED
      BY <2>4, <3>1, <3>2, FundsKeptFurther
  <2>7. CASE ~due(f[n])
    BY <2>3, <2>4, <2>7 DEF turn
  <2> QED
    BY <2>6, <2>7
<1>8. FundsKept(b, f[Horizon + 1], election)
  <2>1. P \in SUBSET Nat
    OBVIOUS
  <2>2. Horizon + 1 \in Nat
    BY <1>2
  <2>3. Horizon + 1 \in P
    <3> HIDE DEF P
    <3> QED
      BY <1>6, <1>7, <2>1, <2>2, NaturalsAll
  <2> QED
    BY <1>5, <2>3
<1> QED
  BY <1>3, <1>5, <1>8

-----------------------------------------------------------------------------
(***************************************************************************)
(* The invariant.                                                          *)
(***************************************************************************)
Ranked == phase = "scheduled" => RanksCounted(member, ranks) /\ (table # << >> => Len(ranks) >= 2)

Quiet == phase = "voting" => NoneCurrent(table)

FInv == Ranked /\ Funded(table, dist, member) /\ Backed(dist, table) /\ Quiet

LEMMA MembersNow ==
  ASSUME TInv
  PROVE  Members(member) /\ (RanksCounted(member, ranks) => Ranks(member, ranks))
<1>1. Members(member) /\ ranks \in Seq(Int)
  BY DEF TInv, Types, Members
<1>2. IsFiniteSet(DOMAIN member)
  BY <1>1, MembersTyped
<1> QED
  BY <1>1, <1>2 DEF Ranks, Members

\* What setting up leaves.
LEMMA FundsSetUp ==
  ASSUME TInv, FInv, NEW b, b = setup_distribution(books)
  PROVE  /\ Funded(b.table, b.dist, member) /\ Backed(b.dist, b.table)
         /\ phase = "voting" => NoneCurrent(b.table)
         /\ Untouched(table) => Untouched(b.table)
         /\ table = << >> => b.table = << >>
<1>1. books.table = table /\ books.dist = dist
  BY DEF books
<1>2. next_election_time \in Int /\ now \in Int /\ ranks \in Seq(Int)
  BY DEF TInv, Types, next_election_time, none
<1>3. BooksInv(books) /\ Waiting(books.table, next_election_time)
  BY DEF TInv, Kept, Awaited, books
<1>4. Payable(books, next_election_time)
  <2> SUFFICES ASSUME table # << >>, next_election_time # none
               PROVE  Ranks(member, ranks) /\ Len(ranks) >= 2
    BY <1>1 DEF Payable
  <2>1. phase = "scheduled"
    BY DEF next_election_time
  <2> QED
    BY <2>1, MembersNow DEF FInv, Ranked
<1>5. FundsKept(books, b, next_election_time)
  <2>1. Members(member)
    BY MembersNow
  <2> QED
    BY <1>2, <1>3, <1>4, <2>1, LoopFunds DEF setup_distribution
<1>6. phase = "voting" => NoneCurrent(b.table)
  <2>1. phase = "voting" => next_election_time = none /\ NoneCurrent(table)
    BY DEF next_election_time, FInv, Quiet
  <2> QED
    BY <1>1, <1>5, <2>1 DEF FundsKept
<1>7. table = << >> => b.table = << >>
  <2> SUFFICES ASSUME table = << >> PROVE b.table = << >>
    OBVIOUS
  <2>1. ~due(books)
    BY <1>1 DEF due
  <2>2. b = books
    BY <2>1, Zenon DEF setup_distribution, setup_loop
  <2> QED
    BY <1>1, <2>2
<1>8. Funded(table, dist, member) /\ Backed(dist, table)
  BY DEF FInv
<1> QED
  BY <1>1, <1>5, <1>6, <1>7, <1>8 DEF FundsKept

LEMMA StoredFunds ==
  ASSUME TInv, FInv, elections_unchanged, NEW b, b = setup_distribution(books), table' = b.table, dist' = b.dist
  PROVE  FInv'
<1>1. phase' = phase /\ member' = member /\ ranks' = ranks
  BY DEF elections_unchanged
<1>2. /\ Funded(b.table, b.dist, member) /\ Backed(b.dist, b.table)
      /\ phase = "voting" => NoneCurrent(b.table)
      /\ table = << >> => b.table = << >>
  BY FundsSetUp
<1>3. Ranked' /\ Quiet'
  BY <1>1, <1>2 DEF FInv, Ranked, Quiet
<1>4. Funded(table, dist, member)' /\ Backed(dist, table)'
  BY <1>1, <1>2
<1> QED
  BY <1>3, <1>4 DEF FInv

LEMMA DonationFunds ==
  ASSUME TInv, FInv, NEW q \in Amounts, donation(q) \/ \E a \in Account : donate(a, q)
  PROVE  FInv'
<1> DEFINE b == setup_distribution(books)
<1>1. store(add_to_pool(books, q)) /\ elections_unchanged
  BY DEF donation, donate
<1>2. BooksTyped(b)
  BY SetUpNow DEF SetUp, BooksInv
<1>3. add_to_pool(books, q) = [b EXCEPT !.pool = @ + q]
  BY DEF add_to_pool
<1> HIDE DEF b
<1>4. table' = b.table /\ dist' = b.dist
  BY <1>1, <1>2, <1>3 DEF store, BooksTyped
<1>5. b = setup_distribution(books)
  BY DEF b
<1> QED
  BY <1>1, <1>4, <1>5, StoredFunds

LEMMA SetUpDueFunds ==
  ASSUME TInv, FInv, setup_due
  PROVE  FInv'
<1> DEFINE b == setup_distribution(books)
<1>1. store(b) /\ elections_unchanged
  BY DEF setup_due
<1>2. table' = b.table /\ dist' = b.dist
  BY <1>1 DEF store
<1> QED
  BY <1>1, <1>2, StoredFunds

\* Transfers that leave distributions alone.
LEMMA SameFunds ==
  ASSUME FInv, table' = table, dist' = dist, member' = member, phase' = phase, ranks' = ranks
  PROVE  FInv'
BY DEF FInv, Ranked, Quiet

LEMMA OtherFunds ==
  ASSUME FInv, \/ \E a \in Account, q \in Amounts : deposit(a, q) \/ withdraw(a, q)
               \/ \E a, c \in Account, q \in Amounts : usertransfer(a, c, q)
               \/ Tick
               \/ \E time \in (now + 1)..(now + MaxLead) : reschedule(time)
  PROVE  FInv'
<1>1. table' = table /\ dist' = dist /\ member' = member /\ phase' = phase /\ ranks' = ranks
  BY DEF deposit, withdraw, usertransfer, Tick, reschedule, books_unchanged, elections_unchanged
<1> QED
  BY <1>1, SameFunds

-----------------------------------------------------------------------------
(***************************************************************************)
(* Payments.                                                               *)
(***************************************************************************)
LEMMA FundKey ==
  /\ \A x : fund(x)[1] = contract /\ fund(x)[2] = x /\ fund(x)[3] = 0
  /\ \A x, y : fund(x) = fund(y) => x = y
BY DEF fund

LEMMA KeyOfFund ==
  ASSUME NEW k \in Owner \X Int \X Int, k[1] = contract, k[3] = 0
  PROVE  k = fund(k[2])
BY KeyTyped DEF fund

LEMMA TakeAt ==
  ASSUME NEW d, NEW key \in DOMAIN d, d[key] \in Int, NEW amount \in Int
  PROVE  /\ \A k : k # key => (k \in DOMAIN take(d, key, amount) <=> k \in DOMAIN d)
         /\ \A k \in DOMAIN d : k # key => take(d, key, amount)[k] = d[k]
         /\ DOMAIN take(d, key, amount) \subseteq DOMAIN d
         /\ key \in DOMAIN take(d, key, amount) => d[key] = amount + take(d, key, amount)[key]
         /\ key \notin DOMAIN take(d, key, amount) => d[key] = amount
<1>1. CASE d[key] = amount
  <2>1. take(d, key, amount) = drop(d, {key})
    BY <1>1 DEF take
  <2> QED
    BY <1>1, <2>1 DEF drop
<1>2. CASE d[key] # amount
  <2>1. take(d, key, amount) = [d EXCEPT ![key] = @ - amount]
    BY <1>2 DEF take
  <2>2. d[key] \in Int
    OBVIOUS
  <2>3. DOMAIN take(d, key, amount) = DOMAIN d /\ take(d, key, amount)[key] = d[key] - amount
    BY <2>1
  <2>4. \A k \in DOMAIN d : k # key => take(d, key, amount)[k] = d[k]
    BY <2>1
  <2> QED
    BY <2>2, <2>3, <2>4
<1> QED
  BY <1>1, <1>2

\* Accounts of the contract are those of rows of the same times.
LEMMA BackedSame ==
  ASSUME NEW e, NEW d, NEW t, Backed(d, t), DOMAIN e \subseteq DOMAIN d \/ \A k \in DOMAIN e : k \in DOMAIN d \/ k[1] # contract
  PROVE  Backed(e, t)
BY DEF Backed

LEMMA FundTransferFunds ==
  ASSUME TInv, FInv, NEW key \in DOMAIN dist, NEW to \in Account, NEW q \in Amounts, fundtransfer(key, to, q)
  PROVE  FInv'
<1>1. /\ key[1] \in DOMAIN member /\ dist' = take(dist, key, q) /\ table' = table /\ elections_unchanged
  BY DEF fundtransfer
<1>2. phase' = phase /\ member' = member /\ ranks' = ranks
  BY <1>1 DEF elections_unchanged
<1>3. key[1] # contract
  BY <1>1, MembersNow, MembersTyped
<1>4. q \in Int /\ dist[key] \in Int
  BY QuantityTyped, TotalTyped
<1> DEFINE e == take(dist, key, q)
<1>5. /\ \A k : k # key => (k \in DOMAIN e <=> k \in DOMAIN dist)
      /\ \A k \in DOMAIN dist : k # key => e[k] = dist[k]
      /\ DOMAIN e \subseteq DOMAIN dist
  BY <1>4, TakeAt
<1> HIDE DEF e
<1>6. \A x : funds_left(e, x) = funds_left(dist, x)
  <2> SUFFICES ASSUME NEW x PROVE funds_left(e, x) = funds_left(dist, x)
    OBVIOUS
  <2>1. fund(x) # key
    BY <1>3, FundKey
  <2> QED
    BY <1>5, <2>1 DEF funds_left
<1>7. Funded(table, e, member)
  BY <1>6 DEF FInv, Funded
<1>8. Backed(e, table)
  BY <1>5, BackedSame DEF FInv
<1>9. Ranked' /\ Quiet'
  BY <1>1, <1>2 DEF FInv, Ranked, Quiet
<1>10. Funded(table, dist, member)' /\ Backed(dist, table)'
  BY <1>1, <1>2, <1>7, <1>8 DEF e
<1> QED
  BY <1>9, <1>10 DEF FInv

\* A member less is to be paid.
OneLess(d, mb, e, mc, m) ==
  /\ m \in to_pay(d, mb) /\ to_pay(e, mc) = to_pay(d, mb) \ {m}
  /\ e.rank_distribution = d.rank_distribution
  /\ \A x \in to_pay(e, mc) : mc[x] = mb[x]

PaysRanks(d, mb) == \A m \in to_pay(d, mb) : 1..mb[m] \subseteq DOMAIN d.rank_distribution

LEMMA DuesTyped ==
  ASSUME NEW mb, Members(mb), NEW d, d.rank_distribution \in Shares, PaysRanks(d, mb)
  PROVE  IsFiniteSet(to_pay(d, mb)) /\ \A m \in to_pay(d, mb) : dues(d, mb)[m] = pay(d, mb[m]) /\ dues(d, mb)[m] \in Int
<1>1. IsFiniteSet(DOMAIN mb) /\ to_pay(d, mb) \in SUBSET DOMAIN mb /\ \A m \in DOMAIN mb : mb[m] \in Nat
  BY MembersTyped DEF to_pay
<1>2. IsFiniteSet(to_pay(d, mb))
  BY <1>1, FS_Subset
<1>3. ASSUME NEW m \in to_pay(d, mb) PROVE dues(d, mb)[m] = pay(d, mb[m]) /\ dues(d, mb)[m] \in Int
  <2> DEFINE s == d.rank_distribution
             R == 1..mb[m]
  <2>1. dues(d, mb)[m] = SumFunctionOnSet(s, R) /\ dues(d, mb)[m] = pay(d, mb[m])
    BY DEF dues, pay
  <2>2. IsFiniteSet(R)
    <3>1. mb[m] \in Nat
      BY <1>1
    <3> QED
      BY <3>1, FS_Interval
  <2>3. R \subseteq DOMAIN s
    BY DEF PaysRanks
  <2> HIDE DEF R, s
  <2>4. \A x \in R : s[x] \in Int
    <3>1. PICK K \in SUBSET Int : s \in [K -> Int]
      BY DEF Shares, s
    <3> QED
      BY <2>3, <3>1
  <2>5. SumFunctionOnSet(s, R) \in Int
    BY <2>2, <2>4, SumType
  <2> QED
    BY <2>1, <2>5
<1> QED
  BY <1>2, <1>3

LEMMA DueRemoved ==
  ASSUME NEW mb, Members(mb), NEW d, d.rank_distribution \in Shares, PaysRanks(d, mb),
         NEW e, NEW mc, NEW m, OneLess(d, mb, e, mc, m)
  PROVE  /\ SumFunctionOnSet(dues(d, mb), to_pay(d, mb)) = pay(d, mb[m]) + SumFunctionOnSet(dues(e, mc), to_pay(e, mc))
         /\ pay(d, mb[m]) \in Int /\ SumFunctionOnSet(dues(e, mc), to_pay(e, mc)) \in Int
<1> DEFINE S == to_pay(d, mb)
           T == to_pay(e, mc)
           f == dues(d, mb)
           g == dues(e, mc)
<1>1. IsFiniteSet(S) /\ \A x \in S : f[x] = pay(d, mb[x]) /\ f[x] \in Int
  BY DuesTyped
<1>2. m \in S /\ T = S \ {m} /\ e.rank_distribution = d.rank_distribution /\ \A x \in T : mc[x] = mb[x]
  BY DEF OneLess
<1>3. \A x \in T : g[x] = f[x]
  <2> SUFFICES ASSUME NEW x \in T PROVE g[x] = f[x]
    OBVIOUS
  <2>1. g[x] = pay(e, mc[x]) /\ mc[x] = mb[x] /\ x \in S
    BY <1>2 DEF dues
  <2>2. f[x] = pay(d, mb[x])
    BY <1>1, <2>1
  <2>3. pay(e, mb[x]) = pay(d, mb[x])
    BY <1>2 DEF pay
  <2> QED
    BY <2>1, <2>2, <2>3
<1> HIDE DEF S, T, f, g
<1>4. SumFunctionOnSet(f, S) = f[m] + SumFunctionOnSet(f, S \ {m})
  BY <1>1, <1>2, SumRemove
<1>5. SumFunctionOnSet(f, S \ {m}) = SumFunctionOnSet(f, T)
  BY <1>2, Zenon
<1>6. IsFiniteSet(T) /\ \A x \in T : f[x] \in Int
  BY <1>1, <1>2, FS_Subset
<1>7. SumFunctionOnSet(g, T) = SumFunctionOnSet(f, T) /\ SumFunctionOnSet(f, T) \in Int
  <2>1. SumFunctionOnSet(f, T) \in Int
    BY <1>6, SumType
  <2> QED
    BY <1>3, <1>6, <2>1, SumSame
<1> QED
  BY <1>1, <1>2, <1>4, <1>5, <1>7 DEF S, T, f, g

\* The account of a row after one member was paid, ...
LEMMA RowLess ==
  ASSUME NEW mb, Members(mb), NEW d \in Row, d.type = "current", NEW left, RowFunded(d, left, mb),
         NEW e, e.type = "current", NEW mc, NEW m, OneLess(d, mb, e, mc, m),
         NEW rest \in Int, left = pay(d, mb[m]) + rest
  PROVE  RowFunded(e, rest, mc)
<1>1. d.rank_distribution \in Shares
  BY RowFacts
<1>2. PaysRanks(d, mb) /\ left = SumFunctionOnSet(dues(d, mb), to_pay(d, mb))
  BY DEF RowFunded, PaysRanks
<1>3. /\ SumFunctionOnSet(dues(d, mb), to_pay(d, mb)) = pay(d, mb[m]) + SumFunctionOnSet(dues(e, mc), to_pay(e, mc))
      /\ pay(d, mb[m]) \in Int /\ SumFunctionOnSet(dues(e, mc), to_pay(e, mc)) \in Int
  BY <1>1, <1>2, DueRemoved
<1>4. rest = SumFunctionOnSet(dues(e, mc), to_pay(e, mc))
  <2> DEFINE x == pay(d, mb[m])
             y == SumFunctionOnSet(dues(e, mc), to_pay(e, mc))
  <2>1. x + rest = x + y /\ x \in Int /\ y \in Int
    BY <1>2, <1>3
  <2> HIDE DEF x, y
  <2>2. rest = y
    BY <2>1
  <2> QED
    BY <2>2 DEF y
<1>5. \A x \in to_pay(e, mc) : 1..mc[x] \subseteq DOMAIN e.rank_distribution
  <2>1. \A x \in to_pay(e, mc) : x \in to_pay(d, mb) /\ mc[x] = mb[x]
    BY DEF OneLess
  <2>2. e.rank_distribution = d.rank_distribution
    BY DEF OneLess
  <2> QED
    BY <1>2, <2>1, <2>2 DEF PaysRanks
<1> QED
  BY <1>4, <1>5 DEF RowFunded

\* ... and after one joined who gets nothing.
LEMMA RowMore ==
  ASSUME NEW mb, Members(mb), NEW d \in Row, d.type = "current", NEW left, RowFunded(d, left, mb),
         NEW mc, Members(mc), NEW m, OneLess(d, mc, d, mb, m), mc[m] = 0
  PROVE  RowFunded(d, left, mc)
<1>1. d.rank_distribution \in Shares
  BY RowFacts
<1>2. PaysRanks(d, mb) /\ left = SumFunctionOnSet(dues(d, mb), to_pay(d, mb))
  BY DEF RowFunded, PaysRanks
<1>3. m \in to_pay(d, mc) /\ to_pay(d, mb) = to_pay(d, mc) \ {m} /\ \A x \in to_pay(d, mb) : mb[x] = mc[x]
  BY DEF OneLess
<1>4. 1..0 = {}
  OBVIOUS
<1>5. PaysRanks(d, mc)
  <2> SUFFICES ASSUME NEW x \in to_pay(d, mc) PROVE 1..mc[x] \subseteq DOMAIN d.rank_distribution
    BY DEF PaysRanks
  <2>1. CASE x = m
    BY <1>4, <2>1
  <2>2. CASE x # m
    BY <1>2, <1>3, <2>2 DEF PaysRanks
  <2> QED
    BY <2>1, <2>2
<1>6. /\ SumFunctionOnSet(dues(d, mc), to_pay(d, mc)) = pay(d, mc[m]) + SumFunctionOnSet(dues(d, mb), to_pay(d, mb))
      /\ SumFunctionOnSet(dues(d, mb), to_pay(d, mb)) \in Int
  BY <1>1, <1>5, DueRemoved
<1>7. pay(d, mc[m]) = 0
  <2>1. pay(d, mc[m]) = SumFunctionOnSet(d.rank_distribution, 1..0)
    BY DEF pay
  <2>2. SumFunctionOnSet(d.rank_distribution, 1..0) = SumFunctionOnSet(d.rank_distribution, {})
    BY <1>4, Zenon
  <2> QED
    BY <2>1, <2>2, SumEmpty
<1>8. left = SumFunctionOnSet(dues(d, mc), to_pay(d, mc))
  BY <1>2, <1>6, <1>7
<1> QED
  BY <1>5, <1>8 DEF RowFunded, PaysRanks

\* ... and after a change that does not concern those who are to be paid.
LEMMA RowSame ==
  ASSUME NEW mb, NEW d, NEW left, RowFunded(d, left, mb), NEW mc, to_pay(d, mc) = to_pay(d, mb),
         \A x \in to_pay(d, mb) : mc[x] = mb[x]
  PROVE  RowFunded(d, left, mc)
<1>1. dues(d, mc) = dues(d, mb)
  BY DEF dues
<1>2. SumFunctionOnSet(dues(d, mc), to_pay(d, mc)) = SumFunctionOnSet(dues(d, mb), to_pay(d, mb))
  BY <1>1, Zenon
<1> QED
  BY <1>2 DEF RowFunded

Joined(mb, mc, m) ==
  m \notin DOMAIN mb /\ DOMAIN mc = DOMAIN mb \cup {m} /\ mc[m] = 0 /\ \A x \in DOMAIN mb : mc[x] = mb[x]

LEMMA RowJoined ==
  ASSUME NEW mb, Members(mb), NEW mc, Members(mc), NEW m, Joined(mb, mc, m),
         NEW d \in Row, NEW left, RowFunded(d, left, mb)
  PROVE  RowFunded(d, left, mc)
<1>1. CASE d.type # "current"
  BY <1>1 DEF RowFunded
<1>2. CASE d.type = "current" /\ m > d.last_processed
  <2>1. OneLess(d, mc, d, mb, m)
    BY <1>2 DEF OneLess, to_pay, Joined
  <2>2. mc[m] = 0
    BY DEF Joined
  <2> QED
    BY <1>2, <2>1, <2>2, RowMore
<1>3. CASE d.type = "current" /\ ~(m > d.last_processed)
  <2>1. to_pay(d, mc) = to_pay(d, mb) /\ \A x \in to_pay(d, mb) : mc[x] = mb[x]
    BY <1>3 DEF to_pay, Joined
  <2> QED
    BY <2>1, RowSame
<1> QED
  BY <1>1, <1>2, <1>3

LEMMA InductedFunds ==
  ASSUME TInv, FInv, NEW m \in Account, inducted(m)
  PROVE  FInv'
<1>1. /\ m \notin DOMAIN member /\ phase' = phase /\ ranks' = ranks /\ table' = table /\ dist' = dist
      /\ member' = [x \in DOMAIN member \cup {m} |-> IF x = m THEN 0 ELSE member[x]]
  BY DEF inducted, books_unchanged
<1> DEFINE mc == [x \in DOMAIN member \cup {m} |-> IF x = m THEN 0 ELSE member[x]]
<1>2. DOMAIN mc = DOMAIN member \cup {m} /\ mc[m] = 0 /\ \A x \in DOMAIN member : mc[x] = member[x]
  BY <1>1
<1> HIDE DEF mc
<1>3. Members(member)
  BY MembersNow
<1>4. Members(mc)
  BY <1>2, <1>3 DEF Members
<1>5. RanksCounted(member, ranks) => RanksCounted(mc, ranks)
  <2> SUFFICES ASSUME RanksCounted(member, ranks) PROVE RanksCounted(mc, ranks)
    OBVIOUS
  <2>1. \A r \in 1..(Len(ranks) - 1) : of_rank(mc, r) = of_rank(member, r)
    <3> SUFFICES ASSUME NEW r \in 1..(Len(ranks) - 1) PROVE of_rank(mc, r) = of_rank(member, r)
      OBVIOUS
    <3>1. r # 0
      OBVIOUS
    <3> QED
      BY <1>1, <1>2, <3>1 DEF of_rank
  <2>2. \A x \in DOMAIN mc : mc[x] > 0 => mc[x] + 1 <= Len(ranks)
    BY <1>2 DEF RanksCounted
  <2> QED
    BY <2>1, <2>2 DEF RanksCounted
<1>6. Funded(table, dist, mc)
  <2> SUFFICES ASSUME NEW i \in 1..Len(table)
               PROVE  RowFunded(table[i], funds_left(dist, table[i].time), mc)
    BY DEF Funded
  <2>1. RowFunded(table[i], funds_left(dist, table[i].time), member)
    BY DEF FInv, Funded
  <2>2. table[i] \in Row
    BY TotalTyped, LenProperties
  <2>3. Joined(member, mc, m)
    BY <1>1, <1>2 DEF Joined
  <2> QED
    BY <1>3, <1>4, <2>1, <2>2, <2>3, RowJoined
<1>7. Ranked' /\ Quiet' /\ Backed(dist, table)'
  BY <1>1, <1>5 DEF FInv, Ranked, Quiet, mc
<1>8. Funded(table, dist, member)'
  BY <1>1, <1>6 DEF mc
<1> QED
  BY <1>7, <1>8 DEF FInv

\* pay_member takes from the account of the distribution what the member is due.
LEMMA PaidLeft ==
  ASSUME TInv, NEW m \in DOMAIN member, pay_member(m)
  PROVE  /\ \A k \in DOMAIN dist' : k[1] = contract => k \in DOMAIN dist
         /\ \A x : x # table[1].time => funds_left(dist', x) = funds_left(dist, x)
         /\ funds_left(dist, table[1].time) = pay(table[1], member[m]) + funds_left(dist', table[1].time)
         /\ funds_left(dist', table[1].time) \in Int
<1> DEFINE d       == table[1]
           account == <<contract, d.time, 0>>
           amount  == pay(d, member[m])
           funds   == {<<m, d.time, r>> : r \in 1..member[m]}
           paid    == [k \in DOMAIN dist \cup funds |->
                         IF k \in funds THEN d.rank_distribution[k[3]] ELSE dist[k]]
<1>1. /\ has_current(table) /\ 1..member[m] \subseteq DOMAIN d.rank_distribution
      /\ IF account \in DOMAIN dist
         THEN dist[account] >= amount /\ dist' = take(paid, account, amount)
         ELSE amount = 0 /\ dist' = paid
  BY Zenon DEF pay_member
<1>2. m # contract /\ member[m] \in Nat
  BY MembersNow, MembersTyped
<1>3. \A k \in funds : k[1] # contract
  BY <1>2
<1>4. d \in Row /\ d.type = "current"
  <2>1. table \in [1..Len(table) -> Row] /\ Len(table) \in Nat /\ Len(table) >= 1 /\ d.type = "current"
    BY <1>1, TotalTyped, LenProperties, EmptySeq DEF has_current
  <2>2. 1 \in 1..Len(table)
    BY <2>1
  <2> QED
    BY <2>1, <2>2
<1>5. amount \in Int
  <2> DEFINE s == d.rank_distribution
             R == 1..member[m]
  <2>1. IsFiniteSet(R)
    BY <1>2, FS_Interval
  <2>2. s \in Shares /\ R \subseteq DOMAIN s
    BY <1>1, <1>4, RowFacts
  <2>3. amount = SumFunctionOnSet(s, R)
    BY DEF pay
  <2> HIDE DEF R, s
  <2>4. \A x \in R : s[x] \in Int
    <3>1. PICK K \in SUBSET Int : s \in [K -> Int]
      BY <2>2 DEF Shares
    <3> QED
      BY <2>2, <3>1
  <2>5. SumFunctionOnSet(s, R) \in Int
    BY <2>1, <2>4, SumType
  <2> QED
    BY <2>3, <2>5
<1>6. account = fund(d.time)
  BY DEF fund
<1>7. \A k \in DOMAIN dist : dist[k] \in Int
  BY TotalTyped
<1>8. DOMAIN paid = DOMAIN dist \cup funds /\ \A k \in DOMAIN dist : k \notin funds => paid[k] = dist[k]
  OBVIOUS
<1> HIDE DEF d, account, amount, funds, paid
<1>9. account[1] = contract /\ \A x : fund(x)[1] = contract /\ (fund(x) = account => x = d.time)
  BY <1>6, FundKey
<1>10. \A k : k[1] = contract =>
                (k \in DOMAIN paid <=> k \in DOMAIN dist) /\ (k \in DOMAIN dist => paid[k] = dist[k])
  BY <1>3, <1>8
<1>11. CASE account \in DOMAIN dist
  <2>1. dist' = take(paid, account, amount)
    BY <1>1, <1>11
  <2>2. account \in DOMAIN paid /\ paid[account] = dist[account] /\ paid[account] \in Int
    <3>1. account \in DOMAIN paid /\ paid[account] = dist[account]
      BY <1>9, <1>10, <1>11, Zenon
    <3>2. dist[account] \in Int
      BY <1>7, <1>11
    <3> QED
      BY <3>1, <3>2
  <2>3. /\ \A k : k # account => (k \in DOMAIN dist' <=> k \in DOMAIN paid)
        /\ \A k \in DOMAIN paid : k # account => dist'[k] = paid[k]
        /\ DOMAIN dist' \subseteq DOMAIN paid
        /\ account \in DOMAIN dist' => paid[account] = amount + dist'[account]
        /\ account \notin DOMAIN dist' => paid[account] = amount
    BY <1>5, <2>1, <2>2, TakeAt
  <2>4. \A k \in DOMAIN dist' : k[1] = contract => k \in DOMAIN dist
    BY <1>10, <2>3, Zenon
  <2>5. ASSUME NEW x, x # d.time PROVE funds_left(dist', x) = funds_left(dist, x)
    <3>1. fund(x) # account /\ fund(x)[1] = contract
      BY <1>9, <2>5
    <3>2. (fund(x) \in DOMAIN dist' <=> fund(x) \in DOMAIN dist) /\ (fund(x) \in DOMAIN dist => dist'[fund(x)] = dist[fund(x)])
      BY <1>10, <2>3, <3>1, Zenon
    <3> QED
      BY <3>2 DEF funds_left
  <2>6. funds_left(dist, d.time) = dist[account]
    BY <1>6, <1>11 DEF funds_left
  <2>7. funds_left(dist', d.time) = IF account \in DOMAIN dist' THEN dist'[account] ELSE 0
    BY <1>6 DEF funds_left
  <2>8. account \in DOMAIN dist' => dist'[account] \in Int
    <3>1. TInv'
      BY PayKeeps
    <3>2. \A k \in DOMAIN dist' : dist'[k] \in Int
      BY <3>1 DEF TInv, Kept, BooksInv, BooksTyped, books
    <3> QED
      BY <3>2
  <2>9. funds_left(dist, d.time) = amount + funds_left(dist', d.time) /\ funds_left(dist', d.time) \in Int
    BY <1>5, <2>2, <2>3, <2>6, <2>7, <2>8
  <2> QED
    BY <2>4, <2>5, <2>9 DEF d, amount
<1>12. CASE account \notin DOMAIN dist
  <2>1. dist' = paid /\ amount = 0
    BY <1>1, <1>12
  <2>2. \A x : funds_left(dist', x) = funds_left(dist, x)
    <3> SUFFICES ASSUME NEW x PROVE funds_left(dist', x) = funds_left(dist, x)
      OBVIOUS
    <3>1. /\ fund(x) \in DOMAIN paid <=> fund(x) \in DOMAIN dist
          /\ fund(x) \in DOMAIN dist => paid[fund(x)] = dist[fund(x)]
      BY <1>9, <1>10, Zenon
    <3> QED
      BY <2>1, <3>1 DEF funds_left
  <2>3. funds_left(dist, d.time) = 0
    BY <1>6, <1>12 DEF funds_left
  <2> QED
    <3>1. \A k \in DOMAIN dist' : k[1] = contract => k \in DOMAIN dist
      BY <1>10, <2>1, Zenon
    <3>2. funds_left(dist, d.time) = amount + funds_left(dist', d.time) /\ funds_left(dist', d.time) \in Int
      BY <2>1, <2>2, <2>3
    <3> QED
      BY <2>2, <3>1, <3>2 DEF d, amount
<1> QED
  BY <1>11, <1>12

LEMMA PayFunds ==
  ASSUME TInv, FInv, NEW m \in DOMAIN member, pay_member(m)
  PROVE  FInv'
<1> DEFINE d == table[1]
           n == Len(table)
<1>1. /\ has_current(table) /\ m > d.last_processed
      /\ \A x \in DOMAIN member : x > d.last_processed => m <= x
      /\ table' = [table EXCEPT ![1].last_processed = m] /\ elections_unchanged
  BY Zenon DEF pay_member
<1>2. phase' = phase /\ member' = member /\ ranks' = ranks
  BY <1>1 DEF elections_unchanged
<1>3. table \in Seq(Row) /\ Scheduled(table)
  BY TotalTyped DEF TInv, Kept, BooksInv, books
<1>4. \A x \in DOMAIN member : x \in Int
  BY MembersNow, MembersTyped
<1>5. /\ table' \in Seq(Row) /\ Len(table') = n /\ n \in Nat /\ n >= 1 /\ table' # << >>
      /\ table'[1].type = "current" /\ table'[1].time = d.time /\ table'[1].last_processed = m
      /\ table'[1].rank_distribution = d.rank_distribution
      /\ \A i \in 1..n : i # 1 => table'[i] = table[i]
  <2>1. table' = processed(table, m)
    BY <1>1, Zenon DEF processed
  <2>2. m \in Int /\ has_current(table)
    BY <1>1, <1>4
  <2>3. /\ table' \in Seq(Row) /\ Len(table') = Len(table) /\ Len(table) \in Nat /\ Len(table) >= 1 /\ table' # << >>
        /\ table'[1].type = "current" /\ table'[1].time = table[1].time /\ table'[1].last_processed = m
        /\ table'[1].rank_distribution = table[1].rank_distribution
        /\ \A i \in 1..Len(table) : i # 1 => table'[i] = table[i]
    BY <1>3, <2>1, <2>2, PaidTable
  <2> QED
    BY <2>3
<1>6. d \in Row /\ d.type = "current" /\ 1 \in 1..n /\ table # << >>
  <2>1. table \in [1..n -> Row] /\ d.type = "current" /\ table # << >>
    BY <1>1, <1>3, LenProperties DEF has_current
  <2>2. 1 \in 1..n
    BY <1>5
  <2> QED
    BY <2>1, <2>2
<1>7. d.last_processed \in Int
  BY <1>6, RowFacts
<1>8. /\ \A k \in DOMAIN dist' : k[1] = contract => k \in DOMAIN dist
      /\ \A x : x # d.time => funds_left(dist', x) = funds_left(dist, x)
      /\ funds_left(dist, d.time) = pay(d, member[m]) + funds_left(dist', d.time)
      /\ funds_left(dist', d.time) \in Int
  BY PaidLeft
<1>9. \A i \in 1..n : i # 1 => table[i].time # d.time
  <2> SUFFICES ASSUME NEW i \in 1..n, i # 1 PROVE table[i].time # d.time
    OBVIOUS
  <2>1. 1 < i
    BY <1>5
  <2>2. d.time < table[i].time /\ d.time \in Int
    BY <1>3, <1>6, <2>1, RowFacts DEF Scheduled
  <2> QED
    BY <2>2
<1>10. \A i \in 1..n : RowFunded(table[i], funds_left(dist, table[i].time), member)
  BY DEF FInv, Funded
<1> HIDE DEF d, n
<1>11. RowFunded(table'[1], funds_left(dist', d.time), member)
  <2> DEFINE e == table'[1]
  <2>1. OneLess(d, member, e, member, m)
    <3>1. m \in to_pay(d, member)
      BY <1>1 DEF to_pay
    <3>2. e.last_processed = m /\ e.rank_distribution = d.rank_distribution
      BY <1>5
    <3>3. \A x \in DOMAIN member : x > m <=> (x > d.last_processed /\ x # m)
      <4> SUFFICES ASSUME NEW x \in DOMAIN member PROVE x > m <=> (x > d.last_processed /\ x # m)
        OBVIOUS
      <4>1. x \in Int /\ m \in Int /\ (x > d.last_processed => m <= x) /\ m > d.last_processed
        BY <1>1, <1>4
      <4> QED
        BY <1>7, <4>1
    <3> HIDE DEF e
    <3>4. to_pay(e, member) = to_pay(d, member) \ {m}
      BY <3>2, <3>3 DEF to_pay
    <3> QED
      BY <3>1, <3>2, <3>4 DEF OneLess
  <2>2. Members(member) /\ RowFunded(d, funds_left(dist, d.time), member) /\ e.type = "current"
    BY <1>5, <1>6, <1>10, MembersNow DEF d
  <2> HIDE DEF e
  <2>3. RowFunded(e, funds_left(dist', d.time), member)
    BY <1>6, <1>8, <2>1, <2>2, RowLess
  <2> QED
    BY <2>3 DEF e
<1>12. Funded(table', dist', member)
  <2> SUFFICES ASSUME NEW i \in 1..n PROVE RowFunded(table'[i], funds_left(dist', table'[i].time), member)
    BY <1>5 DEF Funded
  <2>1. CASE i = 1
    <3>1. table'[i] = table'[1] /\ table'[i].time = d.time
      BY <1>5, <2>1
    <3> QED
      BY <1>11, <3>1
  <2>2. CASE i # 1
    <3>1. table'[i] = table[i] /\ funds_left(dist', table[i].time) = funds_left(dist, table[i].time)
      BY <1>5, <1>8, <1>9, <2>2
    <3> QED
      BY <1>10, <3>1
  <2> QED
    BY <2>1, <2>2
<1>13. Backed(dist', table')
  <2> SUFFICES ASSUME NEW k \in DOMAIN dist', k[1] = contract
               PROVE  k[3] = 0 /\ \E i \in 1..n : table'[i].time = k[2] /\ table'[i].type # "next"
    BY <1>5 DEF Backed
  <2>1. k \in DOMAIN dist
    BY <1>8
  <2>2. k[3] = 0 /\ \E i \in 1..n : table[i].time = k[2] /\ table[i].type # "next"
    BY <2>1 DEF FInv, Backed, n
  <2>3. PICK i \in 1..n : table[i].time = k[2] /\ table[i].type # "next"
    BY <2>2
  <2>4. table'[i].time = table[i].time /\ table'[i].type # "next"
    BY <1>5, <2>3 DEF d
  <2> QED
    BY <2>2, <2>3, <2>4
<1>14. Ranked' /\ Quiet'
  <2>1. phase # "voting"
    BY <1>6 DEF FInv, Quiet, NoneCurrent, n, d
  <2> QED
    BY <1>2, <1>6, <2>1 DEF FInv, Ranked, Quiet
<1>15. Funded(table, dist, member)' /\ Backed(dist, table)'
  BY <1>2, <1>12, <1>13
<1> QED
  BY <1>14, <1>15 DEF FInv

LEMMA EndFunds ==
  ASSUME TInv, FInv, end_distribution
  PROVE  FInv'
<1> DEFINE d == table[1]
           keys == {k \in {<<contract, table[1].time, 0>>} \cap DOMAIN dist : dist[k] = 0}
           n == Len(table) - 1
<1>1. /\ has_current(table) /\ dist' = drop(dist, keys) /\ table' = Tail(table) /\ elections_unchanged
      /\ \A x \in DOMAIN member : x <= d.last_processed
  BY Zenon DEF end_distribution
<1>2. phase' = phase /\ member' = member /\ ranks' = ranks
  BY <1>1 DEF elections_unchanged
<1>3. table \in Seq(Row) /\ Scheduled(table) /\ DOMAIN dist \subseteq Owner \X Int \X Int
  BY TotalTyped DEF TInv, Kept, BooksInv, books
<1>4. /\ n \in Nat /\ Len(table) = n + 1 /\ n >= 1 /\ Len(table') = n /\ table' # << >>
      /\ \A i \in 1..n : i + 1 \in 1..Len(table) /\ table'[i] = table[i + 1]
  <2>1. /\ Tail(table) \in Seq(Row) /\ Len(table) \in Nat /\ Len(table) >= 2 /\ Len(Tail(table)) = Len(table) - 1
        /\ Tail(table) # << >>
        /\ \A i \in 1..(Len(table) - 1) : i + 1 \in 1..Len(table) /\ Tail(table)[i] = table[i + 1]
    BY <1>1, <1>3, TailTable
  <2> QED
    BY <1>1, <2>1
<1>5. d \in Row /\ d.type = "current" /\ 1 \in 1..Len(table) /\ table # << >>
  <2>1. table \in [1..Len(table) -> Row] /\ d.type = "current" /\ table # << >>
    BY <1>1, <1>3, LenProperties DEF has_current
  <2>2. 1 \in 1..Len(table)
    BY <1>4
  <2> QED
    BY <2>1, <2>2
<1>6. funds_left(dist, d.time) = 0
  <2>1. RowFunded(d, funds_left(dist, d.time), member)
    BY <1>5 DEF FInv, Funded
  <2>2. \A x \in DOMAIN member : x \in Int
    BY MembersNow, MembersTyped
  <2>3. d.last_processed \in Int
    BY <1>5, RowFacts
  <2> HIDE DEF d
  <2>4. to_pay(d, member) = {}
    BY <1>1, <2>2, <2>3 DEF to_pay
  <2>5. funds_left(dist, d.time) = SumFunctionOnSet(dues(d, member), to_pay(d, member))
    BY <1>5, <2>1 DEF RowFunded
  <2>6. SumFunctionOnSet(dues(d, member), to_pay(d, member)) = SumFunctionOnSet(dues(d, member), {})
    BY <2>4, Zenon
  <2> QED
    BY <2>5, <2>6, SumEmpty
<1>7. fund(d.time) \notin DOMAIN dist'
  <2>1. fund(d.time) = <<contract, table[1].time, 0>>
    BY DEF fund
  <2>2. fund(d.time) \in DOMAIN dist => fund(d.time) \in keys
    <3>1. fund(d.time) \in DOMAIN dist => dist[fund(d.time)] = 0
      BY <1>6 DEF funds_left
    <3> QED
      BY <2>1, <3>1
  <2> HIDE DEF keys
  <2> QED
    BY <1>1, <2>2 DEF drop
<1>8. \A k : k # fund(d.time) => (k \in DOMAIN dist' <=> k \in DOMAIN dist)
  <2>1. \A k \in keys : k = fund(d.time)
    BY DEF fund
  <2> HIDE DEF keys
  <2> QED
    BY <1>1, <2>1 DEF drop
<1>9. \A k \in DOMAIN dist' : k \in DOMAIN dist /\ dist'[k] = dist[k]
  <2> HIDE DEF keys
  <2> QED
    BY <1>1 DEF drop
<1>10. \A i \in 1..n : table[i + 1].time # d.time
  <2> SUFFICES ASSUME NEW i \in 1..n PROVE table[i + 1].time # d.time
    OBVIOUS
  <2>1. 1 < i + 1 /\ i + 1 \in 1..Len(table)
    BY <1>4
  <2>2. d.time < table[i + 1].time /\ d.time \in Int
    BY <1>3, <1>5, <2>1, RowFacts DEF Scheduled
  <2> QED
    BY <2>2
<1> HIDE DEF d, n, keys
<1>11. Funded(table', dist', member)
  <2> SUFFICES ASSUME NEW i \in 1..n PROVE RowFunded(table'[i], funds_left(dist', table'[i].time), member)
    BY <1>4 DEF Funded
  <2>1. table'[i] = table[i + 1] /\ i + 1 \in 1..Len(table)
    BY <1>4
  <2>2. fund(table[i + 1].time) # fund(d.time)
    BY <1>10, FundKey
  <2>3. funds_left(dist', table[i + 1].time) = funds_left(dist, table[i + 1].time)
    BY <1>8, <1>9, <2>2 DEF funds_left
  <2>4. RowFunded(table[i + 1], funds_left(dist, table[i + 1].time), member)
    BY <2>1 DEF FInv, Funded
  <2> QED
    BY <2>1, <2>3, <2>4
<1>12. Backed(dist', table')
  <2> SUFFICES ASSUME NEW k \in DOMAIN dist', k[1] = contract
               PROVE  k[3] = 0 /\ \E i \in 1..n : table'[i].time = k[2] /\ table'[i].type # "next"
    BY <1>4 DEF Backed
  <2>1. k \in DOMAIN dist
    BY <1>9
  <2>2. k[3] = 0 /\ \E i \in 1..Len(table) : table[i].time = k[2] /\ table[i].type # "next"
    BY <2>1 DEF FInv, Backed
  <2>3. k = fund(k[2])
    <3>1. k \in Owner \X Int \X Int
      BY <1>3, <2>1
    <3> QED
      BY <2>2, <3>1, KeyOfFund
  <2>4. k[2] # d.time
    BY <1>7, <2>3
  <2>5. PICK i \in 1..Len(table) : table[i].time = k[2] /\ table[i].type # "next"
    BY <2>2
  <2>6. i # 1
    BY <2>4, <2>5 DEF d
  <2>7. i - 1 \in 1..n /\ (i - 1) + 1 = i
    BY <1>4, <2>6
  <2>8. table'[i - 1] = table[i]
    BY <1>4, <2>7
  <2> QED
    BY <2>2, <2>5, <2>7, <2>8
<1>13. Ranked' /\ Quiet'
  <2>1. phase # "voting"
    BY <1>5 DEF FInv, Quiet, NoneCurrent, d
  <2> QED
    BY <1>2, <1>5, <2>1 DEF FInv, Ranked, Quiet
<1>14. Funded(table, dist, member)' /\ Backed(dist, table)'
  BY <1>2, <1>11, <1>12
<1> QED
  BY <1>13, <1>14 DEF FInv

-----------------------------------------------------------------------------
(***************************************************************************)
(* Elections.                                                              *)
(***************************************************************************)
\* Distributions that can be paid come first.
LEMMA NoneCurrentNow ==
  ASSUME TInv, ~has_current(table)
  PROVE  NoneCurrent(table)
<1> SUFFICES ASSUME NEW i \in 1..Len(table), table[i].type = "current" PROVE FALSE
  BY DEF NoneCurrent
<1>1. table \in Seq(Row) /\ Scheduled(table)
  BY TotalTyped DEF TInv, Kept, BooksInv, books
<1>2. Len(table) \in Nat /\ table # << >>
  BY <1>1, EmptySeq
<1>3. 1 \in 1..Len(table) /\ (i = 1 \/ 1 < i)
  BY <1>2
<1>4. table[1].type = "current"
  BY <1>1, <1>2, <1>3 DEF Scheduled
<1> QED
  BY <1>2, <1>4 DEF has_current

LEMMA BeginVotingFunds ==
  ASSUME TInv, FInv, begin_voting
  PROVE  FInv'
<1>1. ~has_current(table) /\ phase' = "voting" /\ member' = member /\ table' = table /\ dist' = dist
  BY DEF begin_voting, books_unchanged
<1>2. NoneCurrent(table)
  BY <1>1, NoneCurrentNow
<1>3. Ranked' /\ Quiet'
  BY <1>1, <1>2 DEF Ranked, Quiet
<1>4. Funded(table, dist, member)' /\ Backed(dist, table)'
  BY <1>1 DEF FInv
<1> QED
  BY <1>3, <1>4 DEF FInv

LEMMA StartFunds ==
  ASSUME TInv, FInv, start_election
  PROVE  FInv'
<1> DEFINE b == IF table = << >> THEN [books EXCEPT !.table = <<next_distribution(electionTime)>>] ELSE books
           c == setup_loop(b, electionTime)
<1>1. phase = "scheduled" /\ store(c) /\ phase' = "numbering" /\ member' = member
  BY Zenon DEF start_election
<1>2. next_election_time = electionTime /\ electionTime \in Int /\ now \in Int /\ ranks \in Seq(Int)
  BY <1>1 DEF next_election_time, TInv, Types
<1>3. /\ BooksInv(b) /\ Waiting(b.table, electionTime) /\ Payable(b, electionTime)
      /\ Funded(b.table, b.dist, member) /\ Backed(b.dist, b.table)
  <2>1. CASE table = << >>
    <3>1. b = [books EXCEPT !.table = <<next_distribution(electionTime)>>]
      BY <2>1
    <3>2. b.table = <<next_distribution(electionTime)>>
      BY <3>1 DEF books
    <3> HIDE DEF b
    <3>3. BooksInv(b) /\ Waiting(b.table, electionTime) /\ DOMAIN b.dist = {}
      BY <1>1, <2>1, <3>1, ScheduleStarts
    <3>4. Len(b.table) = 1 /\ b.table[1].time = electionTime /\ b.table[1].type = "next"
      BY <1>2, <3>2, RowsTyped
    <3>5. \A i \in 1..1 : i = 1
      OBVIOUS
    <3>6. Payable(b, electionTime)
      BY <1>2, <3>4 DEF Payable, last_row
    <3>7. Funded(b.table, b.dist, member)
      BY <3>4, <3>5 DEF Funded, RowFunded
    <3>8. Backed(b.dist, b.table)
      BY <3>3 DEF Backed
    <3> QED
      BY <3>3, <3>6, <3>7, <3>8
  <2>2. CASE table # << >>
    <3>1. b = books /\ books.table = table /\ books.dist = dist
      BY <2>2 DEF books
    <3> HIDE DEF b
    <3>2. Ranks(member, ranks) /\ Len(ranks) >= 2
      BY <1>1, <2>2, MembersNow DEF FInv, Ranked
    <3>3. Payable(b, electionTime)
      BY <3>2 DEF Payable
    <3> QED
      BY <1>2, <3>1, <3>3 DEF TInv, Kept, Awaited, FInv
  <2> QED
    BY <2>1, <2>2
<1> HIDE DEF b
<1>4. FundsKept(b, c, electionTime)
  <2>1. Members(member)
    BY MembersNow
  <2> QED
    BY <1>2, <1>3, <2>1, LoopFunds
<1> HIDE DEF c
<1>5. Funded(c.table, c.dist, member) /\ Backed(c.dist, c.table)
  BY <1>3, <1>4 DEF FundsKept
<1>6. table' = c.table /\ dist' = c.dist
  BY <1>1 DEF store
<1>7. Ranked' /\ Quiet'
  BY <1>1 DEF Ranked, Quiet
<1>8. Funded(table, dist, member)' /\ Backed(dist, table)'
  BY <1>1, <1>5, <1>6
<1> QED
  BY <1>7, <1>8 DEF FInv

\* The statistics of an outcome count its ranks, and the leader alone has the highest.
LEMMA StatisticsCounted ==
  ASSUME TInv, NEW f \in outcomes
  PROVE  Members(f) /\ Ranks(f, statistics(f)) /\ Len(statistics(f)) >= 2
<1> DEFINE top == CHOOSE r \in 0..(MaxRanks - 1) :
                    /\ \E m \in DOMAIN f : f[m] = r
                    /\ \A m \in DOMAIN f : f[m] <= r
           g == [i \in 1..(top + 1) |-> IF i = 1 THEN 0 ELSE Cardinality({m \in DOMAIN f : f[m] = i - 1})]
<1>1. MaxRanks \in Nat /\ MaxRanks >= 2
  BY TreasuryAssumption
<1>2. statistics(f) \in Seq(Int) /\ DOMAIN f = DOMAIN member /\ \A m \in DOMAIN f : f[m] \in Nat
  BY StatisticsTyped
<1>3. Members(f)
  BY <1>2, MembersNow DEF Members
<1>4. IsFiniteSet(DOMAIN f)
  BY <1>3, MembersTyped
<1>5. PICK m \in DOMAIN f : f[m] > 0 /\ f[m] \in 0..(MaxRanks - 1) /\ \A x \in DOMAIN f \ {m} : f[x] < f[m]
  BY <1>2 DEF outcomes
<1>6. \A x \in DOMAIN f : f[x] <= f[m]
  BY <1>2, <1>5
<1>7. top = f[m]
  <2>1. \E r \in 0..(MaxRanks - 1) : (\E x \in DOMAIN f : f[x] = r) /\ \A x \in DOMAIN f : f[x] <= r
    BY <1>5, <1>6
  <2>2. top \in 0..(MaxRanks - 1) /\ (\E x \in DOMAIN f : f[x] = top) /\ \A x \in DOMAIN f : f[x] <= top
    BY <2>1
  <2> HIDE DEF top
  <2>3. top \in Int /\ f[m] \in Int /\ f[m] <= top /\ top <= f[m]
    BY <1>1, <1>2, <1>5, <1>6, <2>2
  <2> QED
    BY <2>3
<1>8. statistics(f) = g
  BY Zenon DEF statistics
<1> HIDE DEF top
<1>9. top \in Nat /\ top >= 1
  BY <1>2, <1>5, <1>7
<1>10. Len(g) = top + 1
  <2>1. g \in Seq(Int) /\ DOMAIN g = 1..(top + 1)
    BY <1>2, <1>8
  <2> HIDE DEF g
  <2>2. Len(g) \in Nat /\ 1..Len(g) = 1..(top + 1)
    BY <2>1, LenProperties
  <2> QED
    BY <1>9, <2>2
<1>11. \A r \in 1..top : g[r + 1] = Cardinality(of_rank(f, r))
  <2> SUFFICES ASSUME NEW r \in 1..top PROVE g[r + 1] = Cardinality(of_rank(f, r))
    OBVIOUS
  <2>1. r + 1 \in 1..(top + 1) /\ r + 1 # 1 /\ (r + 1) - 1 = r
    BY <1>9
  <2>2. g[r + 1] = Cardinality({x \in DOMAIN f : f[x] = (r + 1) - 1})
    BY <2>1
  <2> QED
    BY <2>1, <2>2 DEF of_rank
<1> HIDE DEF g
<1>12. of_rank(f, top) = {m}
  <2>1. \A x \in DOMAIN f : f[x] = top <=> x = m
    BY <1>2, <1>5, <1>7
  <2> QED
    BY <2>1 DEF of_rank
<1>13. g[top + 1] = 1
  <2>1. top \in 1..top
    BY <1>9
  <2>2. g[top + 1] = Cardinality(of_rank(f, top))
    BY <1>11, <2>1
  <2>3. Cardinality({m}) = 1
    BY FS_Singleton
  <2> QED
    BY <1>12, <2>2, <2>3, Zenon
<1>14. RanksCounted(f, g)
  <2>1. \A x \in DOMAIN f : f[x] > 0 => f[x] + 1 <= Len(g)
    BY <1>2, <1>6, <1>7, <1>9, <1>10
  <2>2. Len(g) - 1 = top
    BY <1>9, <1>10
  <2> QED
    BY <1>10, <1>11, <1>13, <2>1, <2>2 DEF RanksCounted
<1> QED
  BY <1>2, <1>3, <1>4, <1>8, <1>9, <1>10, <1>14 DEF Ranks

LEMMA FinishFunds ==
  ASSUME TInv, FInv, NEW f \in outcomes, NEW time, finish_election(f, time)
  PROVE  FInv'
<1> DEFINE rs == statistics(f)
           n == Len(table)
<1>1. /\ phase = "voting" /\ phase' = "scheduled" /\ member' = f /\ ranks' = rs /\ dist' = dist
      /\ table' = [i \in DOMAIN table |-> process_row(table[i], rs)]
      /\ \A i \in DOMAIN table : table[i].type = "election" => distributed(rs, table[i].amount) = table[i].amount
  BY Zenon DEF finish_election
<1>2. Members(f) /\ Ranks(f, rs) /\ Len(rs) >= 2
  BY StatisticsCounted
<1> HIDE DEF rs
<1>3. rs \in Seq(Int) /\ RanksCounted(f, rs)
  BY <1>2 DEF Ranks
<1>4. n \in Nat /\ DOMAIN table = 1..n /\ \A i \in 1..n : table[i] \in Row
  <2>1. table \in [1..Len(table) -> Row] /\ Len(table) \in Nat
    BY TotalTyped, LenProperties
  <2> QED
    BY <2>1
<1>5. NoneCurrent(table)
  BY <1>1 DEF FInv, Quiet
<1>6. \A i \in 1..n : table[i].type # "current" /\ RowFunded(table[i], funds_left(dist, table[i].time), member)
  BY <1>5 DEF FInv, Funded, NoneCurrent
<1>7. Backed(dist, table)
  BY DEF FInv
<1> HIDE DEF n
<1>8. \A i \in 1..n : /\ table'[i] = process_row(table[i], rs) /\ table'[i] \in Row /\ table'[i].time = table[i].time
                      /\ table'[i].type = (IF table[i].type = "election" THEN "current" ELSE table[i].type)
                      /\ table[i].type # "election" => table'[i] = table[i]
  <2> SUFFICES ASSUME NEW i \in 1..n
               PROVE  /\ table'[i] = process_row(table[i], rs) /\ table'[i] \in Row /\ table'[i].time = table[i].time
                      /\ table'[i].type = (IF table[i].type = "election" THEN "current" ELSE table[i].type)
                      /\ table[i].type # "election" => table'[i] = table[i]
    OBVIOUS
  <2>1. table'[i] = process_row(table[i], rs)
    BY <1>1, <1>4
  <2>2. table[i] \in Row
    BY <1>4
  <2> QED
    BY <1>3, <2>1, <2>2, ProcessedRow
<1>9. Len(table') = n
  <2>1. DOMAIN table' = 1..n /\ table' \in [1..n -> Row]
    BY <1>1, <1>4, <1>8
  <2>2. table' \in Seq(Row)
    BY <1>4, <2>1
  <2>3. Len(table') \in Nat /\ 1..Len(table') = 1..n
    BY <2>1, <2>2, LenProperties
  <2> QED
    BY <1>4, <2>3
<1>10. Funded(table', dist, f)
  <2> SUFFICES ASSUME NEW i \in 1..n PROVE RowFunded(table'[i], funds_left(dist, table'[i].time), f)
    BY <1>9 DEF Funded
  <2>1. CASE table[i].type = "election"
    <3>1. table[i].amount \in Int
      BY <1>4, <2>1, RowFacts
    <3>2. funds_left(dist, table[i].time) = distributed(rs, table[i].amount)
      BY <1>1, <1>4, <1>6, <2>1 DEF RowFunded
    <3>3. table'[i] = current_distribution(table[i].time, 0, rank_distribution(rs, table[i].amount))
      BY <1>8, <2>1 DEF process_row
    <3>4. RowFunded(current_distribution(table[i].time, 0, rank_distribution(rs, table[i].amount)),
                    distributed(rs, table[i].amount), f)
      BY <1>2, <3>1, NewRowFunded
    <3>5. table'[i].time = table[i].time
      BY <1>8
    <3> QED
      BY <3>2, <3>3, <3>4, <3>5, Zenon
  <2>2. CASE table[i].type # "election"
    <3>1. table'[i] = table[i] /\ table[i].type # "current"
      BY <1>6, <1>8, <2>2
    <3> QED
      BY <2>2, <3>1 DEF RowFunded
  <2> QED
    BY <2>1, <2>2
<1>11. Backed(dist, table')
  <2> SUFFICES ASSUME NEW k \in DOMAIN dist, k[1] = contract
               PROVE  k[3] = 0 /\ \E i \in 1..n : table'[i].time = k[2] /\ table'[i].type # "next"
    BY <1>9 DEF Backed
  <2>1. k[3] = 0 /\ \E i \in 1..n : table[i].time = k[2] /\ table[i].type # "next"
    BY <1>7 DEF Backed, n
  <2>2. PICK i \in 1..n : table[i].time = k[2] /\ table[i].type # "next"
    BY <2>1
  <2>3. table'[i].time = k[2] /\ table'[i].type # "next"
    BY <1>8, <2>2
  <2> QED
    BY <2>1, <2>2, <2>3
<1>12. Ranked' /\ Quiet'
  BY <1>1, <1>2, <1>3 DEF Ranked, Quiet
<1>13. Funded(table, dist, member)' /\ Backed(dist, table)'
  BY <1>1, <1>10, <1>11
<1> QED
  BY <1>12, <1>13 DEF FInv


-----------------------------------------------------------------------------
(***************************************************************************)
(* Members that leave or are renamed.                                      *)
(***************************************************************************)
LEMMA OwedTyped ==
  ASSUME NEW b, BooksInv(b), NEW m, member[m] \in Nat, can_return(b, m), NEW i \in owing(b, m)
  PROVE  owed(b, m)[i] = pay(b.table[i], member[m]) /\ owed(b, m)[i] \in Int
<1> DEFINE s == b.table[i].rank_distribution
           R == 1..member[m]
<1>1. owed(b, m)[i] = pay(b.table[i], member[m]) /\ pay(b.table[i], member[m]) = SumFunctionOnSet(s, R)
  BY DEF owed, pay
<1>2. i \in DOMAIN b.table /\ \A j \in 1..i : b.table[j].type = "current"
  BY DEF owing
<1>3. b.table[i] \in Row /\ b.table[i].type = "current"
  <2>1. b.table \in Seq(Row) /\ b.table \in [1..Len(b.table) -> Row]
    BY LenProperties DEF BooksInv, BooksTyped
  <2>2. i \in 1..Len(b.table) /\ i \in 1..i
    BY <1>2, <2>1
  <2> QED
    BY <1>2, <2>1, <2>2
<1>4. PICK K \in SUBSET Int : s \in [K -> Int]
  <2>1. s \in Shares
    BY <1>3, RowFacts
  <2> QED
    BY <2>1 DEF Shares
<1>5. R \subseteq DOMAIN s /\ IsFiniteSet(R)
  <2>1. R \subseteq DOMAIN s
    BY DEF can_return
  <2>2. IsFiniteSet(R)
    BY FS_Interval
  <2> QED
    BY <2>1, <2>2
<1> HIDE DEF R, s
<1>6. \A x \in R : s[x] \in Int
  BY <1>4, <1>5
<1>7. SumFunctionOnSet(s, R) \in Int
  BY <1>5, <1>6, SumType
<1> QED
  BY <1>1, <1>7

\* What the account of a distribution holds after a resignation.
LEMMA ResignedLeft ==
  ASSUME NEW b, BooksInv(b), NEW m \in Account, member[m] \in Nat, can_return(b, m), NEW i \in 1..Len(b.table)
  PROVE  LET left == funds_left(b.dist, b.table[i].time)
             rest == funds_left(on_resign(b, m).dist, b.table[i].time)
         IN  /\ left \in Int /\ rest \in Int
             /\ i \in owing(b, m) => left = pay(b.table[i], member[m]) + rest
             /\ i \notin owing(b, m) => left = rest
<1> DEFINE k == fund(b.table[i].time)
           d == b.dist
           I == owing(b, m)
           w == owed(b, m)
           J == {j \in owing(b, m) : payer(b, j) = k}
           r == reduced(b, m)
           Z == emptied(b, m)
           e == on_resign(b, m).dist
           left == funds_left(b.dist, b.table[i].time)
           rest == funds_left(on_resign(b, m).dist, b.table[i].time)
<1>1. /\ b.table \in Seq(Row) /\ b.table \in [1..Len(b.table) -> Row] /\ Len(b.table) \in Nat
      /\ d \in [DOMAIN d -> Int] /\ Scheduled(b.table)
  BY LenProperties DEF BooksInv, BooksTyped
<1>2. I \subseteq 1..Len(b.table)
  BY <1>1 DEF owing
<1>3. \A j \in 1..Len(b.table) : payer(b, j) = fund(b.table[j].time)
  BY DEF payer, fund
<1>4. \A j \in 1..Len(b.table) : b.table[j].time = b.table[i].time => j = i
  <2> SUFFICES ASSUME NEW j \in 1..Len(b.table), b.table[j].time = b.table[i].time, j # i PROVE FALSE
    OBVIOUS
  <2>1. b.table # << >>
    BY <1>1, EmptySeq
  <2>2. b.table[j].time \in Int /\ b.table[i].time \in Int
    BY <1>1, RowFacts
  <2>3. j < i \/ i < j
    BY <1>1
  <2>4. b.table[j].time < b.table[i].time \/ b.table[i].time < b.table[j].time
    BY <1>1, <2>1, <2>3 DEF Scheduled
  <2> QED
    BY <2>2, <2>4
<1>5. \A j \in J : j = i
  BY <1>2, <1>3, <1>4, FundKey
<1>6. i \in I => J = {i}
  BY <1>3, <1>5
<1>7. i \notin I => J = {}
  BY <1>5
<1>8. i \in I => w[i] = pay(b.table[i], member[m]) /\ w[i] \in Int
  BY OwedTyped
<1>9. i \in I => IF k \in DOMAIN d THEN TRUE ELSE w[i] = 0
  BY <1>3 DEF can_return
<1>10. k \notin own_accounts(b, m)
  <2>1. k[1] = contract /\ m # contract
    BY FundKey, TreasuryAssumption DEF contract
  <2> QED
    BY <2>1 DEF own_accounts
<1>11. DOMAIN r = DOMAIN d \ own_accounts(b, m) /\ (k \in DOMAIN r => r[k] = d[k] - SumFunctionOnSet(w, J))
  BY DEF reduced
<1>12. Z \in SUBSET DOMAIN r /\ \A x \in Z : r[x] = 0
  BY DEF emptied
<1>13. e = drop(r, Z)
  BY DEF on_resign
<1>14. DOMAIN e = DOMAIN r \ Z /\ \A x \in DOMAIN e : e[x] = r[x]
  <2> HIDE DEF r, Z, e
  <2> QED
    BY <1>13 DEF drop
<1>15. left = IF k \in DOMAIN d THEN d[k] ELSE 0
  BY DEF funds_left
<1>16. rest = IF k \in DOMAIN e THEN e[k] ELSE 0
  BY DEF funds_left
<1> HIDE DEF k, d, I, w, J, r, Z, e, left, rest
<1>17. k \in DOMAIN d => rest = r[k] /\ r[k] = d[k] - SumFunctionOnSet(w, J)
  BY <1>10, <1>11, <1>12, <1>14, <1>16
<1>18. k \notin DOMAIN d => rest = 0 /\ left = 0
  BY <1>11, <1>14, <1>15, <1>16
<1>19. CASE i \in I
  <2>1. SumFunctionOnSet(w, J) = w[i] /\ w[i] \in Int
    <3>1. SumFunctionOnSet(w, J) = SumFunctionOnSet(w, {i})
      BY <1>6, <1>19, Zenon
    <3>2. SumFunctionOnSet(w, {i}) = w[i]
      BY <1>8, <1>19, SumSingle
    <3> QED
      BY <1>8, <1>19, <3>1, <3>2
  <2>2. k \in DOMAIN d => left \in Int /\ rest = left - w[i]
    BY <1>1, <1>15, <1>17, <2>1
  <2>3. left \in Int /\ rest \in Int /\ left = w[i] + rest
    BY <1>9, <1>18, <1>19, <2>1, <2>2
  <2> QED
    BY <1>8, <1>19, <2>3 DEF left, rest, I
<1>20. CASE i \notin I
  <2>1. SumFunctionOnSet(w, J) = 0
    <3>1. SumFunctionOnSet(w, J) = SumFunctionOnSet(w, {})
      BY <1>7, <1>20, Zenon
    <3> QED
      BY <3>1, SumEmpty
  <2>2. k \in DOMAIN d => left \in Int /\ rest = left
    BY <1>1, <1>15, <1>17, <2>1
  <2>3. left \in Int /\ rest \in Int /\ left = rest
    BY <1>18, <2>2
  <2> QED
    BY <1>20, <2>3 DEF left, rest, I
<1> QED
  BY <1>19, <1>20

\* A member without a rank is due nothing.
LEMMA PayNothing ==
  ASSUME NEW d PROVE pay(d, 0) = 0
<1>1. pay(d, 0) = SumFunctionOnSet(d.rank_distribution, 1..0)
  BY DEF pay
<1>2. 1..0 = {}
  OBVIOUS
<1>3. SumFunctionOnSet(d.rank_distribution, 1..0) = SumFunctionOnSet(d.rank_distribution, {})
  BY <1>2, Zenon
<1> QED
  BY <1>1, <1>3, SumEmpty

\* The account of every distribution is reduced by what the member is due.
LEMMA ResignedFunds ==
  ASSUME NEW b, BooksInv(b), Funded(b.table, b.dist, member), Members(member), NEW m \in DOMAIN member, can_return(b, m),
         NEW mc, DOMAIN mc = DOMAIN member \ {m}, \A x \in DOMAIN mc : mc[x] = member[x]
  PROVE  Funded(b.table, on_resign(b, m).dist, mc)
<1> SUFFICES ASSUME NEW i \in 1..Len(b.table)
             PROVE  RowFunded(b.table[i], funds_left(on_resign(b, m).dist, b.table[i].time), mc)
  BY DEF Funded
<1> DEFINE d == b.table[i]
           left == funds_left(b.dist, b.table[i].time)
           rest == funds_left(on_resign(b, m).dist, b.table[i].time)
<1>1. b.table \in Seq(Row) /\ Scheduled(b.table) /\ d \in Row /\ Len(b.table) \in Nat /\ b.table # << >>
  <2>1. b.table \in Seq(Row) /\ Scheduled(b.table)
    BY DEF BooksInv, BooksTyped
  <2> QED
    BY <2>1, LenProperties, EmptySeq
<1>2. RowFunded(d, left, member)
  BY DEF Funded
<1>3. m \in Account /\ m \in Int /\ member[m] \in Nat
  BY MembersTyped DEF Members
<1>4. /\ left \in Int /\ rest \in Int
      /\ i \in owing(b, m) => left = pay(d, member[m]) + rest
      /\ i \notin owing(b, m) => left = rest
  BY <1>3, ResignedLeft
<1>5. DOMAIN b.table = 1..Len(b.table)
  BY <1>1
<1>6. d.type = "current" => \A j \in 1..i : b.table[j].type = "current"
  <2> SUFFICES ASSUME d.type = "current", NEW j \in 1..i PROVE b.table[j].type = "current"
    OBVIOUS
  <2>1. j \in 1..Len(b.table) /\ (j = i \/ j < i)
    BY <1>1
  <2> QED
    BY <1>1, <2>1 DEF Scheduled
<1>7. i \in owing(b, m) => d.type = "current"
  <2>1. i \in 1..i
    BY <1>1
  <2> QED
    BY <2>1 DEF owing
<1>8. d.type = "current" => (i \in owing(b, m) <=> m \in to_pay(d, member) /\ member[m] > 0)
  <2> SUFFICES ASSUME d.type = "current"
               PROVE  i \in owing(b, m) <=> m \in to_pay(d, member) /\ member[m] > 0
    OBVIOUS
  <2>1. d.last_processed \in Int
    BY <1>1, RowFacts
  <2> QED
    BY <1>3, <1>5, <1>6, <2>1 DEF owing, to_pay
<1> HIDE DEF left, rest
<1>9. CASE d.type # "current"
  <2>1. left = rest
    BY <1>4, <1>7, <1>9
  <2> HIDE DEF d
  <2> QED
    BY <1>2, <1>9, <2>1 DEF RowFunded, rest, d
<1>10. CASE d.type = "current" /\ m \in to_pay(d, member)
  <2> HIDE DEF d
  <2>1. OneLess(d, member, d, mc, m)
    BY <1>10 DEF OneLess, to_pay
  <2>2. left = pay(d, member[m]) + rest
    <3>1. CASE member[m] > 0
      BY <1>4, <1>8, <1>10, <3>1
    <3>2. CASE member[m] = 0
      BY <1>4, <1>8, <1>10, <3>2, PayNothing
    <3> QED
      BY <1>3, <3>1, <3>2
  <2>3. d.type = "current"
    BY <1>10
  <2>4. RowFunded(d, rest, mc)
    BY <1>1, <1>2, <1>4, <2>1, <2>2, <2>3, RowLess
  <2> QED
    BY <2>4 DEF rest, d
<1>11. CASE d.type = "current" /\ m \notin to_pay(d, member)
  <2>1. left = rest
    BY <1>4, <1>8, <1>11
  <2> HIDE DEF d
  <2>2. to_pay(d, mc) = to_pay(d, member) /\ \A x \in to_pay(d, member) : mc[x] = member[x]
    BY <1>11 DEF to_pay
  <2>3. RowFunded(d, left, mc)
    BY <1>2, <2>2, RowSame
  <2> QED
    BY <2>1, <2>3 DEF rest, d
<1> QED
  BY <1>9, <1>10, <1>11

\* memberstats without a member.
ranks_without(mb, rs, m) == IF mb[m] = 0 THEN rs ELSE [rs EXCEPT ![mb[m] + 1] = @ - 1]

LEMMA LeaveRanks ==
  ASSUME NEW mb, NEW rs, Ranks(mb, rs), NEW m \in DOMAIN mb,
         NEW mc, DOMAIN mc = DOMAIN mb \ {m}, \A x \in DOMAIN mc : mc[x] = mb[x]
  PROVE  RanksCounted(mc, ranks_without(mb, rs, m)) /\ Len(ranks_without(mb, rs, m)) = Len(rs)
<1> DEFINE qs == ranks_without(mb, rs, m)
<1>1. /\ IsFiniteSet(DOMAIN mb) /\ (\A x \in DOMAIN mb : mb[x] \in Nat) /\ rs \in Seq(Int)
      /\ Len(rs) \in Nat /\ rs \in [1..Len(rs) -> Int] /\ RanksCounted(mb, rs)
  BY LenProperties DEF Ranks
<1>2. \A r \in Nat : r # mb[m] => of_rank(mc, r) = of_rank(mb, r)
  BY DEF of_rank
<1>3. of_rank(mc, mb[m]) = of_rank(mb, mb[m]) \ {m} /\ m \in of_rank(mb, mb[m])
  BY DEF of_rank
<1>4. CASE mb[m] = 0
  <2>1. \A r \in 1..(Len(rs) - 1) : r # mb[m] /\ r \in Nat
    BY <1>4
  <2>2. qs = rs
    BY <1>4 DEF ranks_without
  <2>3. \A x \in DOMAIN mc : mc[x] > 0 => mc[x] + 1 <= Len(rs)
    BY <1>1 DEF RanksCounted
  <2> HIDE DEF qs
  <2> QED
    BY <1>1, <1>2, <2>1, <2>2, <2>3 DEF RanksCounted, qs
<1>5. CASE mb[m] > 0
  <2> DEFINE p == mb[m] + 1
             n == Len(rs)
  <2>1. mb[m] \in Nat /\ p \in 2..n /\ mb[m] \in 1..(n - 1) /\ n >= 2 /\ n \in Nat
    BY <1>1, <1>5 DEF RanksCounted
  <2>2. qs = [rs EXCEPT ![p] = @ - 1]
    BY <1>5 DEF ranks_without
  <2> HIDE DEF qs
  <2>3. qs \in [1..n -> Int] /\ qs[p] = rs[p] - 1 /\ \A j \in 1..n : j # p => qs[j] = rs[j]
    BY <1>1, <2>1, <2>2
  <2>4. qs \in Seq(Int) /\ Len(qs) = n
    <3>1. qs \in Seq(Int)
      BY <2>1, <2>3, SeqDef
    <3>2. Len(qs) \in Nat /\ DOMAIN qs = 1..Len(qs) /\ DOMAIN qs = 1..n
      BY <2>3, <3>1, LenProperties
    <3> QED
      BY <2>1, <3>1, <3>2
  <2> DEFINE A == of_rank(mb, mb[m])
  <2>5. /\ IsFiniteSet(A) /\ Cardinality(A) \in Nat /\ rs[p] = Cardinality(A) /\ Cardinality(A) >= 1
        /\ Cardinality(of_rank(mc, mb[m])) = Cardinality(A) - 1
    <3>1. A \in SUBSET DOMAIN mb
      BY DEF of_rank
    <3>2. IsFiniteSet(A) /\ Cardinality(A) \in Nat
      BY <1>1, <3>1, FS_Subset, FS_CardinalityType
    <3>3. rs[p] = Cardinality(A)
      BY <1>1, <2>1 DEF RanksCounted
    <3>4. m \in A /\ of_rank(mc, mb[m]) = A \ {m}
      BY <1>3
    <3> HIDE DEF A
    <3>5. Cardinality(A \ {m}) = Cardinality(A) - 1
      BY <3>2, <3>4, FS_RemoveElement
    <3>6. Cardinality(A) # 0
      BY <3>2, <3>4, FS_EmptySet
    <3> QED
      BY <3>2, <3>3, <3>4, <3>5, <3>6
  <2> HIDE DEF A
  <2>6. \A r \in 1..(n - 1) : qs[r + 1] = Cardinality(of_rank(mc, r))
    <3> SUFFICES ASSUME NEW r \in 1..(n - 1) PROVE qs[r + 1] = Cardinality(of_rank(mc, r))
      OBVIOUS
    <3>1. CASE r = mb[m]
      BY <2>3, <2>5, <3>1
    <3>2. CASE r # mb[m]
      <4>1. r \in Nat /\ r + 1 \in 1..n /\ r + 1 # p
        BY <2>1, <3>2
      <4>2. of_rank(mc, r) = of_rank(mb, r)
        BY <1>2, <3>2, <4>1
      <4>3. rs[r + 1] = Cardinality(of_rank(mb, r))
        BY <1>1 DEF RanksCounted
      <4> QED
        BY <2>3, <4>1, <4>2, <4>3
    <3> QED
      BY <3>1, <3>2
  <2>7. qs[n] \in {0, 1}
    <3>1. rs[n] \in {0, 1} /\ n \in 1..n
      BY <1>1, <2>1 DEF RanksCounted
    <3>2. CASE n = p
      BY <2>3, <2>5, <3>1, <3>2
    <3>3. CASE n # p
      BY <2>3, <3>1, <3>3
    <3> QED
      BY <3>2, <3>3
  <2>8. \A x \in DOMAIN mc : mc[x] > 0 => mc[x] + 1 <= n
    BY <1>1 DEF RanksCounted
  <2> QED
    BY <2>4, <2>6, <2>7, <2>8 DEF RanksCounted, qs
<1> QED
  BY <1>1, <1>4, <1>5

LEMMA ResignFunds ==
  ASSUME TInv, FInv, NEW m \in DOMAIN member, resign(m)
  PROVE  FInv'
<1> DEFINE b == setup_distribution(books)
           c == on_resign(b, m)
<1>1. leave(m) /\ store(c) /\ can_return(b, m) /\ phase = "scheduled"
  BY Zenon DEF resign, is_election_running
<1>2. BooksInv(b)
  BY SetUpNow DEF SetUp
<1>3. Funded(b.table, b.dist, member) /\ Backed(b.dist, b.table) /\ (table = << >> => b.table = << >>)
  BY FundsSetUp
<1> HIDE DEF b
<1>4. Members(member) /\ m \in Account /\ member[m] \in Nat
  BY MembersNow DEF Members
<1>5. c.table = b.table /\ \A k \in DOMAIN c.dist : k \in DOMAIN b.dist
  BY <1>1, <1>2, <1>4, ResignedBooks
<1>6. /\ member' = [x \in DOMAIN member \ {m} |-> member[x]] /\ phase' = phase
      /\ ranks' = IF member[m] = 0 THEN ranks ELSE [ranks EXCEPT ![member[m] + 1] = @ - 1]
  BY <1>1 DEF leave
<1> DEFINE mc == [x \in DOMAIN member \ {m} |-> member[x]]
           qs == ranks_without(member, ranks, m)
<1>7. DOMAIN mc = DOMAIN member \ {m} /\ \A x \in DOMAIN mc : mc[x] = member[x]
  OBVIOUS
<1>8. ranks' = qs
  BY <1>6 DEF ranks_without
<1> HIDE DEF mc
<1>9. Funded(b.table, c.dist, mc)
  BY <1>1, <1>2, <1>3, <1>4, <1>7, ResignedFunds
<1>10. Backed(c.dist, b.table)
  <2> HIDE DEF c
  <2> QED
    BY <1>3, <1>5, BackedSame
<1>11. RanksCounted(mc, qs) /\ Len(qs) = Len(ranks)
  <2>1. Ranks(member, ranks)
    BY <1>1, MembersNow DEF FInv, Ranked
  <2> QED
    BY <1>7, <2>1, LeaveRanks
<1> HIDE DEF c, qs
<1>12. table' = b.table /\ dist' = c.dist /\ member' = mc /\ ranks' = qs
  <2>1. table' = c.table /\ dist' = c.dist
    BY <1>1 DEF store
  <2> QED
    BY <1>5, <1>6, <1>8, <2>1 DEF mc
<1>13. b.table # << >> => Len(ranks) >= 2
  BY <1>1, <1>3 DEF FInv, Ranked
<1>14. Ranked' /\ Quiet'
  BY <1>1, <1>6, <1>11, <1>12, <1>13 DEF Ranked, Quiet
<1>15. Funded(table, dist, member)' /\ Backed(dist, table)'
  BY <1>9, <1>10, <1>12
<1> QED
  BY <1>14, <1>15 DEF FInv

Renamed(mb, mc, m, new) ==
  /\ m \in DOMAIN mb /\ new \notin DOMAIN mb
  /\ DOMAIN mc = (DOMAIN mb \ {m}) \cup {new} /\ mc[new] = mb[m] /\ \A x \in DOMAIN mb \ {m} : mc[x] = mb[x]

name_map(mb, m, new) == [x \in DOMAIN mb |-> IF x = m THEN new ELSE x]

LEMMA NamesMapped ==
  ASSUME NEW mb, NEW mc, NEW m, NEW new, Renamed(mb, mc, m, new)
  PROVE  LET h == name_map(mb, m, new)
         IN  /\ \A x \in DOMAIN mb : h[x] \in DOMAIN mc /\ mc[h[x]] = mb[x]
             /\ \A x, y \in DOMAIN mb : h[x] = h[y] => x = y
             /\ \A k \in DOMAIN mc : \E x \in DOMAIN mb : k = h[x]
<1> DEFINE h == name_map(mb, m, new)
<1>1. \A x \in DOMAIN mb : h[x] = IF x = m THEN new ELSE x
  BY DEF name_map
<1> HIDE DEF h
<1>2. \A k \in DOMAIN mc : \E x \in DOMAIN mb : k = h[x]
  <2> SUFFICES ASSUME NEW k \in DOMAIN mc PROVE \E x \in DOMAIN mb : k = h[x]
    OBVIOUS
  <2>1. CASE k = new
    <3>1. m \in DOMAIN mb /\ h[m] = k
      BY <1>1, <2>1 DEF Renamed
    <3> QED
      BY <3>1
  <2>2. CASE k # new
    <3>1. k \in DOMAIN mb /\ h[k] = k
      BY <1>1, <2>2 DEF Renamed
    <3> QED
      BY <3>1
  <2> QED
    BY <2>1, <2>2
<1>3. \A x \in DOMAIN mb : h[x] \in DOMAIN mc /\ mc[h[x]] = mb[x]
  BY <1>1 DEF Renamed
<1>4. \A x, y \in DOMAIN mb : h[x] = h[y] => x = y
  BY <1>1 DEF Renamed
<1> QED
  BY <1>2, <1>3, <1>4 DEF h

LEMMA RowRenamed ==
  ASSUME NEW mb, Members(mb), NEW mc, Members(mc), NEW m, NEW new, Renamed(mb, mc, m, new),
         NEW d \in Row, d.type = "current" => d.last_processed = 0, NEW left, RowFunded(d, left, mb)
  PROVE  RowFunded(d, left, mc)
<1>1. CASE d.type # "current"
  BY <1>1 DEF RowFunded
<1>2. CASE d.type = "current"
  <2> DEFINE h == name_map(mb, m, new)
             S == DOMAIN mb
             F == DOMAIN mc
             f == dues(d, mb)
             g == dues(d, mc)
  <2>1. /\ \A x \in S : h[x] \in F /\ mc[h[x]] = mb[x]
        /\ \A x, y \in S : h[x] = h[y] => x = y
        /\ \A k \in F : \E x \in S : k = h[x]
    BY NamesMapped
  <2>2. to_pay(d, mb) = S /\ to_pay(d, mc) = F
    BY <1>2, MembersTyped DEF to_pay
  <2>3. PaysRanks(d, mb) /\ left = SumFunctionOnSet(f, to_pay(d, mb))
    BY <1>2 DEF RowFunded, PaysRanks
  <2>4. d.rank_distribution \in Shares
    BY <1>2, RowFacts
  <2>5. IsFiniteSet(to_pay(d, mb)) /\ \A x \in to_pay(d, mb) : f[x] = pay(d, mb[x]) /\ f[x] \in Int
    BY <2>3, <2>4, DuesTyped
  <2>6. \A k \in to_pay(d, mc) : g[k] = pay(d, mc[k])
    BY DEF dues
  <2>7. \A k \in to_pay(d, mc) : 1..mc[k] \subseteq DOMAIN d.rank_distribution
    <3> SUFFICES ASSUME NEW k \in F PROVE 1..mc[k] \subseteq DOMAIN d.rank_distribution
      BY <2>2
    <3>1. PICK x \in S : k = h[x]
      BY <2>1
    <3>2. mc[k] = mb[x]
      BY <2>1, <3>1
    <3> QED
      BY <2>2, <2>3, <3>2 DEF PaysRanks
  <2> HIDE DEF h, S, F, f, g
  <2>8. \A x \in S : f[x] \in Int /\ g[h[x]] = f[x] /\ h[x] \in F
    BY <2>1, <2>2, <2>5, <2>6
  <2>9. Renames(h, f, S, g, F)
    BY <2>1, <2>8 DEF Renames
  <2>10. IsFiniteSet(S)
    BY <2>2, <2>5
  <2>11. SumFunctionOnSet(g, F) = SumFunctionOnSet(f, S)
    BY <2>9, <2>10, SumReindex
  <2>12. SumFunctionOnSet(f, to_pay(d, mb)) = SumFunctionOnSet(f, S)
         /\ SumFunctionOnSet(g, to_pay(d, mc)) = SumFunctionOnSet(g, F)
    BY <2>2, Zenon
  <2>13. left = SumFunctionOnSet(g, to_pay(d, mc))
    BY <2>3, <2>11, <2>12
  <2> QED
    BY <1>2, <2>7, <2>13 DEF RowFunded, g
<1> QED
  BY <1>1, <1>2

LEMMA RanksRenamed ==
  ASSUME NEW mb, NEW rs, Ranks(mb, rs), NEW mc, NEW m, NEW new, Renamed(mb, mc, m, new)
  PROVE  RanksCounted(mc, rs)
<1> DEFINE h == name_map(mb, m, new)
           one == [x \in DOMAIN mb |-> 1]
           mark == [x \in DOMAIN mc |-> 1]
<1>1. IsFiniteSet(DOMAIN mb) /\ RanksCounted(mb, rs)
  BY DEF Ranks
<1>2. /\ \A x \in DOMAIN mb : h[x] \in DOMAIN mc /\ mc[h[x]] = mb[x]
      /\ \A x, y \in DOMAIN mb : h[x] = h[y] => x = y
      /\ \A k \in DOMAIN mc : \E x \in DOMAIN mb : k = h[x]
  BY NamesMapped
<1>3. (\A x \in DOMAIN mb : one[x] = 1) /\ (\A x \in DOMAIN mc : mark[x] = 1)
  OBVIOUS
<1> HIDE DEF h, one, mark
<1>4. ASSUME NEW r PROVE Cardinality(of_rank(mc, r)) = Cardinality(of_rank(mb, r))
  <2> DEFINE S == of_rank(mb, r)
             F == of_rank(mc, r)
  <2>1. S \in SUBSET DOMAIN mb /\ F \in SUBSET DOMAIN mc
    BY DEF of_rank
  <2>2. IsFiniteSet(S)
    BY <1>1, <2>1, FS_Subset
  <2>3. (\A x \in S : h[x] \in F) /\ (\A k \in F : \E x \in S : k = h[x])
    BY <1>2 DEF of_rank
  <2> HIDE DEF S, F
  <2>4. (\A x \in S : one[x] = 1) /\ (\A x \in F : mark[x] = 1)
    BY <1>3, <2>1
  <2>5. Renames(h, one, S, mark, F)
    <3>1. \A x, y \in S : h[x] = h[y] => x = y
      BY <1>2, <2>1
    <3>2. \A x \in S : one[x] \in Int /\ mark[h[x]] = one[x] /\ h[x] \in F
      BY <2>3, <2>4
    <3> QED
      BY <2>3, <3>1, <3>2 DEF Renames
  <2>6. IsFiniteSet(F) /\ SumFunctionOnSet(mark, F) = SumFunctionOnSet(one, S)
    BY <2>2, <2>5, SumReindex
  <2>7. SumFunctionOnSet(mark, F) = Cardinality(F) /\ SumFunctionOnSet(one, S) = Cardinality(S)
    BY <2>2, <2>4, <2>6, SumOnes
  <2> QED
    BY <2>6, <2>7 DEF S, F
<1>5. \A x \in DOMAIN mc : mc[x] > 0 => mc[x] + 1 <= Len(rs)
  <2> SUFFICES ASSUME NEW k \in DOMAIN mc, mc[k] > 0 PROVE mc[k] + 1 <= Len(rs)
    OBVIOUS
  <2>1. PICK x \in DOMAIN mb : k = h[x]
    BY <1>2
  <2>2. mc[k] = mb[x]
    BY <1>2, <2>1
  <2> QED
    BY <1>1, <2>2 DEF RanksCounted
<1> QED
  BY <1>1, <1>4, <1>5 DEF RanksCounted

LEMMA RenamedLeft ==
  ASSUME NEW d, NEW m, NEW new, m # contract, new # contract, NEW time
  PROVE  funds_left(renamed(d, m, new), time) = funds_left(d, time)
<1> DEFINE k == fund(time)
           D == DOMAIN d
           F == {renamed_key(j, m, new) : j \in D}
           e == renamed(d, m, new)
<1>1. k[1] = contract
  BY FundKey
<1>2. renamed_key(k, m, new) = k /\ former_key(k, m, new) = k
  BY <1>1 DEF renamed_key, former_key
<1>3. DOMAIN e = F /\ \A x \in F : e[x] = d[former_key(x, m, new)]
  BY DEF renamed
<1>4. k \in F => k \in D
  <2> SUFFICES ASSUME k \in F PROVE k \in D
    OBVIOUS
  <2>1. PICK j \in D : k = renamed_key(j, m, new)
    OBVIOUS
  <2>2. CASE j[1] = m
    <3>1. k = <<new, j[2], j[3]>>
      BY <2>1, <2>2 DEF renamed_key
    <3>2. k[1] = new
      BY <3>1
    <3> QED
      BY <1>1, <3>2
  <2>3. CASE j[1] # m
    BY <2>1, <2>3 DEF renamed_key
  <2> QED
    BY <2>2, <2>3
<1>5. k \in D => k \in F
  BY <1>2
<1> HIDE DEF k, F, e
<1>6. (k \in DOMAIN e <=> k \in D) /\ (k \in D => e[k] = d[k])
  BY <1>2, <1>3, <1>4, <1>5
<1> QED
  BY <1>6 DEF funds_left, k, e

LEMMA RenameFunds ==
  ASSUME TInv, FInv, NEW m \in DOMAIN member, NEW new \in Account, rename(m, new)
  PROVE  FInv'
<1> DEFINE b == setup_distribution(books)
           e == renamed(b.dist, m, new)
           c == [b EXCEPT !.dist = e]
           mc == [x \in (DOMAIN member \ {m}) \cup {new} |-> member[IF x = new THEN m ELSE x]]
<1>1. /\ new \notin DOMAIN member /\ ~has_current(table) /\ phase = "scheduled"
      /\ member' = mc /\ phase' = phase /\ ranks' = ranks
  BY DEF rename, is_election_running
<1>2. store(c)
  BY Zenon DEF rename, renamed, renamed_key, former_key
<1>3. BooksInv(b) /\ \A k \in DOMAIN b.dist : k \in DOMAIN dist \/ k[1] = contract
  BY SetUpNow DEF SetUp, books
<1>4. Untouched(table)
  BY <1>1, NoneCurrentNow DEF NoneCurrent, Untouched
<1>5. /\ Funded(b.table, b.dist, member) /\ Backed(b.dist, b.table) /\ Untouched(b.table)
      /\ table = << >> => b.table = << >>
  BY <1>4, FundsSetUp
<1> HIDE DEF b
<1>6. /\ DOMAIN b = {"pool", "table", "dist"} /\ b.table \in Seq(Row) /\ b.table \in [1..Len(b.table) -> Row]
      /\ IsFiniteSet(DOMAIN b.dist) /\ b.dist \in [DOMAIN b.dist -> Int] /\ DOMAIN b.dist \subseteq Owner \X Int \X Int
  BY <1>3, LenProperties DEF BooksInv, BooksTyped
<1>7. Members(member) /\ m \in Account /\ m # new /\ m # contract /\ new # contract
  BY <1>1, MembersNow, TreasuryAssumption DEF Members, contract
<1>8. \A k \in DOMAIN b.dist : k[1] # new
  <2>1. \A k \in DOMAIN b.dist : k[1] \in DOMAIN member \cup {contract}
    BY <1>3 DEF TInv, Owned
  <2> QED
    BY <1>1, <1>7, <2>1
<1>9. \A k \in DOMAIN e :
        \E j \in DOMAIN b.dist : k[2] = j[2] /\ (k[1] = contract <=> j[1] = contract) /\ (k[1] = new \/ (k = j /\ k[1] # m))
  BY <1>6, <1>7, <1>8, RenamedAccounts
<1>10. table' = b.table /\ dist' = e
  <2>1. c.table = b.table /\ c.dist = e
    BY <1>6
  <2> HIDE DEF c, e
  <2> QED
    BY <1>2, <2>1 DEF store
<1>11. Renamed(member, mc, m, new)
  BY <1>1, <1>7 DEF Renamed
<1> HIDE DEF mc
<1>12. Members(mc)
  BY <1>7, <1>11 DEF Renamed, Members
<1>13. Funded(b.table, e, mc)
  <2> SUFFICES ASSUME NEW i \in 1..Len(b.table) PROVE RowFunded(b.table[i], funds_left(e, b.table[i].time), mc)
    BY DEF Funded
  <2>1. funds_left(e, b.table[i].time) = funds_left(b.dist, b.table[i].time)
    BY <1>7, RenamedLeft
  <2> HIDE DEF e
  <2>2. RowFunded(b.table[i], funds_left(b.dist, b.table[i].time), member)
    BY <1>5 DEF Funded
  <2>3. b.table[i] \in Row /\ (b.table[i].type = "current" => b.table[i].last_processed = 0)
    BY <1>5, <1>6 DEF Untouched
  <2>4. RowFunded(b.table[i], funds_left(b.dist, b.table[i].time), mc)
    BY <1>7, <1>11, <1>12, <2>2, <2>3, RowRenamed
  <2> QED
    BY <2>1, <2>4
<1> HIDE DEF e
<1>14. Backed(e, b.table)
  <2>1. \A k \in DOMAIN e : k \in DOMAIN b.dist \/ k[1] # contract
    BY <1>7, <1>9
  <2> QED
    BY <1>5, <2>1, BackedSame
<1>15. RanksCounted(mc, ranks)
  <2>1. Ranks(member, ranks)
    BY <1>1, MembersNow DEF FInv, Ranked
  <2> QED
    BY <1>11, <2>1, RanksRenamed
<1>16. b.table # << >> => Len(ranks) >= 2
  BY <1>1, <1>5 DEF FInv, Ranked
<1>17. Ranked' /\ Quiet'
  BY <1>1, <1>10, <1>15, <1>16 DEF Ranked, Quiet
<1>18. Funded(table, dist, member)' /\ Backed(dist, table)'
  BY <1>1, <1>10, <1>13, <1>14
<1> QED
  BY <1>17, <1>18 DEF FInv

-----------------------------------------------------------------------------
(***************************************************************************)
(* The specification.                                                      *)
(***************************************************************************)
LEMMA InitFunds ==
  ASSUME Init PROVE FInv
<1>1. /\ phase = "scheduled" /\ member = [m \in Founders |-> 0] /\ ranks = << >>
      /\ dist = [k \in {} |-> 0] /\ table = << >>
  BY DEF Init
<1>2. Len(ranks) = 0 /\ Len(table) = 0 /\ DOMAIN dist = {}
  BY <1>1
<1>3. 1..0 = {} /\ 1..(0 - 1) = {}
  OBVIOUS
<1>4. RanksCounted(member, ranks)
  BY <1>1, <1>2, <1>3 DEF RanksCounted
<1>5. Funded(table, dist, member) /\ Backed(dist, table)
  BY <1>2, <1>3 DEF Funded, Backed
<1> QED
  BY <1>1, <1>4, <1>5 DEF FInv, Ranked, Quiet

LEMMA TransferFunds ==
  ASSUME TInv, FInv, TransferNext PROVE FInv'
<1>1. ASSUME NEW a \in Account, NEW q \in Amounts, deposit(a, q) \/ withdraw(a, q) PROVE FInv'
  BY <1>1, OtherFunds
<1>2. ASSUME NEW q \in Amounts, donation(q) PROVE FInv'
  BY <1>2, DonationFunds
<1>3. ASSUME NEW a \in Account, NEW q \in Amounts, donate(a, q) PROVE FInv'
  BY <1>3, DonationFunds
<1>4. ASSUME NEW a \in Account, NEW c \in Account, NEW q \in Amounts, usertransfer(a, c, q) PROVE FInv'
  BY <1>4, OtherFunds
<1>5. ASSUME NEW k \in DOMAIN dist, NEW a \in Account, NEW q \in Amounts, fundtransfer(k, a, q) PROVE FInv'
  BY <1>5, FundTransferFunds
<1> QED
  BY <1>1, <1>2, <1>3, <1>4, <1>5 DEF TransferNext

LEMMA DistributionFunds ==
  ASSUME TInv, FInv, DistributionNext PROVE FInv'
<1>1. ASSUME distribute PROVE FInv'
  <2>1. CASE setup_due
    BY <2>1, SetUpDueFunds
  <2>2. ASSUME NEW m \in DOMAIN member, pay_member(m) PROVE FInv'
    BY <2>2, PayFunds
  <2>3. CASE end_distribution
    BY <2>3, EndFunds
  <2> QED
    BY <1>1, <2>1, <2>2, <2>3 DEF distribute
<1>2. ASSUME NEW m \in Account, inducted(m) PROVE FInv'
  BY <1>2, InductedFunds
<1>3. ASSUME NEW m \in DOMAIN member, resign(m) PROVE FInv'
  BY <1>3, ResignFunds
<1>4. ASSUME NEW m \in DOMAIN member, NEW new \in Account, rename(m, new) PROVE FInv'
  BY <1>4, RenameFunds
<1>5. ASSUME NEW time \in (now + 1)..(now + MaxLead), reschedule(time) PROVE FInv'
  BY <1>5, OtherFunds
<1>6. ASSUME start_election PROVE FInv'
  BY <1>6, StartFunds
<1>7. ASSUME begin_voting PROVE FInv'
  BY <1>7, BeginVotingFunds
<1>8. ASSUME NEW f \in outcomes, NEW time \in (electionTime + 1)..(now + MaxLead), finish_election(f, time) PROVE FInv'
  BY <1>8, FinishFunds
<1>9. ASSUME Tick PROVE FInv'
  BY <1>9, OtherFunds
<1> QED
  BY <1>1, <1>2, <1>3, <1>4, <1>5, <1>6, <1>7, <1>8, <1>9 DEF DistributionNext

LEMMA AlwaysFunded == Spec => [](TInv /\ FInv)
<1>1. Init => FInv
  BY InitFunds
<1>2. TInv /\ FInv /\ [Next]_vars => FInv'
  <2>1. ASSUME TInv, FInv, UNCHANGED vars PROVE FInv'
    <3>1. table' = table /\ dist' = dist /\ member' = member /\ phase' = phase /\ ranks' = ranks
      BY <2>1 DEF vars
    <3> QED
      BY <2>1, <3>1, SameFunds
  <2> QED
    BY <2>1, TransferFunds, DistributionFunds DEF Next
<1> QED
  BY <1>1, <1>2, AlwaysBalanced, PTL DEF Spec

\* What the invariant says of the parts of DistributionsFunded.
LEMMA FundedAccounts ==
  ASSUME TInv, FInv PROVE AccountsFunded
<1> SUFFICES ASSUME NEW i \in DOMAIN table
             PROVE  LET d       == table[i]
                        account == <<contract, d.time, 0>>
                        balance == IF account \in DOMAIN dist THEN dist[account] ELSE 0
                        unpaid  == {m \in DOMAIN member : m > d.last_processed}
                    IN  /\ d.type = "current" =>
                             /\ \A m \in unpaid : 1..member[m] \subseteq DOMAIN d.rank_distribution
                             /\ balance = SumFunction([m \in unpaid |-> pay(d, member[m])])
                        /\ d.type = "election" => balance = d.amount
  BY Zenon DEF AccountsFunded
<1> DEFINE d == table[i]
           balance == funds_left(dist, d.time)
           unpaid == to_pay(d, member)
<1>1. i \in 1..Len(table)
  BY TotalTyped, LenProperties
<1>2. RowFunded(d, balance, member)
  BY <1>1 DEF FInv, Funded
<1>3. SumFunction(dues(d, member)) = SumFunctionOnSet(dues(d, member), unpaid)
  BY DEF SumFunction, dues
<1>4. /\ d.type = "current" => /\ \A m \in unpaid : 1..member[m] \subseteq DOMAIN d.rank_distribution
                               /\ balance = SumFunction(dues(d, member))
      /\ d.type = "election" => balance = d.amount
  BY <1>2, <1>3 DEF RowFunded
<1> QED
  BY <1>4, Zenon DEF funds_left, fund, to_pay, dues

LEMMA OrderedTable ==
  ASSUME TInv, FInv PROVE TableOrdered
<1> DEFINE n == Len(table)
           place(type) == CASE type = "current" -> 1 [] type = "election" -> 2 [] OTHER -> 3
<1> SUFFICES ASSUME table # << >>
             PROVE  /\ table[n].type = "next"
                    /\ \A i \in 1..(n - 1) :
                         /\ table[i].time < table[i + 1].time
                         /\ place(table[i].type) <= place(table[i + 1].type)
                         /\ table[i].type # "next"
                         /\ table[i].type = "election" => phase # "scheduled" \/ now >= electionTime
                    /\ phase = "voting" => table[1].type # "current"
  BY DEF TableOrdered
<1>1. /\ table \in Seq(Row) /\ Scheduled(table) /\ n \in Nat /\ table \in [1..n -> Row]
  BY TotalTyped, LenProperties DEF TInv, Kept, BooksInv, books
<1>2. /\ table[n].type = "next"
      /\ \A i \in 1..(n - 1) : table[i].type # "next"
      /\ \A i, j \in 1..n :
           i < j => table[i].time < table[j].time /\ (table[j].type = "current" => table[i].type = "current")
  BY <1>1 DEF Scheduled
<1>3. n >= 1
  BY <1>1, EmptySeq
<1>4. ASSUME NEW i \in 1..(n - 1)
      PROVE  /\ table[i].time < table[i + 1].time
             /\ place(table[i].type) <= place(table[i + 1].type)
             /\ table[i].type # "next"
             /\ table[i].type = "election" => phase # "scheduled" \/ now >= electionTime
  <2>1. i \in 1..n /\ i + 1 \in 1..n /\ i < i + 1
    BY <1>1
  <2>2. table[i].time < table[i + 1].time /\ (table[i + 1].type = "current" => table[i].type = "current")
        /\ table[i].type # "next"
    BY <1>2, <2>1
  <2>3. table[i].type \in {"election", "current"} /\ table[i + 1].type \in {"next", "election", "current"}
    <3>1. table[i] \in Row /\ table[i + 1] \in Row
      BY <1>1, <2>1
    <3> QED
      BY <2>2, <3>1, RowFacts
  <2>4. place("current") = 1 /\ place("election") = 2 /\ place("next") = 3
    OBVIOUS
  <2> HIDE DEF place
  <2>5. place(table[i].type) <= place(table[i + 1].type)
    <3>1. CASE table[i].type = "current"
      <4>1. place(table[i + 1].type) \in {1, 2, 3}
        BY <2>3, <2>4
      <4> QED
        BY <2>4, <3>1, <4>1
    <3>2. CASE table[i].type = "election"
      <4>1. place(table[i + 1].type) \in {2, 3}
        BY <2>2, <2>3, <2>4, <3>2
      <4> QED
        BY <2>4, <3>2, <4>1
    <3> QED
      BY <2>3, <3>1, <3>2
  <2>6. table[i].type = "election" => phase # "scheduled" \/ now >= electionTime
    <3> SUFFICES ASSUME table[i].type = "election", phase = "scheduled" PROVE now >= electionTime
      OBVIOUS
    <3>1. next_election_time = electionTime /\ electionTime \in Nat /\ now \in Nat
      BY DEF next_election_time, TInv, Types
    <3>2. electionTime = none \/ electionTime <= now
      BY <2>1, <3>1 DEF TInv, Awaited, Waiting
    <3> QED
      BY <3>1, <3>2 DEF none
  <2> QED
    BY <2>2, <2>5, <2>6
<1>5. phase = "voting" => table[1].type # "current"
  <2>1. 1 \in 1..n
    BY <1>1, <1>3
  <2> QED
    BY <2>1 DEF FInv, Quiet, NoneCurrent
<1> QED
  BY <1>2, <1>4, <1>5

LEMMA ReachableFunds ==
  ASSUME TInv, FInv PROVE FundsReachable
<1>1. DOMAIN table = 1..Len(table)
  BY TotalTyped, LenProperties
<1> QED
  BY <1>1 DEF TInv, Owned, FInv, Backed, FundsReachable

\* A distribution can be paid to the end, for any accounts, amounts, months and percentages and
\* whatever happens to members and elections while it is set up late and paid in batches
\* (setup_distribution, distribute_monthly, on_resign, on_rename): every member still to be paid has
\* a share for each of its ranks, the account holds exactly what those shares add up to, no account is
\* out of reach, and the rows are in the order in which the loops walk over them.
THEOREM DistributionsStayFunded == Spec => []DistributionsFunded
<1>1. TInv /\ FInv => DistributionsFunded
  BY FundedAccounts, ReachableFunds, OrderedTable DEF DistributionsFunded
<1> QED
  BY <1>1, AlwaysFunded, PTL

-----------------------------------------------------------------------------
(***************************************************************************)
(* The ledger of the micro chain.                                          *)
(***************************************************************************)
Holder == Account \cup {token_account, master_pool, distribution_fund, edendelegate, system_account}

LedgerTyped(l) ==
  /\ DOMAIN l = {"balances", "funds", "aborted"} /\ l.aborted \in BOOLEAN
  /\ l.balances \in [DOMAIN l.balances -> Int] /\ DOMAIN l.balances \subseteq Holder
  /\ l.funds \in [DOMAIN l.funds -> Int] /\ DOMAIN l.funds \subseteq Account \X Int \X Int

LEMMA HoldersDistinct ==
  /\ Account \subseteq Holder
  /\ {token_account, master_pool, distribution_fund, edendelegate, system_account} \subseteq Holder
  /\ token_account \notin Account /\ master_pool \notin Account /\ distribution_fund \notin Account
  /\ edendelegate \notin Account /\ system_account \notin Account
  /\ token_account # master_pool /\ token_account # distribution_fund /\ token_account # edendelegate
  /\ token_account # system_account /\ master_pool # distribution_fund /\ master_pool # edendelegate
  /\ master_pool # system_account /\ distribution_fund # edendelegate
  /\ distribution_fund # system_account /\ edendelegate # system_account
BY TreasuryAssumption DEF Holder, token_account, master_pool, distribution_fund, edendelegate, system_account

\* What a transfer does to a ledger.
Booked(l, c, from, to, q) ==
  /\ LedgerTyped(c) /\ c.funds = l.funds /\ c.aborted = l.aborted
  /\ DOMAIN l.balances \subseteq DOMAIN c.balances
  /\ \A x \in Holder : shown(c, x) + (IF x = from THEN q ELSE 0) = shown(l, x) + (IF x = to THEN q ELSE 0)

LEMMA ShownTyped ==
  ASSUME NEW l, LedgerTyped(l), NEW a
  PROVE  shown(l, a) \in Int
BY DEF LedgerTyped, shown

LEMMA BalanceAdded ==
  ASSUME NEW l, LedgerTyped(l), NEW a \in Holder, NEW delta \in Int
  PROVE  /\ LedgerTyped(add_balance(l, a, delta)) /\ add_balance(l, a, delta).funds = l.funds
         /\ add_balance(l, a, delta).aborted = l.aborted
         /\ DOMAIN add_balance(l, a, delta).balances = DOMAIN l.balances \cup {a}
         /\ shown(add_balance(l, a, delta), a) = shown(l, a) + delta
         /\ \A x : x # a => shown(add_balance(l, a, delta), x) = shown(l, x)
<1> DEFINE c == add_balance(l, a, delta)
           bs == [b \in DOMAIN l.balances \cup {a} |-> IF b = a THEN shown(l, a) + delta ELSE l.balances[b]]
<1>1. c = [l EXCEPT !.balances = bs]
  BY DEF add_balance
<1>2. shown(l, a) \in Int
  BY ShownTyped
<1>3. /\ DOMAIN bs = DOMAIN l.balances \cup {a} /\ bs[a] = shown(l, a) + delta
      /\ \A x \in DOMAIN l.balances : x # a => bs[x] = l.balances[x]
  OBVIOUS
<1>4. bs \in [DOMAIN bs -> Int]
  BY <1>2 DEF LedgerTyped
<1> HIDE DEF bs
<1>5. DOMAIN c = {"balances", "funds", "aborted"} /\ c.balances = bs /\ c.funds = l.funds /\ c.aborted = l.aborted
  BY <1>1 DEF LedgerTyped
<1> HIDE DEF c
<1>6. LedgerTyped(c)
  BY <1>3, <1>4, <1>5 DEF LedgerTyped
<1>7. shown(c, a) = shown(l, a) + delta
  <2>1. a \in DOMAIN c.balances /\ c.balances[a] = shown(l, a) + delta
    BY <1>3, <1>5
  <2> QED
    BY <2>1, Zenon DEF shown
<1>8. ASSUME NEW x, x # a PROVE shown(c, x) = shown(l, x)
  BY <1>3, <1>5, <1>8 DEF shown
<1> QED
  BY <1>3, <1>5, <1>6, <1>7, <1>8 DEF c

LEMMA FundsTransferred ==
  ASSUME NEW l, LedgerTyped(l), ~l.aborted, NEW from \in Holder, NEW to \in Holder, NEW q \in Int
  PROVE  /\ Booked(l, transfer_funds(l, from, to, q), from, to, q)
         /\ {from, to} \subseteq DOMAIN transfer_funds(l, from, to, q).balances
<1> DEFINE e == add_balance(l, from, -q)
           c == add_balance(e, to, q)
<1>1. transfer_funds(l, from, to, q) = c
  BY DEF transfer_funds
<1>2. -q \in Int
  OBVIOUS
<1>3. /\ LedgerTyped(e) /\ e.funds = l.funds /\ e.aborted = l.aborted
      /\ DOMAIN e.balances = DOMAIN l.balances \cup {from} /\ shown(e, from) = shown(l, from) + (-q)
      /\ \A x : x # from => shown(e, x) = shown(l, x)
  BY <1>2, BalanceAdded
<1> HIDE DEF e
<1>4. /\ LedgerTyped(c) /\ c.funds = e.funds /\ c.aborted = e.aborted
      /\ DOMAIN c.balances = DOMAIN e.balances \cup {to} /\ shown(c, to) = shown(e, to) + q
      /\ \A x : x # to => shown(c, x) = shown(e, x)
  BY <1>3, BalanceAdded
<1> HIDE DEF c
<1>5. ASSUME NEW x \in Holder
      PROVE  shown(c, x) + (IF x = from THEN q ELSE 0) = shown(l, x) + (IF x = to THEN q ELSE 0)
  <2>1. shown(l, x) \in Int /\ shown(e, x) \in Int /\ shown(c, x) \in Int
    BY <1>3, <1>4, ShownTyped
  <2>2. shown(e, x) + (IF x = from THEN q ELSE 0) = shown(l, x)
    BY <1>3, <2>1
  <2>3. shown(c, x) = shown(e, x) + (IF x = to THEN q ELSE 0)
    BY <1>4, <2>1
  <2> QED
    BY <2>1, <2>2, <2>3
<1> QED
  BY <1>1, <1>3, <1>4, <1>5 DEF Booked

\* Balances of users, or a history of theirs.
Amounts_of(u) == u \in [Account -> Int] /\ SumFunction(u) \in Int

\* An account has so much more.
Credited(u, v, a, q) ==
  /\ a \in Account /\ q \in Int /\ Amounts_of(u) /\ Amounts_of(v)
  /\ SumFunction(v) = SumFunction(u) + q /\ v[a] = u[a] + q
  /\ \A x \in Account : x # a => v[x] = u[x]

\* The rows of users, of the pool and of tokens, but for memos and withdrawals.
Explains(l, u, p, t, f, g) ==
  /\ LedgerTyped(l) /\ p \in Int /\ t \in Int /\ Amounts_of(u) /\ Amounts_of(f) /\ Amounts_of(g)
  /\ token_account \in DOMAIN l.balances
  /\ shown(l, token_account) + t = 0
  /\ shown(l, system_account) = 0
  /\ shown(l, edendelegate) + SumFunction(g) = 0
  /\ shown(l, master_pool) + SumFunction(f) = p
  /\ shown(l, distribution_fund) + SumFunction(u) + p = t
  /\ \A a \in Account : shown(l, a) = u[a] + f[a] + g[a]

\* The funds of members.
FundsMatch(l, d) ==
  /\ \A k \in DOMAIN d : k[1] # contract => k \in DOMAIN l.funds
  /\ \A k \in DOMAIN l.funds : l.funds[k] = IF k \in DOMAIN d THEN d[k] ELSE 0

HistoryTyped == memoed \in [Account -> Int] /\ withdrawn \in [Account -> Int]

Solvent == \A a \in Account : user[a] >= 0

Agrees ==
  /\ LedgerTyped(ledger)
  /\ ~ledger.aborted => /\ Explains(ledger, user, pool, token, memoed, withdrawn)
                        /\ FundsMatch(ledger, dist)

LInv == TInv /\ HistoryTyped /\ Solvent /\ Agrees

LEMMA AmountsTyped ==
  ASSUME NEW u \in [Account -> Int]
  PROVE  Amounts_of(u)
<1>1. IsFiniteSet(Account) /\ DOMAIN u = Account
  BY TreasuryAssumption
<1> QED
  BY <1>1, SumDomain DEF Amounts_of

LEMMA UserCredited ==
  ASSUME NEW u \in [Account -> Int], NEW a \in Account, NEW q \in Int
  PROVE  /\ Credited(u, add_user_balance(u, a, q), a, q)
         /\ Credited(sub_user_balance(u, a, q), u, a, q)
<1> DEFINE v == add_user_balance(u, a, q)
           w == sub_user_balance(u, a, q)
<1>1. /\ v \in [Account -> Int] /\ w \in [Account -> Int] /\ SumFunction(u) \in Int
      /\ SumFunction(v) = SumFunction(u) + q /\ SumFunction(w) = SumFunction(u) - q
  BY UserSum
<1>2. Amounts_of(u) /\ Amounts_of(v) /\ Amounts_of(w)
  BY <1>1, AmountsTyped
<1>3. v[a] = u[a] + q /\ u[a] = w[a] + q
  BY DEF add_user_balance, sub_user_balance
<1>4. \A x \in Account : x # a => v[x] = u[x] /\ u[x] = w[x]
  BY DEF add_user_balance, sub_user_balance
<1> HIDE DEF v, w
<1>5. SumFunction(u) = SumFunction(w) + q
  BY <1>1
<1> QED
  BY <1>1, <1>2, <1>3, <1>4, <1>5 DEF Credited, v, w

\* Members' accounts are all that funds are compared with.
LEMMA FundsMatchSame ==
  ASSUME NEW l, LedgerTyped(l), NEW d, NEW e, FundsMatch(l, d), OthersSame(d, e), NEW c, c.funds = l.funds
  PROVE  FundsMatch(c, e)
<1>1. ASSUME NEW k \in DOMAIN l.funds PROVE k[1] # contract
  <2>1. k \in Account \X Int \X Int
    BY DEF LedgerTyped
  <2>2. k[1] \in Account
    BY <2>1
  <2> QED
    BY <2>2, TreasuryAssumption DEF contract
<1> QED
  BY <1>1 DEF FundsMatch, OthersSame

\* setup_distribution, and what the micro chain is told of it.
LEMMA SetupShown ==
  ASSUME TInv, NEW l, LedgerTyped(l), ~l.aborted, NEW b, b = setup_distribution(books)
  PROVE  /\ b.pool \in Int /\ pool \in Int /\ OthersSame(dist, b.dist)
         /\ Booked(l, setup_shown(l), master_pool, distribution_fund, pool - b.pool)
<1>1. SetUp(books, b, next_election_time)
  BY SetUpNow
<1>2. BooksInv(b) /\ OthersSame(dist, b.dist)
  BY <1>1 DEF SetUp, books
<1>3. b.pool \in Int /\ pool \in Int
  BY <1>2, TotalTyped DEF BooksInv, BooksTyped
<1>4. CASE due(books)
  <2>1. setup_shown(l) = transfer_funds(l, master_pool, distribution_fund, pool - b.pool)
    BY <1>4 DEF setup_shown, event_reserve
  <2>2. pool - b.pool \in Int
    BY <1>3
  <2> QED
    BY <1>2, <1>3, <2>1, <2>2, FundsTransferred, HoldersDistinct
<1>5. CASE ~due(books)
  <2>1. b = books
    BY <1>5 DEF setup_distribution, setup_loop
  <2>2. pool - b.pool = 0 /\ setup_shown(l) = l
    BY <1>3, <1>5, <2>1 DEF books, setup_shown
  <2>3. Booked(l, l, master_pool, distribution_fund, 0)
    BY ShownTyped DEF Booked
  <2> QED
    BY <1>2, <1>3, <2>2, <2>3
<1> QED
  BY <1>4, <1>5

\* A micro chain that has aborted does nothing.
LEMMA AbortedStays ==
  ASSUME NEW l, l.aborted
  PROVE  /\ \A from, to, q : transfer_funds(l, from, to, q) = l
         /\ \A from, q : notify_deposit(l, from, q) = l
         /\ setup_shown(l) = l
         /\ \A key, q : spend_fund(l, key, q) = l
         /\ \A funds : event_fund(l, funds) = l
         /\ \A m, new : account_renamed(l, m, new) = l
<1>1. \A from, to, q : transfer_funds(l, from, to, q) = l
  BY DEF transfer_funds
<1>2. \A from, q : notify_deposit(l, from, q) = l
  BY <1>1, Zenon DEF notify_deposit
<1>3. setup_shown(l) = l
  BY <1>1, Zenon DEF setup_shown, event_reserve
<1>4. \A key, q : spend_fund(l, key, q) = l
  BY DEF spend_fund
<1>5. \A funds : event_fund(l, funds) = l
  BY Zenon DEF event_fund
<1>6. \A m, new : account_renamed(l, m, new) = l
  BY Zenon DEF account_renamed
<1> QED
  BY <1>1, <1>2, <1>3, <1>4, <1>5, <1>6

LEMMA OthersUnchanged ==
  ASSUME NEW d PROVE OthersSame(d, d)
BY DEF OthersSame

-----------------------------------------------------------------------------
(***************************************************************************)
(* What the bookings of the micro chain have to do with the contract's.    *)
(***************************************************************************)
RowsMoved(l, c, from, to, q) ==
  /\ from \in Holder /\ to \in Holder /\ q \in Int
  /\ from # to => shown(c, from) + q = shown(l, from) /\ shown(c, to) = shown(l, to) + q
  /\ from = to => shown(c, from) = shown(l, from)
  /\ \A x \in Holder : x # from /\ x # to => shown(c, x) = shown(l, x)
  /\ LedgerTyped(c) /\ DOMAIN l.balances \subseteq DOMAIN c.balances
  /\ \A x : shown(c, x) \in Int /\ shown(l, x) \in Int

LEMMA BookedRows ==
  ASSUME NEW l, LedgerTyped(l), NEW c, NEW from \in Holder, NEW to \in Holder, NEW q \in Int, Booked(l, c, from, to, q)
  PROVE  RowsMoved(l, c, from, to, q)
<1>1. LedgerTyped(c) /\ DOMAIN l.balances \subseteq DOMAIN c.balances
  BY DEF Booked
<1>2. \A x : shown(c, x) \in Int /\ shown(l, x) \in Int
  BY <1>1, ShownTyped
<1>3. \A x \in Holder : shown(c, x) + (IF x = from THEN q ELSE 0) = shown(l, x) + (IF x = to THEN q ELSE 0)
  BY DEF Booked
<1>4. from # to => shown(c, from) + q = shown(l, from)
  BY <1>2, <1>3
<1>5. from # to => shown(c, to) = shown(l, to) + q
  BY <1>2, <1>3
<1>6. \A x \in Holder : x # from /\ x # to => shown(c, x) = shown(l, x)
  BY <1>2, <1>3
<1>7. from = to => shown(c, from) = shown(l, from)
  BY <1>2, <1>3
<1> QED
  BY <1>1, <1>2, <1>4, <1>5, <1>6, <1>7 DEF RowsMoved

\* Amounts are numbers, ...
LEMMA ExplainsTyped ==
  ASSUME NEW l, NEW u, NEW p, NEW t, NEW f, NEW g, Explains(l, u, p, t, f, g)
  PROVE  /\ LedgerTyped(l) /\ t \in Int /\ p \in Int /\ Amounts_of(u) /\ Amounts_of(f) /\ Amounts_of(g)
         /\ SumFunction(u) \in Int /\ SumFunction(f) \in Int /\ SumFunction(g) \in Int
         /\ \A x \in Account : u[x] \in Int /\ f[x] \in Int /\ g[x] \in Int
BY DEF Explains, Amounts_of

\* ... so are those of an account that has more.
LEMMA CreditedTyped ==
  ASSUME NEW u, NEW v, NEW a, NEW q, Credited(u, v, a, q)
  PROVE  /\ a \in Account /\ a \in Holder /\ q \in Int /\ Amounts_of(u) /\ Amounts_of(v)
         /\ SumFunction(u) \in Int /\ SumFunction(v) \in Int
         /\ SumFunction(v) = SumFunction(u) + q /\ v[a] = u[a] + q
         /\ \A x \in Account : u[x] \in Int /\ v[x] \in Int /\ (x # a => v[x] = u[x])
BY HoldersDistinct DEF Credited, Amounts_of

\* A deposit.
LEMMA DepositExplained ==
  ASSUME NEW l, NEW u, NEW p, NEW t, NEW f, NEW g, Explains(l, u, p, t, f, g), NEW a, NEW q, 
         NEW v, Credited(u, v, a, q), NEW c, Booked(l, c, token_account, a, q)
  PROVE  Explains(c, v, p, t + q, f, g)
<1>1. token_account \in Holder /\ a \in Holder /\ q \in Int
  BY HoldersDistinct, CreditedTyped
<1>2. RowsMoved(l, c, token_account, a, q)
  BY <1>1, ExplainsTyped, BookedRows, Zenon
<1>3. p \in Int /\ t + q \in Int /\ Amounts_of(v) /\ Amounts_of(f) /\ Amounts_of(g)
  BY <1>1, ExplainsTyped, CreditedTyped
<1>4. LedgerTyped(c) /\ token_account \in DOMAIN c.balances /\ \A x : shown(c, x) \in Int /\ shown(l, x) \in Int
  BY <1>2 DEF RowsMoved, Explains
<1>5. /\ shown(c, token_account) + q = shown(l, token_account)
      /\ shown(c, system_account) = shown(l, system_account)
      /\ shown(c, edendelegate) = shown(l, edendelegate)
      /\ shown(c, master_pool) = shown(l, master_pool)
      /\ shown(c, distribution_fund) = shown(l, distribution_fund)
  BY <1>2, CreditedTyped, HoldersDistinct DEF RowsMoved
<1>6. /\ shown(l, token_account) + t = 0 /\ shown(l, system_account) = 0
      /\ shown(l, edendelegate) + SumFunction(g) = 0 /\ shown(l, master_pool) + SumFunction(f) = p
      /\ shown(l, distribution_fund) + SumFunction(u) + p = t
  BY DEF Explains
<1>7. /\ shown(c, token_account) + (t + q) = 0 /\ shown(c, system_account) = 0
      /\ shown(c, edendelegate) + SumFunction(g) = 0 /\ shown(c, master_pool) + SumFunction(f) = p
      /\ shown(c, distribution_fund) + SumFunction(v) + p = t + q
  BY <1>1, <1>4, <1>5, <1>6, ExplainsTyped, CreditedTyped
<1>8. ASSUME NEW x \in Account PROVE shown(c, x) = v[x] + f[x] + g[x]
  <2>1. shown(l, x) = u[x] + f[x] + g[x] /\ x \in Holder
    BY HoldersDistinct DEF Explains
  <2>2. CASE x = a
    <3>1. shown(c, a) = shown(l, a) + q
      BY <1>2, CreditedTyped, HoldersDistinct DEF RowsMoved
    <3> QED
      BY <1>4, <2>1, <2>2, <3>1, ExplainsTyped, CreditedTyped
  <2>3. CASE x # a
    <3>1. shown(c, x) = shown(l, x)
      BY <1>2, <2>1, <2>3, HoldersDistinct DEF RowsMoved
    <3> QED
      BY <2>1, <2>3, <3>1, CreditedTyped
  <2> QED
    BY <2>2, <2>3
<1> QED
  BY <1>3, <1>4, <1>7, <1>8 DEF Explains

\* A deposit that the contract takes for a donation.
LEMMA MemoExplained ==
  ASSUME NEW l, NEW u, NEW p, NEW t, NEW f, NEW g, Explains(l, u, p, t, f, g), NEW a, NEW q, 
         NEW v, Credited(f, v, a, q), NEW c, Booked(l, c, token_account, a, q)
  PROVE  Explains(c, u, p + q, t + q, v, g)
<1>1. token_account \in Holder /\ a \in Holder /\ q \in Int
  BY HoldersDistinct, CreditedTyped
<1>2. RowsMoved(l, c, token_account, a, q)
  BY <1>1, ExplainsTyped, BookedRows, Zenon
<1>3. p + q \in Int /\ t + q \in Int /\ Amounts_of(u) /\ Amounts_of(v) /\ Amounts_of(g)
  BY <1>1, ExplainsTyped, CreditedTyped
<1>4. LedgerTyped(c) /\ token_account \in DOMAIN c.balances /\ \A x : shown(c, x) \in Int /\ shown(l, x) \in Int
  BY <1>2 DEF RowsMoved, Explains
<1>5. /\ shown(c, token_account) + q = shown(l, token_account)
      /\ shown(c, system_account) = shown(l, system_account)
      /\ shown(c, edendelegate) = shown(l, edendelegate)
      /\ shown(c, master_pool) = shown(l, master_pool)
      /\ shown(c, distribution_fund) = shown(l, distribution_fund)
  BY <1>2, CreditedTyped, HoldersDistinct DEF RowsMoved
<1>6. /\ shown(l, token_account) + t = 0 /\ shown(l, system_account) = 0
      /\ shown(l, edendelegate) + SumFunction(g) = 0 /\ shown(l, master_pool) + SumFunction(f) = p
      /\ shown(l, distribution_fund) + SumFunction(u) + p = t
  BY DEF Explains
<1>7. /\ shown(c, token_account) + (t + q) = 0 /\ shown(c, system_account) = 0
      /\ shown(c, edendelegate) + SumFunction(g) = 0 /\ shown(c, master_pool) + SumFunction(v) = p + q
      /\ shown(c, distribution_fund) + SumFunction(u) + (p + q) = t + q
  BY <1>1, <1>4, <1>5, <1>6, ExplainsTyped, CreditedTyped
<1>8. ASSUME NEW x \in Account PROVE shown(c, x) = u[x] + v[x] + g[x]
  <2>1. shown(l, x) = u[x] + f[x] + g[x] /\ x \in Holder
    BY HoldersDistinct DEF Explains
  <2>2. CASE x = a
    <3>1. shown(c, a) = shown(l, a) + q
      BY <1>2, CreditedTyped, HoldersDistinct DEF RowsMoved
    <3> QED
      BY <1>4, <2>1, <2>2, <3>1, ExplainsTyped, CreditedTyped
  <2>3. CASE x # a
    <3>1. shown(c, x) = shown(l, x)
      BY <1>2, <2>1, <2>3, HoldersDistinct DEF RowsMoved
    <3> QED
      BY <2>1, <2>3, <3>1, CreditedTyped
  <2> QED
    BY <2>2, <2>3
<1> QED
  BY <1>3, <1>4, <1>7, <1>8 DEF Explains

\* A donation out of an account.
LEMMA DonateExplained ==
  ASSUME NEW l, NEW u, NEW p, NEW t, NEW f, NEW g, Explains(l, u, p, t, f, g), NEW a, NEW q, 
         NEW v, Credited(v, u, a, q), NEW c, Booked(l, c, a, master_pool, q)
  PROVE  Explains(c, v, p + q, t, f, g)
<1>1. a \in Holder /\ master_pool \in Holder /\ q \in Int
  BY HoldersDistinct, CreditedTyped
<1>2. RowsMoved(l, c, a, master_pool, q)
  BY <1>1, ExplainsTyped, BookedRows, Zenon
<1>3. p + q \in Int /\ t \in Int /\ Amounts_of(v) /\ Amounts_of(f) /\ Amounts_of(g)
  BY <1>1, ExplainsTyped, CreditedTyped
<1>4. LedgerTyped(c) /\ token_account \in DOMAIN c.balances /\ \A x : shown(c, x) \in Int /\ shown(l, x) \in Int
  BY <1>2 DEF RowsMoved, Explains
<1>5. /\ shown(c, token_account) = shown(l, token_account)
      /\ shown(c, system_account) = shown(l, system_account)
      /\ shown(c, edendelegate) = shown(l, edendelegate)
      /\ shown(c, master_pool) = shown(l, master_pool) + q
      /\ shown(c, distribution_fund) = shown(l, distribution_fund)
  BY <1>2, CreditedTyped, HoldersDistinct DEF RowsMoved
<1>6. /\ shown(l, token_account) + t = 0 /\ shown(l, system_account) = 0
      /\ shown(l, edendelegate) + SumFunction(g) = 0 /\ shown(l, master_pool) + SumFunction(f) = p
      /\ shown(l, distribution_fund) + SumFunction(u) + p = t
  BY DEF Explains
<1>7. /\ shown(c, token_account) + t = 0 /\ shown(c, system_account) = 0
      /\ shown(c, edendelegate) + SumFunction(g) = 0 /\ shown(c, master_pool) + SumFunction(f) = p + q
      /\ shown(c, distribution_fund) + SumFunction(v) + (p + q) = t
  BY <1>1, <1>4, <1>5, <1>6, ExplainsTyped, CreditedTyped
<1>8. ASSUME NEW x \in Account PROVE shown(c, x) = v[x] + f[x] + g[x]
  <2>1. shown(l, x) = u[x] + f[x] + g[x] /\ x \in Holder
    BY HoldersDistinct DEF Explains
  <2>2. CASE x = a
    <3>1. shown(c, a) + q = shown(l, a)
      BY <1>2, CreditedTyped, HoldersDistinct DEF RowsMoved
    <3>2. u[x] = v[x] + q /\ v[x] \in Int /\ f[x] \in Int /\ g[x] \in Int
      BY <2>2, ExplainsTyped, CreditedTyped
    <3>3. shown(c, x) \in Int /\ shown(c, x) + q = v[x] + q + f[x] + g[x]
      BY <1>4, <2>1, <2>2, <3>1, <3>2
    <3> QED
      BY <1>1, <3>2, <3>3
  <2>3. CASE x # a
    <3>1. shown(c, x) = shown(l, x)
      BY <1>2, <2>1, <2>3, HoldersDistinct DEF RowsMoved
    <3> QED
      BY <2>1, <2>3, <3>1, CreditedTyped
  <2> QED
    BY <2>2, <2>3
<1> QED
  BY <1>3, <1>4, <1>7, <1>8 DEF Explains

\* A withdrawal, which the micro chain takes from the account it is sent to.
LEMMA WithdrawExplained ==
  ASSUME NEW l, NEW u, NEW p, NEW t, NEW f, NEW g, Explains(l, u, p, t, f, g), NEW a, NEW q, 
         NEW v, Credited(v, u, a, q), NEW h, Credited(g, h, a, q), NEW c, Booked(l, c, edendelegate, token_account, q)
  PROVE  Explains(c, v, p, t - q, f, h)
<1>1. edendelegate \in Holder /\ token_account \in Holder /\ q \in Int
  BY HoldersDistinct, CreditedTyped
<1>2. RowsMoved(l, c, edendelegate, token_account, q)
  BY <1>1, ExplainsTyped, BookedRows, Zenon
<1>3. p \in Int /\ t - q \in Int /\ Amounts_of(v) /\ Amounts_of(f) /\ Amounts_of(h)
  BY <1>1, ExplainsTyped, CreditedTyped
<1>4. LedgerTyped(c) /\ token_account \in DOMAIN c.balances /\ \A x : shown(c, x) \in Int /\ shown(l, x) \in Int
  BY <1>2 DEF RowsMoved, Explains
<1>5. /\ shown(c, token_account) = shown(l, token_account) + q
      /\ shown(c, system_account) = shown(l, system_account)
      /\ shown(c, edendelegate) + q = shown(l, edendelegate)
      /\ shown(c, master_pool) = shown(l, master_pool)
      /\ shown(c, distribution_fund) = shown(l, distribution_fund)
  BY <1>2, CreditedTyped, HoldersDistinct DEF RowsMoved
<1>6. /\ shown(l, token_account) + t = 0 /\ shown(l, system_account) = 0
      /\ shown(l, edendelegate) + SumFunction(g) = 0 /\ shown(l, master_pool) + SumFunction(f) = p
      /\ shown(l, distribution_fund) + SumFunction(u) + p = t
  BY DEF Explains
<1>7. /\ shown(c, token_account) + (t - q) = 0 /\ shown(c, system_account) = 0
      /\ shown(c, edendelegate) + SumFunction(h) = 0 /\ shown(c, master_pool) + SumFunction(f) = p
      /\ shown(c, distribution_fund) + SumFunction(v) + p = t - q
  BY <1>1, <1>4, <1>5, <1>6, ExplainsTyped, CreditedTyped
<1>8. ASSUME NEW x \in Account PROVE shown(c, x) = v[x] + f[x] + h[x]
  <2>1. shown(l, x) = u[x] + f[x] + g[x] /\ x \in Holder
    BY HoldersDistinct DEF Explains
  <2>2. shown(c, x) = shown(l, x)
    BY <1>2, <2>1, HoldersDistinct DEF RowsMoved
  <2>3. CASE x = a
    BY <2>1, <2>2, <2>3, ExplainsTyped, CreditedTyped
  <2>4. CASE x # a
    BY <2>1, <2>2, <2>4, CreditedTyped
  <2> QED
    BY <2>3, <2>4
<1> QED
  BY <1>3, <1>4, <1>7, <1>8 DEF Explains

\* A transfer out of a fund.
LEMMA FundExplained ==
  ASSUME NEW l, NEW u, NEW p, NEW t, NEW f, NEW g, Explains(l, u, p, t, f, g), NEW a, NEW q, 
         NEW v, Credited(u, v, a, q), NEW c, Booked(l, c, distribution_fund, a, q)
  PROVE  Explains(c, v, p, t, f, g)
<1>1. distribution_fund \in Holder /\ a \in Holder /\ q \in Int
  BY HoldersDistinct, CreditedTyped
<1>2. RowsMoved(l, c, distribution_fund, a, q)
  BY <1>1, ExplainsTyped, BookedRows, Zenon
<1>3. p \in Int /\ t \in Int /\ Amounts_of(v) /\ Amounts_of(f) /\ Amounts_of(g)
  BY <1>1, ExplainsTyped, CreditedTyped
<1>4. LedgerTyped(c) /\ token_account \in DOMAIN c.balances /\ \A x : shown(c, x) \in Int /\ shown(l, x) \in Int
  BY <1>2 DEF RowsMoved, Explains
<1>5. /\ shown(c, token_account) = shown(l, token_account)
      /\ shown(c, system_account) = shown(l, system_account)
      /\ shown(c, edendelegate) = shown(l, edendelegate)
      /\ shown(c, master_pool) = shown(l, master_pool)
      /\ shown(c, distribution_fund) + q = shown(l, distribution_fund)
  BY <1>2, CreditedTyped, HoldersDistinct DEF RowsMoved
<1>6. /\ shown(l, token_account) + t = 0 /\ shown(l, system_account) = 0
      /\ shown(l, edendelegate) + SumFunction(g) = 0 /\ shown(l, master_pool) + SumFunction(f) = p
      /\ shown(l, distribution_fund) + SumFunction(u) + p = t
  BY DEF Explains
<1>7. /\ shown(c, token_account) + t = 0 /\ shown(c, system_account) = 0
      /\ shown(c, edendelegate) + SumFunction(g) = 0 /\ shown(c, master_pool) + SumFunction(f) = p
      /\ shown(c, distribution_fund) + SumFunction(v) + p = t
  BY <1>1, <1>4, <1>5, <1>6, ExplainsTyped, CreditedTyped
<1>8. ASSUME NEW x \in Account PROVE shown(c, x) = v[x] + f[x] + g[x]
  <2>1. shown(l, x) = u[x] + f[x] + g[x] /\ x \in Holder
    BY HoldersDistinct DEF Explains
  <2>2. CASE x = a
    <3>1. shown(c, a) = shown(l, a) + q
      BY <1>2, CreditedTyped, HoldersDistinct DEF RowsMoved
    <3> QED
      BY <1>4, <2>1, <2>2, <3>1, ExplainsTyped, CreditedTyped
  <2>3. CASE x # a
    <3>1. shown(c, x) = shown(l, x)
      BY <1>2, <2>1, <2>3, HoldersDistinct DEF RowsMoved
    <3> QED
      BY <2>1, <2>3, <3>1, CreditedTyped
  <2> QED
    BY <2>2, <2>3
<1> QED
  BY <1>3, <1>4, <1>7, <1>8 DEF Explains

\* Funds are reserved for distributions, ...
LEMMA ReserveExplained ==
  ASSUME NEW l, NEW u, NEW p, NEW t, NEW f, NEW g, Explains(l, u, p, t, f, g), NEW q \in Int, 
         NEW c, Booked(l, c, master_pool, distribution_fund, q)
  PROVE  Explains(c, u, p - q, t, f, g)
<1>1. master_pool \in Holder /\ distribution_fund \in Holder /\ q \in Int
  BY HoldersDistinct
<1>2. RowsMoved(l, c, master_pool, distribution_fund, q)
  BY <1>1, ExplainsTyped, BookedRows, Zenon
<1>3. p - q \in Int /\ t \in Int /\ Amounts_of(u) /\ Amounts_of(f) /\ Amounts_of(g)
  BY <1>1, ExplainsTyped
<1>4. LedgerTyped(c) /\ token_account \in DOMAIN c.balances /\ \A x : shown(c, x) \in Int /\ shown(l, x) \in Int
  BY <1>2 DEF RowsMoved, Explains
<1>5. /\ shown(c, token_account) = shown(l, token_account)
      /\ shown(c, system_account) = shown(l, system_account)
      /\ shown(c, edendelegate) = shown(l, edendelegate)
      /\ shown(c, master_pool) + q = shown(l, master_pool)
      /\ shown(c, distribution_fund) = shown(l, distribution_fund) + q
  BY <1>2, HoldersDistinct DEF RowsMoved
<1>6. /\ shown(l, token_account) + t = 0 /\ shown(l, system_account) = 0
      /\ shown(l, edendelegate) + SumFunction(g) = 0 /\ shown(l, master_pool) + SumFunction(f) = p
      /\ shown(l, distribution_fund) + SumFunction(u) + p = t
  BY DEF Explains
<1>7. /\ shown(c, token_account) + t = 0 /\ shown(c, system_account) = 0
      /\ shown(c, edendelegate) + SumFunction(g) = 0 /\ shown(c, master_pool) + SumFunction(f) = p - q
      /\ shown(c, distribution_fund) + SumFunction(u) + (p - q) = t
  BY <1>1, <1>4, <1>5, <1>6, ExplainsTyped
<1>8. \A x \in Account : shown(c, x) = u[x] + f[x] + g[x]
  BY <1>2, HoldersDistinct DEF RowsMoved, Explains
<1> QED
  BY <1>3, <1>4, <1>7, <1>8 DEF Explains

\* ... or go back.
LEMMA ReturnExplained ==
  ASSUME NEW l, NEW u, NEW p, NEW t, NEW f, NEW g, Explains(l, u, p, t, f, g), NEW q \in Int, 
         NEW c, Booked(l, c, distribution_fund, master_pool, q)
  PROVE  Explains(c, u, p + q, t, f, g)
<1>1. distribution_fund \in Holder /\ master_pool \in Holder /\ q \in Int
  BY HoldersDistinct
<1>2. RowsMoved(l, c, distribution_fund, master_pool, q)
  BY <1>1, ExplainsTyped, BookedRows, Zenon
<1>3. p + q \in Int /\ t \in Int /\ Amounts_of(u) /\ Amounts_of(f) /\ Amounts_of(g)
  BY <1>1, ExplainsTyped
<1>4. LedgerTyped(c) /\ token_account \in DOMAIN c.balances /\ \A x : shown(c, x) \in Int /\ shown(l, x) \in Int
  BY <1>2 DEF RowsMoved, Explains
<1>5. /\ shown(c, token_account) = shown(l, token_account)
      /\ shown(c, system_account) = shown(l, system_account)
      /\ shown(c, edendelegate) = shown(l, edendelegate)
      /\ shown(c, master_pool) = shown(l, master_pool) + q
      /\ shown(c, distribution_fund) + q = shown(l, distribution_fund)
  BY <1>2, HoldersDistinct DEF RowsMoved
<1>6. /\ shown(l, token_account) + t = 0 /\ shown(l, system_account) = 0
      /\ shown(l, edendelegate) + SumFunction(g) = 0 /\ shown(l, master_pool) + SumFunction(f) = p
      /\ shown(l, distribution_fund) + SumFunction(u) + p = t
  BY DEF Explains
<1>7. /\ shown(c, token_account) + t = 0 /\ shown(c, system_account) = 0
      /\ shown(c, edendelegate) + SumFunction(g) = 0 /\ shown(c, master_pool) + SumFunction(f) = p + q
      /\ shown(c, distribution_fund) + SumFunction(u) + (p + q) = t
  BY <1>1, <1>4, <1>5, <1>6, ExplainsTyped
<1>8. \A x \in Account : shown(c, x) = u[x] + f[x] + g[x]
  BY <1>2, HoldersDistinct DEF RowsMoved, Explains
<1> QED
  BY <1>3, <1>4, <1>7, <1>8 DEF Explains

\* A transfer between users, who may be the same.
LEMMA UserExplained ==
  ASSUME NEW l, NEW u, NEW p, NEW t, NEW f, NEW g, Explains(l, u, p, t, f, g), NEW a, NEW q, 
         NEW w, NEW v, NEW b, Credited(w, u, a, q), Credited(w, v, b, q), NEW c, Booked(l, c, a, b, q)
  PROVE  Explains(c, v, p, t, f, g)
<1>1. a \in Holder /\ b \in Holder /\ q \in Int
  BY HoldersDistinct, CreditedTyped
<1>2. RowsMoved(l, c, a, b, q)
  BY <1>1, ExplainsTyped, BookedRows, Zenon
<1>3. p \in Int /\ t \in Int /\ Amounts_of(v) /\ Amounts_of(f) /\ Amounts_of(g)
  BY <1>1, ExplainsTyped, CreditedTyped
<1>4. LedgerTyped(c) /\ token_account \in DOMAIN c.balances /\ \A x : shown(c, x) \in Int /\ shown(l, x) \in Int
  BY <1>2 DEF RowsMoved, Explains
<1>5. /\ shown(c, token_account) = shown(l, token_account)
      /\ shown(c, system_account) = shown(l, system_account)
      /\ shown(c, edendelegate) = shown(l, edendelegate)
      /\ shown(c, master_pool) = shown(l, master_pool)
      /\ shown(c, distribution_fund) = shown(l, distribution_fund)
  BY <1>2, CreditedTyped, HoldersDistinct DEF RowsMoved
<1>6. /\ shown(l, token_account) + t = 0 /\ shown(l, system_account) = 0
      /\ shown(l, edendelegate) + SumFunction(g) = 0 /\ shown(l, master_pool) + SumFunction(f) = p
      /\ shown(l, distribution_fund) + SumFunction(u) + p = t
  BY DEF Explains
<1>7. /\ shown(c, token_account) + t = 0 /\ shown(c, system_account) = 0
      /\ shown(c, edendelegate) + SumFunction(g) = 0 /\ shown(c, master_pool) + SumFunction(f) = p
      /\ shown(c, distribution_fund) + SumFunction(v) + p = t
  BY <1>1, <1>4, <1>5, <1>6, ExplainsTyped, CreditedTyped
<1>8. ASSUME NEW x \in Account PROVE shown(c, x) = v[x] + f[x] + g[x]
  <2>1. shown(l, x) = u[x] + f[x] + g[x] /\ x \in Holder
    BY HoldersDistinct DEF Explains
  <2> DEFINE y == IF x = a THEN q ELSE 0
             z == IF x = b THEN q ELSE 0
  <2>2. shown(c, x) + y = shown(l, x) + z
    BY <2>1 DEF Booked
  <2>3. w[x] \in Int /\ f[x] \in Int /\ g[x] \in Int /\ y \in Int /\ z \in Int
    BY <1>1, ExplainsTyped, CreditedTyped
  <2>4. u[x] = w[x] + y /\ v[x] = w[x] + z
    BY <1>1, <2>3, CreditedTyped
  <2>5. shown(c, x) \in Int /\ shown(l, x) \in Int /\ u[x] \in Int /\ v[x] \in Int
    BY <1>4, ExplainsTyped, CreditedTyped
  <2> HIDE DEF y, z
  <2>6. \A i, j, k, m, n, r, o, e \in Int : i + o = j + e /\ j = k + m + n /\ k = r + o => i = (r + e) + m + n
    OBVIOUS
  <2> QED
    BY <2>1, <2>2, <2>3, <2>4, <2>5, <2>6
<1> QED
  BY <1>3, <1>4, <1>7, <1>8 DEF Explains

\* A deposit of a system account goes on to the pool.
LEMMA SystemExplained ==
  ASSUME NEW l, NEW u, NEW p, NEW t, NEW f, NEW g, Explains(l, u, p, t, f, g), NEW q \in Int,
         NEW c, Booked(l, c, token_account, system_account, q), NEW e, Booked(c, e, system_account, master_pool, q)
  PROVE  Explains(e, u, p + q, t + q, f, g)
<1>1. token_account \in Holder /\ system_account \in Holder /\ master_pool \in Holder
  BY HoldersDistinct
<1>2. RowsMoved(l, c, token_account, system_account, q) /\ LedgerTyped(c)
  <2>1. LedgerTyped(c)
    BY DEF Booked
  <2> QED
    BY <1>1, <2>1, ExplainsTyped, BookedRows, Zenon
<1>3. RowsMoved(c, e, system_account, master_pool, q)
  BY <1>1, <1>2, BookedRows, Zenon
<1>4. p + q \in Int /\ t + q \in Int /\ Amounts_of(u) /\ Amounts_of(f) /\ Amounts_of(g)
  BY ExplainsTyped
<1>5. LedgerTyped(e) /\ token_account \in DOMAIN e.balances /\ \A x : shown(l, x) \in Int /\ shown(c, x) \in Int /\ shown(e, x) \in Int
  BY <1>2, <1>3 DEF RowsMoved, Explains
<1>6. /\ shown(c, token_account) + q = shown(l, token_account) /\ shown(c, system_account) = shown(l, system_account) + q
      /\ shown(c, edendelegate) = shown(l, edendelegate) /\ shown(c, master_pool) = shown(l, master_pool)
      /\ shown(c, distribution_fund) = shown(l, distribution_fund)
  BY <1>2, HoldersDistinct DEF RowsMoved
<1>7. /\ shown(e, token_account) = shown(c, token_account) /\ shown(e, system_account) + q = shown(c, system_account)
      /\ shown(e, edendelegate) = shown(c, edendelegate) /\ shown(e, master_pool) = shown(c, master_pool) + q
      /\ shown(e, distribution_fund) = shown(c, distribution_fund)
  BY <1>3, HoldersDistinct DEF RowsMoved
<1>8. /\ shown(l, token_account) + t = 0 /\ shown(l, system_account) = 0
      /\ shown(l, edendelegate) + SumFunction(g) = 0 /\ shown(l, master_pool) + SumFunction(f) = p
      /\ shown(l, distribution_fund) + SumFunction(u) + p = t
  BY DEF Explains
<1>9. /\ shown(e, token_account) + (t + q) = 0 /\ shown(e, system_account) = 0
      /\ shown(e, edendelegate) + SumFunction(g) = 0 /\ shown(e, master_pool) + SumFunction(f) = p + q
      /\ shown(e, distribution_fund) + SumFunction(u) + (p + q) = t + q
  BY <1>5, <1>6, <1>7, <1>8, ExplainsTyped
<1>10. \A x \in Account : shown(e, x) = u[x] + f[x] + g[x]
  <2>1. \A x \in Account : shown(c, x) = shown(l, x)
    BY <1>2, HoldersDistinct DEF RowsMoved
  <2>2. \A x \in Account : shown(e, x) = shown(c, x)
    BY <1>3, HoldersDistinct DEF RowsMoved
  <2> QED
    BY <2>1, <2>2 DEF Explains
<1> QED
  BY <1>4, <1>5, <1>9, <1>10 DEF Explains

-----------------------------------------------------------------------------
(***************************************************************************)
(* Transfers, and the ledger.                                              *)
(***************************************************************************)
LEMMA StillRunning ==
  ASSUME LInv, ~ledger.aborted
  PROVE  /\ LedgerTyped(ledger) /\ Explains(ledger, user, pool, token, memoed, withdrawn) /\ FundsMatch(ledger, dist)
         /\ user \in [Account -> Int] /\ memoed \in [Account -> Int] /\ withdrawn \in [Account -> Int]
         /\ pool \in Int /\ token \in Int
<1>1. TInv /\ HistoryTyped /\ Agrees
  BY DEF LInv
<1> QED
  BY <1>1, ConservedSums, TotalTyped DEF Agrees, HistoryTyped

LEMMA AgreesNext ==
  ASSUME LInv, ~ledger.aborted, Explains(ledger', user', pool', token', memoed', withdrawn'),
         ledger'.funds = ledger.funds, OthersSame(dist, dist')
  PROVE  HistoryTyped' /\ Agrees'
<1>1. LedgerTyped(ledger') /\ Amounts_of(memoed') /\ Amounts_of(withdrawn')
  BY ExplainsTyped
<1>2. FundsMatch(ledger', dist')
  BY StillRunning, FundsMatchSame
<1> QED
  BY <1>1, <1>2 DEF Agrees, HistoryTyped, Amounts_of

LEMMA AbortedAgrees ==
  ASSUME LInv, ledger.aborted, ledger' = ledger, HistoryTyped'
  PROVE  HistoryTyped' /\ Agrees'
BY DEF LInv, Agrees

LEMMA HistorySame ==
  ASSUME LInv, NEW l, shows(l)
  PROVE  memoed' = memoed /\ withdrawn' = withdrawn /\ HistoryTyped' /\ ledger' = l
BY DEF LInv, HistoryTyped, shows, history_unchanged

LEMMA DepositAgrees ==
  ASSUME LInv, NEW a \in Account, NEW q \in Amounts, ledger_deposit(a, q)
  PROVE  HistoryTyped' /\ Agrees'
<1>1. deposit(a, q) /\ shows(notify_deposit(ledger, a, q))
  BY DEF ledger_deposit
<1>2. memoed' = memoed /\ withdrawn' = withdrawn /\ HistoryTyped' /\ ledger' = notify_deposit(ledger, a, q)
  BY <1>1, HistorySame
<1>3. CASE ledger.aborted
  BY <1>2, <1>3, AbortedStays, AbortedAgrees
<1>4. CASE ~ledger.aborted
  <2>1. ledger' = transfer_funds(ledger, token_account, a, q) /\ q \in Int /\ a \in Holder /\ token_account \in Holder
    BY <1>2, QuantityTyped, HoldersDistinct DEF notify_deposit
  <2>2. Booked(ledger, ledger', token_account, a, q)
    BY <1>4, <2>1, StillRunning, FundsTransferred
  <2>3. user' = add_user_balance(user, a, q) /\ token' = token + q /\ pool' = pool /\ dist' = dist
    BY <1>1 DEF deposit, books_unchanged
  <2>4. Credited(user, user', a, q)
    BY <1>4, <2>1, <2>3, StillRunning, UserCredited
  <2>5. Explains(ledger', user', pool, token + q, memoed, withdrawn)
    BY <1>4, <2>2, <2>4, StillRunning, DepositExplained, Zenon
  <2>6. Explains(ledger', user', pool', token', memoed', withdrawn')
    BY <1>2, <2>3, <2>5, Zenon
  <2> QED
    BY <1>4, <2>2, <2>3, <2>6, OthersUnchanged, AgreesNext DEF Booked
<1> QED
  BY <1>3, <1>4

LEMMA WithdrawAgrees ==
  ASSUME LInv, NEW a \in Account, NEW q \in Amounts, ledger_withdraw(a, q)
  PROVE  HistoryTyped' /\ Agrees'
<1>1. /\ withdraw(a, q) /\ ledger' = transfer_funds(ledger, edendelegate, token_account, q)
      /\ withdrawn' = [withdrawn EXCEPT ![a] = @ + q] /\ memoed' = memoed
  BY DEF ledger_withdraw, notify_withdraw
<1>2. withdrawn' = add_user_balance(withdrawn, a, q) /\ q \in Int
  BY <1>1, QuantityTyped DEF add_user_balance
<1>3. withdrawn \in [Account -> Int] /\ memoed \in [Account -> Int]
  BY DEF LInv, HistoryTyped
<1>4. Credited(withdrawn, withdrawn', a, q)
  BY <1>2, <1>3, UserCredited
<1>5. HistoryTyped'
  BY <1>1, <1>3, <1>4 DEF HistoryTyped, Credited, Amounts_of
<1>6. CASE ledger.aborted
  BY <1>1, <1>5, <1>6, AbortedStays, AbortedAgrees
<1>7. CASE ~ledger.aborted
  <2>1. edendelegate \in Holder /\ token_account \in Holder
    BY HoldersDistinct
  <2>2. Booked(ledger, ledger', edendelegate, token_account, q)
    BY <1>1, <1>2, <1>7, <2>1, StillRunning, FundsTransferred
  <2>3. user' = sub_user_balance(user, a, q) /\ token' = token - q /\ pool' = pool /\ dist' = dist
    BY <1>1 DEF withdraw, books_unchanged
  <2>4. Credited(user', user, a, q)
    BY <1>2, <1>7, <2>3, StillRunning, UserCredited
  <2>5. Explains(ledger', user', pool, token - q, memoed, withdrawn')
    BY <1>4, <1>7, <2>2, <2>4, StillRunning, WithdrawExplained, Zenon
  <2>6. Explains(ledger', user', pool', token', memoed', withdrawn')
    BY <1>1, <2>3, <2>5, Zenon
  <2> QED
    BY <1>7, <2>2, <2>3, <2>6, OthersUnchanged, AgreesNext DEF Booked
<1> QED
  BY <1>6, <1>7

LEMMA UserTransferAgrees ==
  ASSUME LInv, NEW a \in Account, NEW b \in Account, NEW q \in Amounts, ledger_usertransfer(a, b, q)
  PROVE  HistoryTyped' /\ Agrees'
<1>1. usertransfer(a, b, q) /\ shows(transfer_funds(ledger, a, b, q))
  BY DEF ledger_usertransfer
<1>2. memoed' = memoed /\ withdrawn' = withdrawn /\ HistoryTyped' /\ ledger' = transfer_funds(ledger, a, b, q)
  BY <1>1, HistorySame
<1>3. CASE ledger.aborted
  BY <1>2, <1>3, AbortedStays, AbortedAgrees
<1>4. CASE ~ledger.aborted
  <2> DEFINE w == sub_user_balance(user, a, q)
  <2>1. q \in Int /\ a \in Holder /\ b \in Holder
    BY QuantityTyped, HoldersDistinct
  <2>2. Booked(ledger, ledger', a, b, q)
    BY <1>2, <1>4, <2>1, StillRunning, FundsTransferred
  <2>3. user' = add_user_balance(w, b, q) /\ token' = token /\ pool' = pool /\ dist' = dist
    BY <1>1 DEF usertransfer, books_unchanged
  <2>4. Credited(w, user, a, q)
    BY <1>4, <2>1, StillRunning, UserCredited
  <2>5. w \in [Account -> Int]
    BY <2>4 DEF Credited, Amounts_of
  <2> HIDE DEF w
  <2>6. Credited(w, user', b, q)
    BY <2>1, <2>3, <2>5, UserCredited
  <2>7. Explains(ledger', user', pool, token, memoed, withdrawn)
    BY <1>4, <2>2, <2>4, <2>6, StillRunning, UserExplained, Zenon
  <2>8. Explains(ledger', user', pool', token', memoed', withdrawn')
    BY <1>2, <2>3, <2>7, Zenon
  <2> QED
    BY <1>4, <2>2, <2>3, <2>8, OthersUnchanged, AgreesNext DEF Booked
<1> QED
  BY <1>3, <1>4

LEMMA PoolAdded ==
  ASSUME TInv, NEW q \in Int, store(add_to_pool(books, q)), NEW b, b = setup_distribution(books)
  PROVE  pool' = b.pool + q /\ dist' = b.dist
<1>1. SetUp(books, b, next_election_time)
  BY SetUpNow
<1>2. DOMAIN b = {"pool", "table", "dist"}
  BY <1>1 DEF SetUp, BooksInv, BooksTyped
<1>3. add_to_pool(books, q) = [b EXCEPT !.pool = @ + q]
  BY DEF add_to_pool
<1> QED
  BY <1>2, <1>3 DEF store

LEMMA SetupExplained ==
  ASSUME TInv, NEW l, NEW u, NEW q \in Int, NEW t, NEW f, NEW g, Explains(l, u, pool + q, t, f, g), ~l.aborted,
         NEW b, b = setup_distribution(books)
  PROVE  /\ Explains(setup_shown(l), u, b.pool + q, t, f, g) /\ OthersSame(dist, b.dist)
         /\ setup_shown(l).funds = l.funds /\ ~setup_shown(l).aborted
<1> DEFINE c == setup_shown(l)
           r == pool - b.pool
           p == pool + q
<1>1. LedgerTyped(l)
  BY ExplainsTyped
<1>2. /\ b.pool \in Int /\ pool \in Int /\ OthersSame(dist, b.dist)
      /\ Booked(l, c, master_pool, distribution_fund, r)
  BY <1>1, SetupShown
<1>3. r \in Int /\ p - r = b.pool + q
  BY <1>2
<1>4. Explains(l, u, p, t, f, g)
  OBVIOUS
<1> HIDE DEF c, r, p
<1>5. Explains(c, u, p - r, t, f, g)
  BY <1>2, <1>3, <1>4, ReserveExplained, Zenon
<1> QED
  BY <1>2, <1>3, <1>5 DEF Booked, c

LEMMA DonationAgrees ==
  ASSUME LInv, NEW from \in Account \cup {system_account}, NEW q \in Amounts, ledger_donation(from, q)
  PROVE  HistoryTyped' /\ Agrees'
<1> DEFINE l == notify_deposit(ledger, from, q)
           b == setup_distribution(books)
<1>1. /\ donation(q) /\ ledger' = setup_shown(l) /\ withdrawn' = withdrawn
      /\ memoed' = IF from = system_account THEN memoed ELSE [memoed EXCEPT ![from] = @ + q]
  BY DEF ledger_donation
<1>2. /\ q \in Int /\ memoed \in [Account -> Int] /\ withdrawn \in [Account -> Int] /\ TInv
  BY QuantityTyped DEF LInv, HistoryTyped
<1>3. /\ from = system_account => memoed' = memoed
      /\ from # system_account => from \in Account /\ Credited(memoed, memoed', from, q)
  <2>1. CASE from # system_account
    <3>1. from \in Account /\ memoed' = add_user_balance(memoed, from, q)
      BY <1>1, <2>1 DEF add_user_balance
    <3> QED
      BY <1>2, <2>1, <3>1, UserCredited
  <2> QED
    BY <1>1, <2>1
<1>4. HistoryTyped'
  BY <1>1, <1>2, <1>3 DEF HistoryTyped, Credited, Amounts_of
<1>5. CASE ledger.aborted
  <2>1. l = ledger /\ setup_shown(ledger) = ledger
    BY <1>5, AbortedStays
  <2> QED
    BY <1>1, <1>4, <1>5, <2>1, AbortedAgrees
<1>6. CASE ~ledger.aborted
  <2>1. user' = user /\ token' = token + q /\ pool' = b.pool + q /\ dist' = b.dist
    BY <1>1, <1>2, PoolAdded DEF donation
  <2>2. Explains(l, user, pool + q, token + q, memoed', withdrawn) /\ l.funds = ledger.funds /\ ~l.aborted
    <3>1. CASE from # system_account
      <4>1. l = transfer_funds(ledger, token_account, from, q) /\ from \in Holder /\ token_account \in Holder
        BY <1>3, <3>1, HoldersDistinct DEF notify_deposit
      <4>2. Booked(ledger, l, token_account, from, q)
        BY <1>2, <1>6, <4>1, StillRunning, FundsTransferred
      <4>3. Credited(memoed, memoed', from, q)
        BY <1>3, <3>1
      <4> HIDE DEF l
      <4>4. Explains(l, user, pool + q, token + q, memoed', withdrawn)
        BY <1>6, <4>2, <4>3, StillRunning, MemoExplained, Zenon
      <4> QED
        BY <1>6, <4>2, <4>4 DEF Booked
    <3>2. CASE from = system_account
      <4> DEFINE c == transfer_funds(ledger, token_account, system_account, q)
      <4>1. l = transfer_funds(c, system_account, master_pool, q)
        BY <3>2 DEF notify_deposit
      <4>2. token_account \in Holder /\ system_account \in Holder /\ master_pool \in Holder
        BY HoldersDistinct
      <4>3. Booked(ledger, c, token_account, system_account, q)
        BY <1>2, <1>6, <4>2, StillRunning, FundsTransferred
      <4>4. LedgerTyped(c) /\ ~c.aborted
        BY <1>6, <4>3 DEF Booked
      <4> HIDE DEF c
      <4>5. Booked(c, l, system_account, master_pool, q)
        BY <1>2, <4>1, <4>2, <4>4, FundsTransferred
      <4>6. memoed' = memoed
        BY <1>3, <3>2
      <4> HIDE DEF l
      <4>7. Explains(l, user, pool + q, token + q, memoed, withdrawn)
        BY <1>2, <1>6, <4>3, <4>5, StillRunning, SystemExplained, Zenon
      <4>8. l.funds = ledger.funds /\ ~l.aborted
        BY <1>6, <4>3, <4>5 DEF Booked
      <4> QED
        BY <4>6, <4>7, <4>8
    <3> QED
      BY <3>1, <3>2
  <2> HIDE DEF l
  <2>3. /\ Explains(ledger', user, b.pool + q, token + q, memoed', withdrawn) /\ OthersSame(dist, b.dist)
        /\ ledger'.funds = l.funds
    BY <1>1, <1>2, <2>2, SetupExplained
  <2>4. Explains(ledger', user', pool', token', memoed', withdrawn')
    BY <1>1, <2>1, <2>3, Zenon
  <2> QED
    BY <1>6, <2>1, <2>2, <2>3, <2>4, AgreesNext
<1> QED
  BY <1>5, <1>6

LEMMA DonateAgrees ==
  ASSUME LInv, NEW a \in Account, NEW q \in Amounts, ledger_donate(a, q)
  PROVE  HistoryTyped' /\ Agrees'
<1> DEFINE l == transfer_funds(ledger, a, master_pool, q)
           b == setup_distribution(books)
<1>1. donate(a, q) /\ shows(setup_shown(l))
  BY DEF ledger_donate
<1>2. memoed' = memoed /\ withdrawn' = withdrawn /\ HistoryTyped' /\ ledger' = setup_shown(l)
  BY <1>1, HistorySame
<1>3. q \in Int /\ TInv
  BY QuantityTyped DEF LInv
<1>4. CASE ledger.aborted
  <2>1. l = ledger /\ setup_shown(ledger) = ledger
    BY <1>4, AbortedStays
  <2> QED
    BY <1>2, <1>4, <2>1, AbortedAgrees
<1>5. CASE ~ledger.aborted
  <2>1. user' = sub_user_balance(user, a, q) /\ token' = token /\ pool' = b.pool + q /\ dist' = b.dist
    BY <1>1, <1>3, PoolAdded DEF donate
  <2>2. a \in Holder /\ master_pool \in Holder
    BY HoldersDistinct
  <2>3. Booked(ledger, l, a, master_pool, q)
    BY <1>3, <1>5, <2>2, StillRunning, FundsTransferred
  <2>4. Credited(user', user, a, q)
    BY <1>3, <1>5, <2>1, StillRunning, UserCredited
  <2> HIDE DEF l
  <2>5. Explains(l, user', pool + q, token, memoed, withdrawn)
    BY <1>5, <2>3, <2>4, StillRunning, DonateExplained, Zenon
  <2>6. l.funds = ledger.funds /\ ~l.aborted
    BY <1>5, <2>3 DEF Booked
  <2>7. /\ Explains(ledger', user', b.pool + q, token, memoed, withdrawn) /\ OthersSame(dist, b.dist)
        /\ ledger'.funds = l.funds
    BY <1>2, <1>3, <2>5, <2>6, SetupExplained
  <2>8. Explains(ledger', user', pool', token', memoed', withdrawn')
    BY <1>2, <2>1, <2>7, Zenon
  <2> QED
    BY <1>5, <2>1, <2>6, <2>7, <2>8, AgreesNext
<1> QED
  BY <1>4, <1>5

LEMMA AgreesWith ==
  ASSUME Explains(ledger', user', pool', token', memoed', withdrawn'), FundsMatch(ledger', dist')
  PROVE  HistoryTyped' /\ Agrees'
<1>1. LedgerTyped(ledger') /\ Amounts_of(memoed') /\ Amounts_of(withdrawn')
  BY ExplainsTyped
<1> QED
  BY <1>1 DEF Agrees, HistoryTyped, Amounts_of

\* Funds are no part of the balances.
LEMMA ExplainsSame ==
  ASSUME NEW l, NEW u, NEW p, NEW t, NEW f, NEW g, Explains(l, u, p, t, f, g), NEW c, LedgerTyped(c), c.balances = l.balances
  PROVE  Explains(c, u, p, t, f, g)
<1>1. \A x : shown(c, x) = shown(l, x)
  BY Zenon DEF shown
<1> QED
  BY <1>1 DEF Explains

LEMMA FundSpent ==
  ASSUME NEW l, LedgerTyped(l), ~l.aborted, NEW key \in DOMAIN l.funds, NEW q \in Int
  PROVE  LET c == spend_fund(l, key, q)
         IN  /\ LedgerTyped(c) /\ ~c.aborted /\ c.balances = l.balances /\ DOMAIN c.funds = DOMAIN l.funds
             /\ c.funds[key] + q = l.funds[key]
             /\ \A k \in DOMAIN l.funds : k # key => c.funds[k] = l.funds[k]
<1> DEFINE c == spend_fund(l, key, q)
           fs == [l.funds EXCEPT ![key] = @ - q]
<1>1. c = [l EXCEPT !.funds = fs]
  BY DEF spend_fund
<1>2. l.funds \in [DOMAIN l.funds -> Int]
  BY DEF LedgerTyped
<1>3. /\ DOMAIN fs = DOMAIN l.funds /\ fs \in [DOMAIN fs -> Int] /\ fs[key] + q = l.funds[key]
      /\ \A k \in DOMAIN l.funds : k # key => fs[k] = l.funds[k]
  BY <1>2
<1> HIDE DEF fs
<1>4. DOMAIN c = {"balances", "funds", "aborted"} /\ c.balances = l.balances /\ c.funds = fs /\ c.aborted = l.aborted
  BY <1>1 DEF LedgerTyped
<1> HIDE DEF c
<1>5. LedgerTyped(c)
  BY <1>3, <1>4 DEF LedgerTyped
<1> QED
  BY <1>3, <1>4, <1>5 DEF c

LEMMA FundTransferAgrees ==
  ASSUME LInv, NEW key \in DOMAIN dist, NEW a \in Account, NEW q \in Amounts, ledger_fundtransfer(key, a, q)
  PROVE  HistoryTyped' /\ Agrees'
<1> DEFINE l == transfer_funds(ledger, distribution_fund, a, q)
<1>1. fundtransfer(key, a, q) /\ shows(spend_fund(l, key, q))
  BY DEF ledger_fundtransfer, fund_transferred
<1>2. memoed' = memoed /\ withdrawn' = withdrawn /\ HistoryTyped' /\ ledger' = spend_fund(l, key, q)
  BY <1>1, HistorySame
<1>3. q \in Int /\ TInv /\ a \in Holder /\ distribution_fund \in Holder
  BY QuantityTyped, HoldersDistinct DEF LInv
<1>4. CASE ledger.aborted
  <2>1. l = ledger /\ spend_fund(ledger, key, q) = ledger
    BY <1>4, AbortedStays
  <2> QED
    BY <1>2, <1>4, <2>1, AbortedAgrees
<1>5. CASE ~ledger.aborted
  <2>1. /\ user' = add_user_balance(user, a, q) /\ token' = token /\ pool' = pool /\ dist' = take(dist, key, q)
        /\ key[1] \in DOMAIN member
    BY <1>1 DEF fundtransfer
  <2>2. key[1] # contract /\ key \in DOMAIN ledger.funds /\ dist[key] \in Int
    <3>1. DOMAIN member \subseteq Account /\ dist \in [DOMAIN dist -> Int]
      BY <1>3, TotalTyped DEF TInv, Types
    <3>2. key[1] # contract
      BY <2>1, <3>1, TreasuryAssumption DEF contract
    <3> QED
      BY <1>5, <3>1, <3>2, StillRunning DEF FundsMatch
  <2>3. Booked(ledger, l, distribution_fund, a, q)
    BY <1>3, <1>5, StillRunning, FundsTransferred
  <2>4. LedgerTyped(l) /\ ~l.aborted /\ l.funds = ledger.funds
    BY <1>5, <2>3 DEF Booked
  <2>5. Credited(user, user', a, q)
    BY <1>3, <1>5, <2>1, StillRunning, UserCredited
  <2> HIDE DEF l
  <2>6. Explains(l, user', pool, token, memoed, withdrawn)
    BY <1>5, <2>3, <2>5, StillRunning, FundExplained, Zenon
  <2>7. /\ LedgerTyped(ledger') /\ ledger'.balances = l.balances /\ DOMAIN ledger'.funds = DOMAIN ledger.funds
        /\ ledger'.funds[key] + q = ledger.funds[key]
        /\ \A k \in DOMAIN ledger.funds : k # key => ledger'.funds[k] = ledger.funds[k]
    BY <1>2, <1>3, <2>2, <2>4, FundSpent
  <2>8. Explains(ledger', user', pool, token, memoed, withdrawn)
    BY <2>6, <2>7, ExplainsSame, Zenon
  <2>9. Explains(ledger', user', pool', token', memoed', withdrawn')
    BY <1>2, <2>1, <2>8, Zenon
  <2>10. FundsMatch(ledger', dist')
    <3>1. /\ \A k : k # key => (k \in DOMAIN dist' <=> k \in DOMAIN dist)
          /\ \A k \in DOMAIN dist : k # key => dist'[k] = dist[k]
          /\ DOMAIN dist' \subseteq DOMAIN dist
          /\ key \in DOMAIN dist' => dist[key] = q + dist'[key]
          /\ key \notin DOMAIN dist' => dist[key] = q
      BY <1>3, <2>1, <2>2, TakeAt
    <3>2. /\ \A k \in DOMAIN dist : k[1] # contract => k \in DOMAIN ledger.funds
          /\ \A k \in DOMAIN ledger.funds : ledger.funds[k] = IF k \in DOMAIN dist THEN dist[k] ELSE 0
      BY <1>5, StillRunning DEF FundsMatch
    <3>3. ledger.funds[key] = dist[key] /\ ledger'.funds[key] \in Int
      BY <2>2, <2>7, <3>2 DEF LedgerTyped
    <3>4. key \in DOMAIN dist' => dist'[key] \in Int
      <4>1. dist' \in [DOMAIN dist' -> Int]
        <5>1. IsFiniteSet(DOMAIN dist) /\ dist \in [DOMAIN dist -> Int]
          BY <1>3, TotalTyped
        <5> QED
          BY <1>3, <2>1, <5>1, TakeKeeps
      <4> QED
        BY <4>1
    <3>5. ledger'.funds[key] = IF key \in DOMAIN dist' THEN dist'[key] ELSE 0
      <4>1. CASE key \in DOMAIN dist'
        BY <1>3, <2>7, <3>1, <3>3, <3>4, <4>1
      <4>2. CASE key \notin DOMAIN dist'
        <5>1. ledger'.funds[key] + q = q
          BY <2>7, <3>1, <3>3, <4>2
        <5>2. ledger'.funds[key] = 0
          BY <1>3, <3>3, <5>1
        <5> QED
          BY <4>2, <5>2
      <4> QED
        BY <4>1, <4>2
    <3>6. \A k \in DOMAIN ledger'.funds : ledger'.funds[k] = IF k \in DOMAIN dist' THEN dist'[k] ELSE 0
      BY <2>7, <3>1, <3>2, <3>5
    <3> QED
      BY <2>7, <3>1, <3>2, <3>6 DEF FundsMatch
  <2> QED
    BY <2>9, <2>10, AgreesWith
<1> QED
  BY <1>4, <1>5

-----------------------------------------------------------------------------
(***************************************************************************)
(* Distributions, and the ledger.                                          *)
(***************************************************************************)
LEMMA QuietAgrees ==
  ASSUME LInv, shows(ledger), user' = user, pool' = pool, token' = token, OthersSame(dist, dist')
  PROVE  HistoryTyped' /\ Agrees'
<1>1. memoed' = memoed /\ withdrawn' = withdrawn /\ HistoryTyped' /\ ledger' = ledger
  BY HistorySame
<1>2. CASE ledger.aborted
  BY <1>1, <1>2, AbortedAgrees
<1>3. CASE ~ledger.aborted
  <2>1. Explains(ledger', user', pool', token', memoed', withdrawn')
    BY <1>1, <1>3, StillRunning, Zenon
  <2> QED
    BY <1>1, <1>3, <2>1, AgreesNext
<1> QED
  BY <1>2, <1>3

LEMMA OtherAgrees ==
  ASSUME LInv, ledger_other
  PROVE  HistoryTyped' /\ Agrees'
<1>1. shows(ledger)
  BY DEF ledger_other
<1>2. CASE end_distribution
  <2> DEFINE keys == {k \in {<<contract, table[1].time, 0>>} \cap DOMAIN dist : dist[k] = 0}
  <2>1. dist' = drop(dist, keys) /\ pool' = pool /\ user' = user /\ token' = token
    BY <1>2, Zenon DEF end_distribution
  <2>2. \A k \in keys : k[1] = contract
    OBVIOUS
  <2> HIDE DEF keys
  <2>3. OthersSame(dist, dist')
    BY <2>1, <2>2 DEF drop, OthersSame
  <2> QED
    BY <1>1, <2>1, <2>3, QuietAgrees
<1>3. ASSUME pool' = pool /\ user' = user /\ token' = token /\ dist' = dist PROVE HistoryTyped' /\ Agrees'
  BY <1>1, <1>3, OthersUnchanged, QuietAgrees
<1>4. ASSUME NEW m \in Account, inducted(m) PROVE HistoryTyped' /\ Agrees'
  BY <1>3, <1>4 DEF inducted, books_unchanged
<1>5. ASSUME NEW time \in (now + 1)..(now + MaxLead), reschedule(time) PROVE HistoryTyped' /\ Agrees'
  BY <1>3, <1>5 DEF reschedule, books_unchanged
<1>6. CASE begin_voting
  BY <1>3, <1>6 DEF begin_voting, books_unchanged
<1>7. ASSUME NEW f \in outcomes, NEW time \in (electionTime + 1)..(now + MaxLead), finish_election(f, time)
      PROVE  HistoryTyped' /\ Agrees'
  BY <1>3, <1>7 DEF finish_election
<1>8. CASE Tick
  BY <1>3, <1>8 DEF Tick, books_unchanged
<1> QED
  BY <1>2, <1>4, <1>5, <1>6, <1>7, <1>8 DEF ledger_other

LEMMA SetupAgrees ==
  ASSUME LInv, ledger_setup
  PROVE  HistoryTyped' /\ Agrees'
<1> DEFINE b == setup_distribution(books)
<1>1. setup_due /\ shows(setup_shown(ledger))
  BY DEF ledger_setup
<1>2. memoed' = memoed /\ withdrawn' = withdrawn /\ HistoryTyped' /\ ledger' = setup_shown(ledger)
  BY <1>1, HistorySame
<1>3. TInv
  BY DEF LInv
<1>4. CASE ledger.aborted
  BY <1>2, <1>4, AbortedStays, AbortedAgrees
<1>5. CASE ~ledger.aborted
  <2>1. user' = user /\ token' = token /\ pool' = b.pool /\ dist' = b.dist
    BY <1>1 DEF setup_due, store
  <2>2. pool + 0 = pool /\ pool \in Int
    BY <1>5, StillRunning
  <2>3. Explains(ledger, user, pool + 0, token, memoed, withdrawn)
    BY <1>5, <2>2, StillRunning
  <2>4. b.pool + 0 = b.pool
    BY <1>3, <1>5, SetupShown, StillRunning
  <2>5. /\ Explains(ledger', user, b.pool + 0, token, memoed, withdrawn) /\ OthersSame(dist, b.dist)
        /\ ledger'.funds = ledger.funds
    BY <1>2, <1>3, <1>5, <2>3, SetupExplained
  <2>6. Explains(ledger', user', pool', token', memoed', withdrawn')
    BY <1>2, <2>1, <2>4, <2>5, Zenon
  <2> QED
    BY <1>5, <2>1, <2>5, <2>6, AgreesNext
<1> QED
  BY <1>4, <1>5

LEMMA StartAgrees ==
  ASSUME LInv, ledger_start_election
  PROVE  HistoryTyped' /\ Agrees'
<1> DEFINE b == IF table = << >> THEN [books EXCEPT !.table = <<next_distribution(electionTime)>>] ELSE books
           c == setup_loop(b, electionTime)
<1>1. start_election /\ shows(event_reserve(ledger, pool - pool')) /\ TInv
  BY DEF ledger_start_election, LInv
<1>2. memoed' = memoed /\ withdrawn' = withdrawn /\ HistoryTyped' /\ ledger' = event_reserve(ledger, pool - pool')
  BY <1>1, HistorySame
<1>3. phase = "scheduled" /\ user' = user /\ token' = token /\ pool' = c.pool /\ dist' = c.dist
  BY <1>1, Zenon DEF start_election, store
<1>4. ledger' = transfer_funds(ledger, master_pool, distribution_fund, pool - c.pool)
  BY <1>2, <1>3, Zenon DEF event_reserve
<1>5. CASE ledger.aborted
  BY <1>2, <1>4, <1>5, AbortedStays, AbortedAgrees
<1>6. CASE ~ledger.aborted
  <2>1. BooksInv(b) /\ Waiting(b.table, electionTime) /\ b.dist = dist
    <3>1. CASE table = << >>
      <4>1. b = [books EXCEPT !.table = <<next_distribution(electionTime)>>]
        BY <3>1
      <4>2. b.dist = dist
        BY <4>1 DEF books
      <4> HIDE DEF b
      <4> QED
        BY <1>1, <1>3, <3>1, <4>1, <4>2, ScheduleStarts
    <3>2. CASE table # << >>
      <4>1. b = books /\ books.table = table /\ books.dist = dist
        BY <3>2 DEF books
      <4>2. next_election_time = electionTime
        BY <1>3 DEF next_election_time
      <4> HIDE DEF b
      <4> QED
        BY <1>1, <4>1, <4>2 DEF TInv, Kept, Awaited
    <3> QED
      BY <3>1, <3>2
  <2> HIDE DEF b
  <2>2. electionTime \in Int /\ now \in Int /\ ranks \in Seq(Int)
    BY <1>1 DEF TInv, Types
  <2>3. SetUp(b, c, electionTime)
    BY <2>1, <2>2, LoopKeeps
  <2> HIDE DEF c
  <2>4. c.pool \in Int /\ OthersSame(dist, c.dist)
    BY <2>1, <2>3 DEF SetUp, BooksInv, BooksTyped
  <2> DEFINE r == pool - c.pool
  <2>5. pool \in Int /\ r \in Int /\ pool - r = c.pool
    BY <1>6, <2>4, StillRunning
  <2>6. ledger' = transfer_funds(ledger, master_pool, distribution_fund, r)
    BY <1>4
  <2> HIDE DEF r
  <2>7. Booked(ledger, ledger', master_pool, distribution_fund, r)
    BY <1>6, <2>5, <2>6, StillRunning, FundsTransferred, HoldersDistinct
  <2>8. Explains(ledger', user, pool - r, token, memoed, withdrawn)
    BY <1>6, <2>5, <2>7, StillRunning, ReserveExplained, Zenon
  <2>9. Explains(ledger', user', pool', token', memoed', withdrawn')
    BY <1>2, <1>3, <2>5, <2>8, Zenon
  <2> QED
    BY <1>3, <1>6, <2>4, <2>7, <2>9, AgreesNext DEF Booked
<1> QED
  BY <1>5, <1>6

\* What a member is paid, as rows of distaccount.
LEMMA PaidRows ==
  ASSUME TInv, NEW m \in DOMAIN member, pay_member(m), NEW F, F = funds_of(m, table[1].time, member[m])
  PROVE  /\ F \subseteq Account \X Int \X Int
         /\ \A k \in F : table[1].rank_distribution[k[3]] \in Int
         /\ \A k : k[1] # contract => (k \in DOMAIN dist' <=> k \in DOMAIN dist \/ k \in F)
         /\ \A k \in DOMAIN dist' : k[1] # contract =>
              dist'[k] = IF k \in F THEN table[1].rank_distribution[k[3]] ELSE dist[k]
<1> DEFINE d       == table[1]
           account == <<contract, d.time, 0>>
           amount  == pay(d, member[m])
           funds   == {<<m, d.time, r>> : r \in 1..member[m]}
           paid    == [k \in DOMAIN dist \cup funds |->
                         IF k \in funds THEN d.rank_distribution[k[3]] ELSE dist[k]]
<1>1. /\ has_current(table) /\ 1..member[m] \subseteq DOMAIN d.rank_distribution
      /\ IF account \in DOMAIN dist
         THEN dist[account] >= amount /\ dist' = take(paid, account, amount)
         ELSE amount = 0 /\ dist' = paid
  BY Zenon DEF pay_member
<1>2. m # contract /\ member[m] \in Nat /\ m \in Account
  BY MembersNow, MembersTyped DEF Members
<1>3. F = funds
  BY DEF funds_of
<1>4. d \in Row /\ d.type = "current"
  <2>1. table \in [1..Len(table) -> Row] /\ Len(table) \in Nat /\ Len(table) >= 1 /\ d.type = "current"
    BY <1>1, TotalTyped, LenProperties, EmptySeq DEF has_current
  <2>2. 1 \in 1..Len(table)
    BY <2>1
  <2> QED
    BY <2>1, <2>2
<1>5. d.time \in Int /\ d.rank_distribution \in Shares
  BY <1>4, RowFacts
<1>6. \A k \in F : k[1] = m /\ k[2] = d.time /\ k[3] \in 1..member[m] /\ k = <<m, d.time, k[3]>>
  BY <1>3
<1>7. \A r \in 1..member[m] : d.rank_distribution[r] \in Int /\ r \in Int
  <2>1. PICK K \in SUBSET Int : d.rank_distribution \in [K -> Int]
    BY <1>5 DEF Shares
  <2> QED
    BY <1>1, <1>2, <2>1
<1>8. F \subseteq Account \X Int \X Int
  BY <1>2, <1>5, <1>6, <1>7
<1>9. amount \in Int
  <2> DEFINE w == d.rank_distribution
             R == 1..member[m]
  <2>1. IsFiniteSet(R)
    BY <1>2, FS_Interval
  <2>2. amount = SumFunctionOnSet(w, R) /\ \A x \in R : w[x] \in Int
    BY <1>7 DEF pay
  <2> HIDE DEF R, w
  <2>3. SumFunctionOnSet(w, R) \in Int
    BY <2>1, <2>2, SumType
  <2> QED
    BY <2>2, <2>3
<1>10. DOMAIN paid = DOMAIN dist \cup F /\ \A k \in DOMAIN paid : paid[k] = IF k \in F THEN d.rank_distribution[k[3]] ELSE dist[k]
  BY <1>3
<1>11. account[1] = contract
  OBVIOUS
<1>12. \A k \in DOMAIN dist : dist[k] \in Int
  BY TotalTyped
<1> HIDE DEF d, account, amount, funds, paid
<1>13. CASE account \in DOMAIN dist
  <2>1. dist' = take(paid, account, amount)
    BY <1>1, <1>13
  <2>2. account \in DOMAIN paid /\ paid[account] \in Int
    <3>1. account \notin F
      BY <1>2, <1>6, <1>11
    <3> QED
      BY <1>10, <1>12, <1>13, <3>1
  <2>3. /\ \A k : k # account => (k \in DOMAIN dist' <=> k \in DOMAIN paid)
        /\ \A k \in DOMAIN paid : k # account => dist'[k] = paid[k]
    BY <1>9, <2>1, <2>2, TakeAt
  <2>4. \A k : k[1] # contract => (k \in DOMAIN dist' <=> k \in DOMAIN dist \/ k \in F)
    BY <1>10, <1>11, <2>3
  <2>5. \A k \in DOMAIN dist' : k[1] # contract => dist'[k] = IF k \in F THEN d.rank_distribution[k[3]] ELSE dist[k]
    BY <1>10, <1>11, <2>3
  <2> QED
    BY <1>6, <1>7, <1>8, <2>4, <2>5 DEF d
<1>14. CASE account \notin DOMAIN dist
  <2>1. dist' = paid
    BY <1>1, <1>14
  <2> QED
    BY <1>6, <1>7, <1>8, <1>10, <2>1 DEF d
<1> QED
  BY <1>13, <1>14

\* New rows of the micro chain's funds.
LEMMA FundsPaid ==
  ASSUME NEW l, LedgerTyped(l), ~l.aborted, NEW w, DOMAIN w \subseteq Account \X Int \X Int,
         \A k \in DOMAIN w : w[k] \in Int, DOMAIN w \cap DOMAIN l.funds = {}
  PROVE  LET c == event_fund(l, w)
         IN  /\ LedgerTyped(c) /\ ~c.aborted /\ c.balances = l.balances /\ DOMAIN c.funds = DOMAIN l.funds \cup DOMAIN w
             /\ \A k \in DOMAIN c.funds : c.funds[k] = IF k \in DOMAIN w THEN w[k] ELSE l.funds[k]
<1> DEFINE c == event_fund(l, w)
           fs == [k \in DOMAIN l.funds \cup DOMAIN w |-> IF k \in DOMAIN w THEN w[k] ELSE l.funds[k]]
<1>1. c = [l EXCEPT !.funds = fs]
  BY DEF event_fund
<1>2. l.funds \in [DOMAIN l.funds -> Int]
  BY DEF LedgerTyped
<1>3. /\ DOMAIN fs = DOMAIN l.funds \cup DOMAIN w /\ fs \in [DOMAIN fs -> Int]
      /\ \A k \in DOMAIN fs : fs[k] = IF k \in DOMAIN w THEN w[k] ELSE l.funds[k]
  BY <1>2
<1> HIDE DEF fs
<1>4. DOMAIN c = {"balances", "funds", "aborted"} /\ c.balances = l.balances /\ c.funds = fs /\ c.aborted = l.aborted
  BY <1>1 DEF LedgerTyped
<1> HIDE DEF c
<1>5. LedgerTyped(c)
  BY <1>3, <1>4 DEF LedgerTyped
<1> QED
  BY <1>3, <1>4, <1>5 DEF c

LEMMA AbortTyped ==
  ASSUME NEW l, LedgerTyped(l)
  PROVE  LedgerTyped(abort(l)) /\ abort(l).aborted
BY DEF LedgerTyped, abort

LEMMA PayAgrees ==
  ASSUME LInv, NEW m \in DOMAIN member, ledger_pay(m)
  PROVE  HistoryTyped' /\ Agrees'
<1> DEFINE F == funds_of(m, table[1].time, member[m])
           w == [k \in F |-> table[1].rank_distribution[k[3]]]
<1>1. pay_member(m) /\ shows(event_fund(ledger, w)) /\ TInv
  BY Zenon DEF ledger_pay, funds_of, LInv
<1>2. memoed' = memoed /\ withdrawn' = withdrawn /\ HistoryTyped' /\ ledger' = event_fund(ledger, w)
  BY <1>1, HistorySame
<1>3. CASE ledger.aborted
  <2> HIDE DEF w
  <2> QED
    BY <1>2, <1>3, AbortedStays, AbortedAgrees
<1>4. CASE ~ledger.aborted
  <2>1. /\ F \subseteq Account \X Int \X Int
        /\ \A k \in F : table[1].rank_distribution[k[3]] \in Int
        /\ \A k : k[1] # contract => (k \in DOMAIN dist' <=> k \in DOMAIN dist \/ k \in F)
        /\ \A k \in DOMAIN dist' : k[1] # contract =>
             dist'[k] = IF k \in F THEN table[1].rank_distribution[k[3]] ELSE dist[k]
    BY <1>1, PaidRows
  <2> HIDE DEF F
  <2>2. DOMAIN w = F /\ \A k \in F : w[k] = table[1].rank_distribution[k[3]]
    OBVIOUS
  <2> HIDE DEF w
  <2>3. CASE DOMAIN w \cap DOMAIN ledger.funds # {}
    <3>1. ledger' = abort(ledger)
      BY <1>2, <1>4, <2>3 DEF event_fund
    <3> QED
      BY <1>2, <1>4, <3>1, AbortTyped, StillRunning DEF Agrees
  <2>4. CASE DOMAIN w \cap DOMAIN ledger.funds = {}
    <3>1. /\ LedgerTyped(ledger') /\ ledger'.balances = ledger.balances /\ DOMAIN ledger'.funds = DOMAIN ledger.funds \cup F
          /\ \A k \in DOMAIN ledger'.funds : ledger'.funds[k] = IF k \in F THEN w[k] ELSE ledger.funds[k]
      BY <1>2, <1>4, <2>1, <2>2, <2>4, StillRunning, FundsPaid
    <3>2. Explains(ledger', user, pool, token, memoed, withdrawn)
      BY <1>4, <3>1, StillRunning, ExplainsSame, Zenon
    <3>3. user' = user /\ pool' = pool /\ token' = token
      BY <1>1, Zenon DEF pay_member
    <3>4. Explains(ledger', user', pool', token', memoed', withdrawn')
      BY <1>2, <3>2, <3>3, Zenon
    <3>5. \A k \in DOMAIN ledger'.funds : k[1] # contract
      <4>1. \A k \in Account \X Int \X Int : k[1] # contract
        BY TreasuryAssumption DEF contract
      <4> QED
        BY <3>1, <4>1 DEF LedgerTyped
    <3>6. FundsMatch(ledger, dist)
      BY <1>4, StillRunning
    <3>7. \A k \in DOMAIN dist' : k[1] # contract => k \in DOMAIN ledger'.funds
      BY <2>1, <3>1, <3>6 DEF FundsMatch
    <3>8. \A k \in DOMAIN ledger'.funds : ledger'.funds[k] = IF k \in DOMAIN dist' THEN dist'[k] ELSE 0
      <4> SUFFICES ASSUME NEW k \in DOMAIN ledger'.funds
                   PROVE  ledger'.funds[k] = IF k \in DOMAIN dist' THEN dist'[k] ELSE 0
        OBVIOUS
      <4>1. CASE k \in F
        BY <2>1, <2>2, <3>1, <3>5, <4>1
      <4>2. CASE k \notin F
        BY <2>1, <3>1, <3>5, <3>6, <4>2 DEF FundsMatch
      <4> QED
        BY <4>1, <4>2
    <3> QED
      BY <3>4, <3>7, <3>8, AgreesWith DEF FundsMatch
  <2> QED
    BY <2>3, <2>4
<1> QED
  BY <1>3, <1>4

-----------------------------------------------------------------------------
(***************************************************************************)
(* Resignations, and the ledger.                                           *)
(***************************************************************************)
\* The recursive function behind the funds that are returned one by one.
return_step(d, base, h, g, T) ==
  IF T = {} THEN base ELSE event_return(g[T \ {pick(T)}], h[pick(T)], d[h[pick(T)]])

returned(d, base, h, S) == CHOOSE g : g = [T \in SUBSET S |-> return_step(d, base, h, g, T)]

LEMMA ReturnedStep ==
  ASSUME NEW d, NEW base, NEW e, NEW S, IsFiniteSet(S)
  PROVE  \A T \in SUBSET S : returned(d, base, e, S)[T] = return_step(d, base, e, returned(d, base, e, S), T)
<1> DEFINE Level(n) == {T \in SUBSET S : Cardinality(T) <= n}
           P == {n \in Nat : \E g : g = [T \in Level(n) |-> return_step(d, base, e, g, T)]}
<1>1. \A T \in SUBSET S : IsFiniteSet(T) /\ Cardinality(T) \in Nat /\ Cardinality(T) <= Cardinality(S)
  BY FS_Subset, FS_CardinalityType
<1>2. 0 \in P
  <2> DEFINE g == [T \in Level(0) |-> base]
  <2>1. \A T \in Level(0) : T = {}
    BY <1>1, FS_EmptySet
  <2>2. g = [T \in Level(0) |-> return_step(d, base, e, g, T)]
    BY <2>1 DEF return_step
  <2> QED
    BY <2>2
<1>3. ASSUME NEW n \in P PROVE n + 1 \in P
  <2>1. n \in Nat
    OBVIOUS
  <2>2. PICK g : g = [T \in Level(n) |-> return_step(d, base, e, g, T)]
    OBVIOUS
  <2> DEFINE h == [T \in Level(n + 1) |-> return_step(d, base, e, g, T)]
  <2>3. ASSUME NEW T \in Level(n) PROVE T \in Level(n + 1) /\ h[T] = g[T]
    <3>1. T \in Level(n + 1)
      BY <1>1, <2>1
    <3> QED
      BY <2>2, <3>1
  <2>4. ASSUME NEW T \in Level(n + 1) PROVE return_step(d, base, e, h, T) = return_step(d, base, e, g, T)
    <3>1. CASE T = {}
      BY <3>1 DEF return_step
    <3>2. CASE T # {}
      <4>1. T \ {pick(T)} \in Level(n)
        <5>1. Cardinality(T) <= n + 1 /\ Cardinality(T) \in Nat /\ IsFiniteSet(T)
          BY <1>1
        <5>2. Cardinality(T \ {pick(T)}) = Cardinality(T) - 1
          BY <3>2, <5>1, PickRemoves
        <5> QED
          BY <2>1, <5>1, <5>2
      <4>2. h[T \ {pick(T)}] = g[T \ {pick(T)}]
        BY <2>3, <4>1
      <4> QED
        BY <4>2 DEF return_step
    <3> QED
      BY <3>1, <3>2
  <2>5. h = [T \in Level(n + 1) |-> return_step(d, base, e, h, T)]
    BY <2>4
  <2>6. \E i : i = [T \in Level(n + 1) |-> return_step(d, base, e, i, T)]
    <3> HIDE DEF h
    <3> QED
      BY <2>5
  <2>7. n + 1 \in Nat
    BY <2>1
  <2> QED
    BY <2>6, <2>7, Zenon
<1>4. Cardinality(S) \in P
  <2>1. \A n \in Nat : n \in P
    <3> HIDE DEF P
    <3>1. P \in SUBSET Nat
      BY DEF P
    <3> QED
      BY <1>2, <1>3, <3>1, NaturalsAll
  <2> QED
    BY <2>1, FS_CardinalityType
<1>5. Level(Cardinality(S)) = SUBSET S
  BY <1>1
<1>6. \E g : g = [T \in SUBSET S |-> return_step(d, base, e, g, T)]
  BY <1>4, <1>5
<1>7. returned(d, base, e, S) = [T \in SUBSET S |-> return_step(d, base, e, returned(d, base, e, S), T)]
  BY <1>6, Zenon DEF returned
<1> QED
  BY <1>7

\* The funds of T have been returned.
GoneBack(l, base, d, T, p) ==
  /\ Explains(l, user, p + SumFunctionOnSet(d, T), token, memoed, withdrawn) /\ ~l.aborted
  /\ DOMAIN l.funds = DOMAIN base.funds
  /\ \A k \in T : l.funds[k] + d[k] = base.funds[k]
  /\ \A k \in DOMAIN base.funds \ T : l.funds[k] = base.funds[k]

LEMMA OneGoesBack ==
  ASSUME NEW base, NEW d, NEW T, IsFiniteSet(T), T \subseteq DOMAIN base.funds, NEW p \in Int, NEW l, GoneBack(l, base, d, T, p),
         NEW x \in DOMAIN base.funds, x \notin T, \A k \in T \cup {x} : d[k] \in Int
  PROVE  GoneBack(event_return(l, x, d[x]), base, d, T \cup {x}, p)
<1> DEFINE q == d[x]
           e == transfer_funds(l, distribution_fund, master_pool, q)
           c == spend_fund(e, x, q)
           s == SumFunctionOnSet(d, T)
           r == p + s
           U == T \cup {x}
<1>1. event_return(l, x, d[x]) = c
  BY Zenon DEF event_return
<1>2. /\ Explains(l, user, r, token, memoed, withdrawn) /\ ~l.aborted /\ DOMAIN l.funds = DOMAIN base.funds
      /\ \A k \in T : l.funds[k] + d[k] = base.funds[k]
      /\ \A k \in DOMAIN base.funds \ T : l.funds[k] = base.funds[k]
  BY DEF GoneBack
<1>3. q \in Int /\ distribution_fund \in Holder /\ master_pool \in Holder
  BY HoldersDistinct
<1>4. s \in Int /\ SumFunctionOnSet(d, U) = q + s
  BY SumAdd
<1>5. r + q = p + SumFunctionOnSet(d, U)
  BY <1>3, <1>4
<1>6. \A k \in T : d[k] \in Int
  OBVIOUS
<1> HIDE DEF q, s, r
<1>7. LedgerTyped(l)
  BY <1>2, ExplainsTyped
<1>8. Booked(l, e, distribution_fund, master_pool, q)
  BY <1>2, <1>3, <1>7, FundsTransferred
<1>9. LedgerTyped(e) /\ ~e.aborted /\ e.funds = l.funds
  BY <1>2, <1>8 DEF Booked
<1> HIDE DEF e
<1>10. Explains(e, user, r + q, token, memoed, withdrawn)
  BY <1>2, <1>3, <1>8, ReturnExplained, Zenon
<1>11. /\ LedgerTyped(c) /\ ~c.aborted /\ c.balances = e.balances /\ DOMAIN c.funds = DOMAIN e.funds
       /\ c.funds[x] + q = e.funds[x]
       /\ \A k \in DOMAIN e.funds : k # x => c.funds[k] = e.funds[k]
  BY <1>2, <1>3, <1>9, FundSpent
<1> HIDE DEF c
<1>12. Explains(c, user, r + q, token, memoed, withdrawn)
  BY <1>10, <1>11, ExplainsSame, Zenon
<1>13. \A k \in U : c.funds[k] + d[k] = base.funds[k]
  BY <1>2, <1>9, <1>11 DEF q
<1>14. \A k \in DOMAIN base.funds \ U : c.funds[k] = base.funds[k]
  BY <1>2, <1>9, <1>11
<1> QED
  BY <1>1, <1>2, <1>5, <1>9, <1>11, <1>12, <1>13, <1>14 DEF GoneBack

LEMMA AllGoBack ==
  ASSUME NEW base, NEW d, NEW S, IsFiniteSet(S), S \subseteq DOMAIN base.funds, \A k \in S : d[k] \in Int,
         NEW p \in Int, GoneBack(base, base, d, {}, p), NEW h, \A k \in S : h[k] = k
  PROVE  GoneBack(returned(d, base, h, S)[S], base, d, S, p)
<1> DEFINE g == returned(d, base, h, S)
           P == {n \in Nat : \A T \in SUBSET S : Cardinality(T) = n => GoneBack(g[T], base, d, T, p)}
<1>1. \A T \in SUBSET S : IsFiniteSet(T) /\ Cardinality(T) \in Nat
  BY FS_Subset, FS_CardinalityType
<1>2. \A T \in SUBSET S : g[T] = return_step(d, base, h, g, T)
  BY ReturnedStep
<1> HIDE DEF g
<1>3. 0 \in P
  <2>1. \A T \in SUBSET S : Cardinality(T) = 0 => T = {}
    BY <1>1, FS_EmptySet
  <2>2. g[{}] = base
    BY <1>2 DEF return_step
  <2> QED
    BY <2>1, <2>2
<1>4. ASSUME NEW n \in P PROVE n + 1 \in P
  <2>1. n \in Nat
    OBVIOUS
  <2>2. ASSUME NEW T \in SUBSET S, Cardinality(T) = n + 1 PROVE GoneBack(g[T], base, d, T, p)
    <3> DEFINE x == pick(T)
               R == T \ {x}
    <3>1. T # {} /\ IsFiniteSet(T)
      BY <1>1, <2>1, <2>2, FS_EmptySet
    <3>2. x \in T /\ R \in SUBSET S /\ IsFiniteSet(R) /\ Cardinality(R) = n
      BY <2>1, <2>2, <3>1, PickRemoves
    <3>3. GoneBack(g[R], base, d, R, p)
      BY <3>2
    <3>4. g[T] = event_return(g[R], x, d[x])
      <4>1. g[T] = event_return(g[R], h[x], d[h[x]])
        BY <1>2, <3>1 DEF return_step
      <4> QED
        BY <3>2, <4>1
    <3>5. R \cup {x} = T /\ x \notin R /\ x \in DOMAIN base.funds /\ R \subseteq DOMAIN base.funds
      BY <3>2
    <3>6. \A k \in R \cup {x} : d[k] \in Int
      BY <3>5
    <3> HIDE DEF R, x
    <3>7. GoneBack(event_return(g[R], x, d[x]), base, d, R \cup {x}, p)
      BY <3>2, <3>3, <3>5, <3>6, OneGoesBack
    <3> QED
      BY <3>4, <3>5, <3>7, Zenon
  <2> QED
    BY <2>1, <2>2
<1>5. \A n \in Nat : n \in P
  <2> HIDE DEF P
  <2>1. P \in SUBSET Nat
    BY DEF P
  <2> QED
    BY <1>3, <1>4, <2>1, NaturalsAll
<1>6. Cardinality(S) \in P
  BY <1>1, <1>5
<1> QED
  BY <1>6 DEF g

\* A micro chain that has aborted takes nothing back.
LEMMA NothingGoesBack ==
  ASSUME NEW base, base.aborted, NEW d, NEW S, IsFiniteSet(S), NEW h
  PROVE  returned(d, base, h, S)[S] = base
<1> DEFINE g == returned(d, base, h, S)
           P == {n \in Nat : \A T \in SUBSET S : Cardinality(T) = n => g[T] = base}
<1>1. \A T \in SUBSET S : IsFiniteSet(T) /\ Cardinality(T) \in Nat
  BY FS_Subset, FS_CardinalityType
<1>2. \A T \in SUBSET S : g[T] = return_step(d, base, h, g, T)
  BY ReturnedStep
<1>3. \A k, q : event_return(base, k, q) = base
  <2> SUFFICES ASSUME NEW k, NEW q PROVE event_return(base, k, q) = base
    OBVIOUS
  <2>1. transfer_funds(base, distribution_fund, master_pool, q) = base /\ spend_fund(base, k, q) = base
    BY AbortedStays
  <2> QED
    BY <2>1, Zenon DEF event_return
<1> HIDE DEF g
<1>4. 0 \in P
  <2>1. \A T \in SUBSET S : Cardinality(T) = 0 => T = {}
    BY <1>1, FS_EmptySet
  <2>2. g[{}] = base
    BY <1>2 DEF return_step
  <2> QED
    BY <2>1, <2>2
<1>5. ASSUME NEW n \in P PROVE n + 1 \in P
  <2>1. n \in Nat
    OBVIOUS
  <2>2. ASSUME NEW T \in SUBSET S, Cardinality(T) = n + 1 PROVE g[T] = base
    <3> DEFINE R == T \ {pick(T)}
    <3>1. T # {} /\ IsFiniteSet(T)
      BY <1>1, <2>1, <2>2, FS_EmptySet
    <3>2. R \in SUBSET S /\ Cardinality(R) = n
      BY <2>1, <2>2, <3>1, PickRemoves
    <3>3. g[R] = base
      BY <3>2
    <3>4. g[T] = event_return(g[R], h[pick(T)], d[h[pick(T)]])
      BY <1>2, <3>1 DEF return_step
    <3> QED
      BY <1>3, <3>3, <3>4
  <2> QED
    BY <2>1, <2>2
<1>6. \A n \in Nat : n \in P
  <2> HIDE DEF P
  <2>1. P \in SUBSET Nat
    BY DEF P
  <2> QED
    BY <1>4, <1>5, <2>1, NaturalsAll
<1>7. Cardinality(S) \in P
  BY <1>1, <1>6
<1> QED
  BY <1>7 DEF g
\* What the accounts of members other than the one that resigns hold.
LEMMA ResignedRows ==
  ASSUME NEW b, BooksInv(b), NEW m \in Account
  PROVE  LET e == on_resign(b, m).dist
         IN  /\ \A k : k[1] # contract => (k \in DOMAIN e <=> k \in DOMAIN b.dist /\ k[1] # m)
             /\ \A k \in DOMAIN e : k[1] # contract => e[k] = b.dist[k]
<1> DEFINE d == b.dist
           r == reduced(b, m)
           Z == emptied(b, m)
           e == on_resign(b, m).dist
<1>1. e = drop(r, Z)
  BY DEF on_resign
<1>2. \A i : payer(b, i)[1] = contract
  BY DEF payer
<1>3. \A k \in Z : k[1] = contract
  BY <1>2 DEF emptied
<1>4. DOMAIN r = {k \in DOMAIN d : k[1] # m}
  BY DEF reduced, own_accounts
<1>5. ASSUME NEW k \in DOMAIN r, k[1] # contract PROVE r[k] = d[k]
  <2> DEFINE J == {i \in owing(b, m) : payer(b, i) = k}
             s == SumFunctionOnSet(owed(b, m), J)
  <2>1. r[k] = d[k] - s
    BY DEF reduced
  <2>2. J = {}
    BY <1>2, <1>5
  <2>3. s = 0
    <3>1. s = SumFunctionOnSet(owed(b, m), {})
      BY <2>2, Zenon
    <3> QED
      BY <3>1, SumEmpty
  <2>4. d[k] \in Int
    BY <1>4 DEF BooksInv, BooksTyped
  <2> HIDE DEF s
  <2> QED
    BY <2>1, <2>3, <2>4
<1> HIDE DEF r, Z, e
<1>6. DOMAIN e = DOMAIN r \ Z /\ \A k \in DOMAIN e : e[k] = r[k]
  BY <1>1 DEF drop
<1> QED
  BY <1>3, <1>4, <1>5, <1>6 DEF e

\* What the micro chain makes of them.
all_returned(b, m) ==
  returned(b.dist, setup_shown(ledger), [k \in own_accounts(b, m) |-> k], own_accounts(b, m))[own_accounts(b, m)]

LEMMA ResignAgrees ==
  ASSUME LInv, NEW m \in DOMAIN member, ledger_resign(m)
  PROVE  HistoryTyped' /\ Agrees'
<1> DEFINE b == setup_distribution(books)
           c == on_resign(b, m)
           d == b.dist
           own == {k \in DOMAIN d : k[1] = m}
           base == setup_shown(ledger)
           h == [k \in own |-> k]
           back == returned(d, base, h, own)[own]
           s == SumFunctionOnSet(d, own)
<1>1. leave(m) /\ store(c) /\ can_return(b, m) /\ TInv
  BY Zenon DEF ledger_resign, resign, LInv
<1>2. \E x \in {setup_distribution(books)} :
        shows(event_return_excess(all_returned(x, m), pool' - x.pool - SumFunctionOnSet(x.dist, own_accounts(x, m))))
  BY Zenon DEF ledger_resign, own_accounts, all_returned, FoldFunctionOnSet, MapThenFoldSet, returned, return_step, pick
<1>3. own_accounts(b, m) = own /\ all_returned(b, m) = back
  BY DEF own_accounts, all_returned
<1>4. shows(event_return_excess(back, pool' - b.pool - s))
  <2>1. shows(event_return_excess(all_returned(b, m), pool' - b.pool - SumFunctionOnSet(d, own_accounts(b, m))))
    BY <1>2, Zenon
  <2> QED
    BY <1>3, <2>1, Zenon
<1>5. pool' = c.pool /\ dist' = c.dist
  BY <1>1 DEF store
<1>6. /\ memoed' = memoed /\ withdrawn' = withdrawn /\ HistoryTyped'
      /\ ledger' = transfer_funds(back, distribution_fund, master_pool, c.pool - b.pool - s)
  <2>1. ledger' = event_return_excess(back, pool' - b.pool - s)
    BY <1>4, HistorySame
  <2>2. ledger' = event_return_excess(back, c.pool - b.pool - s)
    BY <1>5, <2>1, Zenon
  <2> QED
    BY <1>4, <2>2, HistorySame DEF event_return_excess
<1>7. user' = user /\ token' = token
  BY <1>1 DEF leave
<1>8. SetUp(books, b, next_election_time)
  BY <1>1, SetUpNow
<1>9. BooksInv(b) /\ OthersSame(dist, d)
  BY <1>8 DEF SetUp, books
<1>10. m \in Account /\ member[m] \in Nat /\ m # contract
  BY <1>1, TreasuryAssumption DEF TInv, Types, contract
<1>11. BooksInv(c)
  BY <1>1, <1>9, <1>10, ResignedBooks
<1>12. c.pool \in Int
  BY <1>11 DEF BooksInv, BooksTyped
<1>13. b.pool \in Int /\ IsFiniteSet(DOMAIN d) /\ d \in [DOMAIN d -> Int]
  BY <1>9 DEF BooksInv, BooksTyped
<1>14. /\ own \in SUBSET DOMAIN d /\ (\A k \in own : k[1] = m /\ d[k] \in Int /\ h[k] = k)
       /\ \A k \in DOMAIN d : k[1] = m => k \in own
  BY <1>13
<1>15. IsFiniteSet(own)
  BY <1>13, <1>14, FS_Subset
<1>16. /\ \A k : k[1] # contract => (k \in DOMAIN c.dist <=> k \in DOMAIN d /\ k[1] # m)
       /\ \A k \in DOMAIN c.dist : k[1] # contract => c.dist[k] = d[k]
  BY <1>9, <1>10, ResignedRows
<1> HIDE DEF c, h, own, d
<1>17. s \in Int
  BY <1>14, <1>15, SumType
<1>18. CASE ledger.aborted
  <2>1. base = ledger
    BY <1>18, AbortedStays
  <2>2. back = base
    BY <1>15, <1>18, <2>1, NothingGoesBack
  <2>3. ledger' = ledger
    BY <1>6, <1>18, <2>1, <2>2, AbortedStays
  <2> QED
    BY <1>6, <1>18, <2>3, AbortedAgrees
<1>19. CASE ~ledger.aborted
  <2>1. pool + 0 = pool /\ pool \in Int
    BY <1>19, StillRunning
  <2>2. Explains(ledger, user, pool + 0, token, memoed, withdrawn)
    BY <1>19, <2>1, StillRunning
  <2>3. /\ Explains(base, user, b.pool + 0, token, memoed, withdrawn)
        /\ base.funds = ledger.funds /\ ~base.aborted
    BY <1>1, <1>19, <2>2, SetupExplained
  <2>4. FundsMatch(base, d) /\ LedgerTyped(base)
    <3>1. LedgerTyped(base)
      BY <2>3, ExplainsTyped
    <3> QED
      BY <1>9, <1>19, <2>3, <3>1, StillRunning, FundsMatchSame
  <2> HIDE DEF base, b
  <2>5. own \subseteq DOMAIN base.funds /\ \A k \in own : base.funds[k] = d[k]
    BY <1>10, <1>14, <2>4 DEF FundsMatch
  <2>6. GoneBack(base, base, d, {}, b.pool)
    <3>1. SumFunctionOnSet(d, {}) = 0
      BY SumEmpty
    <3>2. Explains(base, user, b.pool + SumFunctionOnSet(d, {}), token, memoed, withdrawn)
      BY <2>3, <3>1
    <3> QED
      BY <2>3, <3>2 DEF GoneBack
  <2>7. GoneBack(back, base, d, own, b.pool)
    BY <1>13, <1>14, <1>15, <2>5, <2>6, AllGoBack
  <2> HIDE DEF back, s
  <2> DEFINE q == c.pool - b.pool - s
             p == b.pool + s
  <2>8. q \in Int /\ p + q = c.pool
    BY <1>12, <1>13, <1>17
  <2>9. /\ Explains(back, user, p, token, memoed, withdrawn) /\ ~back.aborted
        /\ DOMAIN back.funds = DOMAIN base.funds
        /\ \A k \in own : back.funds[k] + d[k] = base.funds[k]
        /\ \A k \in DOMAIN base.funds \ own : back.funds[k] = base.funds[k]
    BY <2>7 DEF GoneBack, s
  <2>10. ledger' = transfer_funds(back, distribution_fund, master_pool, q)
    BY <1>6
  <2> HIDE DEF q, p
  <2>11. LedgerTyped(back)
    BY <2>9, ExplainsTyped
  <2>12. Booked(back, ledger', distribution_fund, master_pool, q)
    BY <2>8, <2>9, <2>10, <2>11, FundsTransferred, HoldersDistinct
  <2>13. Explains(ledger', user, p + q, token, memoed, withdrawn)
    BY <2>8, <2>9, <2>12, ReturnExplained, Zenon
  <2>14. Explains(ledger', user', pool', token', memoed', withdrawn')
    BY <1>5, <1>6, <1>7, <2>8, <2>13, Zenon
  <2>15. FundsMatch(ledger', dist')
    <3>1. ledger'.funds = back.funds
      BY <2>12 DEF Booked
    <3>2. \A k \in own : back.funds[k] = 0
      <4>1. \A k \in own : back.funds[k] + d[k] = d[k] /\ back.funds[k] \in Int /\ d[k] \in Int
        BY <1>14, <2>5, <2>9, <2>11 DEF LedgerTyped
      <4>2. \A x, y \in Int : x + y = y => x = 0
        OBVIOUS
      <4> QED
        BY <4>1, <4>2
    <3>3. \A k \in DOMAIN base.funds : k[1] # contract
      <4>1. \A k \in Account \X Int \X Int : k[1] # contract
        BY TreasuryAssumption DEF contract
      <4> QED
        BY <2>4, <4>1 DEF LedgerTyped
    <3>4. /\ \A k \in DOMAIN d : k[1] # contract => k \in DOMAIN base.funds
          /\ \A k \in DOMAIN base.funds : base.funds[k] = IF k \in DOMAIN d THEN d[k] ELSE 0
      BY <2>4 DEF FundsMatch
    <3>5. \A k \in DOMAIN dist' : k[1] # contract => k \in DOMAIN back.funds
      BY <1>5, <1>16, <2>9, <3>4
    <3>6. ASSUME NEW k \in DOMAIN back.funds PROVE back.funds[k] = IF k \in DOMAIN dist' THEN dist'[k] ELSE 0
      <4>1. k[1] # contract /\ k \in DOMAIN base.funds
        BY <2>9, <3>3
      <4>2. CASE k \in own
        BY <1>5, <1>14, <1>16, <3>2, <4>1, <4>2
      <4>3. CASE k \notin own
        BY <1>5, <1>14, <1>16, <2>9, <3>4, <4>1, <4>3
      <4> QED
        BY <4>2, <4>3
    <3> QED
      BY <3>1, <3>5, <3>6 DEF FundsMatch
  <2> QED
    BY <2>14, <2>15, AgreesWith
<1> QED
  BY <1>18, <1>19

-----------------------------------------------------------------------------
(***************************************************************************)
(* Renamings, and the ledger.                                              *)
(***************************************************************************)
\* What an account had is another's.
Moved(u, v, m, new) ==
  /\ Amounts_of(u) /\ Amounts_of(v) /\ SumFunction(v) = SumFunction(u)
  /\ v[m] = 0 /\ v[new] = u[m] + u[new]
  /\ \A x \in Account : x # m /\ x # new => v[x] = u[x]

LEMMA HistoryMoved ==
  ASSUME NEW u \in [Account -> Int], NEW m \in Account, NEW new \in Account, m # new,
         NEW z, z = [u EXCEPT ![new] = @ + u[m], ![m] = 0]
  PROVE  Moved(u, z, m, new) /\ z \in [Account -> Int]
<1> DEFINE v == sub_user_balance(u, m, u[m])
           w == add_user_balance(v, new, u[m])
<1>1. u[m] \in Int /\ u[new] \in Int
  OBVIOUS
<1>2. v \in [Account -> Int] /\ SumFunction(v) = SumFunction(u) - u[m] /\ SumFunction(u) \in Int
  BY <1>1, UserSum
<1>3. v[m] = 0 /\ \A x \in Account \ {m} : v[x] = u[x]
  BY <1>1 DEF sub_user_balance
<1> HIDE DEF v
<1>4. w \in [Account -> Int] /\ SumFunction(w) = SumFunction(v) + u[m]
  BY <1>1, <1>2, UserSum
<1>5. w[new] = u[m] + u[new] /\ w[m] = 0 /\ \A x \in Account \ {m, new} : w[x] = u[x]
  <2>1. w[new] = v[new] + u[m] /\ \A x \in Account \ {new} : w[x] = v[x]
    BY <1>2 DEF add_user_balance
  <2>2. v[new] = u[new]
    BY <1>3
  <2> HIDE DEF w
  <2>3. w[new] = u[m] + u[new]
    BY <1>1, <2>1, <2>2
  <2> QED
    BY <1>3, <2>1, <2>3
<1> HIDE DEF w
<1>6. /\ z \in [Account -> Int] /\ z[new] = u[m] + u[new] /\ z[m] = 0
      /\ \A x \in Account \ {m, new} : z[x] = u[x]
  <2> DEFINE q == u[new] + u[m]
  <2>1. q \in Int /\ q = u[m] + u[new]
    BY <1>1
  <2>2. z = [u EXCEPT ![new] = q, ![m] = 0]
    OBVIOUS
  <2> HIDE DEF q
  <2> QED
    BY <2>1, <2>2
<1>7. z = w
  <2>1. \A x \in Account : z[x] = w[x]
    BY <1>5, <1>6
  <2>2. z = [x \in Account |-> z[x]] /\ w = [x \in Account |-> w[x]]
    BY <1>4, <1>6
  <2> QED
    BY <2>1, <2>2, Zenon
<1>8. SumFunction(z) = SumFunction(u)
  <2>1. SumFunction(w) = SumFunction(u)
    BY <1>1, <1>2, <1>4
  <2> QED
    BY <1>7, <2>1, Zenon
<1> QED
  BY <1>6, <1>8, AmountsTyped DEF Moved

LEMMA UserMoved ==
  ASSUME NEW u \in [Account -> Int], NEW m \in Account, NEW new \in Account, m # new,
         u[m] > 0 => u[new] = 0, u[m] >= 0
  PROVE  Moved(u, on_rename(u, m, new), m, new)
<1> DEFINE z == on_rename(u, m, new)
<1>1. z \in [Account -> Int] /\ SumFunction(z) = SumFunction(u)
  BY RenamedUser
<1>2. u[m] \in Int /\ u[new] \in Int
  OBVIOUS
<1>3. CASE u[m] > 0
  <2>1. z[new] = u[m] /\ z[m] = 0 /\ \A x \in Account \ {m, new} : z[x] = u[x]
    BY <1>3 DEF on_rename
  <2> HIDE DEF z
  <2>2. z[new] = u[m] + u[new]
    BY <1>2, <1>3, <2>1
  <2>3. Amounts_of(u) /\ Amounts_of(z)
    BY <1>1, AmountsTyped
  <2> QED
    BY <1>1, <2>1, <2>2, <2>3 DEF Moved, z
<1>4. CASE ~(u[m] > 0)
  <2>1. z = u
    BY <1>4 DEF on_rename
  <2>2. u[m] = 0 /\ u[new] = u[m] + u[new]
    BY <1>2, <1>4
  <2> HIDE DEF z
  <2>3. Amounts_of(u) /\ Amounts_of(z)
    BY <1>1, AmountsTyped
  <2> QED
    BY <1>1, <2>1, <2>2, <2>3 DEF Moved, z
<1> QED
  BY <1>3, <1>4

RowsRenamed(l, c, m, new) ==
  /\ LedgerTyped(c) /\ ~c.aborted
  /\ token_account \in DOMAIN l.balances => token_account \in DOMAIN c.balances
  /\ shown(c, m) = 0 /\ shown(c, new) = shown(l, m) + shown(l, new)
  /\ \A x \in Holder : x # m /\ x # new => shown(c, x) = shown(l, x)

FundsRenamed(l, c, m, new) ==
  /\ \A j \in DOMAIN l.funds : j[1] = m => renamed_key(j, m, new) \notin DOMAIN l.funds
  /\ \A j \in DOMAIN l.funds : renamed_key(j, m, new) \in DOMAIN c.funds /\ c.funds[renamed_key(j, m, new)] = l.funds[j]
  /\ \A k \in DOMAIN c.funds : \E j \in DOMAIN l.funds : k = renamed_key(j, m, new)

new_name(a, m, new) == IF a = m THEN new ELSE a
old_name(a, m, new, D) == IF a = new /\ m \in D THEN m ELSE a
balances_renamed(f, m, new) == [a \in {new_name(b, m, new) : b \in DOMAIN f} |-> f[old_name(a, m, new, DOMAIN f)]]

old_key(k, m, new, D) == IF k[1] = new /\ k \notin D THEN <<m, k[2], k[3]>> ELSE k
funds_renamed(f, m, new) == [k \in {renamed_key(j, m, new) : j \in DOMAIN f} |-> f[old_key(k, m, new, DOMAIN f)]]

Clash(l, m, new) ==
  \/ {m, new} \subseteq DOMAIN l.balances
  \/ \E k \in DOMAIN l.funds : k[1] = m /\ renamed_key(k, m, new) \in DOMAIN l.funds

LEMMA RenamedIs ==
  ASSUME NEW l, ~l.aborted, NEW m, NEW new
  PROVE  account_renamed(l, m, new) =
           IF Clash(l, m, new) THEN abort(l)
           ELSE [l EXCEPT !.balances = balances_renamed(l.balances, m, new), !.funds = funds_renamed(l.funds, m, new)]
BY Zenon DEF account_renamed, Clash, balances_renamed, funds_renamed, new_name, old_name, old_key, renamed_key

LEMMA BalancesRenamed ==
  ASSUME NEW f, f \in [DOMAIN f -> Int], DOMAIN f \subseteq Holder, NEW m \in Account, NEW new \in Account, m # new,
         ~({m, new} \subseteq DOMAIN f), NEW g, g = balances_renamed(f, m, new)
  PROVE  /\ g \in [DOMAIN g -> Int] /\ DOMAIN g \subseteq Holder /\ m \notin DOMAIN g
         /\ new \in DOMAIN g <=> m \in DOMAIN f \/ new \in DOMAIN f
         /\ m \in DOMAIN f => g[new] = f[m]
         /\ new \in DOMAIN f => g[new] = f[new]
         /\ \A x : x # m /\ x # new => (x \in DOMAIN g <=> x \in DOMAIN f)
         /\ \A x \in DOMAIN f : x # m /\ x # new => g[x] = f[x]
<1> DEFINE D == DOMAIN f
           E == {new_name(b, m, new) : b \in DOMAIN f}
<1>1. DOMAIN g = E /\ \A a \in E : g[a] = f[old_name(a, m, new, D)]
  BY DEF balances_renamed
<1>2. \A a : a \in E <=> \E b \in D : a = new_name(b, m, new)
  OBVIOUS
<1>3. \A a : a \in E <=> (a = new /\ m \in D) \/ (a \in D /\ a # m)
  BY <1>2 DEF new_name
<1> HIDE DEF E
<1>4. \A a \in E : old_name(a, m, new, D) \in D
  BY <1>3 DEF old_name
<1>5. DOMAIN g \subseteq Holder
  BY <1>1, <1>3, HoldersDistinct
<1>6. \A a \in E : g[a] \in Int
  BY <1>1, <1>4
<1>7. g \in [DOMAIN g -> Int]
  <2>1. g = [a \in DOMAIN g |-> g[a]]
    BY DEF balances_renamed
  <2> QED
    BY <1>1, <1>6, <2>1
<1> QED
  BY <1>1, <1>3, <1>5, <1>7 DEF old_name

LEMMA FundKeysRenamed ==
  ASSUME NEW f, f \in [DOMAIN f -> Int], DOMAIN f \subseteq Account \X Int \X Int, NEW m \in Account, NEW new \in Account, m # new,
         \A k \in DOMAIN f : k[1] = m => renamed_key(k, m, new) \notin DOMAIN f, NEW g, g = funds_renamed(f, m, new)
  PROVE  /\ g \in [DOMAIN g -> Int] /\ DOMAIN g \subseteq Account \X Int \X Int
         /\ \A j \in DOMAIN f : renamed_key(j, m, new) \in DOMAIN g /\ g[renamed_key(j, m, new)] = f[j]
         /\ \A k \in DOMAIN g : \E j \in DOMAIN f : k = renamed_key(j, m, new)
<1> DEFINE D == DOMAIN f
           E == {renamed_key(j, m, new) : j \in DOMAIN f}
<1>1. DOMAIN g = E /\ \A k \in E : g[k] = f[old_key(k, m, new, D)]
  BY DEF funds_renamed
<1>2. \A k : k \in E <=> \E j \in D : k = renamed_key(j, m, new)
  OBVIOUS
<1> HIDE DEF E
<1>3. \A k \in D : k = <<k[1], k[2], k[3]>> /\ k[1] \in Account /\ k[2] \in Int /\ k[3] \in Int
  OBVIOUS
<1>4. ASSUME NEW j \in D PROVE old_key(renamed_key(j, m, new), m, new, D) = j
  <2>1. CASE j[1] = m
    <3>1. renamed_key(j, m, new) = <<new, j[2], j[3]>> /\ renamed_key(j, m, new) \notin D
      BY <2>1 DEF renamed_key
    <3> QED
      BY <1>3, <2>1, <3>1 DEF old_key
  <2>2. CASE j[1] # m
    BY <2>2 DEF renamed_key, old_key
  <2> QED
    BY <2>1, <2>2
<1>5. \A j \in D : renamed_key(j, m, new) \in E /\ g[renamed_key(j, m, new)] = f[j]
  BY <1>1, <1>2, <1>4
<1>6. \A k \in E : g[k] \in Int /\ k \in Account \X Int \X Int
  <2> SUFFICES ASSUME NEW k \in E PROVE g[k] \in Int /\ k \in Account \X Int \X Int
    OBVIOUS
  <2>1. PICK j \in D : k = renamed_key(j, m, new)
    BY <1>2
  <2>2. g[k] = f[j]
    BY <1>5, <2>1
  <2>3. k \in Account \X Int \X Int
    BY <1>3, <2>1 DEF renamed_key
  <2> QED
    BY <2>2, <2>3
<1>7. g \in [DOMAIN g -> Int]
  <2>1. g = [k \in DOMAIN g |-> g[k]]
    BY DEF funds_renamed
  <2> QED
    BY <1>1, <1>6, <2>1
<1> QED
  BY <1>1, <1>2, <1>5, <1>6, <1>7

LEMMA LedgerRenamed ==
  ASSUME NEW l, LedgerTyped(l), ~l.aborted, NEW m \in Account, NEW new \in Account, m # new, ~Clash(l, m, new),
         NEW c, c = account_renamed(l, m, new)
  PROVE  RowsRenamed(l, c, m, new) /\ FundsRenamed(l, c, m, new)
<1> DEFINE f == l.balances
           g == balances_renamed(f, m, new)
           h == l.funds
           i == funds_renamed(h, m, new)
<1>1. c = [l EXCEPT !.balances = g, !.funds = i]
  BY RenamedIs
<1>2. /\ f \in [DOMAIN f -> Int] /\ DOMAIN f \subseteq Holder
      /\ h \in [DOMAIN h -> Int] /\ DOMAIN h \subseteq Account \X Int \X Int
  BY DEF LedgerTyped
<1>3. /\ ~({m, new} \subseteq DOMAIN f)
      /\ \A k \in DOMAIN h : k[1] = m => renamed_key(k, m, new) \notin DOMAIN h
  BY DEF Clash
<1> HIDE DEF f, h
<1>4. /\ g \in [DOMAIN g -> Int] /\ DOMAIN g \subseteq Holder /\ m \notin DOMAIN g
      /\ new \in DOMAIN g <=> m \in DOMAIN f \/ new \in DOMAIN f
      /\ m \in DOMAIN f => g[new] = f[m]
      /\ new \in DOMAIN f => g[new] = f[new]
      /\ \A x : x # m /\ x # new => (x \in DOMAIN g <=> x \in DOMAIN f)
      /\ \A x \in DOMAIN f : x # m /\ x # new => g[x] = f[x]
  BY <1>2, <1>3, BalancesRenamed
<1>5. /\ i \in [DOMAIN i -> Int] /\ DOMAIN i \subseteq Account \X Int \X Int
      /\ \A j \in DOMAIN h : renamed_key(j, m, new) \in DOMAIN i /\ i[renamed_key(j, m, new)] = h[j]
      /\ \A k \in DOMAIN i : \E j \in DOMAIN h : k = renamed_key(j, m, new)
  BY <1>2, <1>3, FundKeysRenamed
<1> HIDE DEF g, i
<1>6. DOMAIN c = {"balances", "funds", "aborted"} /\ c.balances = g /\ c.funds = i /\ c.aborted = l.aborted
  BY <1>1 DEF LedgerTyped
<1>7. LedgerTyped(c)
  BY <1>4, <1>5, <1>6 DEF LedgerTyped
<1>8. \A x : shown(c, x) = (IF x \in DOMAIN g THEN g[x] ELSE 0) /\ shown(l, x) = (IF x \in DOMAIN f THEN f[x] ELSE 0)
  BY <1>6 DEF shown, f
<1>9. shown(c, m) = 0
  BY <1>4, <1>8
<1>10. shown(c, new) = shown(l, m) + shown(l, new)
  <2>1. shown(c, new) \in Int /\ shown(l, m) \in Int /\ shown(l, new) \in Int
    BY <1>7, ShownTyped
  <2>2. CASE m \in DOMAIN f
    <3>1. shown(l, new) = 0 /\ shown(c, new) = shown(l, m)
      BY <1>3, <1>4, <1>8, <2>2
    <3> QED
      BY <2>1, <3>1
  <2>3. CASE m \notin DOMAIN f
    <3>1. shown(l, m) = 0 /\ shown(c, new) = shown(l, new)
      BY <1>4, <1>8, <2>3
    <3> QED
      BY <2>1, <3>1
  <2> QED
    BY <2>2, <2>3
<1>11. \A x \in Holder : x # m /\ x # new => shown(c, x) = shown(l, x)
  BY <1>4, <1>8
<1>12. token_account \in DOMAIN l.balances => token_account \in DOMAIN c.balances
  BY <1>4, <1>6, HoldersDistinct DEF f
<1>13. RowsRenamed(l, c, m, new)
  BY <1>6, <1>7, <1>9, <1>10, <1>11, <1>12 DEF RowsRenamed
<1>14. FundsRenamed(l, c, m, new)
  BY <1>3, <1>5, <1>6 DEF FundsRenamed, h
<1> QED
  BY <1>13, <1>14
\* Explained, whoever the account's name.
LEMMA RenameExplained ==
  ASSUME NEW l, NEW u, NEW p, NEW t, NEW f, NEW g, Explains(l, u, p, t, f, g),
         NEW m \in Account, NEW new \in Account, m # new, NEW c, RowsRenamed(l, c, m, new),
         NEW v, Moved(u, v, m, new), NEW i, Moved(f, i, m, new), NEW j, Moved(g, j, m, new)
  PROVE  Explains(c, v, p, t, i, j)
<1>1. /\ LedgerTyped(l) /\ t \in Int /\ p \in Int
      /\ SumFunction(u) \in Int /\ SumFunction(f) \in Int /\ SumFunction(g) \in Int
      /\ \A x \in Account : u[x] \in Int /\ f[x] \in Int /\ g[x] \in Int
  BY ExplainsTyped
<1>2. /\ Amounts_of(v) /\ Amounts_of(i) /\ Amounts_of(j)
      /\ SumFunction(v) = SumFunction(u) /\ SumFunction(i) = SumFunction(f) /\ SumFunction(j) = SumFunction(g)
  BY DEF Moved
<1>3. LedgerTyped(c) /\ token_account \in DOMAIN c.balances
  BY DEF RowsRenamed, Explains
<1>4. /\ shown(c, token_account) = shown(l, token_account)
      /\ shown(c, system_account) = shown(l, system_account)
      /\ shown(c, edendelegate) = shown(l, edendelegate)
      /\ shown(c, master_pool) = shown(l, master_pool)
      /\ shown(c, distribution_fund) = shown(l, distribution_fund)
  BY HoldersDistinct DEF RowsRenamed
<1>5. /\ shown(l, token_account) + t = 0 /\ shown(l, system_account) = 0
      /\ shown(l, edendelegate) + SumFunction(g) = 0 /\ shown(l, master_pool) + SumFunction(f) = p
      /\ shown(l, distribution_fund) + SumFunction(u) + p = t
  BY DEF Explains
<1>6. ASSUME NEW x \in Account PROVE shown(c, x) = v[x] + i[x] + j[x]
  <2>1. \A a \in Account : shown(l, a) = u[a] + f[a] + g[a]
    BY DEF Explains
  <2>2. CASE x = m
    BY <2>2 DEF RowsRenamed, Moved
  <2>3. CASE x = new
    <3>1. shown(c, new) = shown(l, m) + shown(l, new)
      BY DEF RowsRenamed
    <3>2. v[new] = u[m] + u[new] /\ i[new] = f[m] + f[new] /\ j[new] = g[m] + g[new]
      BY DEF Moved
    <3>3. shown(c, new) = (u[m] + f[m] + g[m]) + (u[new] + f[new] + g[new])
      BY <2>1, <3>1
    <3>4. shown(c, new) = (u[m] + u[new]) + (f[m] + f[new]) + (g[m] + g[new])
      BY <1>1, <3>3
    <3> QED
      BY <2>3, <3>2, <3>4
  <2>4. CASE x # m /\ x # new
    BY <2>1, <2>4, HoldersDistinct DEF RowsRenamed, Moved
  <2> QED
    BY <2>2, <2>3, <2>4
<1>7. /\ shown(c, token_account) + t = 0 /\ shown(c, system_account) = 0
      /\ shown(c, edendelegate) + SumFunction(j) = 0 /\ shown(c, master_pool) + SumFunction(i) = p
      /\ shown(c, distribution_fund) + SumFunction(v) + p = t
  BY <1>2, <1>4, <1>5
<1> QED
  BY <1>1, <1>2, <1>3, <1>6, <1>7 DEF Explains

LEMMA RenamedMatch ==
  ASSUME NEW l, LedgerTyped(l), NEW d, DOMAIN d \subseteq Owner \X Int \X Int, FundsMatch(l, d),
         NEW m \in Account, NEW new \in Account, m # new, \A k \in DOMAIN d : k[1] # new,
         NEW c, FundsRenamed(l, c, m, new)
  PROVE  FundsMatch(c, renamed(d, m, new))
<1> DEFINE e == renamed(d, m, new)
           E == {renamed_key(j, m, new) : j \in DOMAIN d}
<1>1. DOMAIN e = E /\ \A k \in E : e[k] = d[former_key(k, m, new)]
  BY DEF renamed
<1>2. \A k : k \in E <=> \E j \in DOMAIN d : k = renamed_key(j, m, new)
  OBVIOUS
<1> HIDE DEF e, E
<1>3. \A k \in DOMAIN d : k = <<k[1], k[2], k[3]>>
  BY KeyTyped
<1>4. \A k \in DOMAIN l.funds : k = <<k[1], k[2], k[3]>> /\ k[1] # contract
  <2>1. \A k \in Account \X Int \X Int : k = <<k[1], k[2], k[3]>> /\ k[1] # contract
    BY TreasuryAssumption DEF contract
  <2> QED
    BY <2>1 DEF LedgerTyped
<1>5. m # contract /\ new # contract
  BY TreasuryAssumption DEF contract
<1>6. /\ \A k \in DOMAIN d : k[1] # contract => k \in DOMAIN l.funds
      /\ \A k \in DOMAIN l.funds : l.funds[k] = IF k \in DOMAIN d THEN d[k] ELSE 0
  BY DEF FundsMatch
<1>7. \A k \in E : k[1] # contract => k \in DOMAIN c.funds
  <2> SUFFICES ASSUME NEW k \in E, k[1] # contract PROVE k \in DOMAIN c.funds
    OBVIOUS
  <2>1. PICK j \in DOMAIN d : k = renamed_key(j, m, new)
    BY <1>2
  <2>2. j[1] # contract
    BY <1>5, <2>1 DEF renamed_key
  <2> QED
    BY <1>6, <2>1, <2>2 DEF FundsRenamed
<1>8. ASSUME NEW k \in DOMAIN c.funds PROVE c.funds[k] = IF k \in E THEN e[k] ELSE 0
  <2>1. PICK j \in DOMAIN l.funds : k = renamed_key(j, m, new)
    BY DEF FundsRenamed
  <2>2. c.funds[k] = l.funds[j] /\ l.funds[j] = IF j \in DOMAIN d THEN d[j] ELSE 0
    BY <1>6, <2>1 DEF FundsRenamed
  <2>3. CASE j[1] = m
    <3>1. k = <<new, j[2], j[3]>> /\ j = <<m, j[2], j[3]>>
      BY <1>4, <2>1, <2>3 DEF renamed_key
    <3>2. former_key(k, m, new) = j
      BY <3>1 DEF former_key
    <3>3. k \in E <=> j \in DOMAIN d
      <4>1. ASSUME NEW i \in DOMAIN d, k = renamed_key(i, m, new) PROVE i = j
        <5>1. i[1] = m
          BY <3>1, <4>1 DEF renamed_key
        <5>2. k = <<new, i[2], i[3]>> /\ i = <<m, i[2], i[3]>>
          BY <1>3, <4>1, <5>1 DEF renamed_key
        <5> QED
          BY <3>1, <5>2
      <4> QED
        BY <1>2, <2>1, <4>1
    <3> QED
      BY <1>1, <2>2, <3>2, <3>3
  <2>4. CASE j[1] = new
    <3>1. k = j /\ j \notin DOMAIN d
      BY <2>1, <2>4 DEF renamed_key
    <3>2. k \notin E
      <4> SUFFICES ASSUME NEW i \in DOMAIN d, k = renamed_key(i, m, new) PROVE FALSE
        BY <1>2
      <4>1. i[1] = m
        BY <2>4, <3>1 DEF renamed_key
      <4>2. i \in DOMAIN l.funds
        BY <1>5, <1>6, <4>1
      <4> QED
        BY <3>1, <4>1, <4>2 DEF FundsRenamed
    <3> QED
      BY <2>2, <3>1, <3>2
  <2>5. CASE j[1] # m /\ j[1] # new
    <3>1. k = j /\ former_key(k, m, new) = j
      BY <2>1, <2>5 DEF renamed_key, former_key
    <3>2. k \in E <=> j \in DOMAIN d
      <4>1. ASSUME NEW i \in DOMAIN d, k = renamed_key(i, m, new) PROVE i = j
        BY <2>5, <3>1, <4>1 DEF renamed_key
      <4> QED
        BY <1>2, <2>1, <4>1
    <3> QED
      BY <1>1, <2>2, <3>1, <3>2
  <2> QED
    BY <2>3, <2>4, <2>5
<1> QED
  BY <1>1, <1>7, <1>8 DEF FundsMatch, e
LEMMA RenameAgrees ==
  ASSUME LInv, NEW m \in DOMAIN member, NEW new \in Account, ledger_rename(m, new)
  PROVE  HistoryTyped' /\ Agrees'
<1> DEFINE b == setup_distribution(books)
           d == b.dist
           c == account_renamed(ledger, m, new)
<1>1. /\ rename(m, new) /\ ledger' = setup_shown(c) /\ TInv
      /\ memoed' = [memoed EXCEPT ![new] = @ + memoed[m], ![m] = 0]
      /\ withdrawn' = [withdrawn EXCEPT ![new] = @ + withdrawn[m], ![m] = 0]
  BY Zenon DEF ledger_rename, LInv
<1>2. /\ new \notin DOMAIN member /\ (user[m] > 0 => user[new] = 0)
      /\ user' = on_rename(user, m, new) /\ token' = token
  BY <1>1 DEF rename
<1>3. store([b EXCEPT !.dist = renamed(d, m, new)])
  BY <1>1, Zenon DEF rename, renamed, renamed_key, former_key
<1>4. m \in Account /\ m # new /\ DOMAIN member \subseteq Account /\ new # contract
  BY <1>1, <1>2, TreasuryAssumption DEF TInv, Types, contract
<1>5. user \in [Account -> Int] /\ memoed \in [Account -> Int] /\ withdrawn \in [Account -> Int]
  BY <1>1, ConservedSums DEF LInv, HistoryTyped
<1>6. Moved(memoed, memoed', m, new) /\ memoed' \in [Account -> Int]
  BY <1>1, <1>4, <1>5, HistoryMoved
<1>7. Moved(withdrawn, withdrawn', m, new) /\ withdrawn' \in [Account -> Int]
  BY <1>1, <1>4, <1>5, HistoryMoved
<1>8. Moved(user, user', m, new)
  <2>1. user[m] >= 0
    BY <1>4 DEF LInv, Solvent
  <2> QED
    BY <1>2, <1>4, <1>5, <2>1, UserMoved
<1>9. HistoryTyped'
  BY <1>6, <1>7 DEF HistoryTyped
<1>10. CASE ledger.aborted
  <2>1. c = ledger
    BY <1>10, AbortedStays
  <2>2. ledger' = ledger
    BY <1>1, <1>10, <2>1, AbortedStays
  <2> QED
    BY <1>9, <1>10, <2>2, AbortedAgrees
<1>11. CASE ~ledger.aborted /\ Clash(ledger, m, new)
  <2>1. c = abort(ledger)
    BY <1>11, RenamedIs
  <2>2. LedgerTyped(c) /\ c.aborted
    BY <1>11, <2>1, AbortTyped, StillRunning
  <2> HIDE DEF c
  <2>3. ledger' = c
    BY <1>1, <2>2, AbortedStays
  <2> QED
    BY <1>9, <2>2, <2>3 DEF Agrees
<1>12. CASE ~ledger.aborted /\ ~Clash(ledger, m, new)
  <2>1. RowsRenamed(ledger, c, m, new) /\ FundsRenamed(ledger, c, m, new)
    BY <1>4, <1>12, LedgerRenamed, StillRunning
  <2>2. ~c.aborted /\ LedgerTyped(c)
    BY <2>1 DEF RowsRenamed
  <2> HIDE DEF c
  <2>3. Explains(c, user', pool, token, memoed', withdrawn')
    BY <1>4, <1>6, <1>7, <1>8, <1>12, <2>1, RenameExplained, StillRunning, Zenon
  <2>4. pool + 0 = pool /\ pool \in Int
    BY <1>12, StillRunning
  <2>5. Explains(c, user', pool + 0, token, memoed', withdrawn')
    BY <2>3, <2>4
  <2>6. /\ Explains(ledger', user', b.pool + 0, token, memoed', withdrawn') /\ OthersSame(dist, d)
        /\ ledger'.funds = c.funds
    BY <1>1, <2>2, <2>5, SetupExplained
  <2>7. SetUp(books, b, next_election_time)
    BY <1>1, SetUpNow
  <2> HIDE DEF b
  <2>8. BooksInv(b) /\ \A k \in DOMAIN d : k \in DOMAIN dist \/ k[1] = contract
    BY <2>7 DEF SetUp, books
  <2>9. DOMAIN b = {"pool", "table", "dist"} /\ b.pool \in Int /\ DOMAIN d \subseteq Owner \X Int \X Int
    BY <2>8 DEF BooksInv, BooksTyped
  <2>10. pool' = b.pool /\ dist' = renamed(d, m, new) /\ b.pool + 0 = b.pool
    BY <1>3, <2>9 DEF store
  <2>11. Explains(ledger', user', pool', token', memoed', withdrawn')
    BY <1>2, <2>6, <2>10, Zenon
  <2>12. \A k \in DOMAIN d : k[1] # new
    BY <1>1, <1>2, <1>4, <2>8 DEF TInv, Owned
  <2>13. FundsMatch(ledger, d)
    BY <1>12, <2>6, StillRunning, FundsMatchSame
  <2>14. FundsMatch(c, renamed(d, m, new))
    BY <1>4, <1>12, <2>1, <2>9, <2>12, <2>13, StillRunning, RenamedMatch
  <2>15. FundsMatch(ledger', dist')
    BY <2>6, <2>10, <2>14 DEF FundsMatch
  <2> QED
    BY <2>11, <2>15, AgreesWith
<1> QED
  BY <1>10, <1>11, <1>12

-----------------------------------------------------------------------------
(***************************************************************************)
(* Nobody spends more than it has.                                         *)
(***************************************************************************)
LEMMA SolventMoved ==
  ASSUME NEW u \in [Account -> Int], \A x \in Account : u[x] >= 0, NEW a \in Account, NEW q \in Amounts
  PROVE  /\ add_user_balance(u, a, q) \in [Account -> Int]
         /\ \A x \in Account : add_user_balance(u, a, q)[x] >= 0
         /\ sub_user_balance(u, a, q) \in [Account -> Int]
         /\ u[a] >= q => \A x \in Account : sub_user_balance(u, a, q)[x] >= 0
<1>1. q \in Int /\ q >= 0 /\ u[a] \in Int
  BY TreasuryAssumption
<1>2. /\ add_user_balance(u, a, q) \in [Account -> Int] /\ sub_user_balance(u, a, q) \in [Account -> Int]
  BY <1>1, UserSum
<1>3. u[a] + q >= 0 /\ (u[a] >= q => u[a] - q >= 0)
  BY <1>1
<1>4. \A x \in Account : add_user_balance(u, a, q)[x] = (IF x = a THEN u[a] + q ELSE u[x])
                         /\ sub_user_balance(u, a, q)[x] = (IF x = a THEN u[a] - q ELSE u[x])
  BY DEF add_user_balance, sub_user_balance
<1> QED
  BY <1>2, <1>3, <1>4

LEMMA TransferSolvent ==
  ASSUME TInv, Solvent, TransferNext
  PROVE  Solvent'
<1>1. user \in [Account -> Int] /\ \A x \in Account : user[x] >= 0
  BY ConservedSums DEF Solvent
<1>2. ASSUME NEW a \in Account, NEW q \in Amounts, user' = add_user_balance(user, a, q) PROVE Solvent'
  BY <1>1, <1>2, SolventMoved DEF Solvent
<1>3. ASSUME NEW a \in Account, NEW q \in Amounts, user[a] >= q, user' = sub_user_balance(user, a, q) PROVE Solvent'
  BY <1>1, <1>3, SolventMoved DEF Solvent
<1>4. ASSUME NEW a \in Account, NEW b \in Account, NEW q \in Amounts, usertransfer(a, b, q) PROVE Solvent'
  <2> DEFINE w == sub_user_balance(user, a, q)
  <2>1. user[a] >= q /\ user' = add_user_balance(w, b, q)
    BY <1>4 DEF usertransfer
  <2>2. w \in [Account -> Int] /\ \A x \in Account : w[x] >= 0
    BY <1>1, <2>1, SolventMoved
  <2> HIDE DEF w
  <2> QED
    BY <2>1, <2>2, SolventMoved DEF Solvent
<1>5. ASSUME NEW a \in Account, NEW q \in Amounts, deposit(a, q) PROVE Solvent'
  BY <1>2, <1>5 DEF deposit
<1>6. ASSUME NEW q \in Amounts, donation(q) PROVE Solvent'
  BY <1>6 DEF donation, Solvent
<1>7. ASSUME NEW a \in Account, NEW q \in Amounts, donate(a, q) PROVE Solvent'
  BY <1>3, <1>7 DEF donate
<1>8. ASSUME NEW a \in Account, NEW q \in Amounts, withdraw(a, q) PROVE Solvent'
  BY <1>3, <1>8 DEF withdraw
<1>9. ASSUME NEW k \in DOMAIN dist, NEW a \in Account, NEW q \in Amounts, fundtransfer(k, a, q) PROVE Solvent'
  BY <1>2, <1>9 DEF fundtransfer
<1> QED
  BY <1>4, <1>5, <1>6, <1>7, <1>8, <1>9 DEF TransferNext

LEMMA DistributionSolvent ==
  ASSUME TInv, Solvent, DistributionNext
  PROVE  Solvent'
<1>1. ASSUME user' = user PROVE Solvent'
  BY <1>1 DEF Solvent
<1>2. ASSUME NEW m \in DOMAIN member, NEW new \in Account, rename(m, new) PROVE Solvent'
  <2>1. user' = on_rename(user, m, new)
    BY <1>2 DEF rename
  <2>2. user \in [Account -> Int] /\ m \in Account
    BY ConservedSums DEF TInv, Types
  <2>3. \A x \in Account : on_rename(user, m, new)[x] \in {user[x], user[m], 0}
    BY <2>2 DEF on_rename
  <2>4. 0 >= 0
    OBVIOUS
  <2>5. \A x \in Account : on_rename(user, m, new)[x] >= 0
    BY <2>2, <2>3, <2>4 DEF Solvent
  <2> QED
    BY <2>1, <2>5 DEF Solvent
<1>3. ASSUME distribute PROVE user' = user
  <2>1. CASE setup_due
    BY <2>1 DEF setup_due
  <2>2. ASSUME NEW m \in DOMAIN member, pay_member(m) PROVE user' = user
    BY <2>2, Zenon DEF pay_member
  <2>3. CASE end_distribution
    BY <2>3, Zenon DEF end_distribution
  <2> QED
    BY <1>3, <2>1, <2>2, <2>3 DEF distribute
<1>4. ASSUME NEW m \in Account, inducted(m) PROVE user' = user
  BY <1>4 DEF inducted
<1>5. ASSUME NEW m \in DOMAIN member, resign(m) PROVE user' = user
  <2>1. leave(m)
    BY <1>5, Zenon DEF resign
  <2> QED
    BY <2>1 DEF leave
<1>6. ASSUME NEW time \in (now + 1)..(now + MaxLead), reschedule(time) PROVE user' = user
  BY <1>6 DEF reschedule
<1>7. ASSUME start_election PROVE user' = user
  BY <1>7, Zenon DEF start_election
<1>8. ASSUME begin_voting PROVE user' = user
  BY <1>8 DEF begin_voting
<1>9. ASSUME NEW f \in outcomes, NEW time \in (electionTime + 1)..(now + MaxLead), finish_election(f, time) PROVE user' = user
  BY <1>9, Zenon DEF finish_election
<1>10. ASSUME Tick PROVE user' = user
  BY <1>10 DEF Tick
<1> QED
  BY <1>1, <1>2, <1>3, <1>4, <1>5, <1>6, <1>7, <1>8, <1>9, <1>10 DEF DistributionNext

-----------------------------------------------------------------------------
(***************************************************************************)
(* The specification with the ledger.                                      *)
(***************************************************************************)
LEMMA LedgerTransfersAgree ==
  ASSUME LInv, LedgerTransfers
  PROVE  TransferNext /\ HistoryTyped' /\ Agrees'
<1>1. ASSUME NEW a \in Account, NEW q \in Amounts, ledger_deposit(a, q)
      PROVE  TransferNext /\ HistoryTyped' /\ Agrees'
  BY <1>1, DepositAgrees DEF ledger_deposit, TransferNext
<1>2. ASSUME NEW a \in Account \cup {system_account}, NEW q \in Amounts, ledger_donation(a, q)
      PROVE  TransferNext /\ HistoryTyped' /\ Agrees'
  BY <1>2, DonationAgrees DEF ledger_donation, TransferNext
<1>3. ASSUME NEW a \in Account, NEW q \in Amounts, ledger_donate(a, q)
      PROVE  TransferNext /\ HistoryTyped' /\ Agrees'
  BY <1>3, DonateAgrees DEF ledger_donate, TransferNext
<1>4. ASSUME NEW a \in Account, NEW q \in Amounts, ledger_withdraw(a, q)
      PROVE  TransferNext /\ HistoryTyped' /\ Agrees'
  BY <1>4, WithdrawAgrees DEF ledger_withdraw, TransferNext
<1>5. ASSUME NEW a \in Account, NEW b \in Account, NEW q \in Amounts, ledger_usertransfer(a, b, q)
      PROVE  TransferNext /\ HistoryTyped' /\ Agrees'
  BY <1>5, UserTransferAgrees DEF ledger_usertransfer, TransferNext
<1>6. ASSUME NEW k \in DOMAIN dist, NEW a \in Account, NEW q \in Amounts, ledger_fundtransfer(k, a, q)
      PROVE  TransferNext /\ HistoryTyped' /\ Agrees'
  BY <1>6, FundTransferAgrees DEF ledger_fundtransfer, TransferNext
<1> QED
  BY <1>1, <1>2, <1>3, <1>4, <1>5, <1>6 DEF LedgerTransfers

LEMMA LedgerDistributionsAgree ==
  ASSUME LInv, LedgerDistributions
  PROVE  DistributionNext /\ HistoryTyped' /\ Agrees'
<1>1. ASSUME ledger_setup PROVE DistributionNext /\ HistoryTyped' /\ Agrees'
  BY <1>1, SetupAgrees DEF ledger_setup, DistributionNext, distribute
<1>2. ASSUME NEW m \in DOMAIN member, ledger_pay(m) PROVE DistributionNext /\ HistoryTyped' /\ Agrees'
  BY <1>2, PayAgrees DEF ledger_pay, DistributionNext, distribute
<1>3. ASSUME NEW m \in DOMAIN member, ledger_resign(m) PROVE DistributionNext /\ HistoryTyped' /\ Agrees'
  <2>1. resign(m)
    BY <1>3, Zenon DEF ledger_resign
  <2> QED
    BY <1>3, <2>1, ResignAgrees DEF DistributionNext
<1>4. ASSUME NEW m \in DOMAIN member, NEW new \in Account, ledger_rename(m, new)
      PROVE  DistributionNext /\ HistoryTyped' /\ Agrees'
  <2>1. rename(m, new)
    BY <1>4, Zenon DEF ledger_rename
  <2> QED
    BY <1>4, <2>1, RenameAgrees DEF DistributionNext
<1>5. ASSUME ledger_start_election PROVE DistributionNext /\ HistoryTyped' /\ Agrees'
  BY <1>5, StartAgrees DEF ledger_start_election, DistributionNext
<1>6. ASSUME ledger_other PROVE DistributionNext /\ HistoryTyped' /\ Agrees'
  <2>1. DistributionNext
    BY <1>6, Zenon DEF ledger_other, DistributionNext, distribute
  <2> QED
    BY <1>6, <2>1, OtherAgrees
<1> QED
  BY <1>1, <1>2, <1>3, <1>4, <1>5, <1>6 DEF LedgerDistributions

LEMMA LedgerSteps ==
  ASSUME LInv, [LedgerTransfers \/ LedgerDistributions]_ledger_vars
  PROVE  LInv'
<1>1. TInv /\ Solvent
  BY DEF LInv
<1>2. CASE LedgerTransfers
  BY <1>1, <1>2, LedgerTransfersAgree, TransferKeeps, TransferSolvent DEF LInv
<1>3. CASE LedgerDistributions
  BY <1>1, <1>3, LedgerDistributionsAgree, DistributionKeeps, DistributionSolvent DEF LInv
<1>4. CASE UNCHANGED ledger_vars
  <2>1. UNCHANGED vars /\ ledger' = ledger /\ memoed' = memoed /\ withdrawn' = withdrawn
    BY <1>4 DEF ledger_vars
  <2>2. user' = user /\ pool' = pool /\ token' = token /\ dist' = dist
    BY <2>1 DEF vars
  <2>3. TInv'
    BY <1>1, <2>1, StutterKeeps
  <2>4. Solvent'
    BY <1>1, <2>2 DEF Solvent
  <2>5. HistoryTyped'
    BY <2>1 DEF LInv, HistoryTyped
  <2>6. Agrees'
    BY <2>1, <2>2 DEF LInv, Agrees
  <2> QED
    BY <2>3, <2>4, <2>5, <2>6 DEF LInv
<1> QED
  BY <1>2, <1>3, <1>4
LEMMA NothingYet ==
  ASSUME NEW u, u = [a \in Account |-> 0]
  PROVE  Amounts_of(u) /\ SumFunction(u) = 0 /\ \A a \in Account : u[a] = 0
<1>1. u \in [Account -> Int] /\ DOMAIN u = Account /\ (\A a \in Account : u[a] = 0) /\ IsFiniteSet(Account)
  BY TreasuryAssumption
<1>2. SumFunctionOnSet(u, Account) = 0
  BY <1>1, SumZero
<1> QED
  BY <1>1, <1>2, AmountsTyped DEF SumFunction

LEMMA LedgerStarts ==
  ASSUME LedgerInit PROVE LInv
<1> DEFINE z == empty_ledger
           q == InitialPool
           l == transfer_funds(z, token_account, system_account, q)
           c == transfer_funds(l, system_account, master_pool, q)
<1>1. /\ Init /\ ledger = c /\ memoed = [a \in Account |-> 0] /\ withdrawn = [a \in Account |-> 0]
  BY Zenon DEF LedgerInit, notify_deposit
<1>2. user = [a \in Account |-> 0] /\ pool = q /\ token = q /\ dist = [k \in {} |-> 0]
  BY <1>1 DEF Init
<1>3. q \in Int
  BY TreasuryAssumption
<1>4. LedgerTyped(z) /\ ~z.aborted /\ DOMAIN z.funds = {} /\ \A x : shown(z, x) = 0
  BY DEF empty_ledger, LedgerTyped, shown
<1> HIDE DEF z, q
<1>5. Booked(z, l, token_account, system_account, q) /\ token_account \in DOMAIN l.balances
  BY <1>3, <1>4, FundsTransferred, HoldersDistinct
<1> HIDE DEF l
<1>6. LedgerTyped(l) /\ ~l.aborted /\ l.funds = z.funds
  BY <1>4, <1>5 DEF Booked
<1>7. Booked(l, c, system_account, master_pool, q)
  BY <1>3, <1>6, FundsTransferred, HoldersDistinct
<1> HIDE DEF c
<1>8. LedgerTyped(c) /\ ~c.aborted /\ c.funds = z.funds /\ token_account \in DOMAIN c.balances
  BY <1>5, <1>6, <1>7 DEF Booked
<1>9. RowsMoved(z, l, token_account, system_account, q) /\ RowsMoved(l, c, system_account, master_pool, q)
  BY <1>3, <1>4, <1>5, <1>6, <1>7, BookedRows, HoldersDistinct
<1>10. /\ shown(l, token_account) + q = 0 /\ shown(l, system_account) = 0 + q /\ shown(l, master_pool) = 0
       /\ \A x \in Holder : x # token_account /\ x # system_account => shown(l, x) = 0
  BY <1>4, <1>9, HoldersDistinct DEF RowsMoved
<1>11. /\ shown(c, token_account) = shown(l, token_account) /\ shown(c, system_account) + q = shown(l, system_account)
       /\ shown(c, master_pool) = shown(l, master_pool) + q
       /\ \A x \in Holder : x # system_account /\ x # master_pool => shown(c, x) = shown(l, x)
  BY <1>9, HoldersDistinct DEF RowsMoved
<1>12. \A x : shown(c, x) \in Int /\ shown(l, x) \in Int
  BY <1>6, <1>8, ShownTyped
<1>13. shown(c, token_account) + q = 0 /\ shown(c, system_account) = 0 /\ shown(c, master_pool) = q
  BY <1>3, <1>10, <1>11, <1>12
<1>14. shown(c, edendelegate) = 0 /\ shown(c, distribution_fund) = 0 /\ \A a \in Account : shown(c, a) = 0
  <2>1. \A x \in Holder : x # token_account /\ x # system_account /\ x # master_pool => shown(c, x) = 0
    BY <1>10, <1>11
  <2>2. \A a \in Account : a \in Holder /\ a # token_account /\ a # system_account /\ a # master_pool
    BY HoldersDistinct
  <2> QED
    BY <2>1, <2>2, HoldersDistinct
<1>15. /\ Amounts_of(user) /\ SumFunction(user) = 0 /\ \A a \in Account : user[a] = 0
  BY <1>2, NothingYet
<1>16. /\ Amounts_of(memoed) /\ SumFunction(memoed) = 0 /\ \A a \in Account : memoed[a] = 0
  BY <1>1, NothingYet
<1>17. /\ Amounts_of(withdrawn) /\ SumFunction(withdrawn) = 0 /\ \A a \in Account : withdrawn[a] = 0
  BY <1>1, NothingYet
<1>18. Explains(ledger, user, pool, token, memoed, withdrawn)
  <2>1. /\ shown(c, edendelegate) + SumFunction(withdrawn) = 0
        /\ shown(c, master_pool) + SumFunction(memoed) = q
        /\ shown(c, distribution_fund) + SumFunction(user) + q = q
    BY <1>3, <1>13, <1>14, <1>15, <1>16, <1>17
  <2>2. \A a \in Account : shown(c, a) = user[a] + memoed[a] + withdrawn[a]
    BY <1>14, <1>15, <1>16, <1>17
  <2>3. Explains(c, user, q, q, memoed, withdrawn)
    BY <1>3, <1>8, <1>13, <1>15, <1>16, <1>17, <2>1, <2>2 DEF Explains
  <2> QED
    BY <1>1, <1>2, <2>3
<1>19. FundsMatch(ledger, dist)
  BY <1>1, <1>2, <1>4, <1>8 DEF FundsMatch
<1>20. Agrees
  BY <1>1, <1>8, <1>18, <1>19 DEF Agrees
<1>21. HistoryTyped
  BY <1>1 DEF HistoryTyped
<1>22. Solvent
  BY <1>15 DEF Solvent
<1> QED
  BY <1>1, <1>20, <1>21, <1>22, InitKeeps DEF LInv

\* The balances that are shown, of accounts and of the others.
LEMMA AllShown ==
  ASSUME NEW l, LedgerTyped(l), NEW w, w = [x \in Holder |-> shown(l, x)]
  PROVE  /\ SumFunction(l.balances) = w[system_account] + (w[edendelegate] + (w[distribution_fund] + (w[master_pool] +
                                         (w[token_account] + SumFunctionOnSet(w, Account)))))
         /\ SumFunctionOnSet(w, Account) \in Int
<1> DEFINE A == Account \cup {token_account}
           B == A \cup {master_pool}
           C == B \cup {distribution_fund}
           D == C \cup {edendelegate}
           E == D \cup {system_account}
<1>1. \A x \in Holder : w[x] \in Int
  BY ShownTyped
<1>2. IsFiniteSet(Account)
  BY TreasuryAssumption
<1>3. E = Holder
  BY DEF Holder
<1>4. /\ token_account \notin Account /\ master_pool \notin A /\ distribution_fund \notin B
      /\ edendelegate \notin C /\ system_account \notin D
  BY HoldersDistinct
<1>5. \A x \in E : w[x] \in Int
  BY <1>1, <1>3
<1>6. /\ IsFiniteSet(A) /\ SumFunctionOnSet(w, Account) \in Int
      /\ SumFunctionOnSet(w, A) = w[token_account] + SumFunctionOnSet(w, Account)
  <2>1. \A x \in A : w[x] \in Int
    BY <1>5
  <2> QED
    BY <1>2, <1>4, <2>1, SumAdd
<1>7. IsFiniteSet(B) /\ SumFunctionOnSet(w, B) = w[master_pool] + SumFunctionOnSet(w, A)
  <2>1. \A x \in B : w[x] \in Int
    BY <1>5
  <2> HIDE DEF A
  <2> QED
    BY <1>4, <1>6, <2>1, SumAdd
<1>8. IsFiniteSet(C) /\ SumFunctionOnSet(w, C) = w[distribution_fund] + SumFunctionOnSet(w, B)
  <2>1. \A x \in C : w[x] \in Int
    BY <1>5
  <2> HIDE DEF B
  <2> QED
    BY <1>4, <1>7, <2>1, SumAdd
<1>9. IsFiniteSet(D) /\ SumFunctionOnSet(w, D) = w[edendelegate] + SumFunctionOnSet(w, C)
  <2>1. \A x \in D : w[x] \in Int
    BY <1>5
  <2> HIDE DEF C
  <2> QED
    BY <1>4, <1>8, <2>1, SumAdd
<1>10. IsFiniteSet(E) /\ SumFunctionOnSet(w, E) = w[system_account] + SumFunctionOnSet(w, D)
  <2> HIDE DEF D
  <2> QED
    BY <1>4, <1>5, <1>9, SumAdd
<1>11. SumFunctionOnSet(w, Holder) = SumFunction(l.balances)
  <2> DEFINE f == l.balances
             T == DOMAIN l.balances
  <2>1. Within(f, T, w, Holder)
    BY DEF Within, LedgerTyped, shown
  <2>2. IsFiniteSet(Holder)
    BY <1>3, <1>10
  <2> HIDE DEF f, T
  <2>3. SumFunctionOnSet(w, Holder) = SumFunctionOnSet(f, T)
    BY <2>1, <2>2, SumWithin
  <2> QED
    BY <2>3 DEF SumFunction, f, T
<1>12. SumFunctionOnSet(w, E) = SumFunction(l.balances)
  BY <1>3, <1>11, Zenon
<1> HIDE DEF A, B, C, D, E
<1> QED
  BY <1>6, <1>7, <1>8, <1>9, <1>10, <1>12, Zenon

LEMMA BalancesAddUp ==
  ASSUME NEW l, NEW u, NEW p, NEW t, NEW f, NEW g, Explains(l, u, p, t, f, g)
  PROVE  SumFunction(l.balances) = 0
<1> DEFINE w == [x \in Holder |-> shown(l, x)]
           v == [x \in Account |-> u[x] + f[x]]
<1>1. LedgerTyped(l)
  BY ExplainsTyped
<1>2. /\ w[token_account] = shown(l, token_account) /\ w[master_pool] = shown(l, master_pool)
      /\ w[distribution_fund] = shown(l, distribution_fund) /\ w[edendelegate] = shown(l, edendelegate)
      /\ w[system_account] = shown(l, system_account) /\ \A a \in Account : w[a] = shown(l, a)
  BY HoldersDistinct
<1>3. /\ SumFunction(l.balances) = w[system_account] + (w[edendelegate] + (w[distribution_fund] + (w[master_pool] +
                                      (w[token_account] + SumFunctionOnSet(w, Account)))))
      /\ SumFunctionOnSet(w, Account) \in Int
  BY <1>1, AllShown
<1>4. \A x \in Account : u[x] \in Int /\ f[x] \in Int /\ g[x] \in Int /\ v[x] = u[x] + f[x]
  BY ExplainsTyped
<1>5. \A x \in Account : v[x] \in Int /\ w[x] = v[x] + g[x]
  BY <1>2, <1>4 DEF Explains
<1> HIDE DEF w, v
<1>6. IsFiniteSet(Account)
  BY TreasuryAssumption
<1>7. SumFunctionOnSet(v, Account) = SumFunctionOnSet(u, Account) + SumFunctionOnSet(f, Account)
  BY <1>4, <1>6, SumPlus
<1>8. SumFunctionOnSet(w, Account) = SumFunctionOnSet(v, Account) + SumFunctionOnSet(g, Account)
  BY <1>4, <1>5, <1>6, SumPlus
<1>9. /\ SumFunction(u) = SumFunctionOnSet(u, Account) /\ SumFunction(f) = SumFunctionOnSet(f, Account)
      /\ SumFunction(g) = SumFunctionOnSet(g, Account)
  <2>1. DOMAIN u = Account /\ DOMAIN f = Account /\ DOMAIN g = Account
    BY ExplainsTyped DEF Amounts_of
  <2> QED
    BY <2>1, Zenon DEF SumFunction
<1>10. SumFunctionOnSet(w, Account) = SumFunction(u) + SumFunction(f) + SumFunction(g)
  BY <1>7, <1>8, <1>9
<1>11. SumFunction(u) \in Int /\ SumFunction(f) \in Int /\ SumFunction(g) \in Int /\ p \in Int /\ t \in Int
  BY ExplainsTyped
<1>12. \A x : shown(l, x) \in Int
  BY <1>1, ShownTyped
<1>13. /\ shown(l, token_account) + t = 0 /\ shown(l, system_account) = 0
       /\ shown(l, edendelegate) + SumFunction(g) = 0 /\ shown(l, master_pool) + SumFunction(f) = p
       /\ shown(l, distribution_fund) + SumFunction(u) + p = t
  BY DEF Explains
<1>14. SumFunction(l.balances) = shown(l, system_account) + (shown(l, edendelegate) + (shown(l, distribution_fund) +
          (shown(l, master_pool) + (shown(l, token_account) + (SumFunction(u) + SumFunction(f) + SumFunction(g))))))
  BY <1>2, <1>3, <1>10
<1> QED
  BY <1>11, <1>12, <1>13, <1>14

LEMMA LedgerShown ==
  ASSUME LInv PROVE LedgerExplained
<1>1. TInv
  BY DEF LInv
<1>2. CASE ledger.aborted
  BY <1>2 DEF LedgerExplained, LedgerBalanced, FundsShown, DifferenceExplained
<1>3. CASE ~ledger.aborted
  <2> DEFINE l == ledger
  <2>1. Explains(l, user, pool, token, memoed, withdrawn) /\ FundsMatch(l, dist)
    BY <1>3, StillRunning
  <2>2. /\ LedgerTyped(l) /\ token \in Int /\ pool \in Int /\ SumFunction(user) \in Int
        /\ SumFunction(memoed) \in Int /\ SumFunction(withdrawn) \in Int
    BY <2>1, ExplainsTyped
  <2>3. \A x : shown(l, x) \in Int
    BY <2>2, ShownTyped
  <2>4. /\ token_account \in DOMAIN l.balances /\ shown(l, token_account) + token = 0
        /\ shown(l, edendelegate) + SumFunction(withdrawn) = 0 /\ shown(l, master_pool) + SumFunction(memoed) = pool
        /\ shown(l, distribution_fund) + SumFunction(user) + pool = token
        /\ \A a \in Account : shown(l, a) = user[a] + memoed[a] + withdrawn[a]
    BY <2>1 DEF Explains
  <2>5. token = SumFunction(user) + (pool + SumFunction(dist)) /\ SumFunction(dist) \in Int
    <3>1. token = SumFunction(user) + Total(books)
      BY <1>1, ConservedSums
    <3>2. Total(books) = pool + SumFunction(dist) /\ SumFunction(dist) \in Int
      BY <1>1, TotalTyped
    <3> QED
      BY <3>1, <3>2
  <2>6. SumFunction(l.balances) = 0
    BY <2>1, BalancesAddUp
  <2>7. /\ shown(l, token_account) = -token /\ shown(l, edendelegate) = -SumFunction(withdrawn)
        /\ shown(l, master_pool) = pool - SumFunction(memoed) /\ shown(l, distribution_fund) = SumFunction(dist)
    <3>1. \A x, y \in Int : x + y = 0 => x = -y
      OBVIOUS
    <3>2. \A x, y, z \in Int : x + y = z => x = z - y
      OBVIOUS
    <3>3. \A x, y, z, r \in Int : x + y + z = y + (z + r) => x = r
      OBVIOUS
    <3>4. shown(l, distribution_fund) + SumFunction(user) + pool = SumFunction(user) + (pool + SumFunction(dist))
      BY <2>4, <2>5, Zenon
    <3>5. shown(l, token_account) = -token
      BY <2>2, <2>3, <2>4, <3>1
    <3>6. shown(l, edendelegate) = -SumFunction(withdrawn)
      BY <2>2, <2>3, <2>4, <3>1
    <3>7. shown(l, master_pool) = pool - SumFunction(memoed)
      BY <2>2, <2>3, <2>4, <3>2
    <3>8. shown(l, distribution_fund) = SumFunction(dist)
      BY <2>2, <2>3, <2>5, <3>3, <3>4, Zenon
    <3> QED
      BY <3>5, <3>6, <3>7, <3>8
  <2>8. l.balances[token_account] = -token
    BY <2>4, <2>7 DEF shown
  <2>9. LedgerBalanced
    BY <2>6, <2>8 DEF LedgerBalanced
  <2>10. FundsShown
    BY <2>1, <2>7 DEF FundsShown, FundsMatch
  <2>11. DifferenceExplained
    BY <2>4, <2>7 DEF DifferenceExplained
  <2> QED
    BY <2>9, <2>10, <2>11 DEF LedgerExplained
<1> QED
  BY <1>2, <1>3

\* The books of the micro chain (eden-micro-chain.cpp:253) for any accounts, amounts, months and
\* percentages: as long as no handler has aborted, whatever the order of deposits, donations, withdrawals,
\* transfers, distributions in parts, resignations, renamings and elections, its balances add up to 0, it
\* shows the contract's tokens, its distribution fund and the funds of delegates are the
\* contract's, and it differs from the contract's users and pool by memos and withdrawals only.
THEOREM LedgerStaysExplained == LedgerSpec => []LedgerExplained
<1>1. LedgerInit => LInv
  BY LedgerStarts
<1>2. LInv /\ [LedgerTransfers \/ LedgerDistributions]_ledger_vars => LInv'
  BY LedgerSteps
<1>3. LInv => LedgerExplained
  BY LedgerShown
<1> QED
  BY <1>1, <1>2, <1>3, PTL DEF LedgerSpec

==============================================================================
