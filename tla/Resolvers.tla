----------------------------- MODULE Resolvers -----------------------------
(***************************************************************************)
(* What clients can ask of the micro chain's tables: the resolvers of      *)
(* contracts/eden/src/eden-micro-chain.cpp.  Pure operators of a database, *)
(* a record of tables, each a set of rows with the names of the code.      *)
(*                                                                         *)
(* The parts of a key (accounts, times, ids, ranks) are numbers from 0 to  *)
(* Top, Top being the largest value of each type; a composite key is the   *)
(* number with these digits.  Names of accounts are even: odd ones have    *)
(* bits set that no account has, as pools do and the complement that       *)
(* stands for no winner.  q holds the arguments of a query.                *)
(***************************************************************************)
EXTENDS Connection

Top == 7
key2(a, b) == a * (Top + 1) + b
key3(a, b, c) == key2(key2(a, b), c)

arguments(gt, ge, lt, le, first) ==
  [gt |-> gt, ge |-> ge, lt |-> lt, le |-> le, first |-> first, last |-> none, before |-> none, after |-> none]

\* make_connection over the rows with such keys.
connected(rows, key(_), q) ==
  [make_connection({key(r) : r \in rows}, q.gt, q.ge, q.lt, q.le, q.first, q.last, q.before, q.after)
     EXCEPT !.edges = [i \in DOMAIN @ |-> CHOOSE r \in rows : key(r) = @[i]]]

if_given(x, key) == IF x = none THEN none ELSE key
or_else(x, y) == IF x = none THEN y ELSE x

\* Mutant: rows of the time itself come after it.
Mut_of_account_at(q, account) ==
  [q EXCEPT !.gt = if_given(@, key3(account, @, 0)), !.ge = key3(account, or_else(@, 0), 0),
            !.lt = if_given(@, key3(account, @, 0)), !.le = key3(account, or_else(@, Top), Top)]

\* The bounds of rows ordered by account, time and a number, for one account.
of_account_at(q, account) ==
  [q EXCEPT !.gt = if_given(@, key3(account, @, Top)), !.ge = key3(account, or_else(@, 0), 0),
            !.lt = if_given(@, key3(account, @, 0)), !.le = key3(account, or_else(@, Top), Top)]

\* The bounds of rows ordered by one thing and then another.
ordered_by(q, least_key, greatest_key) ==
  [q EXCEPT !.gt = if_given(@, key2(@, greatest_key)), !.ge = if_given(@, key2(@, least_key)),
            !.lt = if_given(@, key2(@, least_key)), !.le = if_given(@, key2(@, greatest_key))]

find(rows, P(_)) == {r \in rows : P(r)}
nobody == {}

-----------------------------------------------------------------------------
(***************************************************************************)
(* The keys of the rows, which order their tables.                         *)
(***************************************************************************)
balance_history_by_pk(r) == key3(r.account, r.time, r.id)
member_by_createdAt(r) == key2(r.createdAt, r.account)
induction_by_createdAt(r) == key2(r.createdAt, r.id)
session_by_pk(r) == key2(r.eden_account, r.key)
election_round_by_round(r) == key2(r.election_time, r.round)
election_group_by_round(r) == key3(r.election_time, r.round, r.id)
vote_by_pk(r) == key3(r.voter, r.election_time, r.round)
distribution_fund_by_pk(r) == key3(r.owner, r.distribution_time, r.rank)
nft_by_member(r) == key3(r.member, r.createdAt, r.assetId)
nft_by_owner(r) == key3(r.owner, r.createdAt, r.assetId)
account_by_pk(r) == r.account    \* of balances, encryption keys and members
time_by_pk(r) == r.time          \* of elections and distributions

-----------------------------------------------------------------------------
(***************************************************************************)
(* Members.  An optional value is a set of at most one.                    *)
(***************************************************************************)
get_member(db, account, allow_lsb) ==
  LET row == find(db.members, LAMBDA r : r.account = account)
  IN  IF row # {} \/ (account # 0 /\ (account % 2 = 0 \/ allow_lsb))
      THEN {[account |-> account, member |-> row]} ELSE nobody

get_members(db, accounts) ==
  FlattenSeq([i \in DOMAIN accounts |->
    LET m == get_member(db, accounts[i], FALSE) IN IF m = nobody THEN << >> ELSE <<CHOOSE x \in m : TRUE>>])

get_balance(db, account) == [account |-> account, obj |-> find(db.balances, LAMBDA r : r.account = account)]
get_encryption_key(db, account) ==
  [account |-> account, obj |-> find(db.encryption_keys, LAMBDA r : r.account = account)]

\* The account of a balance and of an encryption key: taken for granted, so that none is a failure.
account_of(db, b) == get_member(db, b.account, TRUE)

Balance(db, b) == [account |-> account_of(db, b), amount |-> {r.amount : r \in b.obj}]
EncryptionKey(db, k) == [account |-> account_of(db, k), encryptionKey |-> {r.encryptionKey : r \in k.obj}]
BalanceHistory(db, h) ==
  [time |-> h.time, delta |-> h.delta, balance |-> get_balance(db, h.account),
   otherBalance |-> get_balance(db, h.other_account)]

\* The fields of an account with or without a row.  createdAt is read of the row that may not be
\* there: fails says so.
Member(db, m) ==
  [account |-> m.account, balance |-> get_balance(db, m.account),
   inviter |-> UNION {get_member(db, r.inviter, FALSE) : r \in m.member},
   inductionWitnesses |-> {get_members(db, r.inductionWitnesses) : r \in m.member},
   participating |-> \E r \in m.member : r.participating,
   encryptionKey |-> EncryptionKey(db, get_encryption_key(db, m.account)).encryptionKey,
   createdAt |-> {r.createdAt : r \in m.member}, fails |-> m.member = {}]

history(db, account, q) ==
  connected(db.balance_history, balance_history_by_pk, of_account_at(q, account))
nfts(db, account, q) ==
  connected(db.nfts, nft_by_member, of_account_at(q, account))
collectedNfts(db, account, q) ==
  connected(db.nfts, nft_by_owner, of_account_at(q, account))
distributionFunds(db, account, q) ==
  connected(db.distribution_funds, distribution_fund_by_pk, of_account_at(q, account))
MemberElection(account, e) == [account |-> account, time |-> e.time]
memberElections(db, account, q) ==
  [connected(db.elections, time_by_pk, q) EXCEPT !.edges = [i \in DOMAIN @ |-> MemberElection(account, @[i])]]
memberVotes(db, me, q) ==
  connected(db.votes, vote_by_pk,
            [q EXCEPT !.gt = none, !.ge = key3(me.account, me.time, 0),
                      !.lt = none, !.le = key3(me.account, me.time, Top)])

-----------------------------------------------------------------------------
(***************************************************************************)
(* Elections.                                                              *)
(***************************************************************************)
rounds(db, time, q) ==
  connected(db.election_rounds, election_round_by_round,
            [q EXCEPT !.gt = if_given(@, key2(time, @)), !.ge = key2(time, or_else(@, 0)),
                      !.lt = if_given(@, key2(time, @)), !.le = key2(time, or_else(@, Top))])
groups(db, time, round, q) ==
  connected(db.election_groups, election_group_by_round,
            [q EXCEPT !.gt = none, !.ge = key3(time, round, 0), !.lt = none, !.le = key3(time, round, Top)])

\* get fails if there is no such row.
finalGroup(db, e) ==
  IF e.final_group_id = none THEN {} ELSE find(db.election_groups, LAMBDA g : g.id = e.final_group_id)
Election(db, e) == [e EXCEPT !.final_group_id = finalGroup(db, e)]
ElectionRound(db, r) ==
  [round |-> r.round, numGroups |-> r.num_groups, resultsAvailable |-> r.results_available,
   election |-> find(db.elections, LAMBDA e : e.time = r.election_time)]
ElectionGroup(db, g) ==
  [winner |-> get_member(db, g.winner, FALSE),
   election |-> find(db.elections, LAMBDA e : e.time = g.election_time),
   round |-> find(db.election_rounds, LAMBDA r : r.election_time = g.election_time /\ r.round = g.round)]
Vote(db, v) ==
  [voter |-> get_member(db, v.voter, FALSE), candidate |-> get_member(db, v.candidate, FALSE),
   group |-> find(db.election_groups, LAMBDA g : g.id = v.group_id)]
group_votes(db, g) ==
  SetToSortSeq(find(db.votes, LAMBDA v : v.group_id = g.id), LAMBDA u, v : u.voter < v.voter)

-----------------------------------------------------------------------------
(***************************************************************************)
(* Inductions, sessions, distributions and collectibles.                   *)
(***************************************************************************)
InductionEndorsingMemberStatus(db, endorser) ==
  [member |-> get_member(db, endorser[1], FALSE), endorsed |-> endorser[2]]
Induction(db, i) ==
  [id |-> i.id, inviteeAccount |-> i.invitee, createdAt |-> i.createdAt,
   inviter |-> InductionEndorsingMemberStatus(db, i.inviter),
   witnesses |-> [w \in DOMAIN i.witnesses |-> InductionEndorsingMemberStatus(db, i.witnesses[w])]]
Session(db, s) == [member |-> get_member(db, s.eden_account, FALSE), key |-> s.key]
DistributionFund(db, f) ==
  [owner |-> get_member(db, f.owner, FALSE), distributionTime |-> f.distribution_time, rank |-> f.rank]
Nft(db, n) ==
  [member |-> get_member(db, n.member, FALSE), owner |-> get_member(db, n.owner, FALSE),
   assetId |-> n.assetId, createdAt |-> n.createdAt]

-----------------------------------------------------------------------------
(***************************************************************************)
(* Query.                                                                  *)
(***************************************************************************)
Status(db, s) == [s EXCEPT !.initialMembers = get_members(db, s.initialMembers)]
status(db) == IF Cardinality(db.status) # 1 THEN {} ELSE {Status(db, s) : s \in db.status}

master_pool == 3         \* names that no account has
distribution_fund == 5
Query(db) ==
  [status |-> status(db), masterPool |-> get_balance(db, master_pool),
   distributionFund |-> get_balance(db, distribution_fund)]

balances(db, q) == connected(db.balances, account_by_pk, q)
encryptionKeys(db, q) == connected(db.encryption_keys, account_by_pk, q)
members(db, q) == connected(db.members, account_by_pk, q)
membersByCreatedAt(db, q) ==
  connected(db.members, member_by_createdAt, ordered_by(q, 0, Top))
inductions(db, q) == connected(db.inductions, LAMBDA r : r.id, q)
inductionsByCreatedAt(db, q) ==
  connected(db.inductions, induction_by_createdAt, ordered_by(q, 0, Top))
elections(db, q) == connected(db.elections, time_by_pk, q)
distributions(db, q) == connected(db.distributions, time_by_pk, q)

\* The greatest key that is asked for is of the second of three types of keys.
public_key_max_r1 == Top - 1
sessions(db, q) ==
  connected(db.sessions, session_by_pk, ordered_by(q, 0, public_key_max_r1))

=============================================================================
