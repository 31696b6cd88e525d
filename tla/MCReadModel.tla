---------------------------- MODULE MCReadModel ----------------------------
(***************************************************************************)
(* What a query of the micro chain answers, in three parts: the events it  *)
(* takes from the traces of a block, the rows a resolver selects, and the  *)
(* answer to the tokens of a query.                                        *)
(***************************************************************************)
EXTENDS MCCodecs

(***************************************************************************)
(* Transactions against what they mean: every transaction of a few actions *)
(* that the chain accepts, and what the micro chain makes of its traces.   *)
(***************************************************************************)
CONSTANT MaxTrx  \* bound on the actions a transaction is sent with

Blk == INSTANCE BlockFilter

edens(name, data) == Blk!act("eden", name, data)

vote_in(round) == edens("electvote", [round |-> round, voter |-> "alice", candidate |-> "bob"])
process == edens("electprocess", [round |-> 1, voters |-> {"alice", "bob"}])
pay_out == edens("distribute", [owner |-> "alice", rank |-> 1])
claim == edens("fundtransfer", [from |-> "alice", time |-> 1, rank |-> 1, to |-> "bob"])
induct(invitee) == edens("inductdonate", invitee)
clear_all == edens("clearall", "none")
give_asset == Blk!asset_transfer("eden", {<<"carol", 2>>}, "bob")

\* Assets that are none of a member: of another minter, collection or schema, though they name
\* one, or without template.
stray(minter, collection, schema, template, attributes) ==
  Blk!asset_of(minter, collection, schema, template, attributes, "alice", <<"stray", 1>>)
misread_mint == stray("eden", "eden", "members", "none", TRUE)

Deposits == <<Blk!token_transfer("alice", "eden"), Blk!token_transfer("market", "eden")>>

\* Before there is a contract the account may spend what it has.
BeforeInstall == Deposits \o <<Blk!token_transfer("eden", "bob")>>

Actions ==
  Deposits \o
  <<edens("withdraw", "alice"), edens("donate", "alice"), edens("usertransfer", [from |-> "alice", to |-> "bob"]),
    process, vote_in(0), vote_in(1), pay_out, claim, induct("carol"), induct("dave"), edens("setencpubkey", "alice"), clear_all,
    give_asset, Blk!asset_transfer("other", {<<"stray", 1>>}, "bob"), stray("eden", "other", "members", "carol", FALSE),
    stray("stranger", "eden", "members", "carol", FALSE), stray("eden", "eden", "other", "carol", FALSE),
    stray("eden", "eden", "members", "none", FALSE), misread_mint>>

done(trx, a) == \E i \in DOMAIN trx : trx[i] = a

\* What the contracts accept after the actions so far: votes in the round that goes on, transfers
\* from a fund and of an asset that exist, a round, a distribution and a donation once, and
\* nothing once all is cleared.
accepted(trx, a) ==
  /\ ~done(trx, clear_all)
  /\ a = vote_in(0) => ~done(trx, process)
  /\ a = vote_in(1) => done(trx, process)
  /\ a = claim => done(trx, pay_out)
  /\ a = give_asset => done(trx, induct("carol"))
  /\ a \in {process, pay_out, induct("carol"), induct("dave")} => ~done(trx, a)

BlocksInit == \E installed \in BOOLEAN : input = [kind |-> "block", installed |-> installed, trx |-> << >>]

NextAction ==
  /\ is("block") /\ Len(input.trx) < MaxTrx
  /\ \E a \in Range(IF input.installed THEN Actions ELSE BeforeInstall) :
       accepted(input.trx, a) /\ input' = [input EXCEPT !.trx = Append(@, a)]

BlocksSpec == BlocksInit /\ [][NextAction]_input

-----------------------------------------------------------------------------
\* The micro chain before the transaction: in her second election alice has come to round 0.
Before ==
  [Blk!empty_db EXCEPT !.elections = {1, 2},
     !.votes = [k \in {<<"alice", 1, 0>>, <<"alice", 1, 1>>, <<"alice", 2, 0>>} |-> "none"]]

\* The movements of funds that an action stands for, from the account that has them first to
\* the one that has them last, with the token contract for the world outside.
movement(description, from, to) == [description |-> description, from |-> from, to |-> to]

movements(a) ==
  CASE a.account = "token" /\ a.data.from = "eden" ->
         <<movement("external_spend", "master", a.data.to), movement("withdraw", a.data.to, "token")>>
    [] a.account = "token" /\ a.data.from = "market" ->
         <<movement("deposit", "token", "market"), movement("fund", "market", "master")>>
    [] a.account = "token" -> <<movement("deposit", "token", a.data.from)>>
    [] a.name = "withdraw" -> <<movement("withdraw", "edendelegate", "token")>>
    [] a.name \in {"donate", "inductdonate"} -> <<movement(a.name, a.data, "master")>>
    [] a.name = "usertransfer" -> <<movement("user_transfer", a.data.from, a.data.to)>>
    [] a.name = "distribute" -> <<movement("reserve_distribution", "master", "distribution")>>
    [] a.name = "fundtransfer" -> <<movement("fund_transfer", "distribution", a.data.to)>>
    [] OTHER -> << >>

told(trx) == FoldLeft(LAMBDA h, a : h \o movements(a), << >>, trx)

\* A vote counts for its round of the present election only.
cast(trx) ==
  [k \in DOMAIN Before.votes \cup (IF done(trx, process) THEN {<<"alice", 2, 1>>, <<"bob", 2, 1>>} ELSE {}) |->
     IF k \in {<<"alice", 2, r>> : r \in {r \in 0..1 : done(trx, vote_in(r))}} THEN "bob" ELSE "none"]

\* The assets of a new member: numbered in the order of the owners, the contract's own at auction.
minted(trx) ==
  {[member |-> m, asset |-> <<m, k>>, mint |-> k - 1,
    owner |-> CASE k = 1 -> "market" [] m = "carol" /\ k = 2 /\ done(trx, give_asset) -> "bob"
                [] OTHER -> Blk!new_owners(m)[k]] :
     m \in {x \in {"carol", "dave"} : done(trx, induct(x))}, k \in 1..4}

shows(db, trx) ==
  IF done(trx, clear_all) THEN db = Blk!empty_db
  ELSE /\ ~db.aborted /\ db.history = told(trx) /\ db.votes = cast(trx)
       /\ done(trx, misread_mint) \/ (Range(db.nfts) = minted(trx) /\ Len(db.nfts) = Cardinality(minted(trx)))

\* The micro chain shows what a transaction did: every movement of funds once, though a trace
\* has a transfer once for each account notified, and for what caused it; every vote in its
\* round; every asset of a member once, with its number and its last owner, and no other asset;
\* and it accepts whatever the contracts accepted.  This holds when the actions come in the
\* order of execution, and for a transaction sent with one action also in the order of state
\* history.  A member's asset that was minted without template but with data of its own is the
\* exception: logmint then reads between two arrays, and stops or shows an asset of anybody.
BlockShown ==
  is("block") =>
    \A actions \in {Blk!ship_to_eden_transactions(Blk!action_traces(input.installed, input.trx))} :
      \A order \in {Blk!by_sequence(actions)} \cup (IF Len(input.trx) <= 1 THEN {actions} ELSE {}) :
        \A db \in Blk!filter_transaction(Before, order) :
          (db.aborted /\ done(input.trx, misread_mint)) \/ shows(db, input.trx)

\* "transfer notifications have incorrect order" (eden-micro-chain.cpp:1441): the micro chain
\* takes for granted that the notification of a transfer comes before the next action of the
\* contract, and an event before the actions after it, also in the lists of state history.
\* Does not hold: of two withdrawals in a transaction both notifications come after the second.
TransfersInOrder ==
  is("block") =>
    \A actions \in {Blk!ship_to_eden_transactions(Blk!action_traces(input.installed, input.trx))} :
      \A db \in Blk!filter_transaction(Before, actions) : ~db.aborted

-----------------------------------------------------------------------------
(***************************************************************************)
(* Resolvers against the rows they should select, for every table of at    *)
(* most two rows over two accounts, with times and numbers from the        *)
(* smallest to the largest.                                                *)
(***************************************************************************)
R == INSTANCE Resolvers

accounts == {2, 4}
times == {0, 1, R!Top}
AnyRow == [a : accounts, b : accounts, t : times, n : {0, R!Top}]

\* No two rows have the same key, whichever account it begins with.
keyed(S) ==
  \A r, s \in S : r # s => <<r.a, r.t, r.n>> # <<s.a, s.t, s.n>> /\ <<r.b, r.t, r.n>> # <<s.b, s.t, s.n>>

ResolversInit ==
  \E r, s \in AnyRow : keyed({r, s}) /\ input = [kind |-> "rows", rows |-> {r, s}]

one_of(S) == CHOOSE r \in S : \A s \in S : R!key3(r.t, r.n, r.a) <= R!key3(s.t, s.n, s.a)
where(S, P(_)) == {r \in S : P(r)}

\* A group for each round, whose voters are the accounts of its rows; only the second round has
\* a winner.
group(r) == 2 * (r.t % 5) + r.n \div R!Top

\* One row of each table for a row, or for each account, time or number that occurs.
db_of(S) ==
  LET of(x) == one_of({r \in S : r.a = x})
      at(t) == one_of({r \in S : r.t = t})
      created(n) == one_of({r \in S : r.n = n}).t
  IN  [status |-> {[initialMembers |-> <<r.a, r.b, 0>>, active |-> r.n > 0] : r \in {one_of(S)}},
       balance_history |-> {[account |-> r.a, other_account |-> r.b, time |-> r.t, id |-> r.n, delta |-> r.n] : r \in S},
       nfts |-> {[member |-> r.a, owner |-> r.b, createdAt |-> r.t, assetId |-> r.n] : r \in S},
       distribution_funds |-> {[owner |-> r.a, distribution_time |-> r.t, rank |-> r.n] : r \in S},
       sessions |-> {[eden_account |-> r.a, key |-> IF r.n = 0 THEN 0 ELSE R!public_key_max_r1] : r \in S},
       members |-> {[account |-> x, inviter |-> of(x).b, inductionWitnesses |-> <<of(x).b, 0, R!Top, x>>,
                     createdAt |-> of(x).t, participating |-> of(x).n > 0] : x \in {r.a : r \in S}},
       balances |-> {[account |-> x, amount |-> x] : x \in {r.a : r \in S} \cup {R!master_pool}},
       encryption_keys |-> {[account |-> x, encryptionKey |-> x] : x \in {r.b : r \in S}},
       inductions |-> {[id |-> n, createdAt |-> created(n), invitee |-> R!Top - 1, inviter |-> <<2, n > 0>>,
                        witnesses |-> <<<<4, TRUE>>, <<0, n = 0>>>>] : n \in {r.n : r \in S}},
       elections |-> {[time |-> t, final_group_id |-> group(at(t))] : t \in {r.t : r \in S}},
       distributions |-> {[time |-> t, started |-> t > 0] : t \in {r.t : r \in S}},
       election_rounds |-> {[election_time |-> r.t, round |-> r.n, num_groups |-> 1, results_available |-> r.n > 0]
                            : r \in S},
       election_groups |-> {[id |-> group(r), election_time |-> r.t, round |-> r.n,
                             winner |-> IF r.n = 0 THEN R!Top - 2 ELSE 2] : r \in S},
       votes |-> {[voter |-> r.a, candidate |-> IF r.n = 0 THEN 0 ELSE r.b, election_time |-> r.t, round |-> r.n, group_id |-> group(r)] : r \in S}]

ask(gt, ge, lt, le) == R!arguments(gt, ge, lt, le, R!none)
everything == ask(R!none, R!none, R!none, R!none)
Questions ==
  {ask(gt, ge, lt, le) : gt \in {R!none, 1}, ge \in {R!none, 1}, lt \in {R!none, R!Top}, le \in {R!none, 0, 1}}
  \cup {R!arguments(R!none, R!none, R!none, R!none, 1), R!arguments(0, R!none, R!none, R!none, 1)}

within(q, x) ==
  /\ (q.gt = R!none \/ x > q.gt) /\ (q.ge = R!none \/ x >= q.ge)
  /\ (q.lt = R!none \/ x < q.lt) /\ (q.le = R!none \/ x <= q.le)

\* The page holds these rows in order, from the first on, and says whether there are more.
answers(page, q, S, before(_, _)) ==
  \A all \in {SetToSortSeq(S, before)} :
    page.edges = R!first_of(all, q.first) /\ page.hasNextPage = (Len(page.edges) < Len(all))

precedes(t1, n1, t2, n2) == t1 < t2 \/ (t1 = t2 /\ n1 < n2)

\* What an account has, by time.
AccountsAnswered(db, q) ==
  \A x \in accounts :
    /\ answers(R!history(db, x, q), q, where(db.balance_history, LAMBDA r : r.account = x /\ within(q, r.time)),
               LAMBDA r, s : precedes(r.time, r.id, s.time, s.id))
    /\ answers(R!nfts(db, x, q), q, where(db.nfts, LAMBDA r : r.member = x /\ within(q, r.createdAt)),
               LAMBDA r, s : precedes(r.createdAt, r.assetId, s.createdAt, s.assetId))
    /\ answers(R!collectedNfts(db, x, q), q, where(db.nfts, LAMBDA r : r.owner = x /\ within(q, r.createdAt)),
               LAMBDA r, s : precedes(r.createdAt, r.assetId, s.createdAt, s.assetId))
    /\ answers(R!distributionFunds(db, x, q), q,
               where(db.distribution_funds, LAMBDA r : r.owner = x /\ within(q, r.distribution_time)),
               LAMBDA r, s : precedes(r.distribution_time, r.rank, s.distribution_time, s.rank))

\* Whole tables.
TablesAnswered(db, q) ==
  /\ answers(R!balances(db, q), q, where(db.balances, LAMBDA r : within(q, r.account)), LAMBDA r, s : r.account < s.account)
  /\ answers(R!encryptionKeys(db, q), q, where(db.encryption_keys, LAMBDA r : within(q, r.account)),
             LAMBDA r, s : r.account < s.account)
  /\ answers(R!members(db, q), q, where(db.members, LAMBDA r : within(q, r.account)), LAMBDA r, s : r.account < s.account)
  /\ answers(R!membersByCreatedAt(db, q), q, where(db.members, LAMBDA r : within(q, r.createdAt)),
             LAMBDA r, s : precedes(r.createdAt, r.account, s.createdAt, s.account))
  /\ answers(R!sessions(db, q), q, where(db.sessions, LAMBDA r : within(q, r.eden_account)),
             LAMBDA r, s : precedes(r.eden_account, r.key, s.eden_account, s.key))
  /\ answers(R!inductions(db, q), q, where(db.inductions, LAMBDA r : within(q, r.id)), LAMBDA r, s : r.id < s.id)
  /\ answers(R!inductionsByCreatedAt(db, q), q, where(db.inductions, LAMBDA r : within(q, r.createdAt)),
             LAMBDA r, s : precedes(r.createdAt, r.id, s.createdAt, s.id))
  /\ answers(R!elections(db, q), q, where(db.elections, LAMBDA r : within(q, r.time)), LAMBDA r, s : r.time < s.time)
  /\ answers(R!distributions(db, q), q, where(db.distributions, LAMBDA r : within(q, r.time)), LAMBDA r, s : r.time < s.time)

\* From an election to its rounds, groups and votes and back.
ElectionsAnswered(db, q) ==
  \A e \in db.elections :
    /\ answers(R!rounds(db, e.time, q), q,
               where(db.election_rounds, LAMBDA r : r.election_time = e.time /\ within(q, r.round)),
               LAMBDA r, s : r.round < s.round)
    /\ R!Election(db, e).final_group_id # {}
    /\ \A r \in where(db.election_rounds, LAMBDA r : r.election_time = e.time) :
         \A page \in {R!groups(db, e.time, r.round, q)} : \A i \in DOMAIN page.edges :
           LET g == page.edges[i]
               shown == R!ElectionGroup(db, g)
           IN  /\ shown.election = {e} /\ shown.round = {r} /\ R!ElectionRound(db, r).election = {e}
               /\ (shown.winner = R!nobody) = (g.winner % 2 = 1)
               /\ Range(R!group_votes(db, g)) = where(db.votes, LAMBDA v : R!Vote(db, v).group = {g})
    /\ \A x \in accounts :
         \E i \in DOMAIN R!memberElections(db, x, everything).edges :
           \A me \in {R!memberElections(db, x, everything).edges[i]} :
             /\ me.time = e.time
             /\ answers(R!memberVotes(db, me, q), q, where(db.votes, LAMBDA v : v.voter = x /\ v.election_time = e.time),
                        LAMBDA r, s : r.round < s.round)

named(m, x) == {y.account : y \in m} = IF x = 0 \/ x % 2 = 1 THEN {} ELSE {x}

\* What leads from one row to another: to the account that is named, be it a member or not;
\* what is no account shows none, except that pools and funds have balances of their own.
LinksResolve(db) ==
  /\ \A b \in db.balances : {m.account : m \in R!Balance(db, R!get_balance(db, b.account)).account} = {b.account}
  /\ \A h \in db.balance_history : \A shown \in {R!BalanceHistory(db, h)} :
       shown.otherBalance.account = h.other_account /\ shown.balance.obj # {}
  /\ \A m \in db.members : \A row \in R!get_member(db, m.account, FALSE) : \A shown \in {R!Member(db, row)} :
       /\ named(shown.inviter, m.inviter) /\ ~shown.fails /\ shown.createdAt = {m.createdAt}
       /\ \A w \in shown.inductionWitnesses :
            [i \in DOMAIN w |-> w[i].account] = <<m.inductionWitnesses[1], m.account>>
       /\ shown.encryptionKey \subseteq {m.account} /\ shown.balance.obj # {}
  /\ \A i \in db.inductions : \A shown \in {R!Induction(db, i)} :
       /\ named(shown.inviter.member, i.inviter[1])
       /\ \A w \in DOMAIN i.witnesses :
            named(shown.witnesses[w].member, i.witnesses[w][1]) /\ shown.witnesses[w].endorsed = i.witnesses[w][2]
  /\ \A s \in db.sessions : named(R!Session(db, s).member, s.eden_account)
  /\ \A f \in db.distribution_funds : named(R!DistributionFund(db, f).owner, f.owner)
  /\ \A n \in db.nfts : named(R!Nft(db, n).member, n.member) /\ named(R!Nft(db, n).owner, n.owner)
  /\ \A v \in db.votes : named(R!Vote(db, v).voter, v.voter) /\ named(R!Vote(db, v).candidate, v.candidate)
  /\ \A query \in {R!Query(db)} :
       query.masterPool.obj # {} /\ query.distributionFund.obj = {} /\ query.status # {}

\* A query selects exactly the rows it describes, in order, whatever its bounds: those of one
\* account do not run into the next one's, at the smallest and the largest times and
\* numbers too, and a group without a winner, whose row holds the complement of a name, shows none.
QueriesSelect ==
  is("rows") =>
    \A db \in {db_of(input.rows)} :
      LinksResolve(db) /\ \A q \in Questions : AccountsAnswered(db, q) /\ TablesAnswered(db, q) /\ ElectionsAnswered(db, q)

ResolversSpec == ResolversInit /\ [][UNCHANGED input]_input

-----------------------------------------------------------------------------
(***************************************************************************)
(* Queries against what they ask for: the answer to a query is defined by  *)
(* the tree of its selections, and compared with what the executor makes   *)
(* of its tokens.                                                          *)
(***************************************************************************)
G == INSTANCE GraphQL WITH no_value <- "none", Numbers <- {"1", "2"}

\* A selection is a sequence of fields; a field without selections has an empty one.
select(alias, n, args, sub) == [alias |-> alias, name |-> n, args |-> args, sub |-> sub]
given(n, v) == [name |-> n, value |-> v]

leaves == {select("x", "x", << >>, << >>), select("x", "y", << >>, << >>), select("z", "z", << >>, << >>)}
arg_p(v) == given("p", v)
arg_q(v) == given("q", v)
argument_values == {G!integer("1"), G!string("2"), G!string("x"), G!floating("1.5"), G!integer("999"), G!name("null"), G!name("true")}
calls ==
  {select("f", "f", a, << >>) :
     a \in {<< >>, <<arg_p(G!integer("1")), arg_p(G!integer("2"))>>, <<arg_p(G!integer("1")), arg_q(G!name("null")), arg_q(G!name("true"))>>}
          \cup {<<arg_p(v)>> : v \in argument_values} \cup {<<arg_p(G!integer("1")), arg_q(v)>> : v \in argument_values}
          \cup {<<arg_q(v), arg_p(G!integer("1"))>> : v \in argument_values}}
inner == {<<a>> : a \in leaves} \cup {<<a, b>> : a, b \in leaves}
nested == {select("o", "o", << >>, s) : s \in inner \cup {<<select("o", "o", << >>, s)>> : s \in inner}}
Selections == {<<a>> : a \in leaves \cup calls \cup nested} \cup {<<a, b>> : a \in nested, b \in leaves \cup calls}

point == G!object(<<G!data("x", G!scalar("1")), G!data("y", G!scalar("2"))>>)
of(o) == G!object(<<G!data("o", o), G!data("x", G!scalar("3")),
                    G!function("f", <<G!arg("p", "Int", FALSE), G!arg("q", "Boolean", TRUE)>>)>>)
Values_of_o == {G!null, G!scalar("4"), point, G!list(<< >>), G!list(<<point, point>>), G!list(<<G!null, point>>),
                G!object(<<G!data("o", G!list(<<point>>)), G!data("x", G!null)>>),
                G!list(<<G!object(<<G!data("o", G!null), G!data("x", G!scalar("5"))>>)>>)}

QueryInit ==
  \E o \in Values_of_o, s \in Selections, cut \in BOOLEAN :
    input = [kind |-> "query", value |-> of(o), selection |-> s, cut |-> cut]

RECURSIVE query_tokens(_)
query_tokens(s) ==
  IF s = << >> THEN << >>
  ELSE LET args(a) == IF a = << >> THEN << >>
                      ELSE <<G!punctuator("(")>> \o FlattenSeq([i \in DOMAIN a |->
                             <<G!name(a[i].name), G!punctuator(":"), a[i].value>>]) \o <<G!punctuator(")")>>
           one(f) == <<G!name(f.alias)>> \o (IF f.alias = f.name THEN << >> ELSE <<G!punctuator(":"), G!name(f.name)>>)
                     \o args(f.args) \o query_tokens(f.sub)
       IN  <<G!punctuator("{")>> \o FlattenSeq([i \in DOMAIN s |-> one(s[i])]) \o <<G!punctuator("}")>>

\* The values that fit an argument: numbers that p has, written as such or as strings, and
\* truth values for q, which may be absent.
fitting ==
  [p |-> {G!integer("1"), G!string("2")}, q |-> {G!name("true"), G!name("null")}]

\* The answers a selection may have of a value: exactly one, or none if it is wrong.  What is
\* asked of null or of the elements of an empty list is not looked at.
RECURSIVE answer(_, _)
answer(value, s) ==
  LET called(f, a) ==
        IF f.args = << >> THEN f.value
        ELSE G!scalar([i \in DOMAIN f.args |->
               LET v == {a[j].value : j \in {j \in DOMAIN a : a[j].name = f.args[i].name}}
               IN  IF v \in {{}, {G!name("null")}} THEN "none" ELSE (CHOOSE x \in v : TRUE).v])
      allowed(f, a) ==
        /\ \A j \in DOMAIN a : \E i \in DOMAIN f.args :
             a[j].name = f.args[i].name /\ a[j].value \in fitting[f.args[i].name]
        /\ \A j, k \in DOMAIN a : a[j].name = a[k].name => j = k
        /\ \A i \in DOMAIN f.args : f.args[i].optional \/ \E j \in DOMAIN a : a[j].name = f.args[i].name
      part(sel) ==
        UNION {IF allowed(f, sel.args) THEN answer(called(f, sel.args), sel.sub) ELSE {}
                 : f \in {f \in ToSet(value.fields) : f.name = sel.name}}
      all(parts) == IF \E i \in DOMAIN parts : parts[i] = {} THEN {}
                    ELSE {[i \in DOMAIN parts |-> CHOOSE x \in parts[i] : TRUE]}
  IN  CASE value.k = "scalar" -> IF s = << >> THEN {value} ELSE {}
        [] value.k = "null" -> {value}
        [] value.k = "list" -> {G!list(x) : x \in all([i \in DOMAIN value.items |-> answer(value.items[i], s)])}
        [] value.k = "object" ->
             IF s = << >> THEN {}
             ELSE {G!object([i \in DOMAIN s |-> [alias |-> s[i].alias, value |-> x[i]]])
                     : x \in all([i \in DOMAIN s |-> part(s[i])])}

\* A query is answered with what its selection asks for, field by field, in the order and under
\* the names of the query, or refused; arguments reach the function that they name.  A query
\* that is cut off is refused, never answered in part.
SelectionsAnswered ==
  is("query") =>
    LET tokens == <<G!name("query")>> \o query_tokens(input.selection)
        expected == IF input.cut THEN {} ELSE answer(input.value, input.selection)
        answered(r) == IF r.result = "ok" THEN {r.out} ELSE {}
    IN  answered(G!gql_query_root(input.value, IF input.cut THEN Front(tokens) ELSE tokens)) = expected

-----------------------------------------------------------------------------
(***************************************************************************)
(* Texts, of all characters when short and of a few that matter together   *)
(* when longer.                                                            *)
(***************************************************************************)
texts(S, n) == UNION {[1..k -> S] : k \in 0..n}

Texts ==
  texts(G!Chars, 3) \cup texts({".", "e", "0", "1", "-"}, 5) \cup texts({"\"", "\\", "a"}, 6) \cup texts({"#", "\n", "a", " "}, 5)

TokenTextInit == \E t \in Texts : input = [kind |-> "query text", text |-> t]

\* The lexical grammar, as the whole texts that are tokens of each type.
prefix(s, n) == SubSeq(s, 1, n)
suffix(s, n) == SubSeq(s, n + 1, Len(s))
is_digits(s) == s # << >> /\ ToSet(s) \subseteq G!Digit
is_unsigned(s) == is_digits(s) /\ (s[1] = "0" => Len(s) = 1)
is_integer(s) == is_unsigned(s) \/ (s # << >> /\ s[1] = "-" /\ is_unsigned(Tail(s)))
is_fraction(s) == s = << >> \/ (s[1] = "." /\ is_digits(Tail(s)))
is_exponent(s) == s = << >> \/ (s[1] = "e" /\ (is_digits(Tail(s)) \/ (Len(s) > 1 /\ s[2] = "-" /\ is_digits(suffix(s, 2)))))
is_floating(s) ==
  /\ ~is_integer(s)
  /\ \E i \in 0..Len(s) : \E j \in i..Len(s) :
       is_integer(prefix(s, i)) /\ is_fraction(SubSeq(s, i + 1, j)) /\ is_exponent(suffix(s, j))

\* A quote inside a string comes after an odd number of backslashes, the last one after an even
\* number.
backslashes(s, i) == Cardinality({j \in 1..(i - 1) : \A k \in j..(i - 1) : s[k] = "\\"})
is_string(s) ==
  /\ Len(s) >= 2 /\ s[1] = "\"" /\ s[Len(s)] = "\"" /\ backslashes(s, Len(s)) % 2 = 0
  /\ \A i \in 2..(Len(s) - 1) : s[i] = "\"" => backslashes(s, i) % 2 = 1

is_token(type, s) ==
  CASE type = "name" -> s # << >> /\ s[1] \in G!Letter /\ ToSet(s) \subseteq G!Letter \cup G!Digit
    [] type = "integer" -> is_integer(s)
    [] type = "floating" -> is_floating(s)
    [] type = "string" -> is_string(s)
    [] type = "punctuator" -> s \in {<<"{">>, <<".", ".", ".">>}

\* What may separate tokens: blanks and comments, which end with their line.
is_separation(s) ==
  \A i \in DOMAIN s : s[i] \in G!Separator \/ \E j \in 1..i : s[j] = "#" /\ \A k \in j..(i - 1) : s[k] # "\n"

\* The next token of a text is its longest beginning that is a token, after what separates
\* tokens.  There is an error exactly if there is none, or if a number is followed by what
\* cannot follow it, or an empty string by the quote that makes it a block string.  A string
\* that is not ended reads as a token without a value, then as the end (gql_stream::skip).
TokensRead ==
  is("query text") =>
    LET skipped == Max({n \in 0..Len(input.text) : is_separation(prefix(input.text, n))})
        text == suffix(input.text, skipped)
        Types == {"name", "integer", "floating", "string", "punctuator"}
        found == {<<n, type>> \in (1..Len(text)) \X Types : is_token(type, prefix(text, n))}
        last == {f \in found : \A g \in found : g[1] <= f[1]}
        follows(n) == IF n < Len(text) THEN text[n + 1] ELSE "end"
        wrong(f) ==
          CASE f[2] = "integer" -> follows(f[1]) \in G!Letter \cup G!Digit \cup {"."}
            [] f[2] = "floating" -> follows(f[1]) \in G!Letter \cup G!Digit
            [] f[2] = "string" -> f[1] = 2 /\ follows(2) = "\""
            [] OTHER -> FALSE
        expected ==
          IF text = << >> THEN G!eof_token
          ELSE IF \E f \in last : ~wrong(f)
          THEN LET f == CHOOSE f \in last : TRUE
                   v == prefix(text, f[1])
               IN  G!token(f[2], IF f[2] = "string" THEN SubSeq(v, 2, Len(v) - 1) ELSE v, suffix(text, f[1]))
          ELSE IF last = {} /\ text[1] = "\"" THEN G!token("before", << >>, << >>)
          ELSE G!no_token
    IN  G!next_token(input.text, "before") = expected

-----------------------------------------------------------------------------
(***************************************************************************)
(* Schemas of a query and two more structs that may refer to each other.   *)
(***************************************************************************)
Members_of ==
  {<<G!field("x", G!builtin("Int"))>>, <<G!field("a", G!optional(G!struct("A")))>>,
   <<G!method("b", TRUE, << >>, G!container(G!reference(G!struct("B"))))>>,
   <<G!method("m", FALSE, << >>, G!struct("B")), G!field("l", G!optional(G!container(G!optional(G!struct("A")))))>>,
   <<G!method("f", TRUE, <<G!struct("A"), G!optional(G!builtin("Int"))>>, G!optional(G!struct("B")))>>,
   <<G!method("q", TRUE, << >>, G!struct("Query"))>>}

SchemaInit ==
  \E q, r, a, b \in Members_of :
    input = [kind |-> "schema", structs |-> [n \in {"Query", "A", "B"} |->
      CASE n = "Query" -> q \o r [] n = "A" -> a [] OTHER -> b]]

\* The structs whose values a query can reach or has to give, by any number of steps.
RECURSIVE reached(_)
reached(S) ==
  LET RECURSIVE structs_in(_)
      structs_in(t) == IF t.k = "struct" THEN {t.name} ELSE IF t.k = "builtin" THEN {} ELSE structs_in(t.of)
      next == S \cup UNION {UNION {structs_in(f.type) \cup UNION {structs_in(u) : u \in ToSet(f.args)}
                : f \in {f \in ToSet(input.structs[n]) : f.const}} : n \in S}
  IN  IF next = S THEN S ELSE reached(next)

\* The schema defines each type that a query can reach, by fields, results or arguments, and
\* defines it once, though types refer to each other in circles; and every integral type is
\* declared as one that has all its values.
SchemaDefinesAll ==
  /\ is("schema") =>
       LET schema == G!get_gql_schema(input.structs, G!struct("Query"))
           names == {"[", "]", "!", "Int"} \cup {schema[i].name : i \in DOMAIN schema}
       IN  /\ \A i, j \in DOMAIN schema : schema[i].name = schema[j].name => i = j
           /\ {schema[i].name : i \in DOMAIN schema} = reached({"Query"})
           /\ \A i \in DOMAIN schema : \A f \in ToSet(schema[i].members) :
                UNION {ToSet(u) : u \in ToSet(f.args) \cup {f.type}} \subseteq names
  /\ \A signed \in BOOLEAN, bytes \in {1, 2, 4, 8} :
       LET bits == IF signed THEN 8 * bytes - 1 ELSE 8 * bytes
       IN  CASE G!integral(signed, bytes) = "Int" -> bits <= 31
             [] G!integral(signed, bytes) = "Float" -> bits <= 53
             [] OTHER -> bits > 53

\* From text to answer (graphql.hpp): the lexer reads the tokens of the grammar, a query
\* is answered with what it selects or refused, and the schema that clients are given has
\* every type that they can meet in an answer.
QueriesAnswered == TokensRead /\ SelectionsAnswered /\ SchemaDefinesAll

=============================================================================
