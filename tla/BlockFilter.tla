---------------------------- MODULE BlockFilter ----------------------------
(***************************************************************************)
(* From the traces of a block to the micro chain                           *)
(* (contracts/eden/src/eden-micro-chain.cpp): ship_to_eden_transactions    *)
(* turns the traces of state history into actions and filter_block applies *)
(* those that concern the community.  Pure operators.                      *)
(*                                                                         *)
(* The chain itself is external.  It keeps the traces of a transaction in  *)
(* the order in which actions were scheduled: creator_action_ordinal, by   *)
(* which the code looks up the creator, is a position in that list.  All   *)
(* actions of a transaction are scheduled before the first one runs, and   *)
(* what an action sends or notifies when it runs: so the list is not in    *)
(* the order of execution, which global_sequence has.                      *)
(*                                                                         *)
(* Amounts are left to Ledger: an entry of the history is the description  *)
(* and the two accounts of a transfer_funds.                               *)
(***************************************************************************)
EXTENDS Integers, Sequences, FiniteSetsExt, SequencesExt

eden == "eden"
token == "token"
atomic == "atomic"
market == "market"
null_account == "eosio.null"
delegate == "edendelegate"
schema_name == "members"
master_pool == "master"
distribution_fund == "distribution"
none == "none"

fold(step(_, _), base, s) == FoldLeft(step, base, s)

-----------------------------------------------------------------------------
(***************************************************************************)
(* Actions, and what the handler of a receiver sends and notifies.         *)
(***************************************************************************)
act(account, name, data) == [account |-> account, name |-> name, data |-> data]
inline(a) == [kind |-> "inline", act |-> a]
notified(receiver) == [kind |-> "notify", receiver |-> receiver]

token_transfer(from, to) == act(token, "transfer", [from |-> from, to |-> to])

\* push_event and send_events: the events of an action leave in order, after
\* everything else it sends.
send_events(events) == <<inline(act(null_account, "eden.events", events))>>

withdraw_sends == <<inline(token_transfer(eden, delegate))>>

\* Of a round of the current election.
report_sends(round, voters) ==
  send_events(<<[type |-> "create_group", election |-> 2, round |-> round, voters |-> voters]>>)

\* process_distribution reserves from the pool and later makes the funds; here at once.
distribute_sends(owner, rank) ==
  send_events(<<[type |-> "reserve", pool |-> master_pool],
                [type |-> "fund", owner |-> owner, time |-> 1, rank |-> rank]>>)

create_nft(invitee) ==
  <<inline(act(atomic, "createtempl", invitee)), inline(act(eden, "inducted", invitee))>>

\* create_nfts; two endorsers.
new_owners(invitee) == <<eden, invitee, "endorser1", "endorser2">>

\* What atomicassets mints: template is the member whose account the template has as an
\* attribute, or none; attributes tells whether the asset or its template has other data.
asset_of(minter, collection, schema, template, attributes, owner, asset) ==
  act(atomic, "mintasset", [minter |-> minter, collection |-> collection, schema |-> schema, template |-> template,
                            attributes |-> attributes, owner |-> owner, asset |-> asset])

mint_nft(invitee, k) ==
  inline(asset_of(eden, eden, schema_name, invitee, FALSE, new_owners(invitee)[k], <<invitee, k>>))

asset_transfer(collection, assets, to) ==
  act(atomic, "transfer", [collection |-> collection, assets |-> assets, to |-> to])

start_auction(asset) ==
  <<inline(act(market, "announceauct", asset)), inline(asset_transfer(eden, {asset}, market))>>

eden_sends(name, data) ==
  CASE name = "withdraw" -> withdraw_sends
    [] name = "electprocess" -> report_sends(data.round, data.voters)
    [] name = "distribute" -> distribute_sends(data.owner, data.rank)
    [] name = "inductdonate" -> create_nft(data)
    [] OTHER -> << >>

\* notify_lognewtempl and notify_logmint
eden_answers(name, data) ==
  CASE name = "lognewtempl" -> [k \in DOMAIN new_owners(data) |-> mint_nft(data, k)]
    [] name = "logmint" /\ data.owner = eden -> start_auction(data.asset)
    [] OTHER -> << >>

\* Token and asset contracts, as eden depends on them.  Eden is notified of the assets of its
\* collection, and of those of any other that asks for it.
others_send(a) ==
  CASE a.account = token -> <<notified(a.data.from), notified(a.data.to)>>
    [] a.account = atomic /\ a.name = "createtempl" -> <<inline(act(atomic, "lognewtempl", a.data))>>
    [] a.account = atomic /\ a.name = "mintasset" -> <<inline(act(atomic, "logmint", a.data))>>
    [] a.account = atomic /\ a.name = "transfer" -> <<inline(act(atomic, "logtransfer", a.data))>>
    [] a.account = atomic -> <<notified(eden)>>
    [] OTHER -> << >>

\* Before its code is installed eden answers nothing.
sends(installed, a, receiver) ==
  IF receiver = eden /\ ~installed THEN << >>
  ELSE IF receiver = eden /\ a.account = eden THEN eden_sends(a.name, a.data)
  ELSE IF receiver = eden /\ a.account = atomic THEN eden_answers(a.name, a.data)
  ELSE IF receiver = a.account THEN others_send(a)
  ELSE << >>

-----------------------------------------------------------------------------
(***************************************************************************)
(* The chain.  A trace is [act, receiver, creator, seq], seq 0 until it    *)
(* has run.  An action runs at its receiver, then at those it notified,    *)
(* then what all of them sent runs, one after the other.                   *)
(***************************************************************************)
schedule(s, creator, x) ==
  IF x.kind = "inline"
  THEN [s EXCEPT !.traces = Append(@, [act |-> x.act, receiver |-> x.act.account, creator |-> creator, seq |-> 0]),
                 !.sent = Append(@, Len(s.traces) + 1)]
  ELSE [s EXCEPT !.traces = Append(@, [act |-> s.traces[creator].act, receiver |-> x.receiver,
                                       creator |-> creator, seq |-> 0]),
                 !.informed = Append(@, Len(s.traces) + 1)]

exec_one(s, ordinal) ==
  LET t == s.traces[ordinal]
      ran == [s EXCEPT !.traces[ordinal].seq = s.next, !.next = @ + 1]
  IN  fold(LAMBDA r, x : schedule(r, ordinal, x), ran, sends(s.installed, t.act, t.receiver))

exec(s) ==
  IF s.waiting = << >> THEN s
  ELSE CHOOSE r \in {
         LET first == exec_one([s EXCEPT !.waiting = Tail(@), !.sent = << >>, !.informed = << >>], Head(s.waiting))
             all   == fold(exec_one, first, first.informed)
         IN  [all EXCEPT !.waiting = all.sent \o @]} : TRUE

MaxActions == 40  \* more than any transaction considered here has

action_traces(installed, trx) ==
  LET start == [traces |-> [i \in DOMAIN trx |-> [act |-> trx[i], receiver |-> trx[i].account, creator |-> 0, seq |-> 0]],
                installed |-> installed, next |-> 1, waiting |-> [i \in DOMAIN trx |-> i], sent |-> << >>, informed |-> << >>]
      after[k \in 0..MaxActions] == IF k = 0 THEN start ELSE exec(after[k - 1])
  IN  after[MaxActions].traces

-----------------------------------------------------------------------------
(***************************************************************************)
(* ship_to_eden_transactions.                                              *)
(***************************************************************************)
ship_to_eden_transactions(traces) ==
  [i \in DOMAIN traces |->
     [firstReceiver |-> traces[i].act.account, receiver |-> traces[i].receiver, name |-> traces[i].act.name,
      data |-> traces[i].act.data, seq |-> traces[i].seq,
      creator |-> IF traces[i].creator = 0 THEN "none" ELSE traces[traces[i].creator].receiver]]

\* The same in the order of execution, in which dfuse is taken to report them.
by_sequence(actions) == [k \in DOMAIN actions |-> actions[CHOOSE i \in DOMAIN actions : actions[i].seq = k]]

-----------------------------------------------------------------------------
(***************************************************************************)
(* The micro chain: its history of balances, the flags of block_state, and *)
(* of its tables elections, votes, distribution_funds, nfts and            *)
(* encryption_keys.  A handler whose check fails aborts.                   *)
(***************************************************************************)
empty_db ==
  [history |-> << >>, in_withdraw |-> FALSE, in_manual_transfer |-> FALSE, elections |-> {}, votes |-> [k \in {} |-> none],
   funds |-> {}, nfts |-> << >>, keys |-> {}, aborted |-> FALSE]

clearall(db) == [empty_db EXCEPT !.in_withdraw = db.in_withdraw, !.in_manual_transfer = db.in_manual_transfer]

fails(db) == [db EXCEPT !.aborted = TRUE]

transfer_funds(db, from, to, description) ==
  [db EXCEPT !.history = Append(@, [description |-> description, from |-> from, to |-> to])]

check_transfer_order(db) == ~db.in_withdraw /\ ~db.in_manual_transfer

\* Transfers from these and from system accounts are no deposits of a user.
is_possible_deposit_account(account) == account \notin {atomic, market}

notify_transfer(db, from, to) ==
  IF to = eden THEN
    LET deposited == transfer_funds(db, token, from, "deposit")
    IN  IF is_possible_deposit_account(from) THEN deposited ELSE transfer_funds(deposited, from, master_pool, "fund")
  ELSE IF db.in_withdraw THEN [transfer_funds(db, to, token, "withdraw") EXCEPT !.in_withdraw = FALSE]
  ELSE LET spent == transfer_funds(db, master_pool, to, IF db.in_manual_transfer THEN "manual_transfer" ELSE "external_spend")
       IN  [transfer_funds(spent, to, token, "withdraw") EXCEPT !.in_manual_transfer = FALSE]

withdraw(db) == IF check_transfer_order(db) THEN [db EXCEPT !.in_withdraw = TRUE] ELSE fails(db)

\* For an action that the contract no longer has.
transfer(db) == IF check_transfer_order(db) THEN [db EXCEPT !.in_manual_transfer = TRUE] ELSE fails(db)

fundtransfer(db, data) ==
  IF <<data.from, data.time, data.rank>> \in db.funds
  THEN transfer_funds(db, distribution_fund, data.to, "fund_transfer") ELSE fails(db)

usertransfer(db, data) == transfer_funds(db, data.from, data.to, "user_transfer")
donate(db, payer) == transfer_funds(db, payer, master_pool, "donate")

\* The induction itself is in Inductions.
inductdonate(db, payer) == transfer_funds(db, payer, master_pool, "inductdonate")

\* The vote in the last election and this round.
electvote(db, data) ==
  LET key == <<data.voter, Max(db.elections), data.round>>
  IN  IF db.elections # {} /\ key \in DOMAIN db.votes THEN [db EXCEPT !.votes[key] = data.candidate] ELSE fails(db)

setencpubkey(db, account) == [db EXCEPT !.keys = @ \cup {account}]

\* The mint number of an asset: how many there are for the member so far.
emplace_nft(db, member, data) ==
  [db EXCEPT !.nfts = Append(@, [member |-> member, asset |-> data.asset, owner |-> data.owner,
                                 mint |-> Len(SelectSeq(@, LAMBDA n : n.member = member))])]

\* What may be read as an account where there is none.
misread == {"carol", "unknown"}

\* The outcomes.  The account is looked up from the beginning of the template's data to the end
\* of the asset's own.  The range is empty when there are none; otherwise a search that does not
\* end in the template reads memory that belongs to neither: it returns, traps or finds anything.
logmint(db, data) ==
  IF data.minter # eden \/ data.collection # eden \/ data.schema # schema_name THEN {db}
  ELSE IF data.template # none THEN {emplace_nft(db, data.template, data)}
  ELSE IF ~data.attributes THEN {db}
  ELSE {db, fails(db)} \cup {emplace_nft(db, m, data) : m \in misread}

logtransfer(db, data) ==
  IF data.collection # eden THEN db
  ELSE [db EXCEPT !.nfts = [k \in DOMAIN @ |->
          IF @[k].asset \in data.assets THEN [@[k] EXCEPT !.owner = data.to] ELSE @[k]]]

\* A vote that is there already violates the index.
create_group(db, event) ==
  LET keys == {<<v, event.election, event.round>> : v \in event.voters}
  IN  IF keys \cap DOMAIN db.votes # {} THEN fails(db)
      ELSE [db EXCEPT !.votes = [k \in DOMAIN @ \cup keys |-> IF k \in keys THEN none ELSE @[k]]]

create_fund(db, event) ==
  LET key == <<event.owner, event.time, event.rank>>
  IN  IF key \in db.funds THEN fails(db) ELSE [db EXCEPT !.funds = @ \cup {key}]

handle_event(db, event) ==
  CASE event.type = "create_group" -> create_group(db, event)
    [] event.type = "reserve" -> transfer_funds(db, event.pool, distribution_fund, "reserve_distribution")
    [] event.type = "fund" -> create_fund(db, event)
    [] OTHER -> db

\* Actions that the other modules follow, or that nothing follows, change nothing here.
dispatch(db, name, data) ==
  CASE name = "clearall" -> clearall(db)
    [] name = "withdraw" -> withdraw(db)
    [] name = "donate" -> donate(db, data)
    [] name = "transfer" -> transfer(db)
    [] name = "fundtransfer" -> fundtransfer(db, data)
    [] name = "usertransfer" -> usertransfer(db, data)
    [] name = "inductdonate" -> inductdonate(db, data)
    [] name = "electvote" -> electvote(db, data)
    [] name = "setencpubkey" -> setencpubkey(db, data)
    [] OTHER -> db

\* Mutant: whoever is notified of a transfer, it is taken for one of eden.
Mut_filter_action(db, a) ==
  IF db.aborted THEN {db}
  ELSE IF a.firstReceiver = eden THEN {dispatch(db, a.name, a.data)}
  ELSE IF a.firstReceiver = token /\ a.receiver # token /\ a.name = "transfer"
  THEN {notify_transfer(db, a.data.from, a.data.to)}
  ELSE IF a.firstReceiver = null_account /\ a.name = "eden.events" /\ a.creator = eden
  THEN {fold(handle_event, db, a.data)}
  ELSE IF a.firstReceiver = atomic /\ a.receiver = eden THEN
    CASE a.name = "logmint" -> logmint(db, a.data)
      [] a.name = "logtransfer" -> {logtransfer(db, a.data)}
      [] OTHER -> {db}
  ELSE {db}

filter_action(db, a) ==
  IF db.aborted THEN {db}
  ELSE IF a.firstReceiver = eden THEN {dispatch(db, a.name, a.data)}
  ELSE IF a.firstReceiver = token /\ a.receiver = eden /\ a.name = "transfer"
  THEN {notify_transfer(db, a.data.from, a.data.to)}
  ELSE IF a.firstReceiver = null_account /\ a.name = "eden.events" /\ a.creator = eden
  THEN {fold(handle_event, db, a.data)}
  ELSE IF a.firstReceiver = atomic /\ a.receiver = eden THEN
    CASE a.name = "logmint" -> logmint(db, a.data)
      [] a.name = "logtransfer" -> {logtransfer(db, a.data)}
      [] OTHER -> {db}
  ELSE {db}

\* The outcomes of a transaction; at its end no notification may be missing.
filter_transaction(db, actions) ==
  LET after == fold(LAMBDA S, a : UNION {filter_action(d, a) : d \in S}, {db}, actions)
  IN  {IF check_transfer_order(d) THEN d ELSE fails(d) : d \in after}

=============================================================================
