# Verification of Eden

TLA+ modules for Eden: the smart contract that holds the elections, the bylaws, the
treasury and the membership of a community on an EOSIO chain (`src/contracts/eden`), the
micro chain that rebuilds its state for clients, the replication between server and
clients (`src/packages`), and the libraries these stand on (`src/libraries`). TLC checks
the modules on small instances; TLAPS proves the central properties for every value of the
constants. `PROJECT.json` maps every definition to the lines it models and lists the runs,
the mutants, the findings and the hazards.

    tlc -workers 2 -config MCElections.cfg MCElections     # a run
    tlapm Elections_proofs.tla                             # the proofs of a module

Contents: [inventory](#inventory), [modules](#modules-and-the-code), [runs](#runs),
[proofs](#proofs), [findings](#findings), [observations](#observations),
[what is not modelled](#not-modelled), [plan](#plan).

## Inventory

All of the community's state is in tables of the contract. A transaction is atomic: a
failed `eosio::check` undoes all of it. What is hard in the contract is therefore never two
threads, but long-running work cut into many transactions (`electprocess`, `distribute`,
`gc` and `migrate` do at most `max_steps` units each) with anybody's transactions in
between, deadlines, and tables that must agree with each other over years of elections.
Outside the contract it is the reverse: blocks are undone, connections break, servers
restart, and a read model must still be what a replay of the chain would give.

| Component | State | Operations | Interacts with | What makes it correct |
| --- | --- | --- | --- | --- |
| Election configuration (`elections.cpp:67-281`) | none | `make_election_config`, `member_index_to_group`, `get_election_time` | elections | rounds chain, two ways to cut a round into groups agree, the next election is at the right time of the week |
| Elections (`elections.cpp`, `actions/elect.cpp`) | `elect.curr`, `elect.state`, vote rows, opt-ins in member rows | `electsettime`, `electconfig`, `electopt`, `electseed`, `electvote`, `electprocess`, repairs | members, distributions, bylaws, encrypted data | voters numbered without gaps in every batch and round; only those who opted in vote; ranks and their statistics agree; an election ends |
| Members (`members.cpp`) | member rows, `memberstats` | `inducted`, `resign`, `rename` | all others | rank counts match rows; what refers to a member follows renamings and resignations |
| Accounts (`accounts.cpp`, `actions/accounts.cpp`) | user balances, master pool | deposit, `donate`, `withdraw`, `usertransfer`, `fundtransfer` | token contract, distributions | the books equal the token balance |
| Distributions (`distributions.cpp`) | distribution table, distribution accounts | `distribute`, set-up, `on_resign`, `on_rename` | elections, members, pool | a distribution holds exactly what is still to be paid; nothing is stranded |
| Bylaws (`bylaws.cpp`) | rows proposed, pending, ratified | `bylawspropose`, `bylawsapprove`, `bylawsratify`, `on_resign`, `on_rename`, `new_board` | elections (board, leader, times) | a supermajority of the present board adopts, a later board ratifies |
| Inductions (`inductions.cpp`, `actions/induct.cpp`, `actions/genesis.cpp`) | inductions, endorsements, gc queue | invite, video, profile, endorse, donate, cancel, `gc`, genesis | members, assets, encrypted data, micro chain | endorsements are of what is there; nothing is forgotten or counted twice |
| Encrypted data (`encrypt.cpp`) | keyed blobs | compare-and-set, erase | elections, inductions | data belongs to a group that meets |
| Sessions (`actions/sessions.cpp`) | session keys, sequence numbers | new, delete, run, collect | members, micro chain | no message is accepted twice; clients see the sessions there are |
| Migrations, auctions (`migrations.cpp`, `auctions.cpp`) | migration status, auction rows | `migrate`, notifications, collection | accounts, members, market | each table is as if converted at once |
| Token contract (`contracts/token`) | supplies, balances | create, issue, retire, transfer, open, close | accounts | balances sum to the supply |
| Micro chain (`eden-micro-chain.cpp`) | read model | filter of traces, event handlers, queries | contract, block log | shows what the contract has |
| Queries (`graphql.hpp`, `graphql_connection.hpp`) | none | lexer, executor, paging | micro chain | answers what is asked |
| Block log, chainbase (`libraries/clchain`) | blocks, undo sessions | add, fork, trim, undo, squash, commit | micro chain | undo restores |
| Box server, subchain client (`packages`) | the chain as followed, connections | receive, serve, save, reconnect | chain, block log | the client ends up with the server's blocks |
| Conversions (`libraries/abieos`) | none | JSON, binary, keys, text | all | converters agree, keys sort, text reads back |
| Tables (`multi_index.hpp`) | rows, caches of objects | emplace, modify, erase, find | contracts | an object shows what is stored |
| Test chain (`tester.cpp`, `cltester`) | chains, sessions | create, select, push, read | tests | a test sees the chain it chose |

The hard behaviours, at their lines, are the `hazards` of `PROJECT.json`.

## Modules and the code

| Module | Models | Used by |
| --- | --- | --- |
| `RoundConfig`, `ElectionConfig` | sizes of groups, which voter is in which group; `make_election_config`, `get_election_time` | `Elections`, `MCAlgorithms` |
| `GroupVote` | counting one group (`finish_group`) | `Elections`, `MCAlgorithms` |
| `Elections` | the election state machine with the member rows it works on | `Meetings`, `ElectionView`, `MCElections`, `Elections_proofs` |
| `Meetings` | encrypted data of election groups, composed with `Elections` | `MCElections`, `Elections_proofs` |
| `ElectionView` | the micro chain's election, composed with `Elections` | `MCElectionView` |
| `Distribution` | `make_distribution`: a budget divided among ranks | `Treasury`, `MCAlgorithms` |
| `Treasury` | accounts, pool, distributions | `TreasuryLedger` |
| `Ledger`, `TreasuryLedger` | the micro chain's balances, and their composition with `Treasury` | `MCTreasuryLedger`, `Treasury_proofs` (with `Sums_proofs`) |
| `Bylaws` | bylaws, with the board as elections change it | `MCBylaws`, `Bylaws_proofs` |
| `Inductions` | invitations, genesis, collection, and the micro chain's view of them | `MCInductions`, `Inductions_proofs` |
| `Sessions` | session keys and the micro chain's view of them | itself, `Sessions_proofs` |
| `Migrations` | upgrades in batches, auctions | itself |
| `Token` | the token contract | `MCPlatform`, `Token_proofs` (with `Sums_proofs`) |
| `BlockLog`, `Subchain` | a node of the micro chain; replication to clients | `Subchain` run |
| `SnapshotStack`, `UndoIndex` | what undo sessions promise; how differences keep the promise | `MCPlatform`, `UndoIndex_proofs` |
| `Tables`, `TestChain` | `multi_index`; the test chains | `MCPlatform` |
| `BlockFilter`, `Resolvers`, `GraphQL`, `Connection` | from traces to events; from tables to answers | `MCReadModel`, `MCAlgorithms` |
| `Abi`, `AbiTypes`, `Encoding`, `TypedJson` | conversions | `MCCodecs`, `MCAlgorithms` |

Conventions. A contract action is an action of the module with the same name; its
`eosio::check`s are the guards. A definition `Mut_x` before `x` is `x` with a plausible
bug; substituted for `x` it must make a run fail, which shows that the property can.
Constants that the code fixes (thresholds, windows, widths) are `CONSTANTS`; guards
marked `\* bound` exist for TLC only.

**Elections.** `state` is the variant `current_election_state`, one record type per
alternative; `vote` is the votes table, whose rows carry round, index and candidate;
`member` are the active rows of the member table; `ranks` is `memberstats.ranks`; `elect`
is the elect-state singleton. `electprocess(max_steps)` does up to `max_steps` units of
work and keeps everything it needs in tables between units. The module has one action for
each kind of unit (`start_election`, `distribute_first`, `randomize_voter`,
`report_first_round`, `open_first_round`, `finish_group`, `report_next_round`,
`open_next_round`, `finish_without_rounds`, `finish_with_seed`); any `electprocess(n)` is a
sequence of them, and any other transaction may come between two. Exactly one deadline is
relevant in any state, so time is `left`, the time to it. Seeds and the generators that
start from them are nondeterministic. `election_schedule_version` and the round are
`uint8` in the code: they are bounded by `VersionLimit` and `RoundLimit` (256 in the
contract, 3 in the runs), so that wrapping and running out happen. When no group of a
round agrees, `finish_round` reads `config.front()` of an empty vector
(`elections.cpp:926`); what it may read is the parameter `UndefinedConfigs`. `entrants` is a
history variable: who opted in to the election as now scheduled.

**Treasury.** `user`, `pool` and `dist` are the accounts, `table` the distribution table in
key order, `token` the balance in the token contract. `setup_distribution` is called by many
actions before they do anything else, and is part of each of them. `distribute(max_steps)`
is modelled by its units, as `electprocess` is. An election is three steps; its outcome is
any ranking that `RanksKept` of `Elections` allows. The inline transfer of `withdraw` and its
notification belong to the action, so the `outgoing` scope is empty between steps.
`distributions.cpp:21-22` contains text that is not C++ (left over from an edit); the model
takes the code around it.

**Bylaws.** Elections are reduced to their effect on board, leader and times. A text stands
for its hash. `term` and the fields `term` and `by` of a row are history: the code does not
store them.

**Inductions.** Videos and profiles are numbers, 0 for none. `gc` works in units like
`electprocess`. `leftover`, `swept` and `misnumbered` mark three things the code does that the
properties exclude by name: inductions of a member that resigned before its own were
collected, inductions of a re-invited account swept by the queue row of its earlier
membership, and the micro chain's numbers after `addtogenesis` follows a collection.

**Micro chain.** Its handlers are in the module whose state they shadow (`Inductions`,
`Sessions`, `Ledger`, `ElectionView`); a step of the contract and the events it sends are one
step. A handler whose check fails sets `aborted`: the micro chain stops for good.

**Undo index.** The two lists of differences are linked lists that grow at the front; a
session remembers the front nodes. A list is a function from nodes to contents, and nodes are
numbered as they are pushed, so that erasing some leaves the others where they were. `SnapshotStack` says what that must amount to: a session
restores the whole table.

**Subchain.** Chain, receiver, two nodes of the server, its state file, one connection with
messages in both directions and a client. Ship pushes every block as it comes and begins
again from the first one after a restart. Dfuse holds a message back until one of another
block, or a live marker without transactions, follows, and then pushes it with the irreversible
number that it came with; messages are saved with the state when more than `MaxUnsaved` (10 in
the code) have come and at a marker, and a restart replays what was saved. The messages
of the several transactions of a block are one. A lost connection loses the messages under way.

**Block filter.** `BlockFilter` runs a transaction with the token, the asset contract and the
contract's answers to them, keeps the traces in the order in which actions were scheduled, and
applies to them what `filter_block` does. The history is the sequence of `transfer_funds`, two
for money that the account spends without `withdraw`. The present contract refuses such spending,
so it occurs only before the code is installed (`installed`); nothing reaches the micro chain's
`transfer` handler, whose action the contract no longer has. `logmint` searches from the beginning
of the template's data to the end of the asset's: unless the attribute is found in the template
or both are empty, the outcome is any of the ones that reading the memory between them can have
(a set).

## Runs

Sizes are distinct states; every run finishes in under five minutes on two cores.

| Run | Question | Instance | States |
| --- | --- | --- | --- |
| `elections` | Elections one after another with every other action at any time | 3 members of which 2 are founders, 1 round of voting; with a fixed membership, meetings with one key | 607 000 |
| `election_view` | One election with several rounds: what does it leave, what is shown of it, and does it end? | 4 members, up to 2 rounds of voting, every vote | 22 000 |
| `ledger` | Do transfers and distributions keep the books, and does the micro chain show them? | 2 accounts, pool 6, 3 ranks, 3 transfers | 495 000 |
| `bylaws` | Who adopts bylaws? | 3 members, 2 texts, 2 elections and more | 476 000 |
| `inductions` | Who becomes a member, and what is left behind? | 3 accounts of which 2 founders, 2 inductions, 2 videos | 965 000 |
| `sessions` | Is a message accepted twice? What do clients see? | 1 account, 3 keys, 2 sessions of 2 sequence numbers | 148 000 |
| `subchain` | Does every node hold a replay of the chain, and does the client catch up? | 3 blocks, 1 fork, 1 fault, 2 messages unsaved | 456 000 |
| `platform` | Token, undo sessions, tables, test chains | 2 accounts and codes; 2 rows, 3 sessions; 4 operations on a table with 2 objects; 3 chains | 506 000 |
| `migrations` | Is a table converted in batches as if at once? | 3 accounts with any balances of 0 or 1, 2 members, 2 auctions | 1 593 000 |
| `algorithms` | Do the pure algorithms compute what they should? | every number of voters up to 10000 (the contract's limit); all votes in groups of up to 6; all types and values of small shapes; all transactions of three actions; all tables of two rows | 304 000, one per input |

Why these bounds are enough to be interesting:

* The contract votes in rounds only from 12 voters on. `SmallConfig` is another value of the
  parameter `make_election_config` that satisfies the same `ConfigAssumption` (the `\post`
  lines that `algorithms` checks on the real function): 3 voters have one round of voting
  and 4 have two, with groups of different sizes. Groups that agree and groups that do not,
  a round that follows a round and one group left all occur.
* `VersionLimit = 3` makes the version run out after two reschedulings. The windows are 0 to
  3, so that each deadline can be before, at and after each action.
* 60 % of a pool of 6 over up to three ranks leaves rounding remainders in every division.
* Three board members are the smallest board of which two thirds is a proper part.
* Two sessions of two sequence numbers overflow both limits (4 and 20 in the code) with
  three keys and four numbers.
* Three undo sessions are the fewest in which a session in the middle is squashed while one
  below is committed.
* One fault can fall into any step; a client that is behind by a fork, a save and a lost
  connection needs three blocks.

`elections` checks deadlock and has none. The other runs say `CHECK_DEADLOCK FALSE` because
they end by construction, at a bound on time, blocks or operations.

### What is checked

* **`VotersNumbered`**: in every round and between any two batches the voters have the
  indices 0..N-1, each once. **`EntrantsAreVoters`**: they are those who opted in to the
  election as scheduled. **`VotesWithinGroup`**: a vote stays a vote for someone of the
  voter's group until the group is counted. **`RanksKept`**: the statistics agree with the
  member rows, `make_distribution` never divides by zero, the board is of active members.
  **`MeetingsOfGroups`**: encrypted data belongs to a group that meets.
* **`ElectionLeavesHierarchy`**: everyone who took part ends up below their representative.
  **`ElectionEnds`** (liveness). **`ElectionShown`**: the micro chain's groups, votes and results
  are the contract's.
* **`FundsConserved`**: the books equal the token balance. **`DistributionsFunded`**: a
  distribution holds what is still to be paid, no funds are stranded, and the table keeps
  the order that early exits rely on. **`LedgerExplained`**: the micro chain's balances
  balance, and where they differ from the contract's the difference is explained.
* **`ApprovalsFromBoard`, `AdoptedBySupermajority`, `RatifiedByLaterBoard`**: see `Bylaws`.
* **`EndorsedAsSeen`**: endorsements are of the present video and profile.
  **`InductionsCollected`**: nothing is forgotten, counts match, data belongs to someone.
  **`MicroChainShows`**: clients see the inductions and members there are.
* **`NoReplay`**, **`SessionsShown`**: see `Sessions`.
* **`StateIsReplay`**: every node is a replay of a prefix of the chain, and what is final
  stays. **`BelievedBlocksArrive`**: the server's idea of the client comes true, except when
  a box restarted from messages of an abandoned fork offers blocks in the place of ones that
  the client knows to be irreversible.
  **`ClientCatchesUp`** (liveness).
* **`TestsSeeTheirChain`**, **`SupplyHeld`**, **`TablesShowRows`**, **`SessionsRemember`** (the refinement of
  `SnapshotStack`).
* **`MigratedRight`**: totals, funds, auctions and the micro chain after and during upgrades.
* **`algorithms`**: `RoundsChain`, `WalkMatchesGroups`, `ElectionTimeRight`, `WinnerIsAgreed`,
  `DividesExactly`, `PagesCover`, `ConvertersAgree`, `EncodingsExact`, `QueriesAnswered`, `BlockShown`,
  `QueriesSelect`, each against a definition of its own. `BlockShown` compares with what each
  action of a transaction means, not with its traces; it leaves open which assets are shown once
  one was minted that `logmint` misreads, and in the order of state history it holds for
  transactions of one action only (`TransfersInOrder` does not). The code takes a floating-point
  quotient of logarithms in `get_group_sizes`; wherever it is a whole number the model
  allows both results.

### Fairness

`election_view` assumes weak fairness of three things. Time passes (`Tick`). Somebody calls
`electprocess`: anyone may, the web application offers it and a server does it. A
distribution is paid eventually (`distribute_first` ends with `paying` false), as it has
finitely many rows and each call pays some. Two cases are excluded by name in
`ElectionEnds`: `nobody_entered` and `nobody_advanced`. In both the code needs `finishelect`.

`subchain` assumes weak fairness of what is told to the receiver, of a live marker after the
last message of dfuse, of the delivery of messages that have been sent, and of reconnection: the
receivers poll or are called back, the stream is opened with `liveMarkerInterval`, a web socket
delivers or closes, and `onclose` sets a timer that connects again. Faults are bounded, not
fair.

## Proofs

For every value of the constants that satisfies the named assumptions of the modules
(`ConstantsAssumption`, `ConfigAssumption`, `BylawsAssumption`, `InductionsAssumption`,
`TreasuryAssumption`, `SessionsAssumption`):

| Module | Theorem | States |
| --- | --- | --- |
| `Elections_proofs` | `TypeCorrect`, `VotersStayNumbered`, `EntrantsStayVoters`, `VotesStayWithinGroup`, `RanksStayKept`, `MeetingsStayOfGroups` | `TypeOK`, `VotersNumbered`, `EntrantsAreVoters`, `VotesWithinGroup`, `RanksKept`, `MeetingsOfGroups` |
| `Bylaws_proofs` | `TypeCorrect`, `ApprovalsStayFromBoard`, `SupermajorityAdopts`, `LaterBoardRatifies` | `TypeOK`, `ApprovalsFromBoard`, `AdoptedBySupermajority`, `RatifiedByLaterBoard` |
| `UndoIndex_proofs` | `SessionsDetermineTables`, `DifferencesAreCopies` | the inductive invariant; `SessionsRemember`, the refinement of `SnapshotStack` |
| `Inductions_proofs` | `EndorsementsStand`, `InductionsStayCollected`, `MicroChainKeepsShowing` | `EndorsedAsSeen`, `InductionsCollected`, `MicroChainShows` |
| `Sessions_proofs` | `NumbersAcceptedOnce`, `SessionsStayShown` | `NoReplay`, `SessionsShown` |
| `Token_proofs` | `SupplyStaysHeld` | `SupplyHeld` |
| `Treasury_proofs` | `FundsStayConserved`, `DistributionsStayFunded`, `LedgerStaysExplained` | `FundsConserved`, `DistributionsFunded`, `LedgerExplained` |
| `Sums_proofs` | lemmas only | what a sum over a finite set is when its terms or the set change |

**Elections.** The base is `TypeOK /\ VotersNumbered`; neither part is inductive alone.
`TypeOK` needs the numbering, since an index is within the membership only because distinct
voters have distinct indices and there are at most `max_active_members` of them.
`VotersNumbered` says what holds between two batches as well as between rounds, which makes
it inductive. One lemma per action; those with substance are `randomize_voter` and
`finish_group`. `AddVoterNumbered` shows that swapping a new voter with any earlier one keeps
the numbering, `EraseGroup` that the walk by group sizes erases exactly the indices it passes.
Three strengthenings stand on that base, each inductive with it but not needing the others:

* `EInv` adds `OptInsCurrent`: no member row carries a version ahead of the schedule, and once
  the numbering has begun only rows still to be numbered and rows of voters carry one at all.
  Without it a member could enter an election by an opt-in left from an earlier date.
  `FinishedGroup` says who has a row after a group is counted: the winner, who was in it
  (`WinnerInGroup`), and those of other groups.
* `GInv` adds that the walk stands at the first index of a group (`AtGroup`) and that rows
  of the next round are blank. `finish_group` recomputes sizes as it walks while `electvote` asks
  `member_index_to_group`; `WalkOverGroups` shows that the two cut a round at the same
  places. That is integer division with remainders (`RoundShape`, `QuotientBelow`,
  `GroupsInOrder`) for any number of voters and groups; `WalkMatchesGroups` checks the same
  on the contract's own configurations for up to 500 voters.
* `KInv` says that the counts match for every rank, not only those stored, leaving out
  members who still have a vote row; that a budget can be divided in every state between
  elections; and that members whom the numbering has passed over have no representative.
  `AddRankCounts` and `RankGiven` say what giving one member a rank does to the counts,
  `TopRank` that the last rank has one member at most.

TLC checks each strengthening on the instance of `elections` as well.

**Meetings.** A step of `Meetings` is one of `Elections` or leaves the election alone
(`StepOfElections`), so the base and `GInv` carry over to the composition. `MeetingsOfGroups` is
inductive with them. `MembersOfGroup` shows that scanning rows from a group's first index
until one of another group finds exactly the group, and `RowsAfterGroup` that counting a
group leaves every other group of the round as it was.

**Bylaws.** The inductive invariant adds `TermsFollowTime`, which relates the times the code
compares with the terms the property is about: bylaws pending since the present board was
elected are not older than its election. `TwoThirds` is the arithmetic: one more than the
integer `2n/3` approvals exceed two thirds of `n`.

**Undo index.** The property is about the newest session only, since only that can be undone;
the invariant must hold for all, since any session becomes the newest. For each open
session `Remembered` says that the table it began with is made of the copies older than
the session and of the rows that have not changed since. `CopiedOnce` says that a row's
modification time tells which of the two applies, `KeysOnce` that a key is in the table or
among the removed rows but not in both, `SessionsOrdered` that sessions share the lists in
order. The hard steps are `undo` (the session below must still be determined after its
successor's copies are put back, with the modification times they carry) and `squash`, where
compression drops copies that the session below has already and moves others into removed
rows. From the invariant every step is a step of `SnapshotStack` or a stutter (`StepRefines`).

**Inductions.** `IInv` has five parts. `TableInv`: every record has as many endorsement rows as
it counts (`Formed`), outside genesis a row that says endorsed carries the hash of the record's
own video and profile (`Seen`), and in genesis only the contract invites. `MembersInv`: the
statistics are the cardinalities of sets of members. `Unforgotten`: an induction is of a
pending member or of one in the queue of `gc`. `Reachable`: a pending member has an induction,
or had it swept by an earlier queue row. `MeetingsBelong`. Actions change one record in place,
add one or erase some; `InPlace`, `Added` and `Erased` say once what each kind of change keeps.
A batch of `gc` erases as many records as its limit and the queue allow, in the model by a
recursive function of the steps taken: one erasure keeps `GcInv` (`GcStepKeeps`) and so does
any number of them (`GcReaches`). `KeptSeq` says what is left of the rows when those of one
account are taken out (`erase_endorser`).

`VInv` adds the micro chain. `MicroChainShows` alone is not inductive, since it says nothing of the
inductions of genesis, which the handlers change as well. `VInv` says of every induction that is not left
over that it has an entry and that the two match (`Matches`): of one of genesis the invitee, of
a later one video, profile, inviter, witnesses and who has endorsed. A left-over induction has no
entry; entries of inductions that `gc` erased may remain. Like the property it holds unless a handler has
aborted or an account was added to genesis under another number than the contract's.
There is one lemma per handler (`InvitationShows`,
`DonationShows`, `CollectionShows`, `RenamingShows`, ...); `GenesisShown` is the induction behind the loop over the
genesis members.

**Sessions.** `SInv` says what a window of sequence numbers stands for (`Remembered`): a number accepted
since the key was registered is in the window, or the window is full and the number is below it.
`FreshNumber` concludes that one that passes the checks of `run` is new, without using how many may be
skipped; `NumberRemembered` that putting it in its place and dropping the smallest keeps this so. For the
lists of sessions `SInv` says that an account has a key once (`Listed`), which is what makes expiring
and deleting by key mean the same to the contract and to the micro chain (`NotExpired`), that a row is indexed by
the earliest of its expirations, and that its sessions are shown. `AliveListed`, `RemovedListed`,
`AppendedListed` and `TailListed` say what the operations on a list keep.

**Token.** `SupplyHeld` is inductive together with types. What it needs is how a sum over all
balances changes when one row changes, appears or disappears: `SumChange`, `SumRemove`, `SumSame`.
The sum is a recursive function over sets, and the library's induction theorems cannot be
instantiated here, so `Sums_proofs` reasons with a least counterexample (`NaturalsAll`, `SubsetsAll`).

**Treasury.** That funds are conserved is not inductive: the actions write rows of
`distaccount` with `put`, and a row written over would be funds lost. `TInv` adds what keeps them from
meeting one. `BooksInv`: the distribution table has its rows in the order of their times, those
that can be paid first and one next distribution last (`Scheduled`); an account is of an earlier
time than the next distribution (`EarlierKeys`), so setting one up opens a new account; a
member has accounts of a distribution in the table only when that is being paid and has passed the
member (`PaidKeys`), so `pay_member` opens new ones. `Owned`: only members and the contract have
accounts, so a renamed member's rows meet no others. `Awaited`: while a distribution waits for
the end of an election none can become payable behind it. `SetUp` is what one turn of
`setup_distribution` keeps (`OnceKeeps`); it is transitive (`SetUpFurther`), so any number of
late months keeps it (`LoopKeeps`), and every action that sets up first is proved from it.
`TakenBack` is the sum behind `resign`: what leaves the accounts of distributions in progress,
added up by account, is what is owed, added up by distribution (`SumClasses`). A renaming
only counts the same rows under other keys (`SumReindex`).

`FInv` adds what an account of a distribution has left to pay. `Funded`: while it is being paid,
the account holds the sum of what the members not yet passed will get, and the rank of each of them
has a share; while it waits for the end of an election, the account holds its amount. `Ranked`: between
elections the stored counts are those of the members, so the shares, which were computed from
the counts, add up over the members. `Backed`: the contract's accounts are of distributions in the
table. `Quiet`: nothing is being paid while members vote. The lemma behind it is `Divided`: what
`rank_distribution` gives each rank, times its holders, is what `distributed` takes from the amount,
for any ranks. The division counts a member once for every rank up to its own, and the sum is turned
around (`HoldersCounted`, `CountedTwice`). That a share is never negative is not part of it.

`LInv` adds the ledger of the micro chain to `TInv`, and that no user's balance is negative. As long as no handler has aborted
(one that aborts leaves the ledger as it is for good), `Explains` relates each balance that is shown to
users, the pool, tokens and the two histories, and `FundsMatch` the funds of delegates to `distaccount`. That the
distribution fund is the sum of `dist` is not stated in the invariant but follows from it and from `FundsConserved`. `Booked` says what one transfer does to the ledger; one lemma for
each kind of transfer (`DepositExplained`, `MemoExplained`, ...) and one per action (`DepositAgrees`, ...). A
resignation returns the member's funds one by one in an order that the model leaves open: `AllGoBack` is the
induction over sets of funds already returned. A renaming needs that both the contract and
the micro chain meet no row under the new name, or that the micro chain aborts (`Clash`), and
`Solvent`, since the contract moves a balance only when it is positive. That balances add up to 0
(`BalancesAddUp`) is a sum over the accounts and the five other holders.

What is only model-checked, and why:

* `ElectionEnds`, `ClientCatchesUp`: liveness.
* `ElectionLeavesHierarchy`: it does not follow from what the module assumes of
  `make_election_config`. A round number wraps at `RoundLimit`; that there are never so many
  rounds is a fact about the real function on at most 10000 voters.
* `StateIsReplay` and the properties of `algorithms`: replays, filtered sequences and
  recursive converters would need induction over data. `Abi`, `AbiTypes`, `Encoding`, `GraphQL`,
  `TypedJson` and the MC modules over them use `RECURSIVE` operators, which exclude proofs.
* The other properties of tables and read models: not yet, see the plan.

## Findings

| Run | What happens |
| --- | --- |
| `leader_resigns` | `remove_from_board` clears the leader in a local copy that is never stored (`elections.cpp:1015`). A leader who resigned can still propose bylaws. |
| `migrations_stuck` | When the steps of a call run out exactly on the last member, the migration index stays (`migrations.cpp:29`); every later call hands back all of its steps and is refused with "Nothing to do". |

Four properties are written down that do not hold, without a run of their own; each says so
in its comment. `DateSchedulesElection` (`Elections`): setting the date leaves an election in
`pending_date` (`elections.cpp:371`). `LeaderRatifies` (`Bylaws`): three of a board of four ratify
without the leader, whose vote `eden-ricardian.cpp:138` requires. `NewTermStartsClean` (`Bylaws`):
a proposal of the outgoing leader, made during the election, reaches the new board. `KeysStay`
(`TestChain`), `EventsTellAll` (`Sessions`) and `TransfersInOrder` (`MCReadModel`) belong to the next
section.

## Observations

What the models do because the code does, and what a reader of the code may want to know.

* **Elections.** If no group agrees, empty rounds follow until the round number wraps.
  `electvideo` accepts the round after the last without a vote row. `finishelect` leaves vote
  rows and encrypted data, among which the next election works.
* **Inductions.** An endorser who is renamed to another endorser leaves a duplicate
  (`inductions.cpp:196`). Leftover inductions of a resigned member block their own
  collection. A queue row of an earlier membership sweeps the inductions of a re-invited
  account. `queue_gc` fails if the row exists.
* **Accounts.** `usertransfer` does not adjust the total that the upgrade of the accounts
  compares; an amount moved back before the master row is made, and forth after it, leaves the
  upgrade completed with accounts that do not add up, although the total is right again. A donation between the creation of the master row and the end of that upgrade
  makes "Incorrect balance" (`accounts.cpp:56`) fail for ever. `on_election_kick` is dead code.
* **Micro chain.** `withdraw` transfers to the delegate account while the micro chain debits
  the receiver; a donation whose memo is a deposit's is taken for one; two withdrawals in
  one transaction are applied in the wrong order (`TransfersInOrder`); a rename to an account
  that ever had a balance row aborts it; it dispatches on the first receiver without looking
  at the receiver; queries of sessions do not reach WebAuthn keys; `remove_expired_inductions`
  is dead code; a fifth session evicts the first without an event (`EventsTellAll`).
* **Undo index.** The conflict path of `modify` restores the value and not `_mtime`
  (`undo_index.hpp:443`).
* **NFTs.** `logmint` mixes the iterators of two arrays (`eden-micro-chain.cpp:1822`); an asset of the
  contract's schema without an account is read beyond them instead of being ignored.
* **Replication.** A client that reconnects is assumed to have drained its queue within the
  500 ms it waits. After a restart of the server a client may keep an undone block until the
  next block.
* **Tests.** `start_block` keeps the reference block of the head it saw; shutting a chain down
  leaves the read context dangling; keys of a chain follow the object (`KeysStay`).
* **Conversions.** An empty object inside an empty extension is lost by `bin_to_json`; variant
  alternatives named by an alias are renamed by `to_abi_def`; nesting limits differ by one;
  the reorderable converter ignores unknown fields; a vector field that comes twice adds up;
  `string_to_asset` wraps; a varuint may be non-canonical; a symbol code of seven letters is
  valid whatever its eighth byte (`symbol.hpp:79`). The lexer of queries leaves the last
  token in place at an unterminated string; `gql_skip_selection_set` does not end on an error
  token.
* `settablerows` returns inside its loop (`actions/tables.cpp:86`); `finish_auctions` does not
  look at the end of an auction.

## Not modelled

The web application; the debugger, the WASM runtime and third-party code; AtomicAssets and
AtomicMarket, which are not in the repository; bulk editing of tables by the contract
account; the micro chain's tables of NFTs beyond their notifications; the handlers of the box
server that pay for and relay transactions; floating point, cryptography and the ship
protocol in `libraries/abieos`.

Within modelled parts: `finishelect`, `clearrank` and `changerank` (repairs by which the contract
account overwrites the election state or the rank statistics without looking at anything),
`electvideo`, profiles of members, in `ElectionView` a second election and rescheduling
(`eden-micro-chain.cpp:1877`), destruction of the guest's
`test_chain` object. Overflow of balances is not modelled in `Treasury`: amounts are 64-bit and
bounded by the token supply.

## Plan

The modules above are those that were planned; every component of the contract, the micro
chain and the replication has one. What is worth doing next is proofs, in this order:

1. The claim of `undo_index.hpp:379` that every key in `old_values` exists in the main table or in
   `removed_values`, from the invariant of `UndoIndex_proofs`.
2. `TablesShowRows` and `TestsSeeTheirChain`, which are invariants over caches and handles.
