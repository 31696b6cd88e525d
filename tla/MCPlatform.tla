----------------------------- MODULE MCPlatform -----------------------------
(***************************************************************************)
(* What contracts, the micro chain and the tests stand on.  The four parts *)
(* do not meet, so a behaviour is one of the test chains, of which two     *)
(* objects create and destroy several in turn, or one of the token         *)
(* contract, or one of a table of the micro chain with its undo sessions,  *)
(* or one of a table of a contract with two objects over its four possible *)
(* keys.                                                                   *)
(***************************************************************************)
EXTENDS Token, UndoIndex, TLC

CONSTANTS
  o1, o2,   \* objects of tests, accounts, values of rows, objects of a contract
  k1, k2,   \* keys of an account, symbol codes
  MaxSlot, MaxTrx, MaxHeads, MaxCreated, None,  \* of TestChain
  MaxKey, MaxBorn, MaxItems,                    \* of Tables
  MaxWork                                       \* bound on operations on a contract's table

VARIABLES
  chains, selected, objects, created, chosen,
  rows, idx, tab, committed, born, migrated, stale, tainted,
  part,  \* whose behaviour this is
  work   \* how many operations there have been on a contract's table

MCObjects == {o1, o2}
MCCodes == {k1, k2}

C == INSTANCE TestChain WITH Objects <- {o1, o2}, Keys <- {k1, k2}, Skips <- {-500, 250, 500, 1000}
M == INSTANCE Tables WITH Instance <- {o1, o2}, Sec <- {1, 2}, Legacy <- {0}

chain_vars == <<chains, selected, objects, created, chosen>>
table_vars == <<rows, idx, tab, committed, born, migrated, stale, tainted>>

MCVars == <<chain_vars, token_vars, vars, table_vars, part, work>>

Symmetric == Permutations(MCObjects) \union Permutations(MCCodes)

MCInit ==
  /\ C!Init /\ TokenInit /\ Init /\ M!Init
  /\ part \in {"test chain", "token", "undo index", "tables"} /\ work = 0
  /\ part # "tables" => rows[0].sec = 1

TestChainStep == part = "test chain" /\ C!Next /\ UNCHANGED <<token_vars, vars, table_vars, part, work>>
TokenStep == part = "token" /\ TokenNext /\ UNCHANGED <<chain_vars, vars, table_vars, part, work>>
UndoIndexStep == part = "undo index" /\ Next /\ UNCHANGED <<chain_vars, token_vars, table_vars, part, work>>
TablesStep ==
  /\ part = "tables" /\ work < MaxWork /\ work' = work + 1
  /\ M!Next /\ UNCHANGED <<chain_vars, token_vars, vars, part>>

MCNext == TestChainStep \/ TokenStep \/ UndoIndexStep \/ TablesStep

MCSpec == MCInit /\ [][MCNext]_MCVars

-----------------------------------------------------------------------------
\* A test sees the chain it chose, as it is: its transactions refer to blocks of the chain
\* they go to and are not expired, table reads lose nothing that was pushed and go to the chain
\* last chosen, and every chain's blocks follow one another (tester.cpp, cltester's main.cpp).
TestsSeeTheirChain ==
  C!TaposFresh /\ C!ReadsLoseNothing /\ C!ReadsTheChosenChain /\ C!HistoryLinked

\* A multi_index object shows what is stored, unless another object has written the row since
\* it was cached (multi_index.hpp), and the secondary index of a table has exactly its rows,
\* though older rows are indexed in batches between the operations of users, and the keys
\* that objects hand out are free.
TablesShowRows == M!CopiesFresh /\ M!IndexFollowsRows /\ M!MigrationIndexesAll /\ M!AvailableKeyFree

=============================================================================
