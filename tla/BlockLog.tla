------------------------------ MODULE BlockLog ------------------------------
(***************************************************************************)
(* A node of the micro chain: its block log (libraries/clchain/include/    *)
(* clchain/subchain.hpp) and its database, as the exported calls of        *)
(* eden-micro-chain.cpp drive them.                                        *)
(*                                                                         *)
(* The id of a block is the hash of its contents, its predecessor's id     *)
(* included.  Here a block is the sequence of the eosio blocks up to it,   *)
(* which serves as its id: its number is the length, its predecessor the   *)
(* front, its eosio block the last element.  The database is the sequence  *)
(* of eosio blocks it has applied (filter_block is deterministic), with    *)
(* the sessions of SnapshotStack.                                          *)
(***************************************************************************)
EXTENDS Naturals, Sequences, FiniteSets

EmptyNode == [blocks |-> << >>, irreversible |-> 0, db |-> << >>, sessions |-> << >>, revision |-> 0]

Max2(a, b) == IF a >= b THEN a ELSE b
Min2(a, b) == IF a <= b THEN a ELSE b

num(block) == Len(block)
previous(block) == SubSeq(block, 1, Len(block) - 1)
eosio_num(block) == block[Len(block)].num

-----------------------------------------------------------------------------
(***************************************************************************)
(* Searching the log.  A position past the end is Len(blocks) + 1; the     *)
(* lookups return a position, 0 for nullptr.                               *)
(***************************************************************************)
lower_bound_by_num(blocks, n) ==
  IF blocks = << >> THEN 1
  ELSE IF n <= num(blocks[1]) THEN 1
  ELSE IF n - num(blocks[1]) < Len(blocks) THEN 1 + n - num(blocks[1])
  ELSE Len(blocks) + 1

lower_bound_by_eosio_num(blocks, n) ==
  1 + Cardinality({i \in DOMAIN blocks : eosio_num(blocks[i]) < n})

block_before_num(blocks, n) == lower_bound_by_num(blocks, n) - 1
block_before_eosio_num(blocks, n) == lower_bound_by_eosio_num(blocks, n) - 1

block_by_eosio_num(blocks, n) ==
  LET it == lower_bound_by_eosio_num(blocks, n)
  IN  IF it <= Len(blocks) /\ eosio_num(blocks[it]) = n THEN it ELSE 0

head(blocks) == IF blocks = << >> THEN 0 ELSE num(blocks[Len(blocks)])

-----------------------------------------------------------------------------
(***************************************************************************)
(* Changing the log.                                                       *)
(***************************************************************************)
\* block_log::add_block: what becomes of the block.
log_status(log, block) ==
  LET it == lower_bound_by_num(log.blocks, num(block))
  IN  IF it <= Len(log.blocks) /\ log.blocks[it] = block THEN "duplicate"
      ELSE IF it = 1 /\ num(block) # 1 THEN "unlinkable"
      ELSE IF it # 1 /\ (previous(block) # log.blocks[it - 1] \/ num(block) # num(log.blocks[it - 1]) + 1)
           THEN "unlinkable"
      ELSE IF it <= Len(log.blocks) /\ num(log.blocks[it]) <= log.irreversible THEN "unlinkable"
      ELSE "appended"

\* The blocks from a position on are dropped.
erase_from(blocks, it) == SubSeq(blocks, 1, it - 1)

\* block_log::undo: the position of the first block removed, past the end for none.
undo_position(log, n) ==
  LET it == lower_bound_by_num(log.blocks, n)
  IN  IF n <= log.irreversible \/ it > Len(log.blocks) \/ num(log.blocks[it]) # n
      THEN Len(log.blocks) + 1 ELSE it

-----------------------------------------------------------------------------
(***************************************************************************)
(* The database of a node.                                                 *)
(***************************************************************************)
\* forked_n_blocks; undo does nothing when there is no session.
forked_n_blocks(node, n) ==
  LET k == Min2(n, Len(node.sessions))
  IN  IF k = 0 THEN node
      ELSE [node EXCEPT !.db = node.sessions[Len(node.sessions) - k + 1],
                        !.sessions = SubSeq(@, 1, Len(@) - k),
                        !.revision = @ - k]

\* db.commit(irreversible)
db_commit(node) ==
  LET r == node.irreversible
  IN  IF r >= node.revision THEN [node EXCEPT !.sessions = << >>]
      ELSE IF node.revision - r >= Len(node.sessions) THEN node
      ELSE [node EXCEPT !.sessions = SubSeq(@, Len(@) - (node.revision - r) + 1, Len(@))]

\* The rest of add_block once the log has the block: a session is opened only for a
\* block that can still be undone, the other blocks set the revision.
apply_block(node, block) ==
  LET need_undo == num(block) > node.irreversible
  IN  [node EXCEPT !.db = Append(@, block[Len(block)]),
                   !.sessions = IF need_undo THEN Append(@, node.db) ELSE @,
                   !.revision = IF need_undo THEN @ + 1 ELSE num(block)]

\* irreversible is the number of the block at a position, if that is later.
raise_irreversible(node, position) ==
  IF position = 0 THEN node
  ELSE [node EXCEPT !.irreversible = Max2(@, num(node.blocks[position]))]

\* add_block(block_with_id, eosio_irreversible)
add_block(node, block, eosio_irreversible) ==
  LET it     == lower_bound_by_num(node.blocks, num(block))
      forked == forked_n_blocks([node EXCEPT !.blocks = Append(erase_from(@, it), block)],
                                Len(node.blocks) + 1 - it)
      raised == raise_irreversible(forked, block_before_eosio_num(forked.blocks, eosio_irreversible + 1))
  IN  IF log_status(node, block) # "appended" THEN node
      ELSE apply_block(db_commit(raised), block)

\* add_block(eosio_block, ...): the log decides which block comes before.
add_eosio_block(node, b, eosio_irreversible) ==
  LET prev == block_before_eosio_num(node.blocks, b.num)
  IN  add_block(node, IF prev = 0 THEN <<b>> ELSE Append(node.blocks[prev], b), eosio_irreversible)

\* The exported calls that add a block: a result of the ship protocol, an eosio block of dfuse
\* and a block that another node made.
pushShipMessage(node, this_block, last_irreversible) == add_eosio_block(node, this_block, last_irreversible)
addEosioBlockJson(node, eosio_block, eosio_irreversible) == add_eosio_block(node, eosio_block, eosio_irreversible)
addBlock(node, block, eosio_irreversible) == add_block(node, block, eosio_irreversible)

\* The block with a number that the log has, as it is sent to other nodes.
block_by_num(blocks, n) == blocks[lower_bound_by_num(blocks, n)]
getBlock(node, n) == block_by_num(node.blocks, n)

setIrreversible(node, n) ==
  db_commit(raise_irreversible(node, block_before_num(node.blocks, n + 1)))

\* "Keep only 1 irreversible block"
trimBlocks(node) ==
  [node EXCEPT !.blocks = SubSeq(@, lower_bound_by_num(@, node.irreversible), Len(@))]

undoBlockNum(node, n) ==
  LET it == undo_position(node, n)
  IN  forked_n_blocks([node EXCEPT !.blocks = erase_from(@, it)], Len(node.blocks) + 1 - it)

undoEosioNum(node, n) ==
  LET it == block_by_eosio_num(node.blocks, n)
  IN  IF it = 0 THEN node ELSE undoBlockNum(node, num(node.blocks[it]))

=============================================================================
