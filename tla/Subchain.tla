------------------------------ MODULE Subchain ------------------------------
(***************************************************************************)
(* Replication of the micro chain: the history receivers of the box        *)
(* (packages/box/src/history-receivers), its storage with two nodes        *)
(* (subchain-storage.ts), the server's end of a client's connection        *)
(* (handlers/subchain.ts) and the client (eden-subchain-client).           *)
(*                                                                         *)
(* A message handler of the box runs to its end before the next (they are  *)
(* synchronous JavaScript), so a block received, the two nodes, the state  *)
(* file and the callbacks of changed() make one step.                      *)
(*                                                                         *)
(* The chain itself is external.  ShipReceiver gets every block, is not    *)
(* told of forks, and starts again from the first block when it reconnects.*)
(* DfuseReceiver gets the blocks with transactions of interest, is told    *)
(* of blocks undone, and resumes where it was.  A message of dfuse stands  *)
(* for those of all the transactions of a block; the receiver holds it     *)
(* back until one of another block or a live marker comes.                 *)
(***************************************************************************)
EXTENDS BlockLog

CONSTANTS
  MaxNum,          \* bound on block numbers of the chain
  MaxForks,        \* bound on forks
  MaxFaults,       \* bound on restarts, lost connections and reconnections
  MaxUnsaved,      \* messages of dfuse that need not be saved (10 in the code)
  maxBlocksToSend, \* blocks a client asks for at a time
  None             \* no status

ASSUME SubchainAssumption == maxBlocksToSend \in Nat \ {0} /\ MaxUnsaved \in Nat

VARIABLES
  receiver,   \* which receiver the box runs: "ship" or "dfuse"
  chain,      \* the current chain: eosio blocks [num, fork]
  lib,        \* number of the last irreversible block of the chain
  forks,      \* forks so far
  seen,       \* the chain as far as the receiver has been told of it
  unpushed,   \* dfuse: the last message, not yet pushed to the storage, or None
  unsaved,    \* dfuse: how many messages came since they were saved
  saved,      \* dfuse: what replaying the saved messages leads to
  blocksWasm, \* the node that has every block
  stateWasm,  \* the node that is trimmed
  stateFile,  \* the copy of stateWasm clients start from
  status,     \* what the server thinks the client has, or None
  down,       \* messages on their way to the client or in its queue
  up,         \* a status on its way to the server, or None
  connected,  \* whether the client has a connection
  client,     \* the client's node
  faults

chainVars == <<receiver, chain, lib, forks>>
serverVars == <<seen, unpushed, unsaved, saved, blocksWasm, stateWasm, stateFile>>
vars == <<chainVars, serverVars, status, down, up, connected, client, faults>>

-----------------------------------------------------------------------------
(***************************************************************************)
(* The chain.                                                              *)
(***************************************************************************)
last_num(c) == IF c = << >> THEN 0 ELSE c[Len(c)].num

\* A block with transactions of interest; ship delivers the others as well.
next_nums(c) == IF receiver = "ship" THEN {last_num(c) + 1} ELSE {last_num(c) + 1, last_num(c) + 2}

Produce ==
  \E n \in next_nums(chain) :
    /\ n <= MaxNum  \* bound
    /\ chain' = Append(chain, [num |-> n, fork |-> forks])
    /\ UNCHANGED <<receiver, lib, forks, serverVars, status, down, up, connected, client, faults>>

Finalize ==
  /\ \E n \in (lib + 1)..last_num(chain) : lib' = n
  /\ UNCHANGED <<receiver, chain, forks, serverVars, status, down, up, connected, client, faults>>

\* Blocks that are not irreversible are replaced; with dfuse the new ones need not
\* contain anything of interest.
Fork ==
  /\ forks < MaxForks  \* bound
  /\ forks' = forks + 1
  /\ \E k \in 0..(Len(chain) - 1) :
       LET kept == SubSeq(chain, 1, k)
       IN  /\ chain[k + 1].num > lib
           /\ \/ receiver = "dfuse" /\ chain' = kept
              \/ chain' = Append(kept, [num |-> chain[k + 1].num, fork |-> forks'])
  /\ UNCHANGED <<receiver, lib, serverVars, status, down, up, connected, client, faults>>

-----------------------------------------------------------------------------
(***************************************************************************)
(* ConnectionState.update.                                                 *)
(***************************************************************************)
status_head(blocks) == IF blocks = << >> THEN 0 ELSE num(blocks[Len(blocks)])

\* Mutant: blocks the client has are compared by number only.
Mut_has_block(log, block) == num(block) <= head(log)

\* The server's log has the block.
has_block(log, block) == num(block) <= head(log) /\ log[num(block)] = block

\* The status without the blocks at its end that the server does not have.
known_blocks(log, blocks) ==
  LET known == {i \in DOMAIN blocks : has_block(log, blocks[i])}
  IN  SubSeq(blocks, 1, IF known = {} THEN 0 ELSE CHOOSE i \in known : \A j \in known : j <= i)

\* Mutant: the client is told the server's irreversible block even before it has it.
Mut_sent(server, first, k, irreversible) ==
  LET after[i \in first..k] ==
        IF i = first THEN [messages |-> << >>, irreversible |-> irreversible]
        ELSE LET p == after[i - 1]
                 r == server.irreversible
             IN  [messages |-> p.messages
                    \o (IF r > p.irreversible THEN <<[type |-> "setIrreversible", num |-> r]>> ELSE << >>)
                    \o <<[type |-> "block", block |-> getBlock(server, i)]>>,
                  irreversible |-> Max2(r, p.irreversible)]
  IN  after[k]

\* The messages that send blocks first + 1 to k, and the irreversible number sent.
sent(server, first, k, irreversible) ==
  LET after[i \in first..k] ==
        IF i = first THEN [messages |-> << >>, irreversible |-> irreversible]
        ELSE LET p == after[i - 1]
                 r == Min2(server.irreversible, i)
             IN  [messages |-> p.messages \o <<[type |-> "block", block |-> getBlock(server, i)]>>
                    \o IF r > p.irreversible THEN <<[type |-> "setIrreversible", num |-> r]>> ELSE << >>,
                  irreversible |-> Max2(r, p.irreversible)]
  IN  after[k]

\* The messages sent and the status that remains.
updated(server, s) ==
  LET known == known_blocks(server.blocks, s.blocks)
      first == status_head(known)
      k     == Min2(head(server.blocks), first + s.maxBlocksToSend)
      out   == sent(server, first, k, s.irreversible)
      left  == s.maxBlocksToSend - (k - first)
      needHeadUpdate == Len(known) < Len(s.blocks) /\ k = first
  IN  [messages |-> out.messages
         \o (IF needHeadUpdate THEN <<[type |-> "setHead", num |-> first]>> ELSE << >>)
         \o (IF left = 0 THEN <<[type |-> "sendStatus"]>> ELSE << >>),
       status |-> IF left = 0 THEN None
                  ELSE [blocks |-> known \o SubSeq(server.blocks, first + 1, k),
                        irreversible |-> out.irreversible, maxBlocksToSend |-> left]]

\* Mutant: no callback is added, so the next change is not sent.
Mut_update(server, s) ==
  IF ~connected \/ s = None THEN status' = s /\ UNCHANGED down
  ELSE /\ status' = None
       /\ down' = down \o updated(server, s).messages

\* A status is what the server waits with for changes.
update(server, s) ==
  IF ~connected \/ s = None THEN status' = s /\ UNCHANGED down
  ELSE /\ status' = updated(server, s).status
       /\ down' = down \o updated(server, s).messages

-----------------------------------------------------------------------------
(***************************************************************************)
(* The receivers and the storage.                                          *)
(***************************************************************************)
common(c, d) ==
  LET agree == {k \in 0..Min2(Len(c), Len(d)) : SubSeq(c, 1, k) = SubSeq(d, 1, k)}
  IN  SubSeq(c, 1, CHOOSE k \in agree : \A j \in agree : j <= k)

\* pushShipMessage and saveState: the next block of the chain arrives, after the blocks
\* delivered or where the chain has left them, and the state is saved.
pushShipBlock ==
  LET base == common(seen, chain)
      b    == chain[Len(base) + 1]
  IN  /\ receiver = "ship" /\ Len(base) < Len(chain)
      /\ seen' = Append(base, b)
      /\ blocksWasm' = pushShipMessage(blocksWasm, b, lib)
      /\ stateWasm' = trimBlocks(pushShipMessage(stateWasm, b, lib))
      /\ stateFile' = stateWasm'
      /\ update(blocksWasm', status)
      /\ UNCHANGED <<chainVars, unpushed, unsaved, saved, up, connected, client, faults>>

\* With the irreversible number that came with the message.
pushed(node, trx) ==
  IF trx.undo THEN undoEosioNum(node, trx.block.num) ELSE addEosioBlockJson(node, trx.block, trx.irreversibleBlockNum)

\* A message is held back, and what was held back goes to the nodes.
pushTrx(trx) ==
  /\ unpushed' = trx
  /\ IF unpushed = None THEN UNCHANGED <<blocksWasm, stateWasm, status, down>>
     ELSE /\ blocksWasm' = pushed(blocksWasm, unpushed)
          /\ stateWasm' = IF unpushed.undo THEN pushed(stateWasm, unpushed) ELSE trimBlocks(pushed(stateWasm, unpushed))
          /\ update(blocksWasm', status)

\* The messages and the state are saved.
save ==
  /\ saved' = [seen |-> seen', unpushed |-> unpushed', blocksWasm |-> blocksWasm']
  /\ stateFile' = stateWasm'
  /\ unsaved' = 0

\* onMessage with a transaction: of the next block, or of the last one, which is undone.
onTransaction ==
  LET base == common(seen, chain)
      trx(undo, b) == [undo |-> undo, block |-> b, irreversibleBlockNum |-> lib]
  IN  /\ receiver = "dfuse"
      /\ \/ /\ base = seen /\ Len(seen) < Len(chain)
            /\ seen' = Append(seen, chain[Len(seen) + 1])
            /\ pushTrx(trx(FALSE, chain[Len(seen) + 1]))
         \/ /\ base # seen
            /\ seen' = SubSeq(seen, 1, Len(seen) - 1)
            /\ pushTrx(trx(TRUE, seen[Len(seen)]))
      /\ IF unsaved + 1 > MaxUnsaved THEN save ELSE unsaved' = unsaved + 1 /\ UNCHANGED <<saved, stateFile>>
      /\ UNCHANGED <<chainVars, up, connected, client, faults>>

\* onMessage with a live marker, of a later block without transactions of interest.
onMarker ==
  /\ receiver = "dfuse" /\ unpushed # None
  /\ seen' = seen /\ pushTrx(None)
  /\ save
  /\ UNCHANGED <<chainVars, up, connected, client, faults>>

\* The message handler of a connection.
receiveStatus ==
  /\ up # None /\ connected
  /\ update(blocksWasm, up)
  /\ up' = None
  /\ UNCHANGED <<chainVars, serverVars, connected, client, faults>>

-----------------------------------------------------------------------------
(***************************************************************************)
(* The client.                                                             *)
(***************************************************************************)
client_status ==
  [maxBlocksToSend |-> maxBlocksToSend, irreversible |-> client.irreversible,
   blocks |-> SubSeq(client.blocks, lower_bound_by_num(client.blocks, client.irreversible),
                     Len(client.blocks))]

\* processQueue: one message.
process(m) ==
  CASE m.type = "block" -> addBlock(client, m.block, 0)
    [] m.type = "setHead" -> undoBlockNum(client, m.num + 1)
    [] m.type = "setIrreversible" -> trimBlocks(setIrreversible(client, m.num))
    [] m.type = "sendStatus" -> client

processQueue ==
  /\ down # << >>
  /\ down' = Tail(down)
  /\ client' = process(Head(down))
  /\ up' = IF Head(down).type = "sendStatus" /\ connected THEN client_status ELSE up
  /\ UNCHANGED <<chainVars, serverVars, status, connected, faults>>

\* The socket opens and the client sends its status.  Assumed: within the 500 ms that
\* the client waits, it has worked off what it had received.
connect ==
  /\ ~connected /\ down = << >>
  /\ connected' = TRUE
  /\ up' = client_status /\ status' = None
  /\ UNCHANGED <<chainVars, serverVars, down, client, faults>>

-----------------------------------------------------------------------------
(***************************************************************************)
(* Faults.                                                                 *)
(***************************************************************************)
fault == faults < MaxFaults /\ faults' = faults + 1  \* bound

\* What was not yet delivered is lost.
disconnect ==
  /\ connected' = FALSE /\ up' = None /\ status' = None
  /\ \E k \in 0..Len(down) : down' = SubSeq(down, 1, k)

LoseConnection ==
  /\ fault /\ connected
  /\ disconnect
  /\ UNCHANGED <<chainVars, serverVars, client>>

\* Ship rebuilds the nodes from the first block.  DfuseReceiver.start pushes the messages
\* it has saved again, which leads to what there was when they were saved, and asks
\* for those that follow.
start ==
  /\ seen' = saved.seen /\ unpushed' = saved.unpushed /\ unsaved' = 0
  /\ blocksWasm' = saved.blocksWasm
  /\ stateWasm' = IF receiver = "ship" THEN EmptyNode ELSE stateFile
  /\ UNCHANGED <<saved, stateFile>>

RestartServer ==
  /\ fault
  /\ start
  /\ disconnect
  /\ UNCHANGED <<chainVars, client>>

ReconnectShip ==
  /\ fault /\ receiver = "ship"
  /\ seen' = << >>
  /\ UNCHANGED <<chainVars, unpushed, unsaved, saved, blocksWasm, stateWasm, stateFile, status, down, up, connected, client>>

\* instantiateStreaming: the client starts from the state file if it gets it.
RestartClient ==
  /\ fault
  /\ client' \in {stateFile, EmptyNode}
  /\ connected' = FALSE /\ up' = None /\ status' = None /\ down' = << >>
  /\ UNCHANGED <<chainVars, serverVars>>

-----------------------------------------------------------------------------
Init ==
  /\ receiver \in {"ship", "dfuse"}
  /\ chain = << >> /\ lib = 0 /\ forks = 0 /\ seen = << >>
  /\ unpushed = None /\ unsaved = 0 /\ saved = [seen |-> << >>, unpushed |-> None, blocksWasm |-> EmptyNode]
  /\ blocksWasm = EmptyNode /\ stateWasm = EmptyNode /\ stateFile = EmptyNode
  /\ status = None /\ down = << >> /\ up = None /\ connected = FALSE
  /\ client = EmptyNode /\ faults = 0

Next ==
  \/ Produce \/ Finalize \/ Fork
  \/ pushShipBlock \/ onTransaction \/ onMarker \/ receiveStatus
  \/ processQueue \/ connect
  \/ LoseConnection \/ RestartServer \/ ReconnectShip \/ RestartClient

(***************************************************************************)
(* Fairness: the receiver is told of the chain, a live marker comes at     *)
(* last, messages that have been sent are delivered and handled, and the   *)
(* client reconnects.  Each is stated of the one variable that shows the   *)
(* step was taken.                                                         *)
(***************************************************************************)
told ==
  LET base == common(seen, chain)
  IN  \/ /\ receiver = "dfuse" => base = seen
         /\ Len(base) < Len(chain)
         /\ seen' = Append(base, chain[Len(base) + 1])
      \/ /\ receiver = "dfuse" /\ base # seen
         /\ seen' = SubSeq(seen, 1, Len(seen) - 1)

Fairness ==
  /\ WF_seen(told)
  /\ WF_unpushed(unpushed # None /\ unpushed' = None)
  /\ WF_up(up # None /\ connected /\ up' = None)
  /\ WF_down(down # << >> /\ down' = Tail(down))
  /\ WF_connected(~connected /\ down = << >> /\ connected' = TRUE)

Spec == Init /\ [][Next]_vars /\ Fairness

-----------------------------------------------------------------------------
(***************************************************************************)
(* Properties.                                                             *)
(***************************************************************************)
IsPrefix(c, d) == Len(c) <= Len(d) /\ SubSeq(d, 1, Len(c)) = c

IsReplay(node) ==
  /\ node.db = IF node.blocks = << >> THEN << >> ELSE node.blocks[Len(node.blocks)]
  /\ node.revision = Len(node.db)
  /\ node.sessions = [i \in 1..(Len(node.db) - node.irreversible) |->
                        SubSeq(node.db, 1, node.irreversible + i - 1)]

\* In every node the database is the replay of the blocks in its log, the ones trimmed
\* included, and exactly the blocks after the irreversible one can be undone, whatever
\* forks, undo notices, blocks sent twice and restarts came before (add_block,
\* forked_n_blocks and commit in eden-micro-chain.cpp).
NodesReplay == \A node \in {blocksWasm, stateWasm, stateFile, client} : IsReplay(node)

\* What a node calls irreversible is part of the chain for ever: no block of a fork that
\* was abandoned is ever made irreversible, by the box or by a client that was away.
IrreversibleIsFinal ==
  \A node \in {blocksWasm, stateWasm, stateFile, client} :
    node.irreversible <= Len(node.db) /\ IsPrefix(SubSeq(node.db, 1, node.irreversible), chain)

\* Every node, the box's and the clients', stands for the chain: it holds what a replay of
\* its blocks gives, and what it calls irreversible is.
StateIsReplay == NodesReplay /\ IrreversibleIsFinal

\* The server's picture of a client (status.blocks) is right once the client has
\* handled what was sent: the client's database begins with the chain up to the last
\* block the server thinks it has.  Except that a box which starts again from messages of
\* a fork offers its blocks to a client that knows better: the client refuses a block in the
\* place of an irreversible one, which the server does not notice.
BelievedBlocksArrive ==
  status # None /\ down = << >> /\ status.blocks # << >> =>
    LET believed == status.blocks[Len(status.blocks)]
        final    == SubSeq(client.db, 1, client.irreversible)
    IN  IsPrefix(believed, final) \/ IsPrefix(final, believed) => IsPrefix(believed, client.db)

\* Once the chain rests and nothing fails, the client has all of it, through fork,
\* reconnection and restart.  It may keep a block that was undone while the server
\* restarted, until the next block replaces it.
ClientCatchesUp == <>[]IsPrefix(chain, client.db)

=============================================================================
