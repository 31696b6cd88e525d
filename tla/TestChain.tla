------------------------------ MODULE TestChain ------------------------------
(***************************************************************************)
(* The test chains of cltester: the host's side (programs/cltester), which *)
(* drives a controller of nodeos per chain, and the class test_chain that  *)
(* a test uses (libraries/eosiolib/tester).                                *)
(*                                                                         *)
(* The controller is external: a block under construction, a head, and a   *)
(* database with nested undo sessions.  An intrinsic_context, through      *)
(* which a test reads tables, holds such a session open, so that closing   *)
(* it undoes everything that happened to the database since it opened.     *)
(* A failed check of the host ends the test; it is a guard here.           *)
(***************************************************************************)
EXTENDS Integers, Sequences, FiniteSets, FiniteSetsExt, TLC

CONSTANTS
  Objects,      \* test_chain objects a test may have
  Keys,         \* keys of the account
  Skips,        \* milliseconds a test may skip
  MaxSlot,      \* bound on time, in slots of block_interval
  MaxTrx,       \* bound on transactions of a chain
  MaxHeads,     \* bound on the sum of two chains' heads
  MaxCreated,   \* bound on chains
  None          \* no chain, object, block, context or cached info

block_interval == 500 \* milliseconds

VARIABLES
  chains,       \* state::chains, by position from 1; None where destroyed
  selected,     \* state::selected_chain_index, or None
  objects,      \* the test's objects: [id, head_block_info], or None
  created,      \* chains created so far
  chosen        \* which of the created chains table reads were last directed to

vars == <<chains, selected, objects, created, chosen>>

-----------------------------------------------------------------------------
(***************************************************************************)
(* The host's test_chain.                                                  *)
(***************************************************************************)
slot_of(ms) == ms \div block_interval

\* A chain from the genesis has its first block started; one from a snapshot
\* continues from the snapshot's head.
new_chain(uid, snapshot, k) ==
  [uid |-> uid, control |-> TRUE,
   head |-> IF snapshot THEN 2 ELSE 1, time |-> IF snapshot THEN 1 ELSE 0,
   pending |-> IF snapshot THEN None ELSE 1, trx |-> {},
   db |-> [trx |-> {}, deferred |-> {}, key |-> k], ctx |-> None,
   prev_block |-> None, history |-> << >>]

\* The context's session is undone.
mutating(c) == IF c.ctx = None THEN c ELSE [c EXCEPT !.db = c.ctx, !.ctx = None]

\* commit_block: the pending block is the head, and its history is kept.
on_accepted_block(c) ==
  [c EXCEPT !.head = @ + 1, !.time = c.pending, !.pending = None, !.trx = {},
            !.history = (c.head + 1 :> [prev |-> c.prev_block, trx |-> c.trx]) @@ @,
            !.prev_block = c.head + 1]

start_if_needed(c) ==
  LET d == mutating(c)
  IN  IF d.pending = None
      THEN [d EXCEPT !.pending = slot_of(d.time * block_interval + block_interval)] ELSE d

finish_block(c) == on_accepted_block(start_if_needed(c))

\* The controller refuses a block that is not later than the head.
start_block(c, skip) ==
  LET d == mutating(c)
      e == IF d.pending # None THEN finish_block(d) ELSE d
      when == slot_of(e.time * block_interval + skip + block_interval)
  IN  IF when <= e.time THEN {} ELSE {[e EXCEPT !.pending = when]}

get_apply_context(c) ==
  IF c.ctx # None THEN c ELSE LET d == start_if_needed(c) IN [d EXCEPT !.ctx = d.db]

\* push_transaction: the controller applies the transaction to the pending
\* block, or refuses it; it may leave a deferred transaction due in `due`.
applied(c, n, due) ==
  [c EXCEPT !.trx = @ \union {n}, !.db.trx = @ \union {n}, !.db.deferred = @ \union due]

next_trx(c) == Cardinality(c.db.trx) + 1

\* by_delay: the deferred transaction that is due first.
exec_deferred(c) ==
  LET d == start_if_needed(c)
      due == {x \in d.db.deferred : x <= d.pending /\ \A y \in d.db.deferred : x <= y}
  IN  IF due = {} THEN d
      ELSE applied([d EXCEPT !.db.deferred = @ \ due], next_trx(d), {})

\* tester_get_history; None stands for the largest block number.
get_history(c, n) ==
  IF n = None /\ c.history # << >> THEN {c.history[Max(DOMAIN c.history)]}
  ELSE {c.history[x] : x \in {n} \intersect DOMAIN c.history}

-----------------------------------------------------------------------------
(***************************************************************************)
(* The functions a test calls, through an object o.  live(o) is            *)
(* assert_chain with require_control.                                      *)
(***************************************************************************)
exists(i) == i \in DOMAIN chains /\ chains[i] # None

live(o) == objects[o] # None /\ exists(objects[o].id) /\ chains[objects[o].id].control

chain(o) == chains[objects[o].id]

\* Bounds, the last on chains that exist together.
bounded(i, c) ==
  /\ c.time <= MaxSlot /\ Cardinality(c.db.trx) <= MaxTrx
  /\ c.pending # None => c.pending <= MaxSlot
  /\ \A j \in DOMAIN chains \ {i} : exists(j) => c.head + chains[j].head <= MaxHeads

\* The cached head_block_info is kept, or forgotten.
update(o, c, info) ==
  /\ bounded(objects[o].id, c)
  /\ chains' = [chains EXCEPT ![objects[o].id] = c]
  /\ objects' = [objects EXCEPT ![o].head_block_info = info]
  /\ UNCHANGED <<selected, created, chosen>>

head_info(c) == [num |-> c.head, time |-> c.time]

info_of(o) ==
  IF objects[o].head_block_info # None THEN objects[o].head_block_info ELSE head_info(chain(o))

\* fill_tapos with expire_sec = 1, in milliseconds; seconds are truncated.
expiration(info) == ((info.time * block_interval) \div 1000 + 1) * 1000

\* The constructor: tester_create_chain2.
create(o, snapshot) ==
  /\ created < MaxCreated  \* bound
  /\ objects[o] = None
  /\ \E k \in Keys : chains' = Append(chains, new_chain(created + 1, snapshot, k))
  /\ created' = created + 1
  /\ objects' = [objects EXCEPT ![o] = [id |-> Len(chains) + 1, head_block_info |-> None]]
  /\ IF Len(chains) = 0 THEN selected' = 1 /\ chosen' = created + 1
     ELSE UNCHANGED <<selected, chosen>>

\* Positions at the end that hold no chain are given back.
pop_back(s) ==
  LET held == {i \in DOMAIN s : s[i] # None}
  IN  SubSeq(s, 1, IF held = {} THEN 0 ELSE Max(held))

\* The destructor: tester_destroy_chain.
destroy(o) ==
  /\ objects[o] # None
  /\ chains' = pop_back([chains EXCEPT ![objects[o].id] = None])
  /\ objects' = [objects EXCEPT ![o] = None]
  /\ selected' = IF selected = objects[o].id THEN None ELSE selected
  /\ UNCHANGED <<created, chosen>>

shutdown(o) ==
  /\ live(o)
  /\ chains' = [chains EXCEPT ![objects[o].id].control = FALSE]
  /\ UNCHANGED <<selected, objects, created, chosen>>

tester_select_chain_for_db(o) ==
  /\ live(o)
  /\ selected' = objects[o].id
  /\ chosen' = chain(o).uid
  /\ UNCHANGED <<chains, objects, created>>

\* Any db_ function: selected() must find a chain.
read_table ==
  /\ selected # None /\ exists(selected) /\ chains[selected].control
  /\ LET c == get_apply_context(chains[selected])
     IN  bounded(selected, c) /\ chains' = [chains EXCEPT ![selected] = c]
  /\ UNCHANGED <<selected, objects, created, chosen>>

\* The database is changed where it is, in the context's session if one is open.
replace_account_keys(o) ==
  \E k \in Keys :
    /\ live(o)
    /\ chain(o).db.key # k
    /\ update(o, [chain(o) EXCEPT !.db.key = k], objects[o].head_block_info)

Mut_start_block_skip(o, skip) ==
  live(o) /\ \E c \in start_block(chain(o), skip) : update(o, c, None)

\* A block just before the skipped one gives fill_tapos a recent block.
start_block_skip(o, skip) ==
  /\ live(o)
  /\ IF skip >= 500
     THEN \E c \in start_block(chain(o), skip - 500) :
            \E d \in start_block(c, 0) : update(o, d, None)
     ELSE \E c \in start_block(chain(o), skip) : update(o, c, None)

\* start_block(time_point): the head's time is read after the block is finished.
start_block_at(o, slot) ==
  LET c == finish_block(chain(o))
      skip == (slot - c.time) * block_interval - 500
  IN  /\ live(o)
      /\ IF skip >= 500
         THEN \E d \in start_block(c, skip - 500) : \E e \in start_block(d, 0) : update(o, e, None)
         ELSE \E d \in start_block(c, skip) : update(o, d, None)

finish(o) == live(o) /\ update(o, finish_block(chain(o)), None)

get_head_block_info(o) ==
  live(o) /\ objects[o].head_block_info = None /\ update(o, chain(o), info_of(o))

\* transact: make_transaction caches the head's info, then the transaction is
\* pushed; the controller refuses it when it is expired or its actions fail.
transact(o) ==
  /\ live(o)
  /\ \E c \in {start_if_needed(chain(o))} :
       \/ /\ expiration(info_of(o)) >= c.pending * block_interval
          /\ \E due \in {{}, {c.pending + 1}} :
               update(o, applied(c, next_trx(c), due), info_of(o))
       \/ update(o, c, info_of(o))

deferred(o) == live(o) /\ update(o, exec_deferred(chain(o)), objects[o].head_block_info)

Init ==
  /\ chains = << >> /\ selected = None
  /\ objects = [o \in Objects |-> None]
  /\ created = 0 /\ chosen = None

Next ==
  \/ read_table
  \/ \E o \in Objects :
       \/ \E snapshot \in BOOLEAN : create(o, snapshot)
       \/ destroy(o)
       \/ shutdown(o)
       \/ tester_select_chain_for_db(o)
       \/ replace_account_keys(o)
       \/ \E skip \in Skips : start_block_skip(o, skip)
       \/ \E slot \in 1..MaxSlot : start_block_at(o, slot)
       \/ finish(o)
       \/ get_head_block_info(o)
       \/ transact(o)
       \/ deferred(o)

Spec == Init /\ [][Next]_vars

-----------------------------------------------------------------------------
(***************************************************************************)
(* Properties.                                                             *)
(***************************************************************************)

\* A transaction made now names the head of the chain and is not expired in
\* the block it goes into, whatever blocks were skipped and whatever info the
\* object cached (test_chain::start_block and fill_tapos).
TaposFresh ==
  \A o \in Objects : live(o) =>
    /\ info_of(o) = head_info(chain(o))
    /\ expiration(info_of(o)) >= start_if_needed(chain(o)).pending * block_interval

\* Reading tables takes nothing back: when the session of an open context is
\* undone, the database has exactly the transactions of the chain's blocks and
\* of the block under construction (mutating before every change).
ReadsLoseNothing ==
  \A i \in DOMAIN chains : exists(i) =>
    LET c == chains[i]
    IN  mutating(c).db.trx = UNION {c.history[n].trx : n \in DOMAIN c.history} \union c.trx

\* Table reads go to the chain they were last directed to, never to a chain
\* that was given the position of a destroyed one (tester_destroy_chain).
ReadsTheChosenChain ==
  selected # None => exists(selected) /\ chains[selected].uid = chosen

\* The history is one chain of blocks that ends at the head, none missing, and
\* no transaction is in two of them (on_accepted_block).
HistoryLinked ==
  \A i \in DOMAIN chains : exists(i) =>
    LET c == chains[i]
        blocks == DOMAIN c.history
    IN  /\ get_history(c, None) # {} => get_history(c, c.head) = get_history(c, None)
        /\ \A n \in blocks :
             /\ c.history[n].prev = IF n - 1 \in blocks THEN n - 1 ELSE None
             /\ n + 1 \in blocks \/ n = c.head
             /\ \A p \in blocks \ {n} : c.history[n].trx \intersect c.history[p].trx = {}

\* "Replace the keys of an account" (tester.hpp:203).  Does not hold: a key that is replaced
\* while a context is open is lost with its session.
KeysStay ==
  \A i \in DOMAIN chains : exists(i) => mutating(chains[i]).db.key = chains[i].db.key

=============================================================================
