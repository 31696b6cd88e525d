----------------------------- MODULE UndoIndex -----------------------------
(***************************************************************************)
(* A table of the micro chain's database with its undo stack               *)
(* (libraries/clchain/include/chainbase/undo_index.hpp, and the session    *)
(* calls that chainbase.hpp forwards to every table).                      *)
(*                                                                         *)
(* A session remembers positions in two lists of differences.  The lists   *)
(* are singly linked and grow at the front.  Here a list is a function     *)
(* from nodes to their contents; a node is a number, the larger the nearer *)
(* to the front, and a position is the node that was the front when the    *)
(* session began, 0 when there was none.                                   *)
(*                                                                         *)
(* A row's value stands for the keys of its secondary indices, which are   *)
(* all unique.  A failed check aborts the module and marks the instance    *)
(* corrupt (EdenSubchain.ts, protect), so an operation that would violate  *)
(* uniqueness is no step.                                                  *)
(***************************************************************************)
EXTENDS Integers, Sequences, FiniteSetsExt

CONSTANTS
  Value,       \* contents of a row
  MaxId,       \* bound on rows created
  MaxSessions, \* bound on sessions open at a time
  MaxTime      \* bound on sessions begun

VARIABLES
  items,          \* the rows: id -> [val, mtime]
  old_values,     \* rows before a modification: node -> [id, val, mtime]
  removed_values, \* rows removed: node -> [id, val, mtime]
  undo_stack,     \* [old_values_end, removed_values_end, old_next_id, ctime]
  next_id,
  revision,
  monotonic_revision,
  began           \* history: the table and next key with which each open session began

vars == <<items, old_values, removed_values, undo_stack, next_id, revision, monotonic_revision,
          began>>

\* The table as its readers see it.
table == [id \in DOMAIN items |-> items[id].val]

top == undo_stack[Len(undo_stack)]

lists_unchanged == UNCHANGED <<old_values, removed_values>>
stack_unchanged == UNCHANGED <<undo_stack, revision, monotonic_revision, began>>

\* insert_impl and post_modify find no other row with the same key.
unique(v, others) == \A i \in others : items[i].val # v

\* The content of a row as a list keeps it.
copy(id) == [id |-> id, val |-> items[id].val, mtime |-> items[id].mtime]

front(list) == IF DOMAIN list = {} THEN 0 ELSE Max(DOMAIN list)

push_front(list, c) ==
  [k \in DOMAIN list \cup {front(list) + 1} |-> IF k = front(list) + 1 THEN c ELSE list[k]]

\* The nodes that are newer than a position, and what is left of a list when only some stay.
since(list, end) == {k \in DOMAIN list : k > end}
only(list, nodes) == [k \in nodes |-> list[k]]

-----------------------------------------------------------------------------
(***************************************************************************)
(* Rows.                                                                   *)
(***************************************************************************)
\* on_create records the time of creation only within a session.
emplace(v) ==
  /\ next_id < MaxId  \* bound
  /\ unique(v, DOMAIN items)
  /\ items' = [i \in DOMAIN items \cup {next_id} |->
                 IF i = next_id
                 THEN [val |-> v, mtime |-> IF undo_stack = << >> THEN 0 ELSE monotonic_revision]
                 ELSE items[i]]
  /\ next_id' = next_id + 1
  /\ lists_unchanged /\ stack_unchanged

\* Mutant: a row is copied once per stack instead of once per session.
Mut_needs_copy(id) == undo_stack # << >> /\ items[id].mtime < undo_stack[1].ctime

\* on_modify: the newest session has no copy of the row yet.
needs_copy(id) == undo_stack # << >> /\ items[id].mtime < top.ctime

modify(id, v) ==
  /\ unique(v, DOMAIN items \ {id})
  /\ IF needs_copy(id)
     THEN /\ old_values' = push_front(old_values, copy(id))
          /\ items' = [items EXCEPT ![id] = [val |-> v, mtime |-> monotonic_revision]]
     ELSE /\ items' = [items EXCEPT ![id].val = v]
          /\ UNCHANGED old_values
  /\ UNCHANGED <<removed_values, next_id>> /\ stack_unchanged

\* on_remove: rows that are new in the newest session are forgotten at once.
remove(id) ==
  /\ items' = [i \in DOMAIN items \ {id} |-> items[i]]
  /\ removed_values' = IF undo_stack = << >> \/ id >= top.old_next_id THEN removed_values
                       ELSE push_front(removed_values, copy(id))
  /\ UNCHANGED <<old_values, next_id>> /\ stack_unchanged

-----------------------------------------------------------------------------
(***************************************************************************)
(* Sessions.                                                               *)
(***************************************************************************)
add_session ==
  /\ Len(undo_stack) < MaxSessions /\ monotonic_revision < MaxTime  \* bounds
  /\ undo_stack' = Append(undo_stack, [old_values_end     |-> front(old_values),
                                      removed_values_end |-> front(removed_values),
                                      old_next_id        |-> next_id,
                                      ctime              |-> monotonic_revision + 1])
  /\ monotonic_revision' = monotonic_revision + 1
  /\ revision' = revision + 1
  /\ began' = Append(began, [table |-> table, next_id |-> next_id])
  /\ UNCHANGED <<items, next_id>> /\ lists_unchanged

drop_last(s) == SubSeq(s, 1, Len(s) - 1)

\* The copies newer than a position of a row as it was before a time.  There is one at
\* most; the code puts them back newest first, so that the oldest would win.
copies(end, time, id) ==
  {k \in since(old_values, end) : old_values[k].id = id /\ old_values[k].mtime < time}

\* The nodes of rows removed since a session began that existed before it.
removals(session) ==
  {k \in since(removed_values, session.removed_values_end) :
     removed_values[k].id < session.old_next_id}

\* Rows that are new disappear, rows that were removed return, and copies made since the
\* newest session began are put back.
kept == {id \in DOMAIN items : id < top.old_next_id}
back == {removed_values[k].id : k \in removals(top)}

restored(id) ==
  LET row(c) == [val |-> c.val, mtime |-> c.mtime]
      of     == copies(top.old_values_end, top.ctime, id)
  IN  IF of # {} THEN row(old_values[Min(of)])
      ELSE IF id \in kept THEN items[id]
      ELSE row(removed_values[CHOOSE k \in removals(top) : removed_values[k].id = id])

undo ==
  /\ undo_stack # << >>
  /\ items' = [id \in kept \cup back |-> restored(id)]
  /\ old_values' = only(old_values, DOMAIN old_values \ since(old_values, top.old_values_end))
  /\ removed_values' = only(removed_values,
                             DOMAIN removed_values \ since(removed_values, top.removed_values_end))
  /\ undo_stack' = drop_last(undo_stack)
  /\ next_id' = top.old_next_id
  /\ revision' = revision - 1
  /\ began' = drop_last(began)
  /\ UNCHANGED monotonic_revision

\* Of what the newest session holds, drops what is redundant for session: copies of
\* rows that session has or that are new in it, and rows removed that are new in it.  The
\* copy of a removed row takes the removed row's place.
gone == {removed_values[k].id : k \in DOMAIN removed_values}

redundant_copies(session) ==
  {k \in since(old_values, top.old_values_end) :
     old_values[k].mtime >= session.ctime \/ old_values[k].id \in gone}

redundant_removals(session) ==
  {k \in since(removed_values, top.removed_values_end) :
     removed_values[k].id >= session.old_next_id}

original(session, k) ==
  LET of == copies(top.old_values_end, session.ctime, removed_values[k].id)
  IN  IF of = {} THEN removed_values[k] ELSE old_values[Min(of)]

compress_impl(session) ==
  /\ old_values' = only(old_values, DOMAIN old_values \ redundant_copies(session))
  /\ removed_values' = [k \in DOMAIN removed_values \ redundant_removals(session) |->
                          original(session, k)]

squash ==
  /\ undo_stack # << >>
  /\ IF Len(undo_stack) >= 2 THEN compress_impl(undo_stack[Len(undo_stack) - 1])
     ELSE old_values' = << >> /\ removed_values' = << >>
  /\ undo_stack' = drop_last(undo_stack)
  /\ revision' = revision - 1
  /\ began' = drop_last(began)
  /\ UNCHANGED <<items, next_id, monotonic_revision>>

\* last_undo_session compresses before it reports the differences.
last_undo_session ==
  /\ undo_stack # << >>
  /\ compress_impl(top)
  /\ UNCHANGED <<items, next_id>> /\ stack_unchanged

\* dispose frees a list after a position, and leaves the element at the position.
dispose(list, end) == only(list, {k \in DOMAIN list : k >= end})

commit(r) ==
  LET later == revision - r
      first == undo_stack[Len(undo_stack) - later + 1]
  IN  /\ IF r >= revision
         THEN undo_stack' = << >> /\ old_values' = << >> /\ removed_values' = << >> /\ began' = << >>
         ELSE /\ later < Len(undo_stack)
              /\ old_values' = dispose(old_values, first.old_values_end)
              /\ removed_values' = dispose(removed_values, first.removed_values_end)
              /\ undo_stack' = SubSeq(undo_stack, Len(undo_stack) - later + 1, Len(undo_stack))
              /\ began' = SubSeq(began, Len(began) - later + 1, Len(began))
      /\ UNCHANGED <<items, next_id, revision, monotonic_revision>>

set_revision(r) ==
  /\ undo_stack = << >> /\ r >= revision
  /\ r <= MaxTime  \* bound
  /\ revision' = r
  /\ UNCHANGED <<items, next_id, undo_stack, monotonic_revision, began>> /\ lists_unchanged

-----------------------------------------------------------------------------
Init ==
  /\ items = << >> /\ next_id = 0
  /\ old_values = << >> /\ removed_values = << >>
  /\ undo_stack = << >> /\ revision = 0 /\ monotonic_revision = 0
  /\ began = << >>

Next ==
  \/ \E v \in Value : emplace(v)
  \/ \E id \in DOMAIN items, v \in Value : modify(id, v)
  \/ \E id \in DOMAIN items : remove(id)
  \/ add_session
  \/ undo
  \/ squash
  \/ last_undo_session
  \/ \E r \in 0..revision : commit(r)
  \/ set_revision(revision + 1)

Spec == Init /\ [][Next]_vars

-----------------------------------------------------------------------------
Snapshots == INSTANCE SnapshotStack WITH sessions <- began

\* Differences are as good as copies: however creations, modifications, removals, undo,
\* squash, compression and commits of old sessions follow one another, each
\* session restores the table it began with, and nothing but its undo changes
\* what a session remembers.
SessionsRemember == Snapshots!Spec

=============================================================================
