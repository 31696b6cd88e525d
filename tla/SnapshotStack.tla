--------------------------- MODULE SnapshotStack ---------------------------
(***************************************************************************)
(* What a table of the micro chain's database promises                     *)
(* (libraries/clchain/include/chainbase/undo_index.hpp:370): "Each undo     *)
(* session remembers the state of the table at the point when it was       *)
(* created".  Here a session keeps a copy of the whole table; UndoIndex     *)
(* keeps differences and is shown to implement this.                       *)
(***************************************************************************)
EXTENDS Naturals, Sequences

CONSTANT Value  \* contents of a row; two rows never have the same

VARIABLES
  table,     \* primary key -> value
  next_id,   \* primary key of the next row
  sessions,  \* the tables and next keys remembered, the oldest first
  revision   \* the number of the newest session

vars == <<table, next_id, sessions, revision>>

Init == table = << >> /\ next_id = 0 /\ sessions = << >> /\ revision = 0

Create(v) ==
  /\ \A i \in DOMAIN table : table[i] # v
  /\ table' = [i \in DOMAIN table \cup {next_id} |-> IF i = next_id THEN v ELSE table[i]]
  /\ next_id' = next_id + 1
  /\ UNCHANGED <<sessions, revision>>

Modify(id, v) ==
  /\ \A i \in DOMAIN table \ {id} : table[i] # v
  /\ table' = [table EXCEPT ![id] = v]
  /\ UNCHANGED <<next_id, sessions, revision>>

Remove(id) ==
  /\ table' = [i \in DOMAIN table \ {id} |-> table[i]]
  /\ UNCHANGED <<next_id, sessions, revision>>

Start ==
  /\ sessions' = Append(sessions, [table |-> table, next_id |-> next_id])
  /\ revision' = revision + 1
  /\ UNCHANGED <<table, next_id>>

\* Back to what the newest session remembers.
Undo ==
  LET last == sessions[Len(sessions)]
  IN  /\ sessions # << >>
      /\ table' = last.table /\ next_id' = last.next_id
      /\ sessions' = SubSeq(sessions, 1, Len(sessions) - 1)
      /\ revision' = revision - 1

\* The newest session becomes part of the one below it.
Squash ==
  /\ sessions # << >>
  /\ sessions' = SubSeq(sessions, 1, Len(sessions) - 1)
  /\ revision' = revision - 1
  /\ UNCHANGED <<table, next_id>>

\* Sessions up to a revision can no longer be undone.
Commit(r) ==
  /\ sessions' = SubSeq(sessions, Len(sessions) - (revision - r) + 1, Len(sessions))
  /\ UNCHANGED <<table, next_id, revision>>

SetRevision ==
  /\ sessions = << >> /\ revision' >= revision
  /\ UNCHANGED <<table, next_id, sessions>>

Next ==
  \/ \E v \in Value : Create(v)
  \/ \E id \in DOMAIN table, v \in Value : Modify(id, v)
  \/ \E id \in DOMAIN table : Remove(id)
  \/ Start
  \/ Undo
  \/ Squash
  \/ \E r \in (revision - Len(sessions))..revision : Commit(r)
  \/ SetRevision

Spec == Init /\ [][Next]_vars

=============================================================================
