------------------------------- MODULE Tables -------------------------------
(***************************************************************************)
(* The table library of the contracts (eosio::multi_index, singleton) over *)
(* the database of the chain: one table with one secondary index, read and *)
(* written in one transaction through several multi_index objects, as the  *)
(* Eden contract does (members{get_self()} in an action and again in what  *)
(* the action calls).                                                      *)
(*                                                                         *)
(* Each object caches the rows it has met and never looks at them again.   *)
(* A row is abstracted to its secondary key; the host's iterators to the   *)
(* identity of the row (index row) they denote, which a removal ends.  A   *)
(* failed check aborts the transaction: the rows are as before it and its  *)
(* objects are gone.                                                       *)
(***************************************************************************)
EXTENDS Integers, Sequences, FiniteSets, SequencesExt, FiniteSetsExt

CONSTANTS
  Instance,  \* the multi_index objects of a transaction
  Sec,       \* values of the secondary key
  MaxKey,    \* the largest primary key, 2^64 - 1 in the code
  Legacy,    \* primary keys of rows older than the secondary index
  MaxBorn,   \* bound on the rows ever stored
  MaxItems   \* bound on the rows an object caches

VARIABLES
  rows,      \* primary key -> the row: its identity and its secondary key
  idx,       \* primary key -> the index row
  tab,       \* object -> the rows it has cached and _next_primary_key
  committed, \* the rows and the index when the transaction began
  born,      \* how many identities have been given
  migrated,  \* next_primary_key of migrate_member_v0, or all_migrated
  stale,     \* object -> the rows others have written since it cached them
  tainted    \* rows modified through a stale copy

vars == <<rows, idx, tab, committed, born, migrated, stale, tainted>>

Key == 0 .. MaxKey

\* enum next_primary_key_tags
unset_next_primary_key == MaxKey
no_available_primary_key == MaxKey - 1

none == [id |-> 0, sec |-> 0]
all_migrated == MaxKey + 1

-----------------------------------------------------------------------------
(* The host's database. *)

stored == {k \in Key : rows[k] # none}
indexed == {k \in Key : idx[k] # none}

\* The row an iterator denotes; a removed row is nobody's.
row_of(itr) == {k \in Key : itr # 0 /\ rows[k].id = itr}

\* db_idx_find_primary: the iterator of a row's index row, or none.
db_idx_find_primary(k) == idx[k].id

\* db_lowerbound and db_upperbound in primary order.
db_lowerbound(k) == {j \in stored : j >= k /\ \A l \in stored : l >= k => j <= l}
db_upperbound(k) == {j \in stored : j > k /\ \A l \in stored : l > k => j <= l}
db_previous(k) == {j \in stored : j < k /\ \A l \in stored : l < k => l <= j}

\* The order of the secondary index: by key, then by primary key.
idx_before(j, k) == idx[j].sec < idx[k].sec \/ (idx[j].sec = idx[k].sec /\ j < k)
db_idx_next(k) ==
  {j \in indexed : idx_before(k, j) /\ \A l \in indexed : idx_before(k, l) => l = j \/ idx_before(j, l)}
db_idx_previous(k) ==
  {j \in indexed : idx_before(j, k) /\ \A l \in indexed : idx_before(l, k) => l = j \/ idx_before(l, j)}
db_idx_lowerbound(s) ==
  {j \in indexed : idx[j].sec >= s /\ \A l \in indexed : idx[l].sec >= s => l = j \/ idx_before(j, l)}

-----------------------------------------------------------------------------
(* The objects. *)

new_table == [items |-> << >>, next |-> unset_next_primary_key]

\* The cached copy of a row with a given iterator, the latest first.
cached_itr(t, itr) == {n \in DOMAIN t.items : t.items[n].itr = itr}
cached_key(t, k) == {n \in DOMAIN t.items : t.items[n].pk = k}

item(k, sitr) == [pk |-> k, sec |-> rows[k].sec, itr |-> rows[k].id, sitr |-> sitr]

\* load_object_by_primary_iterator: the copy, read only if there is none.
load(t, k) ==
  IF cached_itr(t, rows[k].id) # {} THEN t
  ELSE [t EXCEPT !.items = Append(@, item(k, 0))]

\* find looks for the key among the copies first.
find(t, k) == IF cached_key(t, k) # {} \/ k \notin stored THEN t ELSE load(t, k)

\* Where find's result is cached, if it is.
found(t, k) == IF cached_key(t, k) = {} THEN {} ELSE {Max(cached_key(t, k))}

\* A secondary iterator remembers where the index row is.
remember(t, k) ==
  LET f == find(t, k) IN
  [f EXCEPT !.items = [n \in DOMAIN @ |->
     IF n \in found(f, k) THEN [@[n] EXCEPT !.sitr = idx[k].id] ELSE @[n]]]

\* _next_primary_key after a row k has been written.
next_after(next, k) ==
  IF k >= next THEN IF k >= no_available_primary_key THEN no_available_primary_key ELSE k + 1
  ELSE next

others_write(i, id) ==
  stale' = [j \in Instance |-> IF j = i THEN stale[j] ELSE stale[j] \cup {id}]

\* A check fails: the transaction is undone.
abort ==
  /\ rows' = committed.rows /\ idx' = committed.idx /\ migrated' = committed.migrated
  /\ tainted' = committed.tainted
  /\ tab' = [i \in Instance |-> new_table] /\ stale' = [i \in Instance |-> {}]
  /\ UNCHANGED <<committed, born>>

\* The transaction ends: its objects are destroyed.
commit ==
  /\ committed' = [rows |-> rows, idx |-> idx, migrated |-> migrated, tainted |-> tainted]
  /\ tab' = [i \in Instance |-> new_table] /\ stale' = [i \in Instance |-> {}]
  /\ UNCHANGED <<rows, idx, born, migrated, tainted>>

-----------------------------------------------------------------------------
(* Reading. *)

reads(i, t) ==
  /\ tab' = [tab EXCEPT ![i] = t]
  /\ t # tab[i]
  /\ Len(t.items) <= MaxItems
  /\ UNCHANGED <<rows, idx, committed, born, migrated, stale, tainted>>

get(i, k) == IF k \in stored \/ cached_key(tab[i], k) # {} THEN reads(i, find(tab[i], k)) ELSE abort

lower_bound(i, k) == \E j \in db_lowerbound(k) : reads(i, load(tab[i], j))
upper_bound(i, k) == \E j \in db_upperbound(k) : reads(i, load(tab[i], j))

\* ++ and -- of a primary iterator that denotes the n-th copy.
increment(i, n) ==
  IF row_of(tab[i].items[n].itr) = {} THEN abort
  ELSE \E k \in row_of(tab[i].items[n].itr) : \E j \in db_upperbound(k) : reads(i, load(tab[i], j))
decrement(i, n) ==
  IF row_of(tab[i].items[n].itr) = {} THEN abort
  ELSE \E k \in row_of(tab[i].items[n].itr) :
         IF db_previous(k) = {} THEN abort ELSE \E j \in db_previous(k) : reads(i, load(tab[i], j))
decrement_end(i) == IF stored = {} THEN abort ELSE reads(i, load(tab[i], Max(stored)))

\* The same through the secondary index; the copy's own index row is looked up by its key.
idx_lower_bound(i, s) == \E j \in db_idx_lowerbound(s) : reads(i, remember(tab[i], j))
idx_step(i, n, forward) ==
  LET it == tab[i].items[n]
      at == IF it.sitr # 0 THEN {k \in Key : idx[k].id = it.sitr} ELSE {it.pk} \cap indexed
  IN  IF at = {} THEN abort
      ELSE \E k \in at :
             LET to == IF forward THEN db_idx_next(k) ELSE db_idx_previous(k) IN
             IF to = {} /\ ~forward THEN abort ELSE \E j \in to : reads(i, remember(tab[i], j))

\* available_primary_key: one more than the largest key, when first asked.
available_primary_key(i) ==
  LET t == IF stored = {} THEN tab[i] ELSE load(load(tab[i], Min(stored)), Max(stored))
      last == IF stored = {} THEN unset_next_primary_key
              ELSE LET n == Max(cached_itr(t, rows[Max(stored)].id)) IN t.items[n].pk
      next == IF tab[i].next # unset_next_primary_key THEN tab[i].next
              ELSE IF stored = {} THEN 0
              ELSE IF last >= no_available_primary_key THEN no_available_primary_key ELSE last + 1
  IN  IF next < no_available_primary_key
      THEN reads(i, [(IF tab[i].next = unset_next_primary_key THEN t ELSE tab[i]) EXCEPT !.next = next])
      ELSE abort

-----------------------------------------------------------------------------
(* Writing. *)

\* db_store refuses a key that is there; the row and its index row are new.
emplace(i, k, s) ==
  /\ born + 2 <= MaxBorn
  /\ IF k \in stored THEN abort
     ELSE /\ Len(tab[i].items) < MaxItems
          /\ rows' = [rows EXCEPT ![k] = [id |-> born + 1, sec |-> s]]
          /\ idx' = [idx EXCEPT ![k] = [id |-> born + 2, sec |-> s]]
          /\ born' = born + 2
          /\ tab' = [tab EXCEPT ![i].next = next_after(@, k),
                                ![i].items = Append(@, [pk |-> k, sec |-> s, itr |-> born + 1, sitr |-> born + 2])]
          /\ others_write(i, born + 1)
          /\ UNCHANGED <<committed, migrated, tainted>>

\* The index row of a copy: the one it remembers, or the one under its key.
index_row(it) == IF it.sitr # 0 THEN it.sitr ELSE db_idx_find_primary(it.pk)

\* The object after the n-th copy has been written.
Mut_written(t, n, s, sitr) ==
  [t EXCEPT !.next = next_after(@, t.items[n].pk), !.items[n].sitr = sitr]
written(t, n, s, sitr) ==
  [t EXCEPT !.next = next_after(@, t.items[n].pk), !.items[n].sec = s, !.items[n].sitr = sitr]

\* modify writes the whole copy t.items[n], and the index only if the copy's key changes.
modify(i, t, n, s) ==
  LET it == t.items[n]
      at == row_of(it.itr)
      sitr == index_row(it)
  IN  IF at = {} THEN abort
      ELSE \E k \in at :
        /\ rows' = [rows EXCEPT ![k].sec = s]
        /\ \/ /\ s = it.sec
              /\ tab' = [tab EXCEPT ![i] = written(t, n, s, it.sitr)]
              /\ UNCHANGED <<idx, born>>
           \/ /\ s # it.sec /\ sitr # 0
              /\ idx' = [idx EXCEPT ![k].sec = s]
              /\ tab' = [tab EXCEPT ![i] = written(t, n, s, sitr)]
              /\ UNCHANGED born
           \/ /\ s # it.sec /\ sitr = 0 /\ born < MaxBorn
              /\ idx' = [idx EXCEPT ![k] = [id |-> born + 1, sec |-> s]]
              /\ born' = born + 1
              /\ tab' = [tab EXCEPT ![i] = written(t, n, s, born + 1)]
        /\ others_write(i, it.itr)
        /\ tainted' = IF it.itr \in stale[i] THEN tainted \cup {it.itr} ELSE tainted
        /\ UNCHANGED <<committed, migrated>>

\* erase: the row, the index row it finds, and the latest copy with this key.
erase(i, t, n) ==
  LET it == t.items[n]
      at == row_of(it.itr)
      sitr == index_row(it)
  IN  IF at = {} THEN abort
      ELSE /\ rows' = [k \in Key |-> IF k \in at THEN none ELSE rows[k]]
           /\ idx' = [k \in Key |-> IF sitr # 0 /\ idx[k].id = sitr THEN none ELSE idx[k]]
           /\ tab' = [tab EXCEPT ![i] = [t EXCEPT !.items = RemoveAt(@, Max(cached_key(t, it.pk)))]]
           /\ others_write(i, it.itr)
           /\ UNCHANGED <<committed, born, migrated, tainted>>

\* singleton::set and set_table_row: modify what is found, else store.
set(i, k, s) ==
  \E t \in {find(tab[i], k)} :
    /\ Len(t.items) <= MaxItems
    /\ IF found(t, k) = {} THEN emplace(i, k, s) ELSE \E n \in found(t, k) : modify(i, t, n, s)

\* singleton::remove
remove(i, k) ==
  \E t \in {find(tab[i], k)} : \E n \in found(t, k) : Len(t.items) <= MaxItems /\ erase(i, t, n)

\* clear_table removes the rows under every object's copies.
clear_table ==
  /\ stored # {}
  /\ rows' = [k \in Key |-> none] /\ idx' = [k \in Key |-> none]
  /\ UNCHANGED <<tab, committed, born, migrated, stale, tainted>>

\* Where update_index goes on.
next_to_index == db_lowerbound(migrated)

\* update_index, one step of its loop: index the next row that has no index row.  After the
\* largest key next_primary_key is 0 again, which means complete.
update_index(i) ==
  /\ migrated # all_migrated
  /\ IF next_to_index = {}
     THEN migrated' = all_migrated /\ UNCHANGED <<rows, idx, tab, committed, born, stale, tainted>>
     ELSE \E k \in next_to_index :
       LET t == load(tab[i], k) IN
       /\ Len(t.items) <= MaxItems
       /\ tab' = [tab EXCEPT ![i] = t]
       /\ migrated' = IF k = MaxKey THEN all_migrated ELSE k + 1
       /\ IF idx[k] # none THEN UNCHANGED <<idx, born>>
          ELSE /\ born < MaxBorn
               /\ idx' = [idx EXCEPT ![k] =
                    [id |-> born + 1, sec |-> t.items[Max(cached_itr(t, rows[k].id))].sec]]
               /\ born' = born + 1
       /\ UNCHANGED <<rows, committed, stale, tainted>>

-----------------------------------------------------------------------------
Init ==
  /\ \E old \in [Legacy -> Sec] :
       rows = [k \in Key |-> IF k \in Legacy THEN [id |-> k + 1, sec |-> old[k]] ELSE none]
  /\ idx = [k \in Key |-> none]
  /\ migrated = 0 /\ born = MaxKey + 1 /\ tainted = {}
  /\ committed = [rows |-> rows, idx |-> idx, migrated |-> migrated, tainted |-> tainted]
  /\ tab = [i \in Instance |-> new_table]
  /\ stale = [i \in Instance |-> {}]

Reading(i) ==
  \/ \E k \in Key : get(i, k) \/ lower_bound(i, k) \/ upper_bound(i, k)
  \/ \E n \in DOMAIN tab[i].items :
       increment(i, n) \/ decrement(i, n) \/ idx_step(i, n, TRUE) \/ idx_step(i, n, FALSE)
  \/ decrement_end(i)
  \/ available_primary_key(i)
  \/ \E s \in Sec : idx_lower_bound(i, s)

Writing(i) ==
  \/ \E k \in Key, s \in Sec : emplace(i, k, s) \/ set(i, k, s)
  \/ \E n \in DOMAIN tab[i].items : erase(i, tab[i], n) \/ \E s \in Sec : modify(i, tab[i], n, s)
  \/ \E k \in Key : remove(i, k)
  \/ update_index(i)

Next ==
  \/ \E i \in Instance : Reading(i) \/ Writing(i)
  \/ clear_table
  \/ commit

Spec == Init /\ [][Next]_vars

-----------------------------------------------------------------------------
(* Properties *)

\* A copy is what is stored, unless another object has written the row since
\* it was cached: load_object_by_primary_iterator and find never read twice.
CopiesFresh ==
  \A i \in Instance : \A n \in DOMAIN tab[i].items :
    \A k \in row_of(tab[i].items[n].itr) :
      tab[i].items[n].itr \notin stale[i] => tab[i].items[n].sec = rows[k].sec

\* Every row is indexed under its key, and every index row has a row, unless
\* the row was modified through a stale copy (modify compares the new key
\* with the copy's, not with the stored one) or waits for update_index.
IndexFollowsRows ==
  /\ indexed \subseteq stored
  /\ \A k \in indexed : rows[k].id \notin tainted => idx[k].sec = rows[k].sec
  /\ \A k \in stored \ indexed : k \in Legacy /\ rows[k].id = k + 1

\* Once update_index has been through the table every row is indexed, whatever
\* was stored, modified and erased between its batches.
MigrationIndexesAll == migrated = all_migrated => stored = indexed

\* The key available_primary_key hands out is free, unless another object has
\* stored rows since the object computed it.
AvailableKeyFree ==
  \A i \in Instance : \A k \in stored :
    (k = tab[i].next /\ tab[i].next < no_available_primary_key) => rows[k].id \in stale[i]

=============================================================================
