-------------------------- MODULE UndoIndex_proofs --------------------------
(***************************************************************************)
(* UndoIndex implements SnapshotStack.  The inductive invariant says, for   *)
(* every open session and not only for the newest, that the differences     *)
(* made since it began determine the table that it began with.             *)
(***************************************************************************)
EXTENDS UndoIndex, WellFoundedInduction, TLAPS

Row == [val : Value, mtime : Nat]
Copy == [id : Nat, val : Value, mtime : Nat]
Session == [old_values_end : Nat, removed_values_end : Nat, old_next_id : Nat, ctime : Nat]
Snapshot == [table : UNION {[S -> Value] : S \in SUBSET Nat}, next_id : Nat]

\* A list of differences: its nodes are positive and there is a last one.
IsList(list) ==
  /\ DOMAIN list \subseteq Nat \ {0}
  /\ list \in [DOMAIN list -> Copy]
  /\ \E n \in Nat : \A k \in DOMAIN list : k <= n

UndoTypeOK ==
  /\ DOMAIN items \subseteq Nat /\ items \in [DOMAIN items -> Row]
  /\ IsList(old_values) /\ IsList(removed_values)
  /\ undo_stack \in Seq(Session)
  /\ next_id \in Nat /\ revision \in Nat /\ monotonic_revision \in Nat
  /\ began \in Seq(Snapshot)
  /\ Len(began) = Len(undo_stack) /\ Len(undo_stack) <= revision

\* Sessions are ordered as they began, and their positions are nodes that are still there.
SessionsOrdered ==
  /\ \A j \in DOMAIN undo_stack :
       /\ undo_stack[j].old_values_end \in DOMAIN old_values \cup {0}
       /\ undo_stack[j].removed_values_end \in DOMAIN removed_values \cup {0}
       /\ undo_stack[j].old_next_id <= next_id
       /\ undo_stack[j].ctime <= monotonic_revision
  /\ \A i, j \in DOMAIN undo_stack :
       i < j => /\ undo_stack[i].old_values_end <= undo_stack[j].old_values_end
                /\ undo_stack[i].removed_values_end <= undo_stack[j].removed_values_end
                /\ undo_stack[i].old_next_id <= undo_stack[j].old_next_id
                /\ undo_stack[i].ctime < undo_stack[j].ctime

\* A primary key exists at most once, in the main table or among the removed values, and no
\* key is ahead of the next one, now or when a session began.
KeysOnce ==
  /\ \A id \in DOMAIN items : id < next_id /\ items[id].mtime <= monotonic_revision
  /\ \A k \in DOMAIN removed_values :
       /\ removed_values[k].id < next_id /\ removed_values[k].id \notin DOMAIN items
       /\ removed_values[k].mtime <= monotonic_revision
       /\ \A l \in DOMAIN removed_values : removed_values[l].id = removed_values[k].id => l = k
       /\ \A j \in DOMAIN undo_stack :
            k <= undo_stack[j].removed_values_end => removed_values[k].id < undo_stack[j].old_next_id
  /\ \A k \in DOMAIN old_values :
       /\ old_values[k].id < next_id /\ old_values[k].mtime <= monotonic_revision
       /\ \A j \in DOMAIN undo_stack :
            k <= undo_stack[j].old_values_end => old_values[k].id < undo_stack[j].old_next_id

\* The rows that a session can tell of, with their contents now: those of the main table and
\* those removed since it began.
present(j) ==
  {copy(id) : id \in DOMAIN items}
    \cup {removed_values[k] : k \in since(removed_values, undo_stack[j].removed_values_end)}

\* A row's modification time tells whether it has changed since a session began: what comes
\* after a copy is not older than the session, and what is not older than the session comes
\* after a copy that is.
CopiedOnce(j) ==
  LET u == undo_stack[j]
      C == since(old_values, u.old_values_end)
  IN  /\ \A k \in C : \A c \in present(j) : c.id = old_values[k].id => c.mtime >= u.ctime
      /\ \A k, l \in C : k < l /\ old_values[k].id = old_values[l].id => old_values[l].mtime >= u.ctime
      /\ \A c \in present(j) : c.id < u.old_next_id /\ c.mtime >= u.ctime =>
           \E k \in C : old_values[k].id = c.id /\ old_values[k].mtime < u.ctime
      /\ \A l \in C : old_values[l].id < u.old_next_id /\ old_values[l].mtime >= u.ctime =>
           \E k \in C : k < l /\ old_values[k].id = old_values[l].id /\ old_values[k].mtime < u.ctime
      /\ \A k \in C : \A r \in DOMAIN removed_values \ since(removed_values, u.removed_values_end) :
           removed_values[r].id # old_values[k].id

\* The table a session began with: the copies that are older than the session and the rows
\* that have not changed since.
Remembered(j) ==
  LET u == undo_stack[j]
      b == began[j]
  IN  /\ b.next_id = u.old_next_id
      /\ DOMAIN b.table = {c.id : c \in {d \in present(j) : d.id < u.old_next_id}}
      /\ \A k \in since(old_values, u.old_values_end) :
           old_values[k].id \in DOMAIN b.table /\ old_values[k].mtime < u.ctime =>
             b.table[old_values[k].id] = old_values[k].val
      /\ \A c \in present(j) :
           c.id \in DOMAIN b.table /\ c.mtime < u.ctime => b.table[c.id] = c.val

IInv ==
  /\ UndoTypeOK /\ SessionsOrdered /\ KeysOnce
  /\ \A j \in DOMAIN undo_stack : CopiedOnce(j) /\ Remembered(j)

-----------------------------------------------------------------------------
\* A bounded set of numbers that is not empty has a greatest element.
LEMMA MaxExists ==
  ASSUME NEW S \in SUBSET Nat, S # {}, NEW n \in Nat, \A k \in S : k <= n
  PROVE  Max(S) \in S /\ \A k \in S : k <= Max(S)
<1> DEFINE T == {m \in Nat : \A k \in S : k <= m}
<1>1. PICK m \in T : \A l \in T : ~(<<l, m>> \in OpToRel(<, Nat))
  <2>1. T \subseteq Nat /\ T # {}
    OBVIOUS
  <2> QED
    BY <2>1, WFMin, NatLessThanWellFounded
<1>2. \A l \in T : ~(l < m)
  BY <1>1 DEF OpToRel
<1>3. m \in S
  <2> SUFFICES ASSUME m \notin S PROVE FALSE
    OBVIOUS
  <2>1. PICK k \in S : TRUE
    OBVIOUS
  <2>2. m - 1 \in T
    <3>1. m # 0
      BY <2>1
    <3> QED
      BY <3>1
  <2> QED
    BY <1>2, <2>2
<1>4. \E x \in S : \A y \in S : x >= y
  BY <1>3
<1> QED
  BY <1>4 DEF Max

LEMMA FrontIsLast ==
  ASSUME NEW list, IsList(list)
  PROVE  /\ front(list) \in Nat
         /\ front(list) \in DOMAIN list \cup {0}
         /\ \A k \in DOMAIN list : k <= front(list)
<1>1. CASE DOMAIN list = {}
  BY <1>1 DEF front
<1>2. CASE DOMAIN list # {}
  <2>1. PICK n \in Nat : \A k \in DOMAIN list : k <= n
    BY DEF IsList
  <2>2. DOMAIN list \in SUBSET Nat
    BY DEF IsList
  <2>3. Max(DOMAIN list) \in DOMAIN list /\ \A k \in DOMAIN list : k <= Max(DOMAIN list)
    BY <1>2, <2>1, <2>2, MaxExists
  <2> QED
    BY <1>2, <2>2, <2>3 DEF front
<1> QED
  BY <1>1, <1>2

\* Pushing a copy on a list.
LEMMA PushFront ==
  ASSUME NEW list, IsList(list), NEW c \in Copy
  PROVE  /\ IsList(push_front(list, c))
         /\ front(list) + 1 \in Nat /\ front(list) + 1 \notin DOMAIN list
         /\ \A k \in DOMAIN list : k < front(list) + 1
         /\ DOMAIN push_front(list, c) = DOMAIN list \cup {front(list) + 1}
         /\ push_front(list, c)[front(list) + 1] = c
         /\ \A k \in DOMAIN list : push_front(list, c)[k] = list[k]
<1>1. /\ front(list) \in Nat
      /\ \A k \in DOMAIN list : k <= front(list)
  BY FrontIsLast
<1>2. /\ DOMAIN list \subseteq Nat \ {0}
      /\ list \in [DOMAIN list -> Copy]
  BY DEF IsList
<1> DEFINE f == front(list) + 1
           p == push_front(list, c)
<1>3. f \in Nat \ {0} /\ f \notin DOMAIN list /\ \A k \in DOMAIN list : k < f
  BY <1>1, <1>2
<1>4. p = [k \in DOMAIN list \cup {f} |-> IF k = f THEN c ELSE list[k]]
  BY DEF push_front
<1>5. DOMAIN p = DOMAIN list \cup {f} /\ p[f] = c /\ \A k \in DOMAIN list : p[k] = list[k]
  BY <1>3, <1>4
<1>6. IsList(p)
  <2>1. p \in [DOMAIN p -> Copy]
    BY <1>2, <1>4, <1>5
  <2>2. \A k \in DOMAIN p : k <= f
    BY <1>2, <1>3, <1>5
  <2> QED
    BY <1>2, <1>3, <1>5, <2>1, <2>2 DEF IsList
<1> QED
  BY <1>3, <1>5, <1>6

\* What is left of a list is a list.
LEMMA OnlyIsList ==
  ASSUME NEW list, IsList(list), NEW S \in SUBSET DOMAIN list
  PROVE  /\ IsList(only(list, S)) /\ DOMAIN only(list, S) = S
         /\ \A k \in S : only(list, S)[k] = list[k]
BY DEF IsList, only

LEMMA TypesOfParts ==
  ASSUME UndoTypeOK
  PROVE  /\ \A id \in DOMAIN items : id \in Nat /\ items[id] \in Row /\ copy(id) \in Copy
         /\ \A k \in DOMAIN old_values : k \in Nat \ {0} /\ old_values[k] \in Copy
         /\ \A k \in DOMAIN removed_values : k \in Nat \ {0} /\ removed_values[k] \in Copy
         /\ \A j \in DOMAIN undo_stack : j \in Nat \ {0} /\ undo_stack[j] \in Session
         /\ \A j \in DOMAIN undo_stack : j \in DOMAIN began /\ began[j] \in Snapshot
<1>1. \A id \in DOMAIN items : id \in Nat /\ items[id] \in Row /\ copy(id) \in Copy
  BY DEF UndoTypeOK, copy, Row, Copy
<1>2. /\ \A k \in DOMAIN old_values : k \in Nat \ {0} /\ old_values[k] \in Copy
      /\ \A k \in DOMAIN removed_values : k \in Nat \ {0} /\ removed_values[k] \in Copy
  BY DEF UndoTypeOK, IsList
<1>3. \A j \in DOMAIN undo_stack : j \in Nat \ {0} /\ undo_stack[j] \in Session
  BY DEF UndoTypeOK
<1>4. \A j \in DOMAIN undo_stack : j \in DOMAIN began /\ began[j] \in Snapshot
  BY DEF UndoTypeOK
<1> QED
  BY <1>1, <1>2, <1>3, <1>4

\* The rows that a session can tell of have types, and their keys determine them.
LEMMA PresentRows ==
  ASSUME UndoTypeOK, KeysOnce, NEW j \in DOMAIN undo_stack
  PROVE  /\ \A id \in DOMAIN items :
              /\ copy(id) \in present(j) /\ copy(id).id = id
              /\ copy(id).val = items[id].val /\ copy(id).mtime = items[id].mtime
         /\ \A c \in present(j) : c \in Copy
         /\ \A c \in present(j) : c.id \in DOMAIN items => c = copy(c.id)
         /\ \A c \in present(j) : c.id \notin DOMAIN items =>
              \E k \in since(removed_values, undo_stack[j].removed_values_end) : c = removed_values[k]
<1>1. \A id \in DOMAIN items :
        /\ copy(id) \in present(j) /\ copy(id).id = id
        /\ copy(id).val = items[id].val /\ copy(id).mtime = items[id].mtime
  BY DEF present, copy
<1>2. ASSUME NEW c \in present(j)
      PROVE  \/ \E id \in DOMAIN items : c = copy(id)
             \/ \E k \in since(removed_values, undo_stack[j].removed_values_end) : c = removed_values[k]
  BY <1>2 DEF present
<1>3. \A k \in since(removed_values, undo_stack[j].removed_values_end) : k \in DOMAIN removed_values
  BY DEF since
<1>4. \A c \in present(j) : c \in Copy
  BY <1>2, <1>3, TypesOfParts
<1>5. \A c \in present(j) : c.id \in DOMAIN items => c = copy(c.id)
  BY <1>1, <1>2, <1>3 DEF KeysOnce
<1>6. \A c \in present(j) : c.id \notin DOMAIN items =>
        \E k \in since(removed_values, undo_stack[j].removed_values_end) : c = removed_values[k]
  BY <1>1, <1>2
<1> QED
  BY <1>1, <1>4, <1>5, <1>6

\* The newest session is the last of the order.
LEMMA TopIsNewest ==
  ASSUME UndoTypeOK, SessionsOrdered, undo_stack # << >>
  PROVE  /\ Len(undo_stack) \in DOMAIN undo_stack /\ top \in Session
         /\ \A j \in DOMAIN undo_stack :
              /\ j <= Len(undo_stack)
              /\ undo_stack[j].old_values_end <= top.old_values_end
              /\ undo_stack[j].removed_values_end <= top.removed_values_end
              /\ undo_stack[j].old_next_id <= top.old_next_id
              /\ undo_stack[j].ctime <= top.ctime
         /\ top.ctime <= monotonic_revision /\ top.old_next_id <= next_id
<1>1. Len(undo_stack) \in DOMAIN undo_stack /\ \A j \in DOMAIN undo_stack : j \in Nat /\ j <= Len(undo_stack)
  BY DEF UndoTypeOK
<1>2. top = undo_stack[Len(undo_stack)] /\ top \in Session
  BY <1>1, TypesOfParts DEF top
<1>3. top.ctime <= monotonic_revision /\ top.old_next_id <= next_id
  BY <1>1, <1>2 DEF SessionsOrdered
<1>4. ASSUME NEW j \in DOMAIN undo_stack
      PROVE  /\ undo_stack[j].old_values_end <= top.old_values_end
             /\ undo_stack[j].removed_values_end <= top.removed_values_end
             /\ undo_stack[j].old_next_id <= top.old_next_id
             /\ undo_stack[j].ctime <= top.ctime
  <2>1. CASE j = Len(undo_stack)
    BY <1>2, <2>1 DEF Session
  <2>2. CASE j < Len(undo_stack)
    BY <1>1, <1>2, <2>2, TypesOfParts DEF SessionsOrdered, Session
  <2> QED
    BY <1>1, <2>1, <2>2
<1> QED
  BY <1>1, <1>2, <1>3, <1>4

-----------------------------------------------------------------------------
LEMMA EmplaceKeeps ==
  ASSUME IInv, NEW v \in Value, emplace(v)
  PROVE  IInv'
<1> DEFINE t == IF undo_stack = << >> THEN 0 ELSE monotonic_revision
           new == [id |-> next_id, val |-> v, mtime |-> t]
<1>0. /\ UndoTypeOK /\ SessionsOrdered /\ KeysOnce
      /\ \A j \in DOMAIN undo_stack : CopiedOnce(j) /\ Remembered(j)
  BY DEF IInv
<1>1. /\ items' = [i \in DOMAIN items \cup {next_id} |-> IF i = next_id THEN [val |-> v, mtime |-> t] ELSE items[i]]
      /\ next_id' = next_id + 1
      /\ UNCHANGED <<old_values, removed_values, undo_stack, revision, monotonic_revision, began>>
  BY DEF emplace, lists_unchanged, stack_unchanged
<1>2. /\ next_id \in Nat /\ monotonic_revision \in Nat /\ t \in Nat /\ t <= monotonic_revision
      /\ next_id \notin DOMAIN items
  BY <1>0 DEF UndoTypeOK, KeysOnce
<1>3. /\ DOMAIN items' = DOMAIN items \cup {next_id}
      /\ items'[next_id] = [val |-> v, mtime |-> t]
      /\ \A i \in DOMAIN items : items'[i] = items[i]
  BY <1>1, <1>2
<1>4. UndoTypeOK'
  <2>1. DOMAIN items' \subseteq Nat /\ items' \in [DOMAIN items' -> Row]
    BY <1>0, <1>1, <1>2 DEF UndoTypeOK, Row
  <2> QED
    BY <1>0, <1>1, <1>2, <2>1 DEF UndoTypeOK
<1>5. SessionsOrdered'
  BY <1>0, <1>1, <1>2, TypesOfParts DEF SessionsOrdered, Session
<1>6. KeysOnce'
  BY <1>0, <1>1, <1>2, <1>3, TypesOfParts DEF KeysOnce, Row, Copy
<1>7. ASSUME NEW j \in DOMAIN undo_stack PROVE CopiedOnce(j)' /\ Remembered(j)'
  <2>0. undo_stack # << >> /\ t = monotonic_revision
    OBVIOUS
  <2>1. present(j)' = present(j) \cup {new}
    <3>1. \A id \in DOMAIN items' : copy(id)' = IF id = next_id THEN new ELSE copy(id)
      BY <1>2, <1>3 DEF copy
    <3>2. {copy(id)' : id \in DOMAIN items'} = {copy(id) : id \in DOMAIN items} \cup {new}
      BY <1>2, <1>3, <3>1
    <3> QED
      BY <1>1, <3>2 DEF present, since
  <2>2. CopiedOnce(j)'
    BY <1>0, <1>1, <1>2, <2>0, <2>1, TypesOfParts DEF CopiedOnce, since, KeysOnce, SessionsOrdered, Copy, Session
  <2>3. Remembered(j)'
    <3>1. ~(next_id < undo_stack[j].old_next_id)
      BY <1>0, <1>2, TypesOfParts DEF SessionsOrdered, Session
    <3>2. new.id = next_id
      OBVIOUS
    <3>3. {d \in present(j)' : d.id < undo_stack[j].old_next_id} = {d \in present(j) : d.id < undo_stack[j].old_next_id}
      BY <2>1, <3>1, <3>2
    <3>4. ~(t < undo_stack[j].ctime)
      BY <1>0, <1>2, <2>0, TypesOfParts DEF SessionsOrdered, Session
    <3> QED
      BY <1>0, <1>1, <2>1, <3>3, <3>4 DEF Remembered, since
  <2> QED
    BY <2>2, <2>3
<1> QED
  BY <1>1, <1>4, <1>5, <1>6, <1>7 DEF IInv

LEMMA ModifyKeeps ==
  ASSUME IInv, NEW id \in DOMAIN items, NEW v \in Value, modify(id, v)
  PROVE  IInv'
<1> DEFINE t == IF needs_copy(id) THEN monotonic_revision ELSE items[id].mtime
           new == [id |-> id, val |-> v, mtime |-> t]
           f == front(old_values) + 1
<1>0. /\ UndoTypeOK /\ SessionsOrdered /\ KeysOnce
      /\ \A j \in DOMAIN undo_stack : CopiedOnce(j) /\ Remembered(j)
  BY DEF IInv
<1>1. /\ items' = [items EXCEPT ![id] = [val |-> v, mtime |-> t]]
      /\ UNCHANGED <<removed_values, next_id, undo_stack, revision, monotonic_revision, began>>
      /\ old_values' = IF needs_copy(id) THEN push_front(old_values, copy(id)) ELSE old_values
  <2>1. items[id] \in Row
    BY <1>0, TypesOfParts
  <2>2. [items[id] EXCEPT !.val = v] = [val |-> v, mtime |-> items[id].mtime]
    BY <2>1 DEF Row
  <2>3. [items EXCEPT ![id].val = v] = [items EXCEPT ![id] = [items[id] EXCEPT !.val = v]]
    BY <1>0 DEF UndoTypeOK
  <2> QED
    BY <2>2, <2>3 DEF modify, stack_unchanged
<1>2. id \in Nat /\ items[id] \in Row /\ copy(id) \in Copy
  BY <1>0, TypesOfParts
<1>3. /\ monotonic_revision \in Nat /\ t \in Nat /\ t <= monotonic_revision
      /\ new \in Copy /\ new.id = id /\ new.mtime = t /\ [val |-> v, mtime |-> t] \in Row
  BY <1>0, <1>2 DEF UndoTypeOK, KeysOnce, Row, Copy
<1>4. /\ DOMAIN items' = DOMAIN items /\ items'[id] = [val |-> v, mtime |-> t]
      /\ \A i \in DOMAIN items : i # id => items'[i] = items[i]
  BY <1>0, <1>1 DEF UndoTypeOK
<1>5. /\ f \in Nat /\ f \notin DOMAIN old_values /\ \A k \in DOMAIN old_values : k < f
      /\ \A j \in DOMAIN undo_stack : undo_stack[j].old_values_end < f
      /\ IsList(old_values')
      /\ DOMAIN old_values' = IF needs_copy(id) THEN DOMAIN old_values \cup {f} ELSE DOMAIN old_values
      /\ needs_copy(id) => old_values'[f] = copy(id)
      /\ \A k \in DOMAIN old_values : old_values'[k] = old_values[k]
  <2>1. IsList(old_values)
    BY <1>0 DEF UndoTypeOK
  <2>2. /\ f \in Nat /\ f \notin DOMAIN old_values /\ f # 0 /\ \A k \in DOMAIN old_values : k < f
    <3>1. front(old_values) \in Nat /\ \A k \in DOMAIN old_values : k \in Nat /\ k <= front(old_values)
      BY <1>0, <2>1, FrontIsLast, TypesOfParts
    <3> QED
      BY <3>1
  <2>3. \A j \in DOMAIN undo_stack : undo_stack[j].old_values_end < f
    BY <1>0, <2>2, TypesOfParts DEF SessionsOrdered, Session
  <2> QED
    BY <1>1, <1>2, <2>1, <2>2, <2>3, PushFront
<1>6. UndoTypeOK'
  <2>1. DOMAIN items' \subseteq Nat /\ items' \in [DOMAIN items' -> Row]
    BY <1>0, <1>1, <1>3, <1>4 DEF UndoTypeOK
  <2> QED
    BY <1>0, <1>1, <1>5, <2>1 DEF UndoTypeOK
<1>7. SessionsOrdered'
  BY <1>0, <1>1, <1>5 DEF SessionsOrdered
<1>8. KeysOnce'
  <2>1. \A i \in DOMAIN items' : i < next_id' /\ items'[i].mtime <= monotonic_revision'
    BY <1>0, <1>1, <1>3, <1>4 DEF KeysOnce
  <2>2. copy(id).id = id /\ copy(id).mtime = items[id].mtime
    BY DEF copy
  <2>3. ASSUME NEW k \in DOMAIN old_values'
        PROVE  /\ old_values'[k].id < next_id' /\ old_values'[k].mtime <= monotonic_revision'
               /\ \A j \in DOMAIN undo_stack' :
                    k <= undo_stack'[j].old_values_end => old_values'[k].id < undo_stack'[j].old_next_id
    <3>1. CASE k \in DOMAIN old_values
      BY <1>0, <1>1, <1>5, <3>1 DEF KeysOnce
    <3>2. CASE k = f
      BY <1>0, <1>1, <1>5, <2>2, <3>2, TypesOfParts DEF KeysOnce, Session
    <3> QED
      BY <1>5, <3>1, <3>2
  <2> QED
    BY <1>0, <1>1, <1>4, <2>1, <2>3 DEF KeysOnce
<1>9. ASSUME NEW j \in DOMAIN undo_stack PROVE CopiedOnce(j)' /\ Remembered(j)'
  <2> DEFINE u == undo_stack[j]
             C == since(old_values, u.old_values_end)
             P == present(j) \ {copy(id)}
  <2>0. /\ u \in Session /\ u' = u /\ t >= u.ctime
        /\ ~needs_copy(id) => items[id].mtime >= u.ctime
    <3>1. undo_stack # << >>
      OBVIOUS
    <3>2. /\ top \in Session /\ u.ctime <= top.ctime /\ top.ctime <= monotonic_revision
      BY <1>0, <3>1, TopIsNewest
    <3>3. u \in Session /\ u' = u /\ items[id] \in Row
      BY <1>0, <1>1, <1>2, TypesOfParts
    <3>4. u.ctime \in Int /\ top.ctime \in Int /\ items[id].mtime \in Int
      BY <3>2, <3>3 DEF Session, Row
    <3>5. ~needs_copy(id) => items[id].mtime >= top.ctime
      BY <3>1, <3>4 DEF needs_copy
    <3> HIDE DEF u
    <3> QED
      BY <1>0, <1>1, <1>2, <1>3, <3>2, <3>3, <3>4, <3>5
  <2>1. present(j)' = P \cup {new}
    <3>1. \A i \in DOMAIN items' : copy(i)' = IF i = id THEN new ELSE copy(i)
      BY <1>4 DEF copy
    <3>2. {copy(i)' : i \in DOMAIN items'} = ({copy(i) : i \in DOMAIN items} \ {copy(id)}) \cup {new}
      <4>1. \A i \in DOMAIN items : copy(i) = copy(id) => i = id
        BY DEF copy
      <4> QED
        BY <1>4, <3>1, <4>1
    <3>3. \A k \in DOMAIN removed_values : removed_values[k] # copy(id)
      BY <1>0 DEF copy, KeysOnce
    <3> QED
      BY <1>1, <3>2, <3>3 DEF present, since
  <2>2. /\ copy(id) \in present(j) /\ copy(id).id = id
        /\ copy(id).val = items[id].val /\ copy(id).mtime = items[id].mtime
        /\ \A c \in P : c \in present(j) /\ c \in Copy /\ c.id # id
    BY <1>0, PresentRows
  <2>3. /\ since(old_values', u.old_values_end) = IF needs_copy(id) THEN C \cup {f} ELSE C
        /\ \A k \in C : k \in Nat /\ k < f /\ old_values[k] \in Copy /\ old_values'[k] = old_values[k]
    BY <1>0, <1>5, TypesOfParts DEF since
  <2>4. CopiedOnce(j)'
    <3> DEFINE D == since(old_values', u.old_values_end)
    <3>1. \A k \in D : \A c \in present(j)' : c.id = old_values'[k].id => c.mtime >= u.ctime
      BY <1>0, <1>3, <1>5, <2>0, <2>1, <2>2, <2>3 DEF CopiedOnce
    <3>2. \A k, l \in D : k < l /\ old_values'[k].id = old_values'[l].id => old_values'[l].mtime >= u.ctime
      BY <1>0, <1>5, <2>0, <2>2, <2>3 DEF CopiedOnce
    <3>3. \A c \in present(j)' : c.id < u.old_next_id /\ c.mtime >= u.ctime =>
            \E k \in D : old_values'[k].id = c.id /\ old_values'[k].mtime < u.ctime
      BY <1>0, <1>2, <1>3, <1>5, <2>0, <2>1, <2>2, <2>3 DEF CopiedOnce, Session, Row
    <3>4. \A l \in D : old_values'[l].id < u.old_next_id /\ old_values'[l].mtime >= u.ctime =>
            \E k \in D : k < l /\ old_values'[k].id = old_values'[l].id /\ old_values'[k].mtime < u.ctime
      BY <1>0, <1>5, <2>0, <2>2, <2>3 DEF CopiedOnce
    <3>5. \A k \in D : \A r \in DOMAIN removed_values \ since(removed_values, u.removed_values_end) :
            removed_values[r].id # old_values'[k].id
      BY <1>0, <1>5, <2>2, <2>3 DEF CopiedOnce, KeysOnce
    <3> QED
      BY <1>1, <3>1, <3>2, <3>3, <3>4, <3>5 DEF CopiedOnce, since
  <2>5. Remembered(j)'
    <3> DEFINE b == began[j]
    <3>1. {c.id : c \in {d \in present(j)' : d.id < u.old_next_id}} = {c.id : c \in {d \in present(j) : d.id < u.old_next_id}}
      BY <1>3, <2>1, <2>2
    <3>2. \A k \in since(old_values', u.old_values_end) :
            old_values'[k].id \in DOMAIN b.table /\ old_values'[k].mtime < u.ctime =>
              b.table[old_values'[k].id] = old_values'[k].val
      BY <1>0, <1>5, <2>2, <2>3 DEF Remembered
    <3>3. \A c \in present(j)' : c.id \in DOMAIN b.table /\ c.mtime < u.ctime => b.table[c.id] = c.val
      BY <1>0, <1>3, <2>0, <2>1, <2>2 DEF Remembered, Session
    <3>4. b' = b /\ b.next_id = u.old_next_id
          /\ DOMAIN b.table = {c.id : c \in {d \in present(j) : d.id < u.old_next_id}}
      BY <1>0, <1>1 DEF Remembered
    <3> QED
      BY <1>1, <3>1, <3>2, <3>3, <3>4 DEF Remembered
  <2> QED
    BY <2>4, <2>5
<1> QED
  BY <1>1, <1>6, <1>7, <1>8, <1>9 DEF IInv

LEMMA RemoveKeeps ==
  ASSUME IInv, NEW id \in DOMAIN items, remove(id)
  PROVE  IInv'
<1> DEFINE forgotten == undo_stack = << >> \/ id >= top.old_next_id
           f == front(removed_values) + 1
<1>0. /\ UndoTypeOK /\ SessionsOrdered /\ KeysOnce
      /\ \A j \in DOMAIN undo_stack : CopiedOnce(j) /\ Remembered(j)
  BY DEF IInv
<1>1. /\ items' = [i \in DOMAIN items \ {id} |-> items[i]]
      /\ UNCHANGED <<old_values, next_id, undo_stack, revision, monotonic_revision, began>>
      /\ removed_values' = IF forgotten THEN removed_values ELSE push_front(removed_values, copy(id))
  BY DEF remove, stack_unchanged
<1>2. /\ id \in Nat /\ id < next_id /\ next_id \in Nat /\ items[id] \in Row /\ copy(id) \in Copy
      /\ copy(id).id = id /\ copy(id).mtime = items[id].mtime
      /\ items[id].mtime <= monotonic_revision
  BY <1>0, TypesOfParts DEF UndoTypeOK, KeysOnce, copy
<1>4. /\ DOMAIN items' = DOMAIN items \ {id}
      /\ \A i \in DOMAIN items' : items'[i] = items[i]
  BY <1>1
<1>5. /\ f \in Nat /\ f \notin DOMAIN removed_values /\ \A k \in DOMAIN removed_values : k < f
      /\ \A j \in DOMAIN undo_stack : undo_stack[j].removed_values_end < f
      /\ IsList(removed_values')
      /\ DOMAIN removed_values' = IF forgotten THEN DOMAIN removed_values ELSE DOMAIN removed_values \cup {f}
      /\ ~forgotten => removed_values'[f] = copy(id)
      /\ \A k \in DOMAIN removed_values : removed_values'[k] = removed_values[k]
  <2>1. IsList(removed_values)
    BY <1>0 DEF UndoTypeOK
  <2>2. /\ f \in Nat /\ f \notin DOMAIN removed_values /\ f # 0 /\ \A k \in DOMAIN removed_values : k < f
    <3>1. front(removed_values) \in Nat /\ \A k \in DOMAIN removed_values : k \in Nat /\ k <= front(removed_values)
      BY <1>0, <2>1, FrontIsLast, TypesOfParts
    <3> QED
      BY <3>1
  <2>3. \A j \in DOMAIN undo_stack : undo_stack[j].removed_values_end < f
    BY <1>0, <2>2, TypesOfParts DEF SessionsOrdered, Session
  <2>4. CASE forgotten
    <3>1. removed_values' = removed_values
      BY <1>1, <2>4
    <3> QED
      BY <2>1, <2>2, <2>3, <2>4, <3>1
  <2>5. CASE ~forgotten
    <3>1. removed_values' = push_front(removed_values, copy(id))
      BY <1>1, <2>5
    <3>2. /\ IsList(push_front(removed_values, copy(id)))
          /\ DOMAIN push_front(removed_values, copy(id)) = DOMAIN removed_values \cup {f}
          /\ push_front(removed_values, copy(id))[f] = copy(id)
          /\ \A k \in DOMAIN removed_values : push_front(removed_values, copy(id))[k] = removed_values[k]
      BY <1>2, <2>1, PushFront
    <3> QED
      BY <2>2, <2>3, <2>5, <3>1, <3>2
  <2> QED
    BY <2>4, <2>5
<1>6. UndoTypeOK'
  <2>1. DOMAIN items' \subseteq Nat /\ items' \in [DOMAIN items' -> Row]
    BY <1>0, <1>1, <1>4 DEF UndoTypeOK
  <2> QED
    BY <1>0, <1>1, <1>5, <2>1 DEF UndoTypeOK
<1>7. SessionsOrdered'
  BY <1>0, <1>1, <1>5 DEF SessionsOrdered
<1>8. KeysOnce'
  <2>1. \A i \in DOMAIN items' : i < next_id' /\ items'[i].mtime <= monotonic_revision'
    BY <1>0, <1>1, <1>4 DEF KeysOnce
  <2>3. ASSUME NEW k \in DOMAIN removed_values'
        PROVE  /\ removed_values'[k].id < next_id' /\ removed_values'[k].id \notin DOMAIN items'
               /\ removed_values'[k].mtime <= monotonic_revision'
               /\ \A l \in DOMAIN removed_values' : removed_values'[l].id = removed_values'[k].id => l = k
               /\ \A j \in DOMAIN undo_stack' :
                    k <= undo_stack'[j].removed_values_end => removed_values'[k].id < undo_stack'[j].old_next_id
    <3>1. CASE k \in DOMAIN removed_values
      BY <1>0, <1>1, <1>2, <1>4, <1>5, <3>1 DEF KeysOnce
    <3>2. CASE k = f
      BY <1>0, <1>1, <1>2, <1>4, <1>5, <3>2, TypesOfParts DEF KeysOnce, Session
    <3> QED
      BY <1>5, <3>1, <3>2
  <2> QED
    BY <1>0, <1>1, <2>1, <2>3 DEF KeysOnce
<1>9. ASSUME NEW j \in DOMAIN undo_stack PROVE CopiedOnce(j)' /\ Remembered(j)'
  <2> DEFINE u == undo_stack[j]
             R == since(removed_values, u.removed_values_end)
  <2>0. u \in Session /\ u' = u /\ (forgotten => id >= u.old_next_id)
    <3>1. undo_stack # << >>
      OBVIOUS
    <3>2. top \in Session /\ u.old_next_id <= top.old_next_id
      BY <1>0, <3>1, TopIsNewest
    <3>3. u \in Session /\ u' = u
      BY <1>0, <1>1, TypesOfParts
    <3>4. u.old_next_id \in Int /\ top.old_next_id \in Int
      BY <3>2, <3>3 DEF Session
    <3> QED
      BY <1>0, <1>1, <1>2, <3>2, <3>3, <3>4
  <2>1. /\ since(removed_values', u.removed_values_end) = IF forgotten THEN R ELSE R \cup {f}
        /\ DOMAIN removed_values' \ since(removed_values', u.removed_values_end) = DOMAIN removed_values \ R
        /\ \A k \in DOMAIN removed_values : removed_values'[k] = removed_values[k]
    BY <1>5 DEF since
  <2>2. /\ present(j)' \subseteq present(j)
        /\ \A c \in present(j) : c \in present(j)' \/ (c = copy(id) /\ forgotten)
    <3>1. \A i \in DOMAIN items' : copy(i)' = copy(i)
      BY <1>4 DEF copy
    <3>2. {copy(i)' : i \in DOMAIN items'} = {copy(i) : i \in DOMAIN items'}
      BY <3>1
    <3>3. R \subseteq DOMAIN removed_values
      BY DEF since
    <3>4. present(j)' = {copy(i) : i \in DOMAIN items'}
            \cup {removed_values'[k] : k \in since(removed_values', u.removed_values_end)}
      BY <2>0, <3>2 DEF present, since
    <3>5. ASSUME NEW c \in present(j)' PROVE c \in present(j)
      <4>1. CASE \E i \in DOMAIN items' : c = copy(i)
        BY <1>4, <4>1 DEF present
      <4>2. CASE \E k \in since(removed_values', u.removed_values_end) : c = removed_values'[k]
        <5>1. PICK k \in since(removed_values', u.removed_values_end) : c = removed_values'[k]
          BY <4>2
        <5>2. CASE k \in R
          BY <2>1, <3>3, <5>1, <5>2 DEF present
        <5>3. CASE k \notin R
          <6>1. ~forgotten /\ k = f /\ c = copy(id)
            BY <1>5, <2>1, <5>1, <5>3
          <6> QED
            BY <6>1 DEF present
        <5> QED
          BY <5>2, <5>3
      <4> QED
        BY <3>4, <4>1, <4>2
    <3>6. ASSUME NEW c \in present(j) PROVE c \in present(j)' \/ (c = copy(id) /\ forgotten)
      <4>1. CASE \E i \in DOMAIN items : c = copy(i)
        <5>1. PICK i \in DOMAIN items : c = copy(i)
          BY <4>1
        <5>2. CASE i # id
          BY <1>4, <3>4, <5>1, <5>2
        <5>3. CASE i = id /\ ~forgotten
          BY <1>5, <2>1, <3>4, <5>1, <5>3
        <5> QED
          BY <5>1, <5>2, <5>3
      <4>2. CASE \E k \in R : c = removed_values[k]
        BY <1>5, <2>1, <3>3, <3>4, <4>2
      <4> QED
        BY <4>1, <4>2 DEF present
    <3> QED
      BY <3>5, <3>6
  <2>4. CopiedOnce(j)'
    BY <1>0, <1>1, <2>0, <2>1, <2>2 DEF CopiedOnce, since
  <2>5. Remembered(j)'
    <3>1. {d \in present(j)' : d.id < u.old_next_id} = {d \in present(j) : d.id < u.old_next_id}
      BY <1>2, <2>0, <2>2 DEF Session
    <3> QED
      BY <1>0, <1>1, <2>0, <2>2, <3>1 DEF Remembered, since
  <2> QED
    BY <2>4, <2>5
<1> QED
  BY <1>1, <1>6, <1>7, <1>8, <1>9 DEF IInv

LEMMA AddSessionKeeps ==
  ASSUME IInv, add_session
  PROVE  IInv'
<1> DEFINE n == Len(undo_stack)
           s == [old_values_end |-> front(old_values), removed_values_end |-> front(removed_values),
                 old_next_id |-> next_id, ctime |-> monotonic_revision + 1]
           b == [table |-> table, next_id |-> next_id]
<1>0. /\ UndoTypeOK /\ SessionsOrdered /\ KeysOnce
      /\ \A j \in DOMAIN undo_stack : CopiedOnce(j) /\ Remembered(j)
  BY DEF IInv
<1>1. /\ undo_stack' = Append(undo_stack, s) /\ began' = Append(began, b)
      /\ monotonic_revision' = monotonic_revision + 1 /\ revision' = revision + 1
      /\ UNCHANGED <<items, next_id, old_values, removed_values>>
  BY DEF add_session, lists_unchanged
<1>2. /\ next_id \in Nat /\ monotonic_revision \in Nat /\ n \in Nat /\ revision \in Nat
      /\ front(old_values) \in Nat /\ front(removed_values) \in Nat
      /\ front(old_values) \in DOMAIN old_values \cup {0}
      /\ front(removed_values) \in DOMAIN removed_values \cup {0}
      /\ \A k \in DOMAIN old_values : k <= front(old_values)
      /\ \A k \in DOMAIN removed_values : k <= front(removed_values)
  BY <1>0, FrontIsLast DEF UndoTypeOK
<1>3. s \in Session /\ b \in Snapshot
  <2>1. table \in [DOMAIN items -> Value] /\ DOMAIN items \in SUBSET Nat
    BY <1>0 DEF UndoTypeOK, table, Row
  <2> QED
    BY <1>2, <2>1 DEF Session, Snapshot
<1>4. /\ DOMAIN undo_stack' = DOMAIN undo_stack \cup {n + 1} /\ n + 1 \notin DOMAIN undo_stack
      /\ Len(undo_stack') = n + 1 /\ Len(began') = n + 1
      /\ undo_stack'[n + 1] = s /\ began'[n + 1] = b
      /\ \A j \in DOMAIN undo_stack : undo_stack'[j] = undo_stack[j] /\ began'[j] = began[j] /\ j < n + 1
      /\ undo_stack' \in Seq(Session) /\ began' \in Seq(Snapshot)
  BY <1>0, <1>1, <1>3 DEF UndoTypeOK
<1>5. UndoTypeOK'
  BY <1>0, <1>1, <1>2, <1>4 DEF UndoTypeOK
<1>6. SessionsOrdered'
  <2>1. ASSUME NEW j \in DOMAIN undo_stack
        PROVE  /\ undo_stack[j] \in Session
               /\ undo_stack[j].old_values_end <= front(old_values)
               /\ undo_stack[j].removed_values_end <= front(removed_values)
               /\ undo_stack[j].old_next_id <= next_id
               /\ undo_stack[j].ctime < monotonic_revision + 1
    BY <1>0, <1>2, TypesOfParts DEF SessionsOrdered, Session
  <2>2. ASSUME NEW j \in DOMAIN undo_stack'
        PROVE  /\ undo_stack'[j].old_values_end \in DOMAIN old_values' \cup {0}
               /\ undo_stack'[j].removed_values_end \in DOMAIN removed_values' \cup {0}
               /\ undo_stack'[j].old_next_id <= next_id'
               /\ undo_stack'[j].ctime <= monotonic_revision'
    <3>1. CASE j \in DOMAIN undo_stack
      <4>1. undo_stack'[j] = undo_stack[j] /\ undo_stack[j] \in Session
        BY <1>4, <2>1, <3>1
      <4>2. undo_stack[j].ctime <= monotonic_revision + 1
        BY <1>2, <2>1, <3>1, <4>1 DEF Session
      <4> QED
        BY <1>0, <1>1, <3>1, <4>1, <4>2 DEF SessionsOrdered
    <3>2. CASE j = n + 1
      BY <1>1, <1>2, <1>4, <3>2
    <3> QED
      BY <1>4, <3>1, <3>2
  <2>3. ASSUME NEW i \in DOMAIN undo_stack', NEW j \in DOMAIN undo_stack', i < j
        PROVE  /\ undo_stack'[i].old_values_end <= undo_stack'[j].old_values_end
               /\ undo_stack'[i].removed_values_end <= undo_stack'[j].removed_values_end
               /\ undo_stack'[i].old_next_id <= undo_stack'[j].old_next_id
               /\ undo_stack'[i].ctime < undo_stack'[j].ctime
    <3>1. i \in DOMAIN undo_stack
      BY <1>0, <1>2, <1>4, <2>3, TypesOfParts
    <3>2. CASE j \in DOMAIN undo_stack
      BY <1>0, <1>4, <2>3, <3>1, <3>2 DEF SessionsOrdered
    <3>3. CASE j = n + 1
      BY <1>4, <2>1, <3>1, <3>3
    <3> QED
      BY <1>4, <3>2, <3>3
  <2> QED
    BY <2>2, <2>3 DEF SessionsOrdered
<1>7. KeysOnce'
  <2>1. \A i \in DOMAIN items : items[i].mtime <= monotonic_revision + 1
    BY <1>0, <1>2, TypesOfParts DEF KeysOnce, Row
  <2>2. \A k \in DOMAIN removed_values : removed_values[k].mtime <= monotonic_revision + 1
    BY <1>0, <1>2, TypesOfParts DEF KeysOnce, Copy
  <2>3. \A k \in DOMAIN old_values : old_values[k].mtime <= monotonic_revision + 1
    BY <1>0, <1>2, TypesOfParts DEF KeysOnce, Copy
  <2> QED
    BY <1>0, <1>1, <1>4, <2>1, <2>2, <2>3 DEF KeysOnce
<1>8. ASSUME NEW j \in DOMAIN undo_stack PROVE CopiedOnce(j)' /\ Remembered(j)'
  <2>1. present(j)' = present(j)
    BY <1>1, <1>4 DEF present, copy, since
  <2> QED
    BY <1>0, <1>1, <1>4, <2>1 DEF CopiedOnce, Remembered, since
<1>9. ASSUME NEW j, j = n + 1 PROVE CopiedOnce(j)' /\ Remembered(j)'
  <2>0. undo_stack'[j] = s /\ began'[j] = b
    BY <1>4, <1>9
  <2>1. since(old_values', s.old_values_end) = {} /\ since(removed_values', s.removed_values_end) = {}
    BY <1>0, <1>1, <1>2, TypesOfParts DEF since
  <2>2. present(j)' = {copy(i) : i \in DOMAIN items}
    BY <1>1, <2>0, <2>1 DEF present, copy
  <2>3. \A c \in present(j)' : c.id < next_id /\ c.mtime < monotonic_revision + 1
    BY <1>0, <1>2, <2>2, TypesOfParts DEF copy, KeysOnce, Row
  <2>4. CopiedOnce(j)'
    <3>1. \A c \in present(j)' : c \in Copy /\ ~(c.mtime >= s.ctime)
      BY <1>0, <1>2, <2>2, <2>3, TypesOfParts DEF Copy
    <3> QED
      BY <2>0, <2>1, <3>1 DEF CopiedOnce
  <2>5. Remembered(j)'
    <3>1. {c.id : c \in {d \in present(j)' : d.id < next_id}} = DOMAIN items
      <4>1. {d \in present(j)' : d.id < next_id} = present(j)'
        BY <2>3
      <4>2. \A i \in DOMAIN items : copy(i).id = i
        BY DEF copy
      <4> QED
        BY <2>2, <4>1, <4>2
    <3>2. DOMAIN b.table = DOMAIN items /\ \A c \in present(j)' : b.table[c.id] = c.val
      BY <2>2 DEF copy, table
    <3> QED
      BY <2>0, <2>1, <3>1, <3>2 DEF Remembered
  <2> QED
    BY <2>4, <2>5
<1> QED
  BY <1>4, <1>5, <1>6, <1>7, <1>8, <1>9 DEF IInv

\* The position of the newest session, in the terms of the actions.
LEMMA NewestSession ==
  ASSUME IInv, undo_stack # << >>
  PROVE  /\ Len(undo_stack) \in DOMAIN undo_stack /\ undo_stack[Len(undo_stack)] = top
         /\ CopiedOnce(Len(undo_stack)) /\ Remembered(Len(undo_stack))
BY TopIsNewest DEF IInv, top

\* A row has at most one copy of a time before the newest session, or before any other.
LEMMA CopyIsUnique ==
  ASSUME IInv, NEW j \in DOMAIN undo_stack, NEW id, NEW end \in Nat, end >= undo_stack[j].old_values_end,
         copies(end, undo_stack[j].ctime, id) # {}
  PROVE  LET C == copies(end, undo_stack[j].ctime, id)
         IN  /\ Min(C) \in C /\ C \subseteq since(old_values, end)
             /\ \A k \in C : k = Min(C)
             /\ old_values[Min(C)].id = id /\ old_values[Min(C)].mtime < undo_stack[j].ctime
<1> DEFINE u == undo_stack[j]
           C == copies(end, u.ctime, id)
<1>0. /\ UndoTypeOK /\ CopiedOnce(j) /\ u \in Session
      /\ \A k \in DOMAIN old_values : k \in Nat /\ old_values[k] \in Copy
  BY TypesOfParts DEF IInv
<1>1. \A k \in C : /\ k \in since(old_values, u.old_values_end) /\ k \in since(old_values, end)
                   /\ k \in Nat /\ old_values[k] \in Copy
                   /\ old_values[k].id = id /\ old_values[k].mtime < u.ctime
  BY <1>0 DEF copies, since, Session
<1>2. \A k, l \in C : ~(k < l)
  BY <1>0, <1>1 DEF CopiedOnce, Session, Copy
<1>3. \A k, l \in C : k = l
  BY <1>1, <1>2
<1>4. PICK k \in C : TRUE
  OBVIOUS
<1>5. \E x \in C : \A y \in C : x <= y
  BY <1>1, <1>3, <1>4
<1>6. Min(C) \in C
  BY <1>5 DEF Min
<1> QED
  BY <1>1, <1>3, <1>6

\* What undo puts in a row: a copy made since the newest session began, or the row as it
\* is if there is none.  Either is older than the session.
LEMMA RestoredRows ==
  ASSUME IInv, undo_stack # << >>, NEW id \in kept \cup back
  PROVE  \E c \in Copy :
           /\ restored(id) = [val |-> c.val, mtime |-> c.mtime]
           /\ c.id = id /\ c.mtime < top.ctime /\ id < top.old_next_id
           /\ \/ \E l \in since(old_values, top.old_values_end) : c = old_values[l]
              \/ c \in present(Len(undo_stack)) /\ copies(top.old_values_end, top.ctime, id) = {}
<1> DEFINE n == Len(undo_stack)
           C == copies(top.old_values_end, top.ctime, id)
<1>0. /\ UndoTypeOK /\ SessionsOrdered /\ KeysOnce
      /\ n \in DOMAIN undo_stack /\ undo_stack[n] = top /\ top \in Session
      /\ CopiedOnce(n) /\ Remembered(n)
  BY NewestSession, TypesOfParts DEF IInv
<1>1. id < top.old_next_id
  <2>1. CASE id \in kept
    BY <2>1 DEF kept
  <2>2. CASE id \in back
    BY <2>2 DEF back, removals
  <2> QED
    BY <2>1, <2>2
<1>2. CASE C # {}
  <2> DEFINE l == Min(C)
  <2>1. /\ l \in since(old_values, top.old_values_end)
        /\ old_values[l].id = id /\ old_values[l].mtime < top.ctime
    <3>1. top.old_values_end \in Nat /\ top.old_values_end >= undo_stack[n].old_values_end
      BY <1>0 DEF Session
    <3> QED
      BY <1>0, <1>2, <3>1, CopyIsUnique
  <2>2. old_values[l] \in Copy
    BY <1>0, <2>1, TypesOfParts DEF since
  <2>3. restored(id) = [val |-> old_values[l].val, mtime |-> old_values[l].mtime]
    BY <1>2 DEF restored
  <2> QED
    BY <1>1, <2>1, <2>2, <2>3
<1>3. CASE C = {}
  <2>1. ASSUME NEW c \in present(n), c.id = id PROVE c \in Copy /\ c.mtime < top.ctime
    <3>1. c \in Copy
      BY <1>0, PresentRows
    <3>2. ~(c.mtime >= top.ctime)
      BY <1>0, <1>1, <1>3, <2>1 DEF CopiedOnce, copies
    <3> QED
      BY <1>0, <3>1, <3>2 DEF Copy, Session
  <2>2. CASE id \in kept
    <3>1. id \in DOMAIN items /\ restored(id) = items[id]
      BY <1>3, <2>2 DEF restored, kept
    <3>2. /\ copy(id) \in present(n) /\ copy(id).id = id
          /\ items[id] = [val |-> copy(id).val, mtime |-> copy(id).mtime]
      BY <1>0, <3>1, PresentRows, TypesOfParts DEF Row
    <3> QED
      BY <1>1, <1>3, <2>1, <3>1, <3>2
  <2>3. CASE id \notin kept
    <3> DEFINE k == CHOOSE r \in removals(top) : removed_values[r].id = id
    <3>1. k \in removals(top) /\ removed_values[k].id = id
      <4>1. \E r \in removals(top) : removed_values[r].id = id
        BY <2>3 DEF back
      <4> QED
        BY <4>1
    <3>2. removed_values[k] \in present(n)
      BY <1>0, <3>1 DEF removals, present
    <3>3. restored(id) = [val |-> removed_values[k].val, mtime |-> removed_values[k].mtime]
      BY <1>3, <2>3 DEF restored
    <3> QED
      BY <1>1, <1>3, <2>1, <3>1, <3>2, <3>3
  <2> QED
    BY <2>2, <2>3
<1> QED
  BY <1>2, <1>3

\* Dropping the newest session leaves the others as they are.
LEMMA DropLast ==
  ASSUME UndoTypeOK, undo_stack # << >>,
         undo_stack' = drop_last(undo_stack), began' = drop_last(began)
  PROVE  /\ undo_stack' \in Seq(Session) /\ began' \in Seq(Snapshot)
         /\ Len(undo_stack') = Len(undo_stack) - 1 /\ Len(began') = Len(undo_stack')
         /\ \A j \in DOMAIN undo_stack' :
              /\ j \in DOMAIN undo_stack /\ j < Len(undo_stack)
              /\ undo_stack'[j] = undo_stack[j] /\ began'[j] = began[j]
<1>1. /\ undo_stack \in Seq(Session) /\ began \in Seq(Snapshot)
      /\ Len(began) = Len(undo_stack) /\ Len(undo_stack) \in Nat \ {0}
  BY DEF UndoTypeOK
<1>2. undo_stack' = SubSeq(undo_stack, 1, Len(undo_stack) - 1) /\ began' = SubSeq(began, 1, Len(undo_stack) - 1)
  BY <1>1 DEF drop_last
<1> QED
  BY <1>1, <1>2

LEMMA UndoKeeps ==
  ASSUME IInv, undo
  PROVE  IInv' /\ table' = began[Len(began)].table /\ next_id' = began[Len(began)].next_id
<1> DEFINE n == Len(undo_stack)
           Old == DOMAIN old_values \ since(old_values, top.old_values_end)
           Removed == DOMAIN removed_values \ since(removed_values, top.removed_values_end)
           From(id, c) == /\ c.id = id /\ c.mtime < top.ctime /\ id < top.old_next_id
                          /\ \/ \E l \in since(old_values, top.old_values_end) : c = old_values[l]
                             \/ c \in present(n) /\ copies(top.old_values_end, top.ctime, id) = {}
<1>0. /\ UndoTypeOK /\ SessionsOrdered /\ KeysOnce /\ undo_stack # << >>
      /\ \A j \in DOMAIN undo_stack : CopiedOnce(j) /\ Remembered(j)
      /\ n \in DOMAIN undo_stack /\ undo_stack[n] = top /\ top \in Session /\ began[n] \in Snapshot
      /\ n = Len(began)
  BY NewestSession, TypesOfParts DEF IInv, undo, UndoTypeOK
<1>1. /\ items' = [id \in kept \cup back |-> restored(id)]
      /\ old_values' = only(old_values, Old) /\ removed_values' = only(removed_values, Removed)
      /\ undo_stack' = drop_last(undo_stack) /\ began' = drop_last(began)
      /\ next_id' = top.old_next_id /\ revision' = revision - 1
      /\ monotonic_revision' = monotonic_revision
  BY DEF undo
<1>2. /\ undo_stack' \in Seq(Session) /\ began' \in Seq(Snapshot)
      /\ Len(undo_stack') = n - 1 /\ Len(began') = Len(undo_stack')
      /\ \A j \in DOMAIN undo_stack' :
           /\ j \in DOMAIN undo_stack /\ j < n
           /\ undo_stack'[j] = undo_stack[j] /\ began'[j] = began[j]
  BY <1>0, <1>1, DropLast
<1>3. /\ IsList(old_values') /\ DOMAIN old_values' = Old
      /\ \A k \in Old : old_values'[k] = old_values[k] /\ k \in DOMAIN old_values
                         /\ k <= top.old_values_end
      /\ \A k \in DOMAIN old_values : k <= top.old_values_end => k \in Old
  <2>1. IsList(old_values) /\ Old \in SUBSET DOMAIN old_values
    BY <1>0 DEF UndoTypeOK
  <2>2. IsList(old_values') /\ DOMAIN old_values' = Old /\ \A k \in Old : old_values'[k] = old_values[k]
    BY <1>1, <2>1, OnlyIsList
  <2>3. \A k \in DOMAIN old_values : k \in Old <=> k <= top.old_values_end
    BY <1>0, TypesOfParts DEF since, Session
  <2> QED
    BY <2>1, <2>2, <2>3
<1>4. /\ IsList(removed_values') /\ DOMAIN removed_values' = Removed
      /\ \A k \in Removed : removed_values'[k] = removed_values[k] /\ k \in DOMAIN removed_values
                             /\ k <= top.removed_values_end
      /\ \A k \in DOMAIN removed_values : k <= top.removed_values_end => k \in Removed
  <2>1. IsList(removed_values) /\ Removed \in SUBSET DOMAIN removed_values
    BY <1>0 DEF UndoTypeOK
  <2>2. IsList(removed_values') /\ DOMAIN removed_values' = Removed /\ \A k \in Removed : removed_values'[k] = removed_values[k]
    BY <1>1, <2>1, OnlyIsList
  <2>3. \A k \in DOMAIN removed_values : k \in Removed <=> k <= top.removed_values_end
    BY <1>0, TypesOfParts DEF since, Session
  <2> QED
    BY <2>1, <2>2, <2>3
<1>5. \A id \in kept \cup back : \E c \in Copy :
        restored(id) = [val |-> c.val, mtime |-> c.mtime] /\ From(id, c)
  BY <1>0, RestoredRows
<1>6. DOMAIN items' = kept \cup back
      /\ \A id \in kept \cup back : \E c \in Copy : copy(id)' = c /\ From(id, c) /\ items'[id] = [val |-> c.val, mtime |-> c.mtime]
  <2>1. ASSUME NEW id \in kept \cup back
        PROVE \E c \in Copy : copy(id)' = c /\ From(id, c) /\ items'[id] = [val |-> c.val, mtime |-> c.mtime]
    <3>1. PICK c \in Copy : restored(id) = [val |-> c.val, mtime |-> c.mtime] /\ From(id, c)
      BY <1>5
    <3>2. items'[id] = [val |-> c.val, mtime |-> c.mtime] /\ c.id = id
      BY <1>1, <3>1
    <3>3. copy(id)' = c
      BY <3>2 DEF copy, Copy
    <3> QED
      BY <3>1, <3>2, <3>3
  <2> QED
    BY <1>1, <2>1
<1>7. /\ kept \subseteq DOMAIN items
      /\ \A id \in back : \E k \in DOMAIN removed_values :
           k > top.removed_values_end /\ removed_values[k].id = id
      /\ \A id \in kept \cup back : id \in Nat /\ id < top.old_next_id
  BY <1>0, TypesOfParts DEF kept, back, removals, since, Copy
<1>8. UndoTypeOK'
  <2>1. items' \in [DOMAIN items' -> Row] /\ DOMAIN items' \subseteq Nat
    <3>1. ASSUME NEW id \in kept \cup back PROVE items'[id] \in Row
      <4>1. PICK c \in Copy : items'[id] = [val |-> c.val, mtime |-> c.mtime]
        BY <1>6
      <4> QED
        BY <4>1 DEF Row, Copy
    <3> QED
      BY <1>1, <1>6, <1>7, <3>1
  <2>2. revision' \in Nat /\ Len(undo_stack') <= revision'
    BY <1>0, <1>1, <1>2, TypesOfParts DEF UndoTypeOK
  <2>3. next_id' \in Nat /\ monotonic_revision' \in Nat
    BY <1>0, <1>1 DEF UndoTypeOK, Session
  <2> QED
    BY <1>2, <1>3, <1>4, <2>1, <2>2, <2>3 DEF UndoTypeOK
<1>9. SessionsOrdered'
  BY <1>0, <1>1, <1>2, <1>3, <1>4, TopIsNewest DEF SessionsOrdered
<1>10. KeysOnce'
  <2>1. ASSUME NEW id \in DOMAIN items' PROVE id < next_id' /\ items'[id].mtime <= monotonic_revision'
    <3>1. PICK c \in Copy : c.mtime < top.ctime /\ items'[id] = [val |-> c.val, mtime |-> c.mtime]
      BY <1>6
    <3>2. top.ctime <= monotonic_revision /\ monotonic_revision \in Nat
      BY <1>0, TopIsNewest DEF UndoTypeOK
    <3>3. items'[id].mtime = c.mtime /\ c.mtime \in Nat /\ top.ctime \in Nat
      BY <1>0, <3>1 DEF Copy, Session
    <3>4. id < next_id'
      BY <1>1, <1>6, <1>7
    <3> QED
      BY <1>1, <3>1, <3>2, <3>3, <3>4
  <2>2. ASSUME NEW k \in DOMAIN removed_values'
        PROVE  /\ removed_values'[k].id < next_id' /\ removed_values'[k].id \notin DOMAIN items'
               /\ removed_values'[k].mtime <= monotonic_revision'
               /\ \A l \in DOMAIN removed_values' : removed_values'[l].id = removed_values'[k].id => l = k
               /\ \A j \in DOMAIN undo_stack' :
                    k <= undo_stack'[j].removed_values_end => removed_values'[k].id < undo_stack'[j].old_next_id
    <3>1. k \in DOMAIN removed_values /\ removed_values'[k] = removed_values[k] /\ k <= top.removed_values_end
      BY <1>4
    <3>2. removed_values[k].id \notin DOMAIN items'
      <4>1. removed_values[k].id \notin kept
        BY <1>0, <1>7, <3>1 DEF KeysOnce
      <4>2. ASSUME removed_values[k].id \in back PROVE FALSE
        <5>1. PICK l \in DOMAIN removed_values : l > top.removed_values_end /\ removed_values[l].id = removed_values[k].id
          BY <1>7, <4>2
        <5>2. l = k
          BY <1>0, <3>1, <5>1 DEF KeysOnce
        <5> QED
          BY <1>0, <3>1, <5>1, <5>2, TypesOfParts DEF Session
      <4> QED
        BY <1>6, <4>1, <4>2
    <3> QED
      BY <1>0, <1>1, <1>2, <1>4, <3>1, <3>2 DEF KeysOnce
  <2>3. ASSUME NEW k \in DOMAIN old_values'
        PROVE  /\ old_values'[k].id < next_id' /\ old_values'[k].mtime <= monotonic_revision'
               /\ \A j \in DOMAIN undo_stack' :
                    k <= undo_stack'[j].old_values_end => old_values'[k].id < undo_stack'[j].old_next_id
    BY <1>0, <1>1, <1>2, <1>3 DEF KeysOnce
  <2> QED
    BY <2>1, <2>2, <2>3 DEF KeysOnce
<1>11. ASSUME NEW j \in DOMAIN undo_stack' PROVE CopiedOnce(j)' /\ Remembered(j)'
  <2> DEFINE u == undo_stack[j]
             C == since(old_values, u.old_values_end)
             D == since(old_values', u.old_values_end)
  <2>0. /\ j \in DOMAIN undo_stack /\ u \in Session /\ undo_stack'[j] = u /\ began'[j] = began[j]
        /\ u.old_values_end <= top.old_values_end /\ u.removed_values_end <= top.removed_values_end
        /\ u.old_next_id <= top.old_next_id /\ u.ctime < top.ctime
        /\ CopiedOnce(j) /\ Remembered(j) /\ CopiedOnce(n)
    BY <1>0, <1>2, TypesOfParts DEF SessionsOrdered
  <2>1. /\ D \subseteq C
        /\ \A k \in D : old_values'[k] = old_values[k] /\ k \in Nat /\ k <= top.old_values_end
        /\ \A k \in C : k <= top.old_values_end => k \in D
        /\ \A k \in C : k \in Nat /\ old_values[k] \in Copy
        /\ \A k \in since(old_values, top.old_values_end) : k \in C /\ k > top.old_values_end
        /\ \A k \in C : k > top.old_values_end => k \in since(old_values, top.old_values_end)
    BY <1>0, <1>3, <2>0, TypesOfParts DEF since, Session
  <2>2. present(n) \subseteq present(j)
    BY <1>0, <2>0, TypesOfParts DEF present, since, Session
  <2>3. ASSUME NEW c \in present(j)'
        PROVE  \/ \E k \in Removed : k > u.removed_values_end /\ c = removed_values[k] /\ c \in present(j)
               \/ c.id \in kept \cup back /\ From(c.id, c)
    <3>1. CASE \E id \in DOMAIN items' : c = copy(id)'
      <4>1. PICK id \in kept \cup back : c = copy(id)'
        BY <1>6, <3>1
      <4>2. From(id, c)
        BY <1>6, <4>1
      <4> QED
        BY <4>1, <4>2
    <3>2. CASE \E k \in since(removed_values', u.removed_values_end) : c = removed_values'[k]
      <4>1. PICK k \in since(removed_values', u.removed_values_end) : c = removed_values'[k]
        BY <3>2
      <4>2. k \in Removed /\ k > u.removed_values_end /\ k \in since(removed_values, u.removed_values_end)
        BY <1>4, <4>1 DEF since
      <4> QED
        BY <1>4, <4>1, <4>2 DEF present
    <3> QED
      BY <2>0, <3>1, <3>2 DEF present
  <2>4. CopiedOnce(j)'
    <3>1. ASSUME NEW k \in D, NEW c \in present(j)', c.id = old_values'[k].id PROVE c.mtime >= u.ctime
      <4>1. k \in C /\ c.id = old_values[k].id
        BY <2>1, <3>1
      <4>2. CASE c \in present(j)
        BY <2>0, <4>1, <4>2 DEF CopiedOnce
      <4>3. CASE \E l \in since(old_values, top.old_values_end) : c = old_values[l]
        <5>1. PICK l \in since(old_values, top.old_values_end) : c = old_values[l]
          BY <4>3
        <5>2. l \in C /\ k < l
          BY <1>0, <2>1, <5>1 DEF Session
        <5> QED
          BY <2>0, <4>1, <5>1, <5>2 DEF CopiedOnce
      <4> QED
        BY <2>2, <2>3, <4>2, <4>3
    <3>2. \A k, l \in D : k < l /\ old_values'[k].id = old_values'[l].id => old_values'[l].mtime >= u.ctime
      BY <2>0, <2>1 DEF CopiedOnce
    <3>3. ASSUME NEW c \in present(j)', c.id < u.old_next_id, c.mtime >= u.ctime
          PROVE  \E k \in D : old_values'[k].id = c.id /\ old_values'[k].mtime < u.ctime
      <4>1. ASSUME NEW r \in Removed, c = removed_values[r], c \in present(j)
            PROVE  \E k \in D : old_values'[k].id = c.id /\ old_values'[k].mtime < u.ctime
        <5>1. PICK k \in C : old_values[k].id = c.id /\ old_values[k].mtime < u.ctime
          BY <2>0, <3>3, <4>1 DEF CopiedOnce
        <5>2. k \notin since(old_values, top.old_values_end)
          BY <1>0, <2>0, <4>1, <5>1 DEF CopiedOnce
        <5> QED
          BY <1>0, <2>0, <2>1, <5>1, <5>2 DEF Session
      <4>2. ASSUME NEW l \in since(old_values, top.old_values_end), c = old_values[l], c.mtime < top.ctime
            PROVE  \E k \in D : old_values'[k].id = c.id /\ old_values'[k].mtime < u.ctime
        <5>1. PICK k \in C : k < l /\ old_values[k].id = c.id /\ old_values[k].mtime < u.ctime
          BY <2>0, <2>1, <3>3, <4>2 DEF CopiedOnce
        <5>2. k \notin since(old_values, top.old_values_end)
          BY <1>0, <2>0, <2>1, <4>2, <5>1 DEF CopiedOnce, Session, Copy
        <5> QED
          BY <1>0, <2>0, <2>1, <5>1, <5>2 DEF Session
      <4>3. ASSUME c \in present(n), copies(top.old_values_end, top.ctime, c.id) = {}
            PROVE  \E k \in D : old_values'[k].id = c.id /\ old_values'[k].mtime < u.ctime
        <5>1. PICK k \in C : old_values[k].id = c.id /\ old_values[k].mtime < u.ctime
          BY <2>0, <2>2, <3>3, <4>3 DEF CopiedOnce
        <5>2. k \notin since(old_values, top.old_values_end)
          BY <1>0, <2>0, <2>1, <4>3, <5>1 DEF copies, Session, Copy
        <5> QED
          BY <1>0, <2>0, <2>1, <5>1, <5>2 DEF Session
      <4> QED
        BY <2>3, <4>1, <4>2, <4>3
    <3>4. ASSUME NEW l \in D, old_values'[l].id < u.old_next_id, old_values'[l].mtime >= u.ctime
          PROVE  \E k \in D : k < l /\ old_values'[k].id = old_values'[l].id /\ old_values'[k].mtime < u.ctime
      <4>1. PICK k \in C : k < l /\ old_values[k].id = old_values[l].id /\ old_values[k].mtime < u.ctime
        BY <2>0, <2>1, <3>4 DEF CopiedOnce
      <4>2. k \in D
        BY <1>0, <2>1, <4>1 DEF Session
      <4> QED
        BY <2>1, <3>4, <4>1, <4>2
    <3>5. \A k \in D : \A r \in DOMAIN removed_values' \ since(removed_values', u.removed_values_end) :
            removed_values'[r].id # old_values'[k].id
      BY <1>4, <2>0, <2>1 DEF CopiedOnce, since
    <3> QED
      BY <2>0, <3>1, <3>2, <3>3, <3>4, <3>5 DEF CopiedOnce
  <2>5. Remembered(j)'
    <3> DEFINE b == began[j]
    <3>1. {c.id : c \in {d \in present(j)' : d.id < u.old_next_id}} = {c.id : c \in {d \in present(j) : d.id < u.old_next_id}}
      <4>1. ASSUME NEW c \in present(j)', c.id < u.old_next_id
            PROVE  \E d \in present(j) : d.id = c.id
        <5>1. CASE c.id \in kept
          BY <1>0, <1>7, <2>0, <5>1, PresentRows
        <5>2. CASE c.id \in back
          <6>1. PICK k \in DOMAIN removed_values : k > top.removed_values_end /\ removed_values[k].id = c.id
            BY <1>7, <5>2
          <6>2. k \in since(removed_values, u.removed_values_end)
            BY <1>0, <2>0, <6>1, TypesOfParts DEF since, Session
          <6> QED
            BY <6>1, <6>2 DEF present
        <5> QED
          BY <2>3, <5>1, <5>2
      <4>2. ASSUME NEW c \in present(j), c.id < u.old_next_id
            PROVE  \E d \in present(j)' : d.id = c.id
        <5>1. c \in Copy /\ c.id < top.old_next_id
          BY <1>0, <2>0, <4>2, PresentRows DEF Session, Copy
        <5>2. ASSUME c.id \in kept \cup back PROVE \E d \in present(j)' : d.id = c.id
          <6>1. c.id \in DOMAIN items'
            BY <1>6, <5>2
          <6>2. copy(c.id)' \in present(j)' /\ \A i : copy(i)'.id = i
            BY <6>1 DEF present, copy
          <6> QED
            BY <6>2
        <5>3. CASE c.id \in DOMAIN items
          BY <5>1, <5>2, <5>3 DEF kept
        <5>4. CASE c.id \notin DOMAIN items
          <6>1. PICK k \in since(removed_values, u.removed_values_end) : c = removed_values[k]
            BY <1>0, <2>0, <5>4, PresentRows
          <6>2. CASE k > top.removed_values_end
            BY <5>1, <5>2, <6>1, <6>2 DEF back, removals, since
          <6>3. CASE k <= top.removed_values_end
            <7>1. k \in Removed /\ k \in since(removed_values', u.removed_values_end)
              BY <1>4, <6>1, <6>3 DEF since
            <7> QED
              BY <1>4, <2>0, <6>1, <7>1 DEF present
          <6> QED
            BY <1>0, <6>1, <6>2, <6>3, TypesOfParts DEF since, Session
        <5> QED
          BY <5>3, <5>4
      <4> QED
        BY <4>1, <4>2
    <3>2. \A k \in D : old_values'[k].id \in DOMAIN b.table /\ old_values'[k].mtime < u.ctime =>
              b.table[old_values'[k].id] = old_values'[k].val
      BY <2>0, <2>1 DEF Remembered
    <3>3. \A c \in present(j)' : c.id \in DOMAIN b.table /\ c.mtime < u.ctime => b.table[c.id] = c.val
      BY <2>0, <2>1, <2>2, <2>3 DEF Remembered
    <3> QED
      BY <2>0, <3>1, <3>2, <3>3 DEF Remembered
  <2> QED
    BY <2>4, <2>5
<1>12. IInv'
  BY <1>8, <1>9, <1>10, <1>11 DEF IInv
<1>13. table' = began[n].table
  <2> DEFINE b == began[n]
  <2>1. DOMAIN b.table = kept \cup back
    <3>1. DOMAIN b.table = {c.id : c \in {d \in present(n) : d.id < top.old_next_id}}
      BY <1>0 DEF Remembered
    <3>2. ASSUME NEW c \in present(n), c.id < top.old_next_id PROVE c.id \in kept \cup back
      BY <1>0, <3>2, PresentRows DEF kept, back, removals
    <3>3. ASSUME NEW id \in kept \cup back PROVE \E c \in present(n) : c.id = id /\ c.id < top.old_next_id
      <4>1. CASE id \in kept
        BY <1>0, <1>7, <4>1, PresentRows
      <4>2. CASE id \in back
        <5>1. PICK k \in since(removed_values, top.removed_values_end) : removed_values[k].id = id
          BY <1>7, <4>2 DEF since
        <5> QED
          BY <1>0, <1>7, <5>1 DEF present
      <4> QED
        BY <4>1, <4>2
    <3> QED
      BY <3>1, <3>2, <3>3
  <2>2. ASSUME NEW id \in kept \cup back PROVE b.table[id] = items'[id].val
    <3>1. PICK c \in Copy : From(id, c) /\ items'[id] = [val |-> c.val, mtime |-> c.mtime]
      BY <1>6
    <3> QED
      BY <1>0, <2>1, <3>1 DEF Remembered
  <2>3. b.table = [id \in DOMAIN b.table |-> b.table[id]]
    BY <1>0 DEF Snapshot
  <2>4. table' = [id \in kept \cup back |-> items'[id].val]
    BY <1>6 DEF table
  <2> QED
    BY <2>1, <2>2, <2>3, <2>4
<1>14. next_id' = began[n].next_id
  BY <1>0, <1>1 DEF Remembered
<1> QED
  BY <1>0, <1>12, <1>13, <1>14

\* What compress_impl leaves: every node up to the positions of the newest session as it was,
\* and in the place of a row removed since the only copy of it that is old enough.
LEMMA CompressedLists ==
  ASSUME IInv, undo_stack # << >>, NEW m \in DOMAIN undo_stack, compress_impl(undo_stack[m])
  PROVE  /\ IsList(old_values') /\ IsList(removed_values')
         /\ DOMAIN old_values' = DOMAIN old_values \ redundant_copies(undo_stack[m])
         /\ \A k \in DOMAIN old_values' : old_values'[k] = old_values[k]
         /\ \A k \in DOMAIN old_values : k <= top.old_values_end => k \in DOMAIN old_values'
         /\ DOMAIN removed_values' = DOMAIN removed_values \ redundant_removals(undo_stack[m])
         /\ \A k \in DOMAIN removed_values : k <= top.removed_values_end => k \in DOMAIN removed_values'
         /\ \A k \in DOMAIN removed_values' :
              /\ removed_values'[k] \in Copy /\ removed_values'[k].id = removed_values[k].id
              /\ \/ /\ removed_values'[k] = removed_values[k]
                    /\ copies(top.old_values_end, undo_stack[m].ctime, removed_values[k].id) = {}
                 \/ \E l \in since(old_values, top.old_values_end) :
                      /\ k > top.removed_values_end
                      /\ removed_values'[k] = old_values[l]
                      /\ \A i \in copies(top.old_values_end, undo_stack[m].ctime, removed_values[k].id) : i = l
<1> DEFINE n == Len(undo_stack)
           s == undo_stack[m]
           C(id) == copies(top.old_values_end, s.ctime, id)
<1>0. /\ UndoTypeOK /\ SessionsOrdered /\ IsList(old_values) /\ IsList(removed_values)
      /\ n \in DOMAIN undo_stack /\ undo_stack[n] = top /\ top \in Session /\ s \in Session
      /\ CopiedOnce(n) /\ top.old_values_end >= s.old_values_end
  BY NewestSession, TypesOfParts, TopIsNewest DEF IInv, UndoTypeOK, Session
<1>1. /\ old_values' = only(old_values, DOMAIN old_values \ redundant_copies(s))
      /\ removed_values' = [k \in DOMAIN removed_values \ redundant_removals(s) |-> original(s, k)]
  BY DEF compress_impl
<1>2. /\ IsList(old_values') /\ DOMAIN old_values' = DOMAIN old_values \ redundant_copies(s)
      /\ \A k \in DOMAIN old_values' : old_values'[k] = old_values[k]
  BY <1>0, <1>1, OnlyIsList
<1>3. \A k \in DOMAIN old_values : k <= top.old_values_end => k \in DOMAIN old_values'
  BY <1>0, <1>2, TypesOfParts DEF redundant_copies, since, Session
<1>4. DOMAIN removed_values' = DOMAIN removed_values \ redundant_removals(s)
  BY <1>1
<1>5. \A k \in DOMAIN removed_values : k <= top.removed_values_end => k \in DOMAIN removed_values'
  BY <1>0, <1>4, TypesOfParts DEF redundant_removals, since, Session
<1>6. ASSUME NEW k \in DOMAIN removed_values'
      PROVE  /\ removed_values'[k] \in Copy /\ removed_values'[k].id = removed_values[k].id
             /\ \/ removed_values'[k] = removed_values[k] /\ C(removed_values[k].id) = {}
                \/ \E l \in since(old_values, top.old_values_end) :
                     /\ k > top.removed_values_end
                     /\ removed_values'[k] = old_values[l]
                     /\ \A i \in C(removed_values[k].id) : i = l
  <2> DEFINE id == removed_values[k].id
  <2>1. k \in DOMAIN removed_values /\ removed_values'[k] = original(s, k) /\ removed_values[k] \in Copy
    BY <1>0, <1>1, <1>4, TypesOfParts
  <2>2. CASE C(id) = {}
    BY <2>1, <2>2 DEF original
  <2>3. CASE C(id) # {}
    <3> DEFINE l == Min(C(id))
    <3>1. /\ l \in since(old_values, top.old_values_end) /\ old_values[l].id = id
          /\ \A i \in C(id) : i = l
      BY <1>0, <2>3, CopyIsUnique DEF Session
    <3>2. removed_values'[k] = old_values[l]
      BY <2>1, <2>3 DEF original
    <3>3. old_values[l] \in Copy
      BY <1>0, <3>1, TypesOfParts DEF since
    <3>4. k > top.removed_values_end
      BY <1>0, <2>1, <3>1, TypesOfParts DEF CopiedOnce, since
    <3> QED
      BY <3>1, <3>2, <3>3, <3>4
  <2> QED
    BY <2>2, <2>3
<1>7. IsList(removed_values')
  <2>1. removed_values' \in [DOMAIN removed_values' -> Copy]
    BY <1>1, <1>4, <1>6
  <2>2. DOMAIN removed_values' \subseteq DOMAIN removed_values
    BY <1>4
  <2> QED
    BY <1>0, <2>1, <2>2 DEF IsList
<1> QED
  BY <1>2, <1>3, <1>4, <1>5, <1>6, <1>7

\* Compression for a session keeps what this session and the ones below it remember.
LEMMA CompressKeepsSession ==
  ASSUME IInv, undo_stack # << >>, NEW m \in DOMAIN undo_stack, compress_impl(undo_stack[m]),
         UNCHANGED <<items, next_id, monotonic_revision>>,
         NEW j \in DOMAIN undo_stack, j <= m, undo_stack'[j] = undo_stack[j], began'[j] = began[j]
  PROVE  CopiedOnce(j)' /\ Remembered(j)'
<1> DEFINE n == Len(undo_stack)
           s == undo_stack[m]
           u == undo_stack[j]
           C == since(old_values, u.old_values_end)
           D == since(old_values', u.old_values_end)
           New == since(old_values, top.old_values_end)
           Copies(id) == copies(top.old_values_end, s.ctime, id)
<1>0. /\ UndoTypeOK /\ SessionsOrdered /\ KeysOnce
      /\ n \in DOMAIN undo_stack /\ undo_stack[n] = top
      /\ top \in Session /\ s \in Session /\ u \in Session
      /\ CopiedOnce(n) /\ CopiedOnce(j) /\ Remembered(j)
  BY NewestSession, TypesOfParts DEF IInv
<1>1. /\ u.old_values_end <= top.old_values_end /\ u.removed_values_end <= top.removed_values_end
      /\ u.ctime <= s.ctime /\ u.old_next_id <= s.old_next_id
  <2>1. CASE j = m
    BY <1>0, <2>1, TopIsNewest DEF Session
  <2>2. CASE j < m
    BY <1>0, <2>2, TopIsNewest DEF SessionsOrdered, Session
  <2> QED
    BY <1>0, <2>1, <2>2, TypesOfParts
<1>2. /\ D \subseteq C
      /\ \A k \in D : old_values'[k] = old_values[k]
      /\ \A k \in C : k \in Nat /\ old_values[k] \in Copy
      /\ \A k \in C : k \in New \/ k \in D
      /\ \A k \in C : k \notin New => \A l \in New : k < l
      /\ New \subseteq C
      /\ \A k \in New : k \in D <=> old_values[k].mtime < s.ctime /\ old_values[k].id \notin gone
  <2>1. /\ DOMAIN old_values' = DOMAIN old_values \ redundant_copies(s)
        /\ \A k \in DOMAIN old_values' : old_values'[k] = old_values[k]
        /\ \A k \in DOMAIN old_values : k <= top.old_values_end => k \in DOMAIN old_values'
    BY CompressedLists
  <2>2. \A k \in DOMAIN old_values : k \in Nat /\ old_values[k] \in Copy
    BY <1>0, TypesOfParts
  <2>3. /\ D \subseteq C /\ New \subseteq C
        /\ \A k \in C : k \in Nat /\ old_values[k] \in Copy
        /\ \A k \in D : old_values'[k] = old_values[k]
    BY <1>0, <1>1, <2>1, <2>2 DEF since, Session
  <2>4. /\ \A k \in C : k \in New \/ k \in D
        /\ \A k \in C : k \notin New => \A l \in New : k < l
    <3>1. \A k \in C : k \in DOMAIN old_values /\ k \in Nat /\ k > u.old_values_end
                      /\ (k \in New <=> k > top.old_values_end)
      BY <2>2 DEF since
    <3>2. u.old_values_end \in Nat /\ top.old_values_end \in Nat
      BY <1>0 DEF Session
    <3>3. \A k \in DOMAIN old_values' : k > u.old_values_end => k \in D
      BY DEF since
    <3>4. ASSUME NEW k \in C, k \notin New PROVE k \in D /\ k <= top.old_values_end
      BY <2>1, <3>1, <3>2, <3>3, <3>4
    <3> QED
      BY <2>3, <3>1, <3>2, <3>4
  <2>5. \A k \in New : k \in D <=> old_values[k].mtime < s.ctime /\ old_values[k].id \notin gone
    <3>1. u.old_values_end \in Nat /\ top.old_values_end \in Nat /\ s.ctime \in Nat
      BY <1>0 DEF Session
    <3>2. ASSUME NEW k \in New PROVE k \in DOMAIN old_values /\ k \in Nat /\ k > u.old_values_end
                                     /\ old_values[k].mtime \in Nat
      BY <1>1, <2>2, <3>1, <3>2 DEF since, Copy
    <3>3. \A k \in New : k \in D <=> k \notin redundant_copies(s)
      BY <2>1, <3>2 DEF since
    <3>4. \A k \in New : k \in redundant_copies(s)
                          <=> (old_values[k].mtime >= s.ctime \/ old_values[k].id \in gone)
      BY DEF redundant_copies
    <3> QED
      BY <3>1, <3>2, <3>3, <3>4
  <2> QED
    BY <2>3, <2>4, <2>5
<1>3. /\ DOMAIN removed_values' = DOMAIN removed_values \ redundant_removals(s)
      /\ \A k \in DOMAIN removed_values' : removed_values'[k].id = removed_values[k].id
  BY CompressedLists
<1>4. ASSUME NEW c \in present(j)'
      PROVE  \/ c \in present(j) /\ c.id \notin gone
             \/ c \in present(j) /\ Copies(c.id) = {}
             \/ \E l \in New : c = old_values[l] /\ c.id \in gone /\ \A i \in Copies(c.id) : i = l
  <2>1. CASE \E id \in DOMAIN items' : c = copy(id)'
    <3>1. PICK id \in DOMAIN items : c = copy(id)
      BY <2>1 DEF copy
    <3> QED
      BY <1>0, <3>1, PresentRows DEF gone, KeysOnce
  <2>2. CASE \E k \in since(removed_values', u.removed_values_end) : c = removed_values'[k]
    <3>1. PICK k \in since(removed_values', u.removed_values_end) : c = removed_values'[k]
      BY <2>2
    <3>2. k \in DOMAIN removed_values' /\ k \in DOMAIN removed_values /\ k \in since(removed_values, u.removed_values_end)
      BY <1>3, <3>1 DEF since
    <3>3. c.id = removed_values[k].id /\ c.id \in gone
      BY <1>3, <3>1, <3>2 DEF gone
    <3>4. CASE removed_values'[k] = removed_values[k] /\ Copies(removed_values[k].id) = {}
      BY <3>1, <3>2, <3>3, <3>4 DEF present
    <3>5. CASE \E l \in New : removed_values'[k] = old_values[l] /\ \A i \in Copies(removed_values[k].id) : i = l
      BY <3>1, <3>3, <3>5
    <3> QED
      BY <3>2, <3>4, <3>5, CompressedLists
  <2> QED
    BY <2>1, <2>2 DEF present
<1>5. \A k \in New : old_values[k].mtime < s.ctime => k \in Copies(old_values[k].id)
  BY DEF copies
<1>6. u.ctime \in Nat /\ s.ctime \in Nat /\ \A k \in C : old_values[k].mtime \in Nat
  BY <1>0, <1>2 DEF Session, Copy
<1>7. CopiedOnce(j)'
  <2>1. ASSUME NEW k \in D, NEW c \in present(j)', c.id = old_values'[k].id PROVE c.mtime >= u.ctime
    <3>1. k \in C /\ c.id = old_values[k].id
      BY <1>2, <2>1
    <3>2. CASE c \in present(j)
      BY <1>0, <3>1, <3>2 DEF CopiedOnce
    <3>3. CASE \E l \in New : c = old_values[l] /\ c.id \in gone
      <4>1. PICK l \in New : c = old_values[l] /\ c.id \in gone
        BY <3>3
      <4>2. k \notin New /\ l \in C /\ k < l
        BY <1>2, <3>1, <4>1
      <4> QED
        BY <1>0, <3>1, <4>1, <4>2 DEF CopiedOnce
    <3> QED
      BY <1>4, <3>2, <3>3
  <2>2. \A k, l \in D : k < l /\ old_values'[k].id = old_values'[l].id => old_values'[l].mtime >= u.ctime
    BY <1>0, <1>2 DEF CopiedOnce
  <2>3. ASSUME NEW c \in present(j)', c.id < u.old_next_id, c.mtime >= u.ctime
        PROVE  \E k \in D : old_values'[k].id = c.id /\ old_values'[k].mtime < u.ctime
    <3>1. ASSUME NEW k \in C, old_values[k].id = c.id, old_values[k].mtime < u.ctime,
                 k \in New => c.id \notin gone
          PROVE  \E i \in D : old_values'[i].id = c.id /\ old_values'[i].mtime < u.ctime
      <4>1. k \in New => old_values[k].mtime < s.ctime
        <5>1. u.ctime <= s.ctime
          BY <1>0, <1>1
        <5> QED
          BY <1>6, <3>1, <5>1
      <4>2. k \in D
        BY <1>2, <3>1, <4>1
      <4> QED
        BY <1>2, <3>1, <4>2
    <3>2. \A k \in New : old_values[k].id = c.id /\ old_values[k].mtime < u.ctime => k \in Copies(c.id)
      BY <1>1, <1>2, <1>5, <1>6
    <3>3. CASE c \in present(j) /\ (c.id \notin gone \/ Copies(c.id) = {})
      <4>1. PICK k \in C : old_values[k].id = c.id /\ old_values[k].mtime < u.ctime
        BY <1>0, <2>3, <3>3 DEF CopiedOnce
      <4> QED
        BY <3>1, <3>2, <3>3, <4>1
    <3>4. ASSUME NEW l \in New, c = old_values[l], \A i \in Copies(c.id) : i = l
          PROVE  \E i \in D : old_values'[i].id = c.id /\ old_values'[i].mtime < u.ctime
      <4>1. PICK k \in C : k < l /\ old_values[k].id = c.id /\ old_values[k].mtime < u.ctime
        BY <1>0, <1>2, <2>3, <3>4 DEF CopiedOnce
      <4>2. k \notin New
        BY <1>2, <3>2, <3>4, <4>1
      <4> QED
        BY <3>1, <4>1, <4>2
    <3> QED
      BY <1>4, <3>3, <3>4
  <2>4. ASSUME NEW l \in D, old_values'[l].id < u.old_next_id, old_values'[l].mtime >= u.ctime
        PROVE  \E k \in D : k < l /\ old_values'[k].id = old_values'[l].id /\ old_values'[k].mtime < u.ctime
    <3>1. PICK k \in C : k < l /\ old_values[k].id = old_values[l].id /\ old_values[k].mtime < u.ctime
      BY <1>0, <1>2, <2>4 DEF CopiedOnce
    <3>2. k \in New => l \in New /\ old_values[k].mtime < s.ctime
      <4>1. k \in New => l \in New
        BY <1>2, <3>1
      <4> QED
        BY <1>1, <1>2, <1>6, <3>1, <4>1
    <3>3. k \in D
      BY <1>2, <3>1, <3>2
    <3> QED
      BY <1>2, <3>1, <3>3
  <2>5. \A k \in D : \A r \in DOMAIN removed_values' \ since(removed_values', u.removed_values_end) :
          removed_values'[r].id # old_values'[k].id
    BY <1>0, <1>2, <1>3 DEF CopiedOnce, since
  <2> QED
    BY <2>1, <2>2, <2>3, <2>4, <2>5 DEF CopiedOnce
<1>8. Remembered(j)'
  <2> DEFINE b == began[j]
  <2>1. {c.id : c \in {d \in present(j)' : d.id < u.old_next_id}} = {c.id : c \in {d \in present(j) : d.id < u.old_next_id}}
    <3>1. ASSUME NEW c \in present(j)', c.id < u.old_next_id PROVE \E d \in present(j) : d.id = c.id
      <4>1. CASE \E id \in DOMAIN items' : c = copy(id)'
        BY <4>1 DEF present, copy
      <4>2. CASE \E k \in since(removed_values', u.removed_values_end) : c = removed_values'[k]
        <5>1. PICK k \in since(removed_values', u.removed_values_end) : c = removed_values'[k]
          BY <4>2
        <5>2. k \in since(removed_values, u.removed_values_end) /\ c.id = removed_values[k].id
          BY <1>3, <5>1 DEF since
        <5> QED
          BY <5>2 DEF present
      <4> QED
        BY <4>1, <4>2 DEF present
    <3>2. ASSUME NEW c \in present(j), c.id < u.old_next_id PROVE \E d \in present(j)' : d.id = c.id
      <4>1. CASE \E id \in DOMAIN items : c = copy(id)
        BY <4>1 DEF present, copy
      <4>2. CASE \E k \in since(removed_values, u.removed_values_end) : c = removed_values[k]
        <5>1. PICK k \in since(removed_values, u.removed_values_end) : c = removed_values[k]
          BY <4>2
        <5>2. k \notin redundant_removals(s)
          <6>1. removed_values[k].id \in Nat /\ s.old_next_id \in Nat /\ u.old_next_id \in Nat
            BY <1>0, <5>1, TypesOfParts DEF since, Session, Copy
          <6>2. ~(removed_values[k].id >= s.old_next_id)
            BY <1>1, <3>2, <5>1, <6>1
          <6> QED
            BY <6>2 DEF redundant_removals
        <5>3. k \in since(removed_values', u.removed_values_end) /\ removed_values'[k].id = c.id
          BY <1>3, <5>1, <5>2 DEF since
        <5> QED
          BY <5>3 DEF present
      <4> QED
        BY <4>1, <4>2 DEF present
    <3> QED
      BY <3>1, <3>2
  <2>2. \A k \in D : old_values'[k].id \in DOMAIN b.table /\ old_values'[k].mtime < u.ctime =>
          b.table[old_values'[k].id] = old_values'[k].val
    BY <1>0, <1>2 DEF Remembered
  <2>3. \A c \in present(j)' : c.id \in DOMAIN b.table /\ c.mtime < u.ctime => b.table[c.id] = c.val
    BY <1>0, <1>2, <1>4 DEF Remembered
  <2> QED
    BY <1>0, <2>1, <2>2, <2>3 DEF Remembered
<1> QED
  BY <1>7, <1>8

\* ... and the types, the order of the sessions and the uniqueness of keys.
LEMMA CompressKeepsRest ==
  ASSUME IInv, undo_stack # << >>, NEW m \in DOMAIN undo_stack, compress_impl(undo_stack[m]),
         UNCHANGED <<items, next_id, monotonic_revision>>,
         \A j \in DOMAIN undo_stack' : j \in DOMAIN undo_stack /\ undo_stack'[j] = undo_stack[j]
  PROVE  SessionsOrdered' /\ KeysOnce'
<1>0. UndoTypeOK /\ SessionsOrdered /\ KeysOnce /\ top \in Session
  BY TopIsNewest DEF IInv
<1>1. /\ DOMAIN old_values' \subseteq DOMAIN old_values
      /\ \A k \in DOMAIN old_values' : old_values'[k] = old_values[k]
      /\ \A k \in DOMAIN old_values : k <= top.old_values_end => k \in DOMAIN old_values'
      /\ DOMAIN removed_values' \subseteq DOMAIN removed_values
      /\ \A k \in DOMAIN removed_values : k <= top.removed_values_end => k \in DOMAIN removed_values'
      /\ \A k \in DOMAIN removed_values' : removed_values'[k].id = removed_values[k].id
  BY CompressedLists
<1>2. \A k \in DOMAIN removed_values' : removed_values'[k].mtime <= monotonic_revision'
  <2>1. \A k \in DOMAIN removed_values' :
          \/ removed_values'[k] = removed_values[k]
          \/ \E l \in DOMAIN old_values : removed_values'[k] = old_values[l]
    BY CompressedLists DEF since
  <2> QED
    BY <1>0, <1>1, <2>1 DEF KeysOnce
<1>3. SessionsOrdered'
  BY <1>0, <1>1, TopIsNewest DEF SessionsOrdered
<1>4. KeysOnce'
  BY <1>0, <1>1, <1>2 DEF KeysOnce
<1> QED
  BY <1>3, <1>4

LEMMA SquashKeeps ==
  ASSUME IInv, squash
  PROVE  IInv'
<1> DEFINE n == Len(undo_stack)
<1>0. /\ UndoTypeOK /\ KeysOnce /\ undo_stack # << >>
      /\ n \in DOMAIN undo_stack /\ n \in Nat \ {0} /\ DOMAIN undo_stack = 1..n
  BY NewestSession, TypesOfParts DEF IInv, squash, UndoTypeOK
<1>1. /\ undo_stack' = drop_last(undo_stack) /\ began' = drop_last(began) /\ revision' = revision - 1
      /\ UNCHANGED <<items, next_id, monotonic_revision>>
  BY DEF squash
<1>2. /\ undo_stack' \in Seq(Session) /\ began' \in Seq(Snapshot)
      /\ Len(undo_stack') = n - 1 /\ Len(began') = Len(undo_stack')
      /\ \A j \in DOMAIN undo_stack' :
           /\ j \in DOMAIN undo_stack /\ j < n
           /\ undo_stack'[j] = undo_stack[j] /\ began'[j] = began[j]
  BY <1>0, <1>1, DropLast
<1>3. ASSUME IsList(old_values'), IsList(removed_values') PROVE UndoTypeOK'
  <2>1. revision' \in Nat /\ Len(undo_stack') <= revision'
    BY <1>0, <1>1, <1>2 DEF UndoTypeOK
  <2> QED
    BY <1>0, <1>1, <1>2, <1>3, <2>1 DEF UndoTypeOK
<1>4. CASE n >= 2
  <2>1. n - 1 \in DOMAIN undo_stack /\ compress_impl(undo_stack[n - 1])
    BY <1>0, <1>4 DEF squash
  <2>2. UndoTypeOK'
    BY <1>0, <1>3, <2>1, CompressedLists
  <2>3. SessionsOrdered' /\ KeysOnce'
    BY <1>0, <1>1, <1>2, <2>1, CompressKeepsRest
  <2>4. ASSUME NEW j \in DOMAIN undo_stack' PROVE CopiedOnce(j)' /\ Remembered(j)'
    <3>1. j \in DOMAIN undo_stack /\ j <= n - 1 /\ undo_stack'[j] = undo_stack[j] /\ began'[j] = began[j]
      BY <1>0, <1>2
    <3> QED
      BY <1>0, <1>1, <2>1, <3>1, CompressKeepsSession
  <2> QED
    BY <2>2, <2>3, <2>4 DEF IInv
<1>5. CASE n = 1
  <2>1. old_values' = << >> /\ removed_values' = << >>
    BY <1>5 DEF squash
  <2>2. DOMAIN undo_stack' = {} /\ DOMAIN old_values' = {} /\ DOMAIN removed_values' = {}
    BY <1>2, <1>5, <2>1
  <2>3. UndoTypeOK'
    BY <1>3, <2>1 DEF IsList
  <2> QED
    BY <1>0, <1>1, <2>2, <2>3 DEF IInv, SessionsOrdered, KeysOnce
<1> QED
  BY <1>0, <1>4, <1>5

LEMMA LastUndoSessionKeeps ==
  ASSUME IInv, last_undo_session
  PROVE  IInv'
<1> DEFINE n == Len(undo_stack)
<1>0. /\ UndoTypeOK /\ undo_stack # << >> /\ n \in DOMAIN undo_stack /\ undo_stack[n] = top
      /\ \A j \in DOMAIN undo_stack : j <= n
  BY NewestSession, TopIsNewest DEF IInv, last_undo_session
<1>1. /\ compress_impl(undo_stack[n])
      /\ UNCHANGED <<items, next_id, undo_stack, revision, monotonic_revision, began>>
  BY <1>0 DEF last_undo_session, stack_unchanged
<1>2. UndoTypeOK'
  BY <1>0, <1>1, CompressedLists DEF UndoTypeOK
<1>3. SessionsOrdered' /\ KeysOnce'
  BY <1>0, <1>1, CompressKeepsRest
<1>4. ASSUME NEW j \in DOMAIN undo_stack PROVE CopiedOnce(j)' /\ Remembered(j)'
  BY <1>0, <1>1, CompressKeepsSession
<1> QED
  BY <1>1, <1>2, <1>3, <1>4 DEF IInv

LEMMA Suffix ==
  ASSUME NEW S, NEW s \in Seq(S), NEW d \in Nat, d <= Len(s)
  PROVE  LET t == SubSeq(s, d + 1, Len(s))
         IN  t \in Seq(S) /\ Len(t) = Len(s) - d /\ \A j \in 1..(Len(s) - d) : t[j] = s[j + d]
<1> DEFINE t == SubSeq(s, d + 1, Len(s))
<1>1. Len(s) \in Nat /\ Len(t) = Len(s) - d
  OBVIOUS
<1>2. ASSUME NEW j \in 1..(Len(s) - d) PROVE t[j] = s[j + d]
  <2>1. t[j] = s[(d + 1) + j - 1]
    BY <1>1, <1>2
  <2> QED
    BY <1>1, <2>1
<1>3. t \in Seq(S)
  OBVIOUS
<1> QED
  BY <1>1, <1>2, <1>3

LEMMA CommitKeeps ==
  ASSUME IInv, NEW r \in 0..revision, commit(r)
  PROVE  IInv'
<1> DEFINE n == Len(undo_stack)
           d == n - (revision - r)
           first == undo_stack[d + 1]
<1>0. /\ UndoTypeOK /\ SessionsOrdered /\ KeysOnce /\ n \in Nat /\ revision \in Nat /\ r \in Nat
      /\ Len(began) = n /\ n <= revision /\ DOMAIN undo_stack = 1..n
      /\ undo_stack \in Seq(Session) /\ began \in Seq(Snapshot)
      /\ \A j \in DOMAIN undo_stack : CopiedOnce(j) /\ Remembered(j)
  BY DEF IInv, UndoTypeOK
<1>1. UNCHANGED <<items, next_id, revision, monotonic_revision>>
  BY DEF commit
<1>2. CASE r = revision
  <2>1. undo_stack' = << >> /\ old_values' = << >> /\ removed_values' = << >> /\ began' = << >>
    BY <1>0, <1>2 DEF commit
  <2>2. UndoTypeOK'
    BY <1>0, <1>1, <2>1 DEF UndoTypeOK, IsList
  <2> QED
    BY <1>0, <1>1, <2>1, <2>2 DEF IInv, SessionsOrdered, KeysOnce
<1>3. CASE r < revision
  <2>1. /\ revision - r < n
        /\ old_values' = dispose(old_values, first.old_values_end)
        /\ removed_values' = dispose(removed_values, first.removed_values_end)
        /\ undo_stack' = SubSeq(undo_stack, d + 1, n) /\ began' = SubSeq(began, d + 1, n)
    BY <1>0, <1>3 DEF commit
  <2>2. d \in Nat /\ d > 0 /\ d < n /\ d + 1 \in DOMAIN undo_stack /\ first \in Session
    BY <1>0, <1>3, <2>1, TypesOfParts
  <2>3. /\ undo_stack' \in Seq(Session) /\ began' \in Seq(Snapshot)
        /\ Len(undo_stack') = n - d /\ Len(began') = n - d /\ DOMAIN undo_stack' = 1..(n - d)
        /\ \A j \in DOMAIN undo_stack' : undo_stack'[j] = undo_stack[j + d] /\ began'[j] = began[j + d]
    <3>1. /\ undo_stack' \in Seq(Session) /\ Len(undo_stack') = n - d
          /\ \A j \in 1..(n - d) : undo_stack'[j] = undo_stack[j + d]
      <4>1. d \in Nat /\ d <= n /\ undo_stack \in Seq(Session) /\ undo_stack' = SubSeq(undo_stack, d + 1, n)
        BY <1>0, <2>1, <2>2
      <4> HIDE DEF d
      <4> QED
        BY <4>1, Suffix
    <3>2. /\ began' \in Seq(Snapshot) /\ Len(began') = n - d
          /\ \A j \in 1..(n - d) : began'[j] = began[j + d]
      <4>1. /\ d \in Nat /\ d <= Len(began) /\ began \in Seq(Snapshot)
            /\ began' = SubSeq(began, d + 1, Len(began)) /\ Len(began) = n
        BY <1>0, <2>1, <2>2
      <4> HIDE DEF d, n
      <4> QED
        BY <4>1, Suffix
    <3>3. DOMAIN undo_stack' = 1..(n - d)
      BY <3>1
    <3> QED
      BY <3>1, <3>2, <3>3
  <2>4. \A j \in DOMAIN undo_stack' : j + d \in DOMAIN undo_stack /\ j \in Nat
    BY <1>0, <2>2, <2>3
  <2>5. ASSUME NEW j \in DOMAIN undo_stack'
        PROVE  /\ undo_stack[j + d] \in Session
               /\ undo_stack[j + d].old_values_end >= first.old_values_end
               /\ undo_stack[j + d].removed_values_end >= first.removed_values_end
    <3>1. CASE j = 1
      BY <2>2, <3>1 DEF Session
    <3>2. CASE j > 1
      <4>1. d + 1 < j + d /\ j + d \in DOMAIN undo_stack
        BY <2>2, <2>4, <3>2
      <4> QED
        BY <1>0, <2>2, <4>1, TypesOfParts DEF SessionsOrdered, Session
    <3> QED
      BY <2>3, <3>1, <3>2
  <2>6. /\ IsList(old_values') /\ DOMAIN old_values' = {k \in DOMAIN old_values : k >= first.old_values_end}
        /\ \A k \in DOMAIN old_values' : old_values'[k] = old_values[k]
    BY <1>0, <2>1, OnlyIsList DEF dispose, UndoTypeOK
  <2>7. /\ IsList(removed_values') /\ DOMAIN removed_values' = {k \in DOMAIN removed_values : k >= first.removed_values_end}
        /\ \A k \in DOMAIN removed_values' : removed_values'[k] = removed_values[k]
    BY <1>0, <2>1, OnlyIsList DEF dispose, UndoTypeOK
  <2>8. UndoTypeOK'
    BY <1>0, <1>1, <2>2, <2>3, <2>6, <2>7 DEF UndoTypeOK
  <2>9. SessionsOrdered'
    <3>1. ASSUME NEW j \in DOMAIN undo_stack'
          PROVE  /\ undo_stack'[j].old_values_end \in DOMAIN old_values' \cup {0}
                 /\ undo_stack'[j].removed_values_end \in DOMAIN removed_values' \cup {0}
                 /\ undo_stack'[j].old_next_id <= next_id'
                 /\ undo_stack'[j].ctime <= monotonic_revision'
      BY <1>0, <1>1, <2>3, <2>4, <2>5, <2>6, <2>7 DEF SessionsOrdered
    <3>2. \A i, j \in DOMAIN undo_stack' : i < j => i + d < j + d
      BY <2>2, <2>4
    <3> QED
      BY <1>0, <2>3, <2>4, <3>1, <3>2 DEF SessionsOrdered
  <2>10. KeysOnce'
    BY <1>0, <1>1, <2>3, <2>4, <2>6, <2>7 DEF KeysOnce
  <2>11. ASSUME NEW j \in DOMAIN undo_stack' PROVE CopiedOnce(j)' /\ Remembered(j)'
    <3> DEFINE i == j + d
               u == undo_stack[i]
    <3>1. /\ undo_stack'[j] = u /\ began'[j] = began[i] /\ i \in DOMAIN undo_stack /\ u \in Session
          /\ CopiedOnce(i) /\ Remembered(i)
      BY <1>0, <2>3, <2>4, <2>5
    <3>2. /\ since(old_values', u.old_values_end) = since(old_values, u.old_values_end)
          /\ since(removed_values', u.removed_values_end) = since(removed_values, u.removed_values_end)
      <4>1. /\ u.old_values_end \in Nat /\ u.removed_values_end \in Nat
            /\ first.old_values_end \in Nat /\ first.removed_values_end \in Nat
            /\ u.old_values_end >= first.old_values_end /\ u.removed_values_end >= first.removed_values_end
        BY <2>2, <2>5 DEF Session
      <4>2. /\ \A k \in DOMAIN old_values : k \in Nat
            /\ \A k \in DOMAIN removed_values : k \in Nat
        BY <1>0, TypesOfParts
      <4>3. /\ \A k \in DOMAIN old_values : k > u.old_values_end => k \in DOMAIN old_values'
            /\ \A k \in DOMAIN removed_values : k > u.removed_values_end => k \in DOMAIN removed_values'
        BY <2>6, <2>7, <4>1, <4>2
      <4> QED
        BY <2>6, <2>7, <4>3 DEF since
    <3>3. /\ \A k \in since(old_values, u.old_values_end) : old_values'[k] = old_values[k]
          /\ \A k \in since(removed_values, u.removed_values_end) : removed_values'[k] = removed_values[k]
      BY <2>6, <2>7, <3>2 DEF since
    <3>4. present(j)' = present(i)
      <4>1. {copy(id)' : id \in DOMAIN items'} = {copy(id) : id \in DOMAIN items}
        BY <1>1 DEF copy
      <4> QED
        BY <3>1, <3>2, <3>3, <4>1 DEF present
    <3>5. CopiedOnce(j)'
      BY <2>7, <3>1, <3>2, <3>3, <3>4 DEF CopiedOnce
    <3>6. Remembered(j)'
      BY <3>1, <3>2, <3>3, <3>4 DEF Remembered
    <3> QED
      BY <3>5, <3>6
  <2> QED
    BY <2>8, <2>9, <2>10, <2>11 DEF IInv
<1> QED
  BY <1>0, <1>2, <1>3

LEMMA SetRevisionKeeps ==
  ASSUME IInv, NEW r \in Nat, set_revision(r)
  PROVE  IInv'
<1>0. UndoTypeOK /\ KeysOnce
  BY DEF IInv
<1>1. /\ revision' = r /\ undo_stack = << >> /\ r >= revision
      /\ UNCHANGED <<items, next_id, undo_stack, monotonic_revision, began, old_values, removed_values>>
  BY DEF set_revision, lists_unchanged
<1>2. UndoTypeOK'
  BY <1>0, <1>1 DEF UndoTypeOK
<1> QED
  BY <1>0, <1>1, <1>2 DEF IInv, SessionsOrdered, KeysOnce

LEMMA NextKeeps ==
  ASSUME IInv, [Next]_vars
  PROVE  IInv'
<1>1. CASE \E v \in Value : emplace(v)
  BY <1>1, EmplaceKeeps
<1>2. CASE \E id \in DOMAIN items, v \in Value : modify(id, v)
  BY <1>2, ModifyKeeps
<1>3. CASE \E id \in DOMAIN items : remove(id)
  BY <1>3, RemoveKeeps
<1>4. CASE add_session
  BY <1>4, AddSessionKeeps
<1>5. CASE undo
  BY <1>5, UndoKeeps
<1>6. CASE squash
  BY <1>6, SquashKeeps
<1>7. CASE last_undo_session
  BY <1>7, LastUndoSessionKeeps
<1>8. CASE \E r \in 0..revision : commit(r)
  BY <1>8, CommitKeeps
<1>9. CASE set_revision(revision + 1)
  <2>1. revision + 1 \in Nat
    BY DEF IInv, UndoTypeOK
  <2> QED
    BY <1>9, <2>1, SetRevisionKeeps
<1>10. CASE UNCHANGED vars
  <2>1. /\ UNCHANGED <<items, old_values, removed_values, undo_stack, next_id, revision, monotonic_revision, began>>
    BY <1>10 DEF vars
  <2>2. \A j : present(j)' = present(j)
    BY <2>1 DEF present, copy, since
  <2>3. UndoTypeOK' /\ SessionsOrdered' /\ KeysOnce'
    BY <2>1 DEF IInv, UndoTypeOK, SessionsOrdered, KeysOnce
  <2>4. \A j \in DOMAIN undo_stack : CopiedOnce(j)' /\ Remembered(j)'
    BY <2>1, <2>2 DEF IInv, CopiedOnce, Remembered
  <2> QED
    BY <2>1, <2>3, <2>4 DEF IInv
<1> QED
  BY <1>1, <1>2, <1>3, <1>4, <1>5, <1>6, <1>7, <1>8, <1>9, <1>10 DEF Next

\* The positions, copies and removed rows of every open session always determine the table
\* with which it began (undo_index.hpp:370-412), whatever the table and the bounds.
THEOREM SessionsDetermineTables == Spec => []IInv
<1>1. Init => IInv
  <2> SUFFICES ASSUME Init PROVE IInv
    OBVIOUS
  <2>1. /\ DOMAIN items = {} /\ DOMAIN old_values = {} /\ DOMAIN removed_values = {} /\ DOMAIN undo_stack = {}
    BY DEF Init
  <2>2. UndoTypeOK
    BY <2>1 DEF Init, UndoTypeOK, IsList
  <2> QED
    BY <2>1, <2>2 DEF IInv, SessionsOrdered, KeysOnce
<1>2. IInv /\ [Next]_vars => IInv'
  BY NextKeeps
<1> QED
  BY <1>1, <1>2, PTL DEF Spec

-----------------------------------------------------------------------------
\* Every step of the table is a step of a table that copies itself for each session, or
\* none.
LEMMA StepRefines ==
  ASSUME IInv, [Next]_vars
  PROVE  [Snapshots!Next]_Snapshots!vars
<1>0. /\ UndoTypeOK /\ DOMAIN table = DOMAIN items
      /\ \A id \in DOMAIN items : table[id] = items[id].val
  BY DEF IInv, table
<1>1. ASSUME NEW v \in Value, emplace(v) PROVE Snapshots!Create(v)
  <2>1. table' = [i \in DOMAIN table \cup {next_id} |-> IF i = next_id THEN v ELSE table[i]]
    <3>1. DOMAIN items' = DOMAIN items \cup {next_id}
          /\ \A i \in DOMAIN items' : items'[i].val = IF i = next_id THEN v ELSE items[i].val
      BY <1>1 DEF emplace
    <3> QED
      BY <1>0, <3>1 DEF table
  <2> QED
    BY <1>0, <1>1, <2>1 DEF emplace, unique, stack_unchanged, Snapshots!Create
<1>2. ASSUME NEW id \in DOMAIN items, NEW v \in Value, modify(id, v) PROVE Snapshots!Modify(id, v)
  <2>1. table' = [table EXCEPT ![id] = v]
    <3>1. DOMAIN items' = DOMAIN items
          /\ \A i \in DOMAIN items : items'[i].val = IF i = id THEN v ELSE items[i].val
      BY <1>0, <1>2, TypesOfParts DEF modify, Row
    <3> QED
      BY <1>0, <3>1 DEF table
  <2> QED
    BY <1>0, <1>2, <2>1 DEF modify, unique, stack_unchanged, Snapshots!Modify
<1>3. ASSUME NEW id \in DOMAIN items, remove(id) PROVE Snapshots!Remove(id)
  <2>1. table' = [i \in DOMAIN table \ {id} |-> table[i]]
    BY <1>0, <1>3 DEF remove, table
  <2> QED
    BY <1>3, <2>1 DEF remove, stack_unchanged, Snapshots!Remove
<1>4. ASSUME add_session PROVE Snapshots!Start
  BY <1>4 DEF add_session, table, Snapshots!Start
<1>5. ASSUME undo PROVE Snapshots!Undo
  <2>1. began # << >>
    BY <1>0, <1>5 DEF UndoTypeOK, undo
  <2> QED
    BY <1>5, <2>1, UndoKeeps DEF undo, drop_last, Snapshots!Undo
<1>6. ASSUME squash PROVE Snapshots!Squash
  <2>1. began # << >>
    BY <1>0, <1>6 DEF UndoTypeOK, squash
  <2> QED
    BY <1>6, <2>1 DEF squash, drop_last, table, Snapshots!Squash
<1>7. ASSUME last_undo_session PROVE UNCHANGED Snapshots!vars
  BY <1>7 DEF last_undo_session, stack_unchanged, table, Snapshots!vars
<1>8. ASSUME NEW r \in 0..revision, commit(r)
      PROVE  r \in (revision - Len(began))..revision /\ Snapshots!Commit(r)
  <2>1. /\ Len(began) = Len(undo_stack) /\ Len(began) \in Nat /\ revision \in Nat /\ r \in Nat /\ r <= revision
        /\ began \in Seq(Snapshot)
    BY <1>0, <1>8 DEF UndoTypeOK
  <2>2. UNCHANGED <<table, next_id, revision>>
    BY <1>8 DEF commit, table
  <2>3. CASE r = revision
    <3>1. began' = << >>
      BY <1>8, <2>1, <2>3 DEF commit
    <3>2. SubSeq(began, Len(began) - (revision - r) + 1, Len(began)) = << >>
      BY <2>1, <2>3
    <3> QED
      BY <2>1, <2>2, <2>3, <3>1, <3>2 DEF Snapshots!Commit
  <2>4. CASE r < revision
    <3>1. /\ revision - r < Len(undo_stack)
          /\ began' = SubSeq(began, Len(began) - (revision - r) + 1, Len(began))
      BY <1>8, <2>1, <2>4 DEF commit
    <3> QED
      BY <2>1, <2>2, <3>1 DEF Snapshots!Commit
  <2> QED
    BY <2>1, <2>3, <2>4
<1>9. ASSUME set_revision(revision + 1) PROVE Snapshots!SetRevision
  <2>1. began = << >> /\ revision \in Nat
    BY <1>0, <1>9 DEF UndoTypeOK, set_revision
  <2> QED
    BY <1>9, <2>1 DEF set_revision, table, Snapshots!SetRevision
<1>10. ASSUME UNCHANGED vars PROVE UNCHANGED Snapshots!vars
  BY <1>10 DEF vars, table, Snapshots!vars
<1> QED
  BY <1>0, <1>1, <1>2, <1>3, <1>4, <1>5, <1>6, <1>7, <1>8, <1>9, <1>10 DEF Next, Snapshots!Next

\* The table with its lists of differences is indistinguishable from one that copies itself
\* whenever a session begins (undo_index.hpp:370): undo restores the copy exactly, squash, commit
\* and compression change no copy that remains.
THEOREM DifferencesAreCopies == Spec => SessionsRemember
<1>1. Init => Snapshots!Init
  BY DEF Init, Snapshots!Init, table
<1>2. IInv /\ [Next]_vars => [Snapshots!Next]_Snapshots!vars
  BY StepRefines
<1> QED
  BY <1>1, <1>2, SessionsDetermineTables, PTL DEF Spec, SessionsRemember, Snapshots!Spec

=============================================================================
