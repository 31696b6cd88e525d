------------------------- MODULE Inductions_proofs -------------------------
(***************************************************************************)
(* Proofs about Inductions: an endorsement that stands is for what the     *)
(* induction has now, and inductions, the queue of gc, members, their      *)
(* statistics, endorsement counts and meetings fit together.  Both follow  *)
(* from one invariant, IInv.  The proof follows what an action does to the *)
(* table: a record is changed in place, added or erased (InPlace, Added,   *)
(* Erased); gc is a sequence of erasures with an invariant of its own.     *)
(* That the micro chain shows members and inductions is VInv, on top of    *)
(* it: every induction that is not left over has an entry that matches.    *)
(***************************************************************************)
EXTENDS Inductions, Sums_proofs, SequenceTheorems

-----------------------------------------------------------------------------
(***************************************************************************)
(* Sequences, lists of accounts and ids.                                   *)
(***************************************************************************)
IsSeq(s) == \E n \in Nat : s = [k \in 1..n |-> s[k]]

LEMMA SeqFacts ==
  ASSUME NEW s, IsSeq(s)
  PROVE  /\ Len(s) \in Nat /\ DOMAIN s = 1..Len(s)
         /\ s \in Seq({s[k] : k \in DOMAIN s})
<1>1. PICK n \in Nat : s = [k \in 1..n |-> s[k]]
  BY DEF IsSeq
<1>2. DOMAIN s = 1..n
  BY <1>1
<1>3. s \in [1..n -> {s[k] : k \in DOMAIN s}]
  BY <1>1, <1>2
<1>4. s \in Seq({s[k] : k \in DOMAIN s})
  BY <1>3
<1> QED
  BY <1>4, LenProperties

\* What is defined position by position has as many elements.
LEMMA MappedSeq ==
  ASSUME NEW s, IsSeq(s), NEW t, t = [k \in DOMAIN s |-> t[k]]
  PROVE  IsSeq(t) /\ Len(t) = Len(s)
<1>1. Len(s) \in Nat /\ DOMAIN s = 1..Len(s)
  BY SeqFacts
<1>2. IsSeq(t)
  BY <1>1 DEF IsSeq
<1>3. Len(t) \in Nat /\ DOMAIN t = 1..Len(t) /\ DOMAIN t = 1..Len(s)
  BY <1>1, <1>2, SeqFacts
<1> QED
  BY <1>1, <1>2, <1>3

LEMMA CountedSeq ==
  ASSUME NEW n \in Nat, NEW t, t = [k \in 1..n |-> t[k]]
  PROVE  IsSeq(t) /\ Len(t) = n /\ DOMAIN t = 1..n
<1>1. IsSeq(t)
  BY DEF IsSeq
<1>2. Len(t) \in Nat /\ DOMAIN t = 1..Len(t) /\ DOMAIN t = 1..n
  BY <1>1, SeqFacts
<1> QED
  BY <1>1, <1>2

LEMMA SeqInSet ==
  ASSUME NEW S
  PROVE  /\ \A s : IsSeq(s) /\ {s[k] : k \in DOMAIN s} \subseteq S => s \in Seq(S)
         /\ \A s \in Seq(S) : IsSeq(s)
<1>1. ASSUME NEW s, IsSeq(s), {s[k] : k \in DOMAIN s} \subseteq S PROVE s \in Seq(S)
  <2>1. s \in Seq({s[k] : k \in DOMAIN s})
    BY <1>1, SeqFacts
  <2> QED
    BY <1>1, <2>1, SeqMonotonic
<1>2. ASSUME NEW s \in Seq(S) PROVE IsSeq(s)
  <2>1. Len(s) \in Nat /\ s = [k \in 1..Len(s) |-> s[k]]
    BY LenProperties
  <2> QED
    BY <2>1 DEF IsSeq
<1> QED
  BY <1>1, <1>2

LEMMA AppendedSeq ==
  ASSUME NEW s, IsSeq(s), NEW x
  PROVE  IsSeq(Append(s, x)) /\ Len(Append(s, x)) = Len(s) + 1
<1> DEFINE S == {s[k] : k \in DOMAIN s} \cup {x}
<1>1. s \in Seq(S) /\ x \in S
  BY SeqInSet
<1> HIDE DEF S
<1>2. Append(s, x) \in Seq(S) /\ Len(Append(s, x)) = Len(s) + 1
  BY <1>1, AppendProperties
<1> QED
  BY <1>2, SeqInSet

LEMMA JoinedSeq ==
  ASSUME NEW s, IsSeq(s), NEW t, IsSeq(t)
  PROVE  IsSeq(s \o t) /\ Len(s \o t) = Len(s) + Len(t)
<1> DEFINE S == {s[k] : k \in DOMAIN s} \cup {t[k] : k \in DOMAIN t}
<1>1. s \in Seq(S) /\ t \in Seq(S)
  BY SeqInSet
<1> HIDE DEF S
<1>2. s \o t \in Seq(S) /\ Len(s \o t) = Len(s) + Len(t)
  BY <1>1, ConcatProperties
<1> QED
  BY <1>2, SeqInSet

LEMMA SetMinus ==
  ASSUME NEW S, IsFiniteSet(S), NEW T \in SUBSET S
  PROVE  /\ IsFiniteSet(S \ T) /\ Cardinality(T) \in Nat
         /\ Cardinality(S \ T) = Cardinality(S) - Cardinality(T)
<1>1. IsFiniteSet(T) /\ S \cap T = T
  BY FS_Subset
<1> QED
  BY <1>1, FS_Difference, FS_CardinalityType

LEMMA KeptSeq ==
  ASSUME NEW s, NEW P, IsFiniteSet(P)
  PROVE  IsSeq(kept(s, P)) /\ Len(kept(s, P)) = Cardinality(P)
<1>1. Cardinality(P) \in Nat
  BY FS_CardinalityType
<1> DEFINE t == kept(s, P)
<1>2. t = [k \in 1..Cardinality(P) |-> t[k]]
  BY DEF kept
<1> HIDE DEF t
<1>3. IsSeq(t) /\ Len(t) = Cardinality(P)
  BY <1>1, <1>2, CountedSeq
<1> QED
  BY <1>3 DEF t

\* listed finds an order, in which every element has one place.
LEMMA ListedSeq ==
  ASSUME NEW S, IsFiniteSet(S)
  PROVE  /\ IsSeq(listed(S)) /\ Len(listed(S)) = Cardinality(S)
         /\ listed(S) \in Bijection(1..Cardinality(S), S)
<1>1. Cardinality(S) \in Nat /\ ExistsBijection(1..Cardinality(S), S)
  BY FS_CardinalityType
<1>2. PICK b \in Bijection(1..Cardinality(S), S) : TRUE
  BY <1>1 DEF ExistsBijection
<1>3. /\ b \in [1..Cardinality(S) -> S]
      /\ \A a \in S : \E k \in DOMAIN b : b[k] = a
  BY <1>2 DEF Bijection, Injection, Surjection
<1> DEFINE l == listed(S)
<1>4. l \in [1..Cardinality(S) -> S] /\ \A a \in S : \E k \in DOMAIN l : l[k] = a
  BY <1>3 DEF listed
<1> HIDE DEF l
<1>5. l \in Surjection(1..Cardinality(S), S)
  BY <1>4 DEF Surjection
<1>6. IsFiniteSet(1..Cardinality(S)) /\ Cardinality(1..Cardinality(S)) = Cardinality(S)
  BY <1>1, FS_Interval
<1>7. l \in Injection(1..Cardinality(S), S)
  BY <1>5, <1>6, FS_SurjSameCardinalityImpliesInj
<1>8. l = [k \in 1..Cardinality(S) |-> l[k]]
  BY <1>4
<1>9. IsSeq(l) /\ Len(l) = Cardinality(S)
  BY <1>1, <1>8, CountedSeq
<1> QED
  BY <1>5, <1>7, <1>9 DEF Bijection, l

LEMMA LeastInSet ==
  ASSUME NEW S \in SUBSET Nat, S # {}
  PROVE  least(S) \in S
<1>1. PICK m \in S : \A l \in S : ~(<<l, m>> \in OpToRel(<, Nat))
  BY WFMin, NatLessThanWellFounded
<1>2. \A l \in S : ~(l < m)
  BY <1>1 DEF OpToRel
<1>3. m \in S /\ \A l \in S : m <= l
  BY <1>2
<1> QED
  BY <1>3 DEF least

LEMMA GreatestExists ==
  ASSUME NEW n \in Nat, NEW D \in SUBSET (0..n), D # {}
  PROVE  \E m \in D : \A j \in D : j <= m
<1> DEFINE B == {k \in Nat : ~(D \subseteq 0..k)}
<1> SUFFICES ASSUME \A m \in D : \E j \in D : ~(j <= m) PROVE FALSE
  OBVIOUS
<1>1. D \subseteq Nat
  OBVIOUS
<1>2. 0 \in B
  <2>1. PICK d \in D : TRUE
    OBVIOUS
  <2>2. PICK j \in D : ~(j <= d)
    OBVIOUS
  <2> QED
    BY <1>1, <2>1, <2>2
<1>3. ASSUME NEW k \in B PROVE k + 1 \in B
  <2>1. k \in Nat /\ k + 1 \in Nat
    OBVIOUS
  <2>2. PICK j \in D : j > k
    BY <1>1, <2>1
  <2>3. PICK l \in D : ~(l <= j)
    OBVIOUS
  <2>4. l > k + 1
    BY <1>1, <2>1, <2>2, <2>3
  <2> QED
    BY <2>1, <2>4
<1>4. n \in B
  <2>1. B \in SUBSET Nat
    OBVIOUS
  <2> HIDE DEF B
  <2> QED
    BY <1>2, <1>3, <2>1, NaturalsAll
<1> QED
  BY <1>4

\* A new id is not in use.
Ids(I) == \E n \in Nat : DOMAIN I \subseteq 0..n

LEMMA NextIdIsNew ==
  ASSUME NEW I, Ids(I)
  PROVE  next_id(I) \in Nat /\ next_id(I) \notin DOMAIN I
<1>1. CASE DOMAIN I = {}
  BY <1>1 DEF next_id
<1>2. CASE DOMAIN I # {}
  <2> DEFINE D == DOMAIN I
             m == CHOOSE i \in DOMAIN I : \A j \in DOMAIN I : j <= i
  <2>1. PICK n \in Nat : D \subseteq 0..n
    BY DEF Ids
  <2>2. m \in D /\ \A j \in D : j <= m
    BY <1>2, <2>1, GreatestExists
  <2>3. next_id(I) = 1 + m
    BY <1>2 DEF next_id
  <2> HIDE DEF m
  <2>4. m \in Nat
    BY <2>1, <2>2
  <2> QED
    BY <2>2, <2>3, <2>4
<1> QED
  BY <1>1, <1>2

-----------------------------------------------------------------------------
(***************************************************************************)
(* One induction.                                                          *)
(***************************************************************************)
Fields == {"inviter", "invitee", "endorsements", "created_at", "video", "profile", "rows"}
RowFields == {"endorser", "endorsed", "hash"}

\* A row of the table, with as many endorsements as it counts.
Formed(ind) == DOMAIN ind = Fields /\ IsSeq(ind.rows) /\ ind.endorsements = Len(ind.rows)

\* Outside genesis an endorsement is for what the induction has now.
Seen(ind) ==
  ind.inviter # Contract =>
    \A r \in DOMAIN ind.rows :
      /\ DOMAIN ind.rows[r] = RowFields
      /\ ind.rows[r].endorsed => ind.rows[r].hash = <<ind.video, ind.profile>>

Good(ind) == Formed(ind) /\ Seen(ind)

\* Nobody becomes another's invitee.
SameParties(new, ind) == new.invitee = ind.invitee /\ new.inviter = ind.inviter

LEMMA CreatedGood ==
  ASSUME NEW inviter, NEW invitee, NEW n, NEW video, NEW endorsers, IsSeq(endorsers), Len(endorsers) = n
  PROVE  LET new == create_induction(inviter, invitee, n, video, endorsers)
         IN  Good(new) /\ new.invitee = invitee /\ new.inviter = inviter
<1> DEFINE new == create_induction(inviter, invitee, n, video, endorsers)
           rows == [r \in DOMAIN endorsers |-> create_endorsement(endorsers[r], FALSE)]
<1>1. /\ DOMAIN new = Fields /\ new.rows = rows /\ new.endorsements = n
      /\ new.invitee = invitee /\ new.inviter = inviter
  BY DEF create_induction, Fields
<1>2. \A r \in DOMAIN rows : DOMAIN rows[r] = RowFields /\ rows[r].endorsed = FALSE
  BY DEF create_endorsement, RowFields
<1>3. rows = [r \in DOMAIN endorsers |-> rows[r]]
  OBVIOUS
<1> HIDE DEF new, rows
<1>4. IsSeq(rows) /\ Len(rows) = n
  BY <1>3, MappedSeq
<1>5. Formed(new)
  BY <1>1, <1>4 DEF Formed
<1>6. Seen(new)
  BY <1>1, <1>2 DEF Seen
<1> QED
  BY <1>1, <1>5, <1>6 DEF Good, new

LEMMA ResetSeq ==
  ASSUME NEW rows, IsSeq(rows)
  PROVE  /\ IsSeq(reset_endorsements(rows)) /\ Len(reset_endorsements(rows)) = Len(rows)
         /\ IsSeq(endorse_all(rows)) /\ Len(endorse_all(rows)) = Len(rows)
<1> DEFINE t == reset_endorsements(rows)
           u == endorse_all(rows)
<1>1. t = [k \in DOMAIN rows |-> t[k]] /\ u = [k \in DOMAIN rows |-> u[k]]
  BY DEF reset_endorsements, endorse_all
<1> HIDE DEF t, u
<1>2. IsSeq(t) /\ Len(t) = Len(rows) /\ IsSeq(u) /\ Len(u) = Len(rows)
  BY <1>1, MappedSeq
<1> QED
  BY <1>2 DEF t, u

LEMMA UpdatedGood ==
  ASSUME NEW ind, Good(ind), NEW x
  PROVE  /\ Good(update_profile(ind, x)) /\ SameParties(update_profile(ind, x), ind)
         /\ Good(update_video(ind, x)) /\ SameParties(update_video(ind, x), ind)
<1> DEFINE rows == reset_endorsements(ind.rows)
<1>1. DOMAIN ind = Fields /\ IsSeq(ind.rows) /\ ind.endorsements = Len(ind.rows)
  BY DEF Good, Formed
<1>2. IsSeq(rows) /\ Len(rows) = Len(ind.rows)
  BY <1>1, ResetSeq
<1>3. ind.inviter # Contract => \A r \in DOMAIN rows : DOMAIN rows[r] = RowFields /\ rows[r].endorsed = FALSE
  BY DEF reset_endorsements, Good, Seen, RowFields
<1> HIDE DEF rows
<1>4. ASSUME NEW new, DOMAIN new = Fields, new.rows = rows, new.endorsements = ind.endorsements,
             new.inviter = ind.inviter
      PROVE  Good(new)
  BY <1>1, <1>2, <1>3, <1>4 DEF Good, Formed, Seen
<1>5. LET new == update_profile(ind, x)
      IN  /\ DOMAIN new = Fields /\ new.rows = rows /\ new.endorsements = ind.endorsements
          /\ new.inviter = ind.inviter /\ new.invitee = ind.invitee
  BY <1>1 DEF update_profile, Fields, rows
<1>6. LET new == update_video(ind, x)
      IN  /\ DOMAIN new = Fields /\ new.rows = rows /\ new.endorsements = ind.endorsements
          /\ new.inviter = ind.inviter /\ new.invitee = ind.invitee
  BY <1>1 DEF update_video, Fields, rows
<1> QED
  BY <1>4, <1>5, <1>6 DEF SameParties

\* In genesis nothing is asked of an endorsement.
LEMMA GenesisGood ==
  ASSUME NEW ind, DOMAIN ind = Fields, IsSeq(ind.rows), ind.endorsements = Len(ind.rows),
         ind.inviter = Contract
  PROVE  Good(ind)
BY DEF Good, Formed, Seen

LEMMA EndorsedAllGood ==
  ASSUME NEW ind, Good(ind), ind.inviter = Contract
  PROVE  LET new == [ind EXCEPT !.rows = endorse_all(@)] IN Good(new) /\ SameParties(new, ind)
<1> DEFINE new == [ind EXCEPT !.rows = endorse_all(@)]
<1>1. DOMAIN ind = Fields /\ IsSeq(ind.rows) /\ ind.endorsements = Len(ind.rows)
  BY DEF Good, Formed
<1>2. /\ DOMAIN new = Fields /\ new.rows = endorse_all(ind.rows) /\ new.endorsements = ind.endorsements
      /\ new.inviter = ind.inviter /\ new.invitee = ind.invitee
  BY <1>1 DEF Fields
<1>3. IsSeq(new.rows) /\ Len(new.rows) = Len(ind.rows)
  BY <1>1, <1>2, ResetSeq
<1> HIDE DEF new
<1> QED
  BY <1>1, <1>2, <1>3, GenesisGood DEF SameParties, new

LEMMA AddedGood ==
  ASSUME NEW ind, Good(ind), ind.inviter = Contract, NEW a
  PROVE  Good(add_endorsement(ind, a, TRUE)) /\ SameParties(add_endorsement(ind, a, TRUE), ind)
<1> DEFINE new == add_endorsement(ind, a, TRUE)
           row == create_endorsement(a, TRUE)
<1>1. DOMAIN ind = Fields /\ IsSeq(ind.rows) /\ ind.endorsements = Len(ind.rows)
  BY DEF Good, Formed
<1>2. /\ DOMAIN new = Fields /\ new.rows = Append(ind.rows, row) /\ new.endorsements = ind.endorsements + 1
      /\ new.inviter = ind.inviter /\ new.invitee = ind.invitee
  <2> HIDE DEF row
  <2> QED
    BY <1>1 DEF add_endorsement, Fields, row
<1> HIDE DEF new, row
<1>3. IsSeq(new.rows) /\ Len(new.rows) = Len(ind.rows) + 1
  BY <1>1, <1>2, AppendedSeq
<1> QED
  BY <1>1, <1>2, <1>3, GenesisGood DEF SameParties, new

LEMMA ErasedGood ==
  ASSUME NEW I, NEW a, \A i \in DOMAIN I : Good(I[i]) /\ I[i].inviter = Contract
  PROVE  /\ DOMAIN erase_endorser(I, a) = DOMAIN I
         /\ \A i \in DOMAIN I : Good(erase_endorser(I, a)[i]) /\ SameParties(erase_endorser(I, a)[i], I[i])
<1>1. DOMAIN erase_endorser(I, a) = DOMAIN I
  BY DEF erase_endorser
<1>2. ASSUME NEW i \in DOMAIN I
      PROVE  Good(erase_endorser(I, a)[i]) /\ SameParties(erase_endorser(I, a)[i], I[i])
  <2> DEFINE ind == I[i]
             mine == {r \in DOMAIN ind.rows : ind.rows[r].endorser = a}
             left == DOMAIN ind.rows \ mine
             new == erase_endorser(I, a)[i]
  <2>1. DOMAIN ind = Fields /\ IsSeq(ind.rows) /\ ind.endorsements = Len(ind.rows) /\ ind.inviter = Contract
    BY DEF Good, Formed
  <2>2. /\ DOMAIN new = Fields /\ new.rows = kept(ind.rows, left)
        /\ new.endorsements = ind.endorsements - Cardinality(mine)
        /\ new.inviter = ind.inviter /\ new.invitee = ind.invitee
    <3>1. new = [ind EXCEPT !.rows = kept(@, DOMAIN @ \ mine), !.endorsements = @ - Cardinality(mine)]
      BY DEF erase_endorser
    <3> HIDE DEF new, mine, ind
    <3> QED
      BY <2>1, <3>1 DEF Fields
  <2>3. Len(ind.rows) \in Nat /\ DOMAIN ind.rows = 1..Len(ind.rows)
    BY <2>1, SeqFacts
  <2>4. IsFiniteSet(DOMAIN ind.rows) /\ Cardinality(DOMAIN ind.rows) = Len(ind.rows)
    BY <2>3, FS_Interval
  <2>5. IsFiniteSet(mine) /\ IsFiniteSet(left)
    BY <2>4, FS_Subset
  <2>6. Cardinality(mine) \in Nat /\ Cardinality(left) = Len(ind.rows) - Cardinality(mine)
    <3>1. mine \in SUBSET DOMAIN ind.rows
      OBVIOUS
    <3> HIDE DEF mine, ind
    <3> QED
      BY <2>4, <3>1, SetMinus
  <2>7. IsSeq(new.rows) /\ Len(new.rows) = Cardinality(left)
    BY <2>2, <2>5, KeptSeq
  <2> HIDE DEF new, ind, mine, left
  <2>8. Good(new)
    BY <2>1, <2>2, <2>3, <2>6, <2>7, GenesisGood
  <2> QED
    BY <2>2, <2>8 DEF SameParties, new, ind
<1> QED
  BY <1>1, <1>2

LEMMA RenamedGood ==
  ASSUME NEW ind, Good(ind), NEW a, NEW b
  PROVE  LET new == [ind EXCEPT !.rows = renamed_rows(@, a, b)] IN Good(new) /\ SameParties(new, ind)
<1> DEFINE new == [ind EXCEPT !.rows = renamed_rows(@, a, b)]
           rows == renamed_rows(ind.rows, a, b)
<1>1. DOMAIN ind = Fields /\ IsSeq(ind.rows) /\ ind.endorsements = Len(ind.rows)
  BY DEF Good, Formed
<1>2. /\ DOMAIN new = Fields /\ new.rows = rows /\ new.endorsements = ind.endorsements
      /\ new.inviter = ind.inviter /\ new.invitee = ind.invitee
      /\ new.video = ind.video /\ new.profile = ind.profile
  <2> HIDE DEF rows
  <2> QED
    BY <1>1 DEF Fields, rows
<1>3. rows = [r \in DOMAIN ind.rows |-> rows[r]] /\ DOMAIN rows = DOMAIN ind.rows
  BY DEF renamed_rows
<1>4. ind.inviter # Contract =>
        \A r \in DOMAIN rows : /\ DOMAIN rows[r] = RowFields
                               /\ rows[r].endorsed = ind.rows[r].endorsed /\ rows[r].hash = ind.rows[r].hash
  BY <1>3 DEF renamed_rows, Good, Seen, RowFields
<1> HIDE DEF new, rows
<1>5. IsSeq(rows) /\ Len(rows) = Len(ind.rows)
  BY <1>1, <1>3, MappedSeq
<1>6. Formed(new)
  BY <1>1, <1>2, <1>5 DEF Formed
<1>7. Seen(new)
  BY <1>2, <1>3, <1>4 DEF Seen, Good
<1> QED
  BY <1>2, <1>6, <1>7 DEF Good, SameParties, new

-----------------------------------------------------------------------------
(***************************************************************************)
(* The member table and its statistics.                                    *)
(***************************************************************************)
Counts == [pending_members : Int, active_members : Int]

MembersInv == DOMAIN member \subseteq Account /\ stats \in Counts /\ StatsMatch

Pending == {a \in DOMAIN member : member[a] = "pending"}
Active == {a \in DOMAIN member : member[a] = "active"}

LEMMA MembersFinite ==
  ASSUME MembersInv
  PROVE  /\ IsFiniteSet(DOMAIN member) /\ IsFiniteSet(Pending) /\ IsFiniteSet(Active)
         /\ stats = [pending_members |-> Cardinality(Pending), active_members |-> Cardinality(Active)]
<1>1. IsFiniteSet(DOMAIN member)
  BY InductionsAssumption, FS_Subset DEF MembersInv
<1>2. IsFiniteSet(Pending) /\ IsFiniteSet(Active)
  BY <1>1, FS_Subset DEF Pending, Active
<1>3. stats.pending_members = Cardinality(Pending) /\ stats.active_members = Cardinality(Active)
  BY DEF MembersInv, StatsMatch, Pending, Active
<1>4. stats \in Counts
  BY DEF MembersInv
<1> QED
  BY <1>1, <1>2, <1>3, <1>4 DEF Counts

\* What is left to show when the table changes.
LEMMA MembersCounted ==
  ASSUME MembersInv, DOMAIN member' \subseteq Account, NEW p \in Int, NEW q \in Int,
         stats' = [pending_members |-> p, active_members |-> q],
         Cardinality(Pending') = p, Cardinality(Active') = q
  PROVE  MembersInv'
<1>1. stats' \in Counts
  BY DEF Counts
<1>2. stats'.pending_members = Cardinality(Pending') /\ stats'.active_members = Cardinality(Active')
  OBVIOUS
<1> QED
  BY <1>1, <1>2 DEF MembersInv, StatsMatch, Pending, Active

LEMMA CreatedCounted ==
  ASSUME MembersInv, NEW a \in Account, created(a)
  PROVE  /\ MembersInv' /\ DOMAIN member' = DOMAIN member \cup {a}
         /\ Pending' = Pending \cup {a} /\ Active' = Active
<1>1. a \notin DOMAIN member /\ member' = [b \in DOMAIN member \cup {a} |-> IF b = a THEN "pending" ELSE member[b]]
  BY DEF created, is_new_member, with
<1>2. Pending' = Pending \cup {a} /\ Active' = Active /\ a \notin Pending
  BY <1>1 DEF Pending, Active
<1>3. stats' = [pending_members |-> Cardinality(Pending) + 1, active_members |-> Cardinality(Active)]
  BY MembersFinite DEF created
<1>4. Cardinality(Pending') = Cardinality(Pending) + 1
  BY <1>2, MembersFinite, FS_AddElement
<1>5. Cardinality(Pending) + 1 \in Int /\ Cardinality(Active) \in Int
  BY MembersFinite, FS_CardinalityType
<1>6. DOMAIN member' \subseteq Account
  BY <1>1 DEF MembersInv
<1>7. MembersInv'
  BY <1>2, <1>3, <1>4, <1>5, <1>6, MembersCounted
<1> QED
  BY <1>1, <1>2, <1>7

LEMMA ActivatedCounted ==
  ASSUME MembersInv, NEW a, set_active(a)
  PROVE  /\ MembersInv' /\ DOMAIN member' = DOMAIN member
         /\ Pending' = Pending \ {a} /\ Active' = Active \cup {a} /\ a \notin Active
<1>1. a \in DOMAIN member /\ member[a] = "pending" /\ member' = [member EXCEPT ![a] = "active"]
  BY DEF set_active, pending
<1>2. Pending' = Pending \ {a} /\ Active' = Active \cup {a} /\ a \in Pending /\ a \notin Active
  BY <1>1 DEF Pending, Active
<1>3. stats' = [pending_members |-> Cardinality(Pending) - 1, active_members |-> Cardinality(Active) + 1]
  BY MembersFinite DEF set_active
<1>4. Cardinality(Pending') = Cardinality(Pending) - 1 /\ Cardinality(Active') = Cardinality(Active) + 1
  BY <1>2, MembersFinite, FS_AddElement, FS_RemoveElement
<1>5. Cardinality(Pending) - 1 \in Int /\ Cardinality(Active) + 1 \in Int
  BY MembersFinite, FS_CardinalityType
<1>6. DOMAIN member' \subseteq Account
  BY <1>1 DEF MembersInv
<1>7. MembersInv'
  BY <1>3, <1>4, <1>5, <1>6, MembersCounted
<1> QED
  BY <1>1, <1>2, <1>7

LEMMA RemovedCounted ==
  ASSUME MembersInv, NEW a, active(a), removed(a)
  PROVE  /\ MembersInv' /\ DOMAIN member' = DOMAIN member \ {a}
         /\ Pending' = Pending /\ Active' = Active \ {a}
<1>1. a \in DOMAIN member /\ member[a] = "active" /\ member' = [b \in DOMAIN member \ {a} |-> member[b]]
  BY DEF removed, active, without
<1>2. Pending' = Pending /\ Active' = Active \ {a} /\ a \in Active
  BY <1>1 DEF Pending, Active
<1>3. stats' = [pending_members |-> Cardinality(Pending), active_members |-> Cardinality(Active) - 1]
  BY MembersFinite DEF removed
<1>4. Cardinality(Active') = Cardinality(Active) - 1
  BY <1>2, MembersFinite, FS_RemoveElement
<1>5. Cardinality(Pending) \in Int /\ Cardinality(Active) - 1 \in Int
  BY MembersFinite, FS_CardinalityType
<1>6. DOMAIN member' \subseteq Account
  BY <1>1 DEF MembersInv
<1>7. MembersInv'
  BY <1>2, <1>3, <1>4, <1>5, <1>6, MembersCounted
<1> QED
  BY <1>1, <1>2, <1>7

LEMMA RenamedCounted ==
  ASSUME MembersInv, NEW a, NEW b \in Account, active(a), member_renamed(a, b), UNCHANGED stats
  PROVE  /\ MembersInv' /\ Pending' = Pending
         /\ Active' = (Active \ {a}) \cup {b} /\ a \in Active /\ b \notin Active
<1>1. /\ a \in DOMAIN member /\ member[a] = "active" /\ b \notin DOMAIN member
      /\ member' = [c \in (DOMAIN member \ {a}) \cup {b} |-> IF c = b THEN member[a] ELSE member[c]]
  BY DEF member_renamed, active, is_new_member, with, without
<1>2. Pending' = Pending /\ Active' = (Active \ {a}) \cup {b} /\ a \in Active /\ b \notin Active
  BY <1>1 DEF Pending, Active
<1>3. stats' = [pending_members |-> Cardinality(Pending), active_members |-> Cardinality(Active)]
  BY MembersFinite
<1>4. Cardinality(Active') = Cardinality(Active)
  <2>1. IsFiniteSet(Active \ {a}) /\ Cardinality(Active \ {a}) = Cardinality(Active) - 1
    BY <1>2, MembersFinite, FS_RemoveElement
  <2>2. Cardinality((Active \ {a}) \cup {b}) = Cardinality(Active \ {a}) + 1
    BY <1>2, <2>1, FS_AddElement
  <2>3. Cardinality(Active) \in Nat
    BY MembersFinite, FS_CardinalityType
  <2> QED
    BY <1>2, <2>1, <2>2, <2>3
<1>5. Cardinality(Pending) \in Int /\ Cardinality(Active) \in Int
  BY MembersFinite, FS_CardinalityType
<1>6. DOMAIN member' \subseteq Account
  BY <1>1 DEF MembersInv
<1>7. MembersInv'
  BY <1>2, <1>3, <1>4, <1>5, <1>6, MembersCounted
<1> QED
  BY <1>2, <1>7

LEMMA PendingRemovedCounted ==
  ASSUME MembersInv, NEW A, remove_if_pending(A)
  PROVE  /\ MembersInv' /\ DOMAIN member' \subseteq DOMAIN member
         /\ Pending' = Pending \ A /\ Active' = Active
<1>1. /\ A \subseteq DOMAIN member /\ pending_of(A) = Pending \cap A
      /\ member' = [b \in DOMAIN member \ pending_of(A) |-> member[b]]
  BY DEF remove_if_pending, removable, pending_of, Pending, without
<1>2. /\ Pending' = Pending \ A /\ Pending' = Pending \ pending_of(A)
      /\ Active' = Active /\ pending_of(A) \in SUBSET Pending
  BY <1>1 DEF Pending, Active
<1>3. stats' = [pending_members |-> Cardinality(Pending) - Cardinality(pending_of(A)),
                active_members |-> Cardinality(Active)]
  BY MembersFinite DEF remove_if_pending
<1>4. /\ Cardinality(Pending') = Cardinality(Pending) - Cardinality(pending_of(A))
      /\ Cardinality(pending_of(A)) \in Nat
  BY <1>2, MembersFinite, SetMinus
<1>5. Cardinality(Pending) - Cardinality(pending_of(A)) \in Int /\ Cardinality(Active) \in Int
  BY <1>4, MembersFinite, FS_CardinalityType
<1>6. DOMAIN member' \subseteq Account
  BY <1>1 DEF MembersInv
<1>7. MembersInv'
  BY <1>2, <1>3, <1>4, <1>5, <1>6, MembersCounted
<1> QED
  BY <1>1, <1>2, <1>7

-----------------------------------------------------------------------------
(***************************************************************************)
(* The invariant.                                                          *)
(***************************************************************************)
\* Only the contract invites in genesis.
Founders(I, st) == st = "genesis" => \A i \in DOMAIN I : I[i].inviter = Contract

TableInv == Ids(inductions) /\ (\A i \in DOMAIN inductions : Good(inductions[i])) /\ Founders(inductions, stage)

\* NoneForgotten and PendingHaveInductions of some table, queue and history.
Unforgotten(I, Q, P) == \A i \in DOMAIN I : I[i].invitee \in P \/ I[i].invitee \in Q
Reachable(I, S, P) == \A a \in P : has_induction(I, a) \/ a \in S

IInv ==
  /\ TableInv
  /\ MembersInv
  /\ Unforgotten(inductions, gc_queue, Pending)
  /\ Reachable(inductions, swept, Pending)
  /\ MeetingsBelong

LEMMA IdsFewer ==
  ASSUME NEW I, Ids(I), NEW J, DOMAIN J \subseteq DOMAIN I
  PROVE  Ids(J)
BY DEF Ids

LEMMA IdsMore ==
  ASSUME NEW I, Ids(I), NEW k \in Nat, NEW J, DOMAIN J \subseteq DOMAIN I \cup {k}
  PROVE  Ids(J)
<1>1. PICK n \in Nat : DOMAIN I \subseteq 0..n
  BY DEF Ids
<1>2. n + k \in Nat /\ DOMAIN J \subseteq 0..(n + k)
  BY <1>1
<1> QED
  BY <1>2 DEF Ids

\* Inductions are changed where they are.
LEMMA InPlace ==
  ASSUME IInv, DOMAIN inductions' = DOMAIN inductions,
         \A i \in DOMAIN inductions : Good(inductions'[i]) /\ SameParties(inductions'[i], inductions[i]),
         stage' = stage, MembersInv', Pending' = Pending,
         gc_queue' = gc_queue, swept' = swept, meetings' \subseteq DOMAIN inductions
  PROVE  IInv'
<1>1. \A i \in DOMAIN inductions : /\ inductions'[i].invitee = inductions[i].invitee
                                   /\ inductions'[i].inviter = inductions[i].inviter
  BY DEF SameParties
<1>2. Founders(inductions', stage')
  BY <1>1 DEF IInv, TableInv, Founders
<1>3. Ids(inductions')
  BY IdsFewer DEF IInv, TableInv
<1>4. TableInv'
  BY <1>2, <1>3 DEF TableInv
<1>5. Unforgotten(inductions', gc_queue', Pending')
  BY <1>1 DEF IInv, Unforgotten
<1>6. \A a : by_invitee(inductions', a) = by_invitee(inductions, a)
  BY <1>1 DEF by_invitee
<1>7. Reachable(inductions', swept', Pending')
  BY <1>6 DEF IInv, Reachable, has_induction
<1>8. MeetingsBelong'
  BY DEF MeetingsBelong
<1> QED
  BY <1>4, <1>5, <1>7, <1>8 DEF IInv

\* Only the members change, and only by some that are not pending.
LEMMA MembersOnly ==
  ASSUME IInv, MembersInv', Pending' = Pending,
         UNCHANGED <<stage, inductions, gc_queue, swept, meetings>>
  PROVE  IInv'
<1>1. TableInv'
  BY DEF IInv, TableInv
<1>2. MeetingsBelong'
  BY DEF IInv, MeetingsBelong
<1>3. Unforgotten(inductions, gc_queue, Pending)' /\ Reachable(inductions, swept, Pending)'
  BY DEF IInv, Unforgotten, Reachable, has_induction, by_invitee
<1> QED
  BY <1>1, <1>2, <1>3 DEF IInv

\* An invitation is added to the table.
LEMMA Added ==
  ASSUME IInv, MembersInv', NEW id \in Nat, id \notin DOMAIN inductions, NEW I, NEW ind,
         DOMAIN I = DOMAIN inductions,
         \A i \in DOMAIN I : Good(I[i]) /\ SameParties(I[i], inductions[i]),
         Good(ind), stage = "genesis" => ind.inviter = Contract,
         inductions' = with(I, id, ind),
         Pending' = Pending \cup {ind.invitee},
         swept' = swept \/ swept' = swept \ {ind.invitee},
         UNCHANGED <<stage, gc_queue, meetings>>
  PROVE  IInv'
<1>1. /\ DOMAIN inductions' = DOMAIN inductions \cup {id} /\ inductions'[id] = ind
      /\ \A i \in DOMAIN inductions : inductions'[i] = I[i]
  BY DEF with
<1>2. \A i \in DOMAIN inductions : /\ inductions'[i].invitee = inductions[i].invitee
                                   /\ inductions'[i].inviter = inductions[i].inviter
                                   /\ Good(inductions'[i])
  BY <1>1 DEF SameParties
<1>3. Founders(inductions', stage')
  BY <1>1, <1>2 DEF IInv, TableInv, Founders
<1>4. Ids(inductions')
  BY <1>1, IdsMore DEF IInv, TableInv
<1>5. TableInv'
  BY <1>1, <1>2, <1>3, <1>4 DEF TableInv
<1>6. Unforgotten(inductions', gc_queue', Pending')
  BY <1>1, <1>2 DEF IInv, Unforgotten
<1>7. /\ \A a : by_invitee(inductions, a) \subseteq by_invitee(inductions', a)
      /\ id \in by_invitee(inductions', ind.invitee)
  BY <1>1, <1>2 DEF by_invitee
<1>8. Reachable(inductions', swept', Pending')
  BY <1>7 DEF IInv, Reachable, has_induction
<1>9. MeetingsBelong'
  BY <1>1 DEF IInv, MeetingsBelong
<1> QED
  BY <1>5, <1>6, <1>8, <1>9 DEF IInv

\* Inductions are erased.
LEMMA Erased ==
  ASSUME IInv, MembersInv', NEW I, erase(I), DOMAIN I \subseteq DOMAIN inductions,
         \A i \in DOMAIN I : Good(I[i]) /\ SameParties(I[i], inductions[i]),
         stage' = stage \/ stage' = "active",
         Unforgotten(I, gc_queue', Pending'), Reachable(I, swept', Pending')
  PROVE  IInv'
<1>1. inductions' = I /\ meetings' \subseteq DOMAIN I
  BY DEF erase
<1>2. Founders(I, stage')
  BY DEF IInv, TableInv, Founders, SameParties
<1>3. Ids(I)
  BY IdsFewer DEF IInv, TableInv
<1>4. TableInv'
  BY <1>1, <1>2, <1>3 DEF TableInv
<1>5. MeetingsBelong'
  BY <1>1 DEF MeetingsBelong
<1> QED
  BY <1>1, <1>4, <1>5 DEF IInv

-----------------------------------------------------------------------------
(***************************************************************************)
(* gc, one erasure after the other.                                        *)
(***************************************************************************)
GcFields == {"inductions", "queue", "removed", "steps", "swept"}

GcStart == [inductions |-> inductions, queue |-> gc_queue, removed |-> {}, steps |-> 0, swept |-> swept]

gc_after(limit) ==
  CHOOSE f : f = [k \in 0..limit |-> IF k = 0 THEN GcStart ELSE gc_step(f[k - 1])]

LEMMA GcDefined ==
  ASSUME NEW limit \in Nat
  PROVE  \A k \in 0..limit :
           gc_after(limit)[k] = IF k = 0 THEN GcStart ELSE gc_step(gc_after(limit)[k - 1])
<1> DEFINE P == {n \in Nat : \E f : f = [k \in 0..n |-> IF k = 0 THEN GcStart ELSE gc_step(f[k - 1])]}
<1>1. 0 \in P
  <2> DEFINE f == [k \in 0..0 |-> GcStart]
  <2>1. f = [k \in 0..0 |-> IF k = 0 THEN GcStart ELSE gc_step(f[k - 1])]
    <3>1. \A k \in 0..0 : k = 0
      OBVIOUS
    <3> QED
      BY <3>1
  <2> HIDE DEF f
  <2> QED
    BY <2>1
<1>2. ASSUME NEW n \in P PROVE n + 1 \in P
  <2>1. n \in Nat /\ n + 1 \in Nat
    OBVIOUS
  <2>2. PICK f : f = [k \in 0..n |-> IF k = 0 THEN GcStart ELSE gc_step(f[k - 1])]
    OBVIOUS
  <2> DEFINE h == [k \in 0..(n + 1) |-> IF k = 0 THEN GcStart ELSE gc_step(f[k - 1])]
  <2>3. \A k \in 0..n : h[k] = f[k]
    BY <2>1, <2>2
  <2>4. \A k \in 0..(n + 1) : k # 0 => k - 1 \in 0..n
    BY <2>1
  <2>5. \A k \in 0..(n + 1) : h[k] = IF k = 0 THEN GcStart ELSE gc_step(h[k - 1])
    BY <2>3, <2>4
  <2>6. h = [k \in 0..(n + 1) |-> h[k]]
    OBVIOUS
  <2> HIDE DEF h
  <2>7. h = [k \in 0..(n + 1) |-> IF k = 0 THEN GcStart ELSE gc_step(h[k - 1])]
    BY <2>5, <2>6
  <2> QED
    BY <2>1, <2>7
<1>3. limit \in P
  <2>1. P \in SUBSET Nat
    OBVIOUS
  <2> HIDE DEF P
  <2> QED
    BY <1>1, <1>2, <2>1, NaturalsAll
<1>4. gc_after(limit) = [k \in 0..limit |-> IF k = 0 THEN GcStart ELSE gc_step(gc_after(limit)[k - 1])]
  BY <1>3 DEF gc_after
<1> QED
  BY <1>4

\* What every erasure keeps, of the inductions that are left and the accounts so far removed.
GcInv(s) ==
  /\ DOMAIN s = GcFields
  /\ DOMAIN s.inductions \subseteq DOMAIN inductions
  /\ \A i \in DOMAIN s.inductions : s.inductions[i] = inductions[i]
  /\ Unforgotten(s.inductions, s.queue, Pending)
  /\ \A a \in s.removed : ~has_induction(s.inductions, a)
  /\ Reachable(s.inductions, s.swept \cup s.removed, Pending)

\* One induction less.
LEMMA GcErases ==
  ASSUME NEW s, GcInv(s), NEW i, NEW t, DOMAIN t = GcFields,
         t.inductions = without(s.inductions, {i}), t.queue = s.queue,
         s.removed \subseteq t.removed,
         \A a \in t.removed : a \in s.removed \/ ~has_induction(t.inductions, a),
         s.swept \subseteq t.swept,
         \/ has_induction(t.inductions, s.inductions[i].invitee)
         \/ s.inductions[i].invitee \in t.swept \cup t.removed
         \/ s.inductions[i].invitee \notin Pending \/ i \notin DOMAIN s.inductions
  PROVE  GcInv(t)
<1>1. /\ DOMAIN t.inductions = DOMAIN s.inductions \ {i}
      /\ \A j \in DOMAIN t.inductions : t.inductions[j] = s.inductions[j]
  BY DEF without
<1>2. Unforgotten(t.inductions, t.queue, Pending)
  BY <1>1 DEF GcInv, Unforgotten
<1>3. \A a : by_invitee(t.inductions, a) \subseteq by_invitee(s.inductions, a)
  BY <1>1 DEF by_invitee
<1>4. \A a \in t.removed : ~has_induction(t.inductions, a)
  BY <1>3 DEF GcInv, has_induction
<1>5. \A a : a # s.inductions[i].invitee => by_invitee(t.inductions, a) = by_invitee(s.inductions, a)
  BY <1>1 DEF by_invitee
<1>6. Reachable(t.inductions, t.swept \cup t.removed, Pending)
  <2>1. CASE i \in DOMAIN s.inductions
    BY <1>5, <2>1 DEF GcInv, Reachable, has_induction
  <2>2. CASE i \notin DOMAIN s.inductions
    <3>1. \A a : by_invitee(t.inductions, a) = by_invitee(s.inductions, a)
      BY <1>1, <2>2 DEF by_invitee
    <3> QED
      BY <3>1 DEF GcInv, Reachable, has_induction
  <2> QED
    BY <2>1, <2>2
<1> QED
  BY <1>1, <1>2, <1>4, <1>6 DEF GcInv

LEMMA GcStepKeeps ==
  ASSUME Ids(inductions), NEW s, GcInv(s)
  PROVE  GcInv(gc_step(s))
<1> DEFINE I == s.inductions
           old == oldest(I, expired(I))
           a == I[old].invitee
           left == without(I, {old})
           q == CHOOSE b \in s.queue : TRUE
           of == by_invitee(I, q)
           t == gc_step(s)
<1>1. DOMAIN s = GcFields
  BY DEF GcInv
<1>2. CASE expired(I) # {}
  <2>1. t = [s EXCEPT !.inductions = left, !.steps = @ + 1,
                      !.removed = IF has_induction(left, a) THEN @ ELSE @ \cup {a}]
    BY <1>2 DEF gc_step
  <2> HIDE DEF t, left, a, I, old
  <2>2. /\ DOMAIN t = GcFields /\ t.inductions = left /\ t.queue = s.queue /\ t.swept = s.swept
        /\ t.removed = IF has_induction(left, a) THEN s.removed ELSE s.removed \cup {a}
    BY <1>1, <2>1 DEF GcFields
  <2>3. has_induction(left, a) \/ a \in t.removed
    BY <2>2
  <2>4. s.removed \subseteq t.removed /\ \A b \in t.removed : b \in s.removed \/ ~has_induction(left, b)
    BY <2>2
  <2> QED
    BY <2>2, <2>3, <2>4, GcErases DEF left, a, I, t
<1>3. CASE expired(I) = {} /\ s.queue = {}
  <2>1. t = s
    BY <1>3 DEF gc_step
  <2> QED
    BY <2>1
<1>4. CASE expired(I) = {} /\ s.queue # {} /\ of # {}
  <2>1. t = [s EXCEPT !.inductions = without(@, {least(of)}), !.steps = @ + 1,
                      !.swept = IF pending(q) THEN @ \cup {q} ELSE @]
    BY <1>4 DEF gc_step
  <2>2. least(of) \in DOMAIN I /\ I[least(of)].invitee = q
    <3>1. of \subseteq Nat
      BY DEF GcInv, by_invitee, Ids
    <3>2. least(of) \in of
      BY <1>4, <3>1, LeastInSet
    <3> QED
      BY <3>2 DEF by_invitee
  <2> HIDE DEF t, q, of
  <2>3. /\ DOMAIN t = GcFields /\ t.inductions = without(I, {least(of)}) /\ t.queue = s.queue
        /\ t.removed = s.removed /\ t.swept = IF pending(q) THEN s.swept \cup {q} ELSE s.swept
    BY <1>1, <2>1 DEF GcFields
  <2>4. q \in t.swept \/ q \notin Pending
    BY <2>3 DEF Pending, pending
  <2>5. s.swept \subseteq t.swept
    BY <2>3
  <2> QED
    BY <2>2, <2>3, <2>4, <2>5, GcErases DEF t
<1>5. CASE expired(I) = {} /\ s.queue # {} /\ of = {}
  <2>1. t = [s EXCEPT !.queue = @ \ {q}, !.steps = @ + 1]
    BY <1>5 DEF gc_step
  <2>2. \A i \in DOMAIN I : I[i].invitee # q
    BY <1>5 DEF by_invitee
  <2> HIDE DEF t, q, of
  <2>3. /\ DOMAIN t = GcFields /\ t.inductions = I /\ t.queue = s.queue \ {q}
        /\ t.removed = s.removed /\ t.swept = s.swept
    BY <1>1, <2>1 DEF GcFields
  <2>4. Unforgotten(t.inductions, t.queue, Pending)
    BY <2>2, <2>3 DEF GcInv, Unforgotten
  <2>5. GcInv(t)
    BY <2>3, <2>4 DEF GcInv
  <2> QED
    BY <2>5 DEF t
<1> QED
  BY <1>2, <1>3, <1>4, <1>5

LEMMA GcReaches ==
  ASSUME IInv, NEW limit \in Nat
  PROVE  GcInv(gc_after(limit)[limit])
<1> DEFINE f == gc_after(limit)
           P == {n \in Nat : n <= limit => GcInv(f[n])}
<1>1. Ids(inductions)
  BY DEF IInv, TableInv
<1>2. GcInv(GcStart)
  <2>1. DOMAIN GcStart = GcFields
    BY DEF GcStart, GcFields
  <2>2. /\ GcStart.inductions = inductions /\ GcStart.queue = gc_queue
        /\ GcStart.removed = {} /\ GcStart.swept = swept
    BY DEF GcStart
  <2>3. Reachable(inductions, swept \cup {}, Pending)
    BY DEF IInv, Reachable
  <2> QED
    BY <2>1, <2>2, <2>3 DEF GcInv, IInv
<1>3. f[0] = GcStart /\ \A k \in 1..limit : f[k] = gc_step(f[k - 1])
  <2>1. \A k \in 0..limit : f[k] = IF k = 0 THEN GcStart ELSE gc_step(f[k - 1])
    BY GcDefined
  <2> HIDE DEF f
  <2> QED
    BY <2>1
<1> HIDE DEF f
<1>4. 0 \in P
  BY <1>2, <1>3
<1>5. ASSUME NEW n \in P PROVE n + 1 \in P
  <2>1. n \in Nat /\ n + 1 \in Nat
    OBVIOUS
  <2>2. ASSUME n + 1 <= limit PROVE GcInv(f[n + 1])
    <3>1. GcInv(f[n])
      BY <2>1, <2>2
    <3>2. n + 1 \in 1..limit /\ (n + 1) - 1 = n
      BY <2>1, <2>2
    <3>3. f[n + 1] = gc_step(f[n])
      BY <1>3, <3>2
    <3> QED
      BY <1>1, <3>1, <3>3, GcStepKeeps
  <2> QED
    BY <2>1, <2>2
<1>6. limit \in P
  <2>1. P \in SUBSET Nat
    OBVIOUS
  <2> HIDE DEF P
  <2> QED
    BY <1>4, <1>5, <2>1, NaturalsAll
<1> QED
  BY <1>6 DEF f

-----------------------------------------------------------------------------
(***************************************************************************)
(* The actions.                                                            *)
(***************************************************************************)
LEMMA InvitationKeeps ==
  ASSUME IInv, NEW id \in Nat, NEW inviter, NEW invitee \in Account, NEW W \in SUBSET Account,
         inductinit(id, inviter, invitee, W)
  PROVE  IInv'
<1> DEFINE endorsers == <<inviter>> \o listed(W)
           n == Cardinality(W) + 1
           ind == create_induction(inviter, invitee, n, 0, endorsers)
<1>1. IsFiniteSet(W) /\ Cardinality(W) \in Nat
  BY InductionsAssumption, FS_Subset, FS_CardinalityType
<1>2. IsSeq(endorsers) /\ Len(endorsers) = n
  <2>1. IsSeq(<<inviter>>) /\ Len(<<inviter>>) = 1
    <3>1. <<inviter>> \in Seq({inviter})
      OBVIOUS
    <3> QED
      BY <3>1, SeqInSet
  <2> QED
    BY <1>1, <2>1, ListedSeq, JoinedSeq
<1>3. Good(ind) /\ ind.invitee = invitee
  <2> HIDE DEF endorsers, n
  <2> QED
    BY <1>2, CreatedGood
<1> HIDE DEF ind
<1>4. /\ stage = "active" /\ id \notin DOMAIN inductions /\ inductions' = with(inductions, id, ind)
      /\ swept' = swept \ {invitee} /\ UNCHANGED <<stage, gc_queue, meetings>>
  BY DEF inductinit, initialize_induction, ind
<1>5. MembersInv' /\ Pending' = Pending \cup {invitee}
  <2>1. CASE is_new_member(invitee)
    <3>1. created(invitee)
      BY <2>1 DEF inductinit
    <3> QED
      BY <3>1, CreatedCounted DEF IInv
  <2>2. CASE ~is_new_member(invitee)
    <3>1. pending(invitee) /\ UNCHANGED <<member, stats>>
      BY <2>2 DEF inductinit
    <3>2. MembersInv'
      BY <3>1 DEF IInv, MembersInv, StatsMatch
    <3>3. Pending' = Pending /\ invitee \in Pending
      BY <3>1 DEF Pending, pending
    <3> QED
      BY <3>2, <3>3
  <2> QED
    BY <2>1, <2>2
<1>6. \A i \in DOMAIN inductions : Good(inductions[i]) /\ SameParties(inductions[i], inductions[i])
  BY DEF IInv, TableInv, SameParties
<1> QED
  BY <1>3, <1>4, <1>5, <1>6, Added

LEMMA GenesisAdditionKeeps ==
  ASSUME IInv, NEW a \in Account, NEW e, addtogenesis(a, e)
  PROVE  IInv'
<1> DEFINE I == [i \in DOMAIN inductions |-> add_endorsement(inductions[i], a, TRUE)]
           new == create_induction(Contract, a, Cardinality(DOMAIN member),
                                   inductions[least(DOMAIN inductions)].video, listed(DOMAIN member))
           ind == [new EXCEPT !.created_at = e - Lifetime]
<1>1. Good(new) /\ new.invitee = a /\ new.inviter = Contract
  <2>1. IsSeq(listed(DOMAIN member)) /\ Len(listed(DOMAIN member)) = Cardinality(DOMAIN member)
    BY MembersFinite, ListedSeq DEF IInv
  <2> QED
    BY <2>1, CreatedGood
<1>2. /\ stage = "genesis" /\ created(a)
      /\ inductions' = with(I, next_id(inductions), ind)
      /\ UNCHANGED <<stage, gc_queue, meetings, swept>>
  BY DEF addtogenesis
<1> HIDE DEF new
<1>3. Good(ind) /\ ind.invitee = a /\ ind.inviter = Contract
  <2>1. DOMAIN new = Fields /\ IsSeq(new.rows) /\ new.endorsements = Len(new.rows)
    BY <1>1 DEF Good, Formed
  <2>2. /\ DOMAIN ind = Fields /\ ind.rows = new.rows /\ ind.endorsements = new.endorsements
        /\ ind.inviter = new.inviter /\ ind.invitee = new.invitee
    BY <2>1 DEF Fields
  <2> HIDE DEF ind
  <2> QED
    BY <1>1, <2>1, <2>2, GenesisGood
<1>4. \A i \in DOMAIN inductions : inductions[i].inviter = Contract /\ Good(inductions[i])
  BY <1>2 DEF IInv, TableInv, Founders
<1>5. /\ DOMAIN I = DOMAIN inductions
      /\ \A i \in DOMAIN I : Good(I[i]) /\ SameParties(I[i], inductions[i])
  BY <1>4, AddedGood
<1>6. next_id(inductions) \in Nat /\ next_id(inductions) \notin DOMAIN inductions
  BY NextIdIsNew DEF IInv, TableInv
<1>7. MembersInv' /\ Pending' = Pending \cup {a}
  BY <1>2, CreatedCounted DEF IInv
<1> HIDE DEF I, ind
<1> QED
  BY <1>2, <1>3, <1>5, <1>6, <1>7, Added

LEMMA OneChanged ==
  ASSUME IInv, NEW id \in DOMAIN inductions, NEW new, Good(new), SameParties(new, inductions[id]),
         inductions' = [inductions EXCEPT ![id] = new],
         UNCHANGED <<stage, member, stats, gc_queue, meetings, swept>>
  PROVE  IInv'
<1>1. DOMAIN inductions' = DOMAIN inductions
  OBVIOUS
<1>2. \A i \in DOMAIN inductions : Good(inductions'[i]) /\ SameParties(inductions'[i], inductions[i])
  BY DEF IInv, TableInv, SameParties
<1>3. MembersInv' /\ Pending' = Pending /\ meetings' \subseteq DOMAIN inductions
  BY DEF IInv, MembersInv, StatsMatch, Pending, MeetingsBelong
<1> QED
  BY <1>1, <1>2, <1>3, InPlace

LEMMA ProfileKeeps ==
  ASSUME IInv, NEW id \in DOMAIN inductions, NEW x, inductprofil(id, x)
  PROVE  IInv'
<1> DEFINE ind == update_profile(inductions[id], x)
           new == IF stage = "genesis" THEN [ind EXCEPT !.rows = endorse_all(@)] ELSE ind
<1>1. Good(inductions[id]) /\ (stage = "genesis" => inductions[id].inviter = Contract)
  BY DEF IInv, TableInv, Founders
<1>2. Good(ind) /\ SameParties(ind, inductions[id])
  BY <1>1, UpdatedGood
<1>3. inductions' = [inductions EXCEPT ![id] = new]
  BY DEF inductprofil
<1> HIDE DEF ind
<1>4. Good(new) /\ SameParties(new, inductions[id])
  <2>1. CASE stage = "genesis"
    <3>1. ind.inviter = Contract
      BY <1>1, <1>2, <2>1 DEF SameParties
    <3>2. Good([ind EXCEPT !.rows = endorse_all(@)]) /\ SameParties([ind EXCEPT !.rows = endorse_all(@)], ind)
      BY <1>2, <3>1, EndorsedAllGood
    <3> QED
      BY <1>2, <2>1, <3>2 DEF SameParties
  <2>2. CASE stage # "genesis"
    BY <1>2, <2>2
  <2> QED
    BY <2>1, <2>2
<1> HIDE DEF new
<1>5. UNCHANGED <<stage, member, stats, gc_queue, meetings, swept>>
  BY DEF inductprofil
<1> QED
  BY <1>3, <1>4, <1>5, OneChanged

LEMMA VideoKeeps ==
  ASSUME IInv, NEW id \in DOMAIN inductions, NEW x, NEW a, inductvideo(a, id, x)
  PROVE  IInv'
<1> DEFINE new == update_video(inductions[id], x)
<1>1. Good(inductions[id])
  BY DEF IInv, TableInv
<1>2. Good(new) /\ SameParties(new, inductions[id])
  BY <1>1, UpdatedGood
<1>3. inductions' = [inductions EXCEPT ![id] = new] /\ UNCHANGED <<stage, member, stats, gc_queue, meetings, swept>>
  BY DEF inductvideo
<1> HIDE DEF new
<1> QED
  BY <1>2, <1>3, OneChanged

LEMMA ExpirationKeeps ==
  ASSUME IInv, NEW id \in DOMAIN inductions, NEW e, gensetexpire(id, e)
  PROVE  IInv'
<1> DEFINE ind == inductions[id]
           new == [ind EXCEPT !.created_at = e - Lifetime]
<1>1. Good(ind) /\ ind.inviter = Contract
  BY DEF IInv, TableInv, Founders, gensetexpire
<1>2. DOMAIN ind = Fields /\ IsSeq(ind.rows) /\ ind.endorsements = Len(ind.rows)
  BY <1>1 DEF Good, Formed
<1>3. inductions' = [inductions EXCEPT ![id] = new] /\ UNCHANGED <<stage, member, stats, gc_queue, meetings, swept>>
  BY DEF gensetexpire
<1> HIDE DEF ind
<1>4. /\ DOMAIN new = Fields /\ new.rows = ind.rows /\ new.endorsements = ind.endorsements
      /\ new.inviter = ind.inviter /\ new.invitee = ind.invitee
  BY <1>2 DEF Fields
<1> HIDE DEF new
<1>5. Good(new) /\ SameParties(new, ind)
  BY <1>1, <1>2, <1>4, GenesisGood DEF SameParties
<1> QED
  BY <1>3, <1>5, OneChanged DEF ind

LEMMA EndorsementKeeps ==
  ASSUME IInv, NEW id \in DOMAIN inductions, NEW a, NEW hash, inductendors(a, id, hash)
  PROVE  IInv'
<1> DEFINE ind == inductions[id]
<1>1. UNCHANGED <<stage, member, stats, gc_queue, meetings, swept>>
  BY DEF inductendors
<1>2. PICK r \in row_of(ind.rows, a) :
        inductions' = [inductions EXCEPT ![id].rows[r].endorsed = TRUE, ![id].rows[r].hash = hash]
  BY DEF inductendors, endorse
<1>3. hash = <<ind.video, ind.profile>> /\ r \in DOMAIN ind.rows
  BY DEF inductendors, endorse, row_of
<1> DEFINE row == [[ind.rows[r] EXCEPT !.endorsed = TRUE] EXCEPT !.hash = hash]
           rows == [ind.rows EXCEPT ![r] = row]
           new == [ind EXCEPT !.rows = rows]
<1>4. Good(ind) /\ DOMAIN ind = Fields /\ IsSeq(ind.rows) /\ ind.endorsements = Len(ind.rows)
  BY DEF IInv, TableInv, Good, Formed
<1> HIDE DEF ind
<1>5. /\ DOMAIN inductions' = DOMAIN inductions
      /\ inductions'[id] = new /\ \A i \in DOMAIN inductions : i # id => inductions'[i] = inductions[i]
  <2>1. DOMAIN inductions' = DOMAIN inductions /\ \A i \in DOMAIN inductions : i # id => inductions'[i] = inductions[i]
    BY <1>2
  <2>2. inductions'[id] = [[ind EXCEPT !.rows[r].endorsed = TRUE] EXCEPT !.rows[r].hash = hash]
    BY <1>2 DEF ind
  <2>3. inductions'[id] = new
    BY <1>3, <1>4, <2>2 DEF Fields
  <2> QED
    BY <2>1, <2>3
<1>6. /\ DOMAIN new = Fields /\ new.rows = rows /\ new.endorsements = ind.endorsements
      /\ new.inviter = ind.inviter /\ new.invitee = ind.invitee
      /\ new.video = ind.video /\ new.profile = ind.profile
  <2> HIDE DEF rows
  <2> QED
    BY <1>4 DEF Fields
<1>7. DOMAIN rows = DOMAIN ind.rows /\ rows = [k \in DOMAIN ind.rows |-> rows[k]]
  OBVIOUS
<1>8. ind.inviter # Contract =>
        \A k \in DOMAIN rows : /\ DOMAIN rows[k] = RowFields
                               /\ rows[k].endorsed => rows[k].hash = <<ind.video, ind.profile>>
  BY <1>3, <1>4 DEF Good, Seen, RowFields
<1> HIDE DEF rows, new
<1>9. IsSeq(rows) /\ Len(rows) = Len(ind.rows)
  BY <1>4, <1>7, MappedSeq
<1>10. Formed(new) /\ Seen(new)
  BY <1>4, <1>6, <1>8, <1>9 DEF Formed, Seen
<1>11. \A i \in DOMAIN inductions : Good(inductions'[i]) /\ SameParties(inductions'[i], inductions[i])
  <2>1. \A i \in DOMAIN inductions : Good(inductions[i])
    BY DEF IInv, TableInv
  <2> QED
    BY <1>5, <1>6, <1>10, <2>1 DEF Good, SameParties, ind
<1>12. MembersInv' /\ Pending' = Pending /\ meetings' \subseteq DOMAIN inductions
  BY <1>1 DEF IInv, MembersInv, StatsMatch, Pending, MeetingsBelong
<1> QED
  BY <1>1, <1>5, <1>11, <1>12, InPlace

LEMMA DonationKeeps ==
  ASSUME IInv, NEW id \in DOMAIN inductions, inductdonate(id)
  PROVE  IInv'
<1> DEFINE ind == inductions[id]
           a == ind.invitee
           others == by_invitee(inductions, a) \ {id}
<1>1. set_active(a) /\ maybe_activate_contract /\ swept' = swept
  BY DEF inductdonate
<1>2. PICK erased \in SUBSET others :
        /\ Cardinality(erased) = IF Cardinality(others) < MaxGc THEN Cardinality(others) ELSE MaxGc
        /\ erase(without(inductions, erased \cup {id}))
        /\ queue_gc(a, erased, others)
  BY DEF inductdonate
<1> DEFINE I == without(inductions, erased \cup {id})
<1>3. /\ DOMAIN I = DOMAIN inductions \ (erased \cup {id})
      /\ \A i \in DOMAIN I : I[i] = inductions[i]
  BY DEF without
<1>4. MembersInv' /\ Pending' = Pending \ {a}
  BY <1>1, ActivatedCounted DEF IInv
<1>5. gc_queue \subseteq gc_queue' /\ (a \in gc_queue' \/ erased = others)
  <2>1. CASE Cardinality(erased) < MaxGc
    <3>1. PICK n \in Nat : DOMAIN inductions \subseteq 0..n
      BY DEF IInv, TableInv, Ids
    <3>2. IsFiniteSet(others)
      <4>1. others \in SUBSET (0..n)
        BY <3>1 DEF by_invitee
      <4>2. IsFiniteSet(0..n)
        BY FS_Interval
      <4> HIDE DEF others
      <4> QED
        BY <4>1, <4>2, FS_Subset
    <3>3. Cardinality(others) \in Nat
      BY <3>2, FS_CardinalityType
    <3>4. Cardinality(others) = Cardinality(erased)
      BY <1>2, <2>1, <3>3, InductionsAssumption
    <3>5. erased = others
      BY <3>2, <3>4, FS_Subset
    <3> QED
      BY <1>2, <2>1, <3>5 DEF queue_gc
  <2>2. CASE ~(Cardinality(erased) < MaxGc)
    BY <1>2, <2>2 DEF queue_gc
  <2> QED
    BY <2>1, <2>2
<1>6. \A i \in DOMAIN I : Good(I[i]) /\ SameParties(I[i], inductions[i])
  BY <1>3 DEF IInv, TableInv, SameParties
<1>7. Unforgotten(I, gc_queue', Pending')
  <2>1. ASSUME NEW i \in DOMAIN I PROVE I[i].invitee \in Pending' \/ I[i].invitee \in gc_queue'
    <3>1. CASE I[i].invitee = a
      <4>1. i \in others /\ i \notin erased
        BY <1>3, <3>1 DEF by_invitee
      <4> QED
        BY <1>5, <3>1, <4>1
    <3>2. CASE I[i].invitee # a
      BY <1>3, <1>4, <1>5, <3>2 DEF IInv, Unforgotten
    <3> QED
      BY <3>1, <3>2
  <2> QED
    BY <2>1 DEF Unforgotten
<1>8. Reachable(I, swept', Pending')
  <2>1. \A b : b # a => by_invitee(I, b) = by_invitee(inductions, b)
    BY <1>3 DEF by_invitee
  <2> QED
    BY <1>1, <1>4, <2>1 DEF IInv, Reachable, has_induction
<1>9. stage' = stage \/ stage' = "active"
  BY <1>1 DEF maybe_activate_contract
<1> HIDE DEF I, others, a, ind
<1>10. erase(I) /\ DOMAIN I \subseteq DOMAIN inductions
  BY <1>2, <1>3 DEF I
<1> QED
  BY <1>4, <1>6, <1>7, <1>8, <1>9, <1>10, Erased

LEMMA CancellationKeeps ==
  ASSUME IInv, NEW id \in DOMAIN inductions, NEW account, inductcancel(account, id)
  PROVE  IInv'
<1> DEFINE a == inductions[id].invitee
           rest == without(inductions, {id})
           left == IF stage = "genesis" /\ ~has_induction(rest, a) THEN erase_endorser(rest, a) ELSE rest
<1>1. /\ erase(left) /\ swept' = swept \cap DOMAIN member' /\ gc_queue' = gc_queue
      /\ IF has_induction(rest, a) THEN UNCHANGED <<member, stats, stage>>
         ELSE remove_if_pending({a}) /\ maybe_activate_contract
  BY DEF inductcancel
<1>2. DOMAIN rest = DOMAIN inductions \ {id} /\ \A i \in DOMAIN rest : rest[i] = inductions[i]
  BY DEF without
<1>3. DOMAIN left = DOMAIN rest /\ \A i \in DOMAIN left : Good(left[i]) /\ SameParties(left[i], inductions[i])
  <2>1. CASE stage = "genesis" /\ ~has_induction(rest, a)
    <3>1. \A i \in DOMAIN rest : Good(rest[i]) /\ rest[i].inviter = Contract
      BY <1>2, <2>1 DEF IInv, TableInv, Founders
    <3> HIDE DEF rest, a
    <3>2. left = erase_endorser(rest, a)
      BY <2>1
    <3> QED
      BY <1>2, <3>1, <3>2, ErasedGood
  <2>2. CASE ~(stage = "genesis" /\ ~has_induction(rest, a))
    <3> HIDE DEF rest, a
    <3>1. left = rest
      BY <2>2
    <3> HIDE DEF left
    <3> QED
      BY <1>2, <3>1 DEF IInv, TableInv, SameParties
  <2> QED
    BY <2>1, <2>2
<1> HIDE DEF left
<1>4. \A b : by_invitee(left, b) = by_invitee(rest, b)
  BY <1>2, <1>3 DEF by_invitee, SameParties
<1>5. \A b : b # a => by_invitee(rest, b) = by_invitee(inductions, b)
  BY <1>2 DEF by_invitee
<1> HIDE DEF rest
<1>6. MembersInv' /\ Pending' \subseteq Pending /\ (stage' = stage \/ stage' = "active")
  <2>1. CASE has_induction(rest, a)
    BY <1>1, <2>1 DEF IInv, MembersInv, StatsMatch, Pending
  <2>2. CASE ~has_induction(rest, a)
    <3>1. remove_if_pending({a}) /\ maybe_activate_contract
      BY <1>1, <2>2
    <3> QED
      BY <3>1, PendingRemovedCounted DEF IInv, maybe_activate_contract
  <2> QED
    BY <2>1, <2>2
<1>7. \/ has_induction(rest, a) /\ Pending' = Pending
      \/ ~has_induction(rest, a) /\ Pending' = Pending \ {a}
  <2>1. CASE has_induction(rest, a)
    BY <1>1, <2>1 DEF Pending
  <2>2. CASE ~has_induction(rest, a)
    <3>1. remove_if_pending({a})
      BY <1>1, <2>2
    <3> QED
      BY <2>2, <3>1, PendingRemovedCounted DEF IInv
  <2> QED
    BY <2>1, <2>2
<1>8. Unforgotten(left, gc_queue', Pending')
  <2>1. ASSUME NEW i \in DOMAIN left PROVE left[i].invitee \in Pending' \/ left[i].invitee \in gc_queue'
    <3>1. left[i].invitee = inductions[i].invitee /\ i \in DOMAIN inductions
      BY <1>2, <1>3 DEF SameParties
    <3>2. inductions[i].invitee \in Pending \/ inductions[i].invitee \in gc_queue
      BY <3>1 DEF IInv, Unforgotten
    <3>3. i \in by_invitee(rest, left[i].invitee)
      BY <1>4 DEF by_invitee
    <3>4. has_induction(rest, left[i].invitee)
      BY <3>3 DEF has_induction
    <3>5. inductions[i].invitee \in Pending => inductions[i].invitee \in Pending'
      BY <1>7, <3>1, <3>4
    <3> QED
      BY <1>1, <3>1, <3>2, <3>5
  <2> QED
    BY <2>1 DEF Unforgotten
<1>9. Reachable(left, swept', Pending')
  <2>1. ASSUME NEW b \in Pending' PROVE has_induction(left, b) \/ b \in swept'
    <3>1. b \in Pending /\ b \in DOMAIN member'
      BY <1>6 DEF Pending
    <3>2. CASE b = a
      <4>1. has_induction(rest, a)
        BY <1>7, <3>2
      <4> QED
        BY <1>4, <3>2, <4>1 DEF has_induction
    <3>3. CASE b # a
      BY <1>1, <1>4, <1>5, <3>1, <3>3 DEF IInv, Reachable, has_induction
    <3> QED
      BY <3>2, <3>3
  <2> QED
    BY <2>1 DEF Reachable
<1>10. erase(left) /\ DOMAIN left \subseteq DOMAIN inductions
  BY <1>1, <1>2, <1>3
<1> QED
  BY <1>3, <1>6, <1>8, <1>9, <1>10, Erased

LEMMA MeetingKeeps ==
  ASSUME IInv, NEW id \in DOMAIN inductions, NEW a, inductmeetin(a, id)
  PROVE  IInv'
<1>1. /\ UNCHANGED <<stage, member, stats, inductions, gc_queue, swept>>
      /\ meetings' = meetings \cup {id}
  BY DEF inductmeetin
<1>2. MembersInv' /\ Pending' = Pending /\ meetings' \subseteq DOMAIN inductions
  BY <1>1 DEF IInv, MembersInv, StatsMatch, Pending, MeetingsBelong
<1>3. \A i \in DOMAIN inductions : Good(inductions'[i]) /\ SameParties(inductions'[i], inductions[i])
  BY <1>1 DEF IInv, TableInv, SameParties
<1> QED
  BY <1>1, <1>2, <1>3, InPlace

LEMMA ResignationKeeps ==
  ASSUME IInv, NEW a, resign(a)
  PROVE  IInv'
<1>1. MembersInv' /\ Pending' = Pending
  BY RemovedCounted DEF IInv, resign
<1>2. UNCHANGED <<stage, inductions, gc_queue, meetings, swept>>
  BY DEF resign
<1> QED
  BY <1>1, <1>2, MembersOnly

LEMMA RenamingKeeps ==
  ASSUME IInv, NEW a, NEW b \in Account, rename(a, b)
  PROVE  IInv'
<1>1. MembersInv' /\ Pending' = Pending
  BY RenamedCounted DEF IInv, rename
<1>2. /\ inductions' = [i \in DOMAIN inductions |-> [inductions[i] EXCEPT !.rows = renamed_rows(@, a, b)]]
      /\ UNCHANGED <<stage, gc_queue, meetings, swept>>
  BY DEF rename
<1>3. \A i \in DOMAIN inductions : Good(inductions'[i]) /\ SameParties(inductions'[i], inductions[i])
  BY <1>2, RenamedGood DEF IInv, TableInv
<1>4. DOMAIN inductions' = DOMAIN inductions /\ meetings' \subseteq DOMAIN inductions
  BY <1>2 DEF IInv, MeetingsBelong
<1> QED
  BY <1>1, <1>2, <1>3, <1>4, InPlace

LEMMA CollectionKeeps ==
  ASSUME IInv, NEW limit \in Nat, gc(limit)
  PROVE  IInv'
<1> DEFINE s == gc_after(limit)[limit]
<1>1. /\ erase(s.inductions) /\ gc_queue' = s.queue
      /\ IF s.removed = {} THEN UNCHANGED <<member, stats, stage>>
         ELSE remove_if_pending(s.removed) /\ maybe_activate_contract
      /\ swept' = s.swept \cap DOMAIN member'
  BY Zenon DEF gc, gc_after, GcStart
<1>2. GcInv(s)
  BY GcReaches
<1> HIDE DEF s
<1>3. MembersInv' /\ Pending' = Pending \ s.removed /\ (stage' = stage \/ stage' = "active")
  <2>1. CASE s.removed = {}
    BY <1>1, <2>1 DEF IInv, MembersInv, StatsMatch, Pending
  <2>2. CASE s.removed # {}
    <3>1. remove_if_pending(s.removed) /\ maybe_activate_contract
      BY <1>1, <2>2
    <3> QED
      BY <3>1, PendingRemovedCounted DEF IInv, maybe_activate_contract
  <2> QED
    BY <2>1, <2>2
<1>4. Unforgotten(s.inductions, gc_queue', Pending')
  <2>1. ASSUME NEW i \in DOMAIN s.inductions
        PROVE  s.inductions[i].invitee \in Pending' \/ s.inductions[i].invitee \in gc_queue'
    <3>1. s.inductions[i].invitee \in Pending \/ s.inductions[i].invitee \in s.queue
      BY <1>2 DEF GcInv, Unforgotten
    <3>2. has_induction(s.inductions, s.inductions[i].invitee)
      BY DEF has_induction, by_invitee
    <3>3. s.inductions[i].invitee \notin s.removed
      BY <1>2, <3>2 DEF GcInv
    <3> QED
      BY <1>1, <1>3, <3>1, <3>3
  <2> QED
    BY <2>1 DEF Unforgotten
<1>5. Reachable(s.inductions, swept', Pending')
  <2>1. Pending' \subseteq DOMAIN member'
    BY DEF Pending
  <2> QED
    BY <1>1, <1>2, <1>3, <2>1 DEF GcInv, Reachable
<1>6. /\ DOMAIN s.inductions \subseteq DOMAIN inductions
      /\ \A i \in DOMAIN s.inductions : Good(s.inductions[i]) /\ SameParties(s.inductions[i], inductions[i])
  BY <1>2 DEF GcInv, IInv, TableInv, SameParties
<1> QED
  BY <1>1, <1>3, <1>4, <1>5, <1>6, Erased

-----------------------------------------------------------------------------
(***************************************************************************)
(* The micro chain.                                                        *)
(***************************************************************************)
ViewFields == {"inductions", "members", "initial", "aborted"}
EntryFields == {"inviter", "invitee", "video", "profile", "rows"}
EntryRowFields == {"endorser", "endorsed"}

RowsShown(er, cr) ==
  /\ DOMAIN er = DOMAIN cr
  /\ \A r \in DOMAIN cr : /\ DOMAIN er[r] = EntryRowFields
                          /\ er[r].endorser = cr[r].endorser /\ er[r].endorsed = cr[r].endorsed

\* Of an induction of genesis the invitee is shown, of a later one everything.
Matches(e, c) ==
  /\ DOMAIN e = EntryFields
  /\ e.invitee = c.invitee
  /\ c.inviter # Contract =>
       /\ e.inviter = c.inviter /\ e.video = c.video /\ e.profile = c.profile
       /\ RowsShown(e.rows, c.rows)

\* The entries V show the inductions I but for those left over, L, of which there are none.
\* There may be entries of inductions that gc has erased.
Shows(V, I, L) ==
  /\ L \subseteq DOMAIN I
  /\ \A i \in DOMAIN V : DOMAIN V[i] = EntryFields
  /\ \A i \in DOMAIN I \ L : i \in DOMAIN V /\ Matches(V[i], I[i])
  /\ \A i \in L : i \notin DOMAIN V

Synced == view.members = Active /\ Shows(view.inductions, inductions, leftover)

VInv == DOMAIN view = ViewFields /\ (~view.aborted /\ ~misnumbered => Synced)

\* A handler aborts, has aborted before or leaves something to show.
LEMMA ViewKept ==
  ASSUME VInv, DOMAIN view' = ViewFields, misnumbered => misnumbered',
         view.aborted => view'.aborted,
         ~view.aborted /\ Synced /\ ~view'.aborted /\ ~misnumbered' => Synced'
  PROVE  VInv'
BY DEF VInv

LEMMA ModifyShown ==
  ASSUME NEW v, DOMAIN v = ViewFields, NEW i, NEW e
  PROVE  LET w == view_modify(v, i, e)
         IN  /\ DOMAIN w = ViewFields /\ (v.aborted => w.aborted)
             /\ ~w.aborted => /\ i \in DOMAIN v.inductions /\ w.members = v.members
                              /\ w.inductions = [v.inductions EXCEPT ![i] = e]
<1> DEFINE w == view_modify(v, i, e)
<1>1. CASE v.aborted
  BY <1>1 DEF view_modify
<1>2. CASE ~v.aborted /\ i \notin DOMAIN v.inductions
  <2>1. w = [v EXCEPT !.aborted = TRUE]
    BY <1>2 DEF view_modify
  <2> QED
    BY <1>2, <2>1 DEF ViewFields
<1>3. CASE ~v.aborted /\ i \in DOMAIN v.inductions
  <2>1. w = [v EXCEPT !.inductions[i] = e]
    BY <1>3 DEF view_modify
  <2> QED
    BY <1>3, <2>1 DEF ViewFields
<1> QED
  BY <1>1, <1>2, <1>3

LEMMA ActiveSame ==
  ASSUME UNCHANGED member
  PROVE  Active' = Active
BY DEF Active

\* One induction changes, and its entry with it.
LEMMA OneShown ==
  ASSUME VInv, NEW id \in DOMAIN inductions, NEW e,
         DOMAIN inductions' = DOMAIN inductions,
         \A i \in DOMAIN inductions : i # id => inductions'[i] = inductions[i],
         view' = view_modify(view, id, e),
         id \in DOMAIN view.inductions /\ Matches(view.inductions[id], inductions[id])
           => Matches(e, inductions'[id]),
         UNCHANGED <<member, leftover, misnumbered>>
  PROVE  VInv'
<1> DEFINE V == view.inductions
           W == view'.inductions
<1>1. /\ DOMAIN view' = ViewFields /\ (view.aborted => view'.aborted)
      /\ ~view'.aborted => /\ id \in DOMAIN V /\ view'.members = view.members
                           /\ W = [V EXCEPT ![id] = e]
  <2>1. DOMAIN view = ViewFields
    BY DEF VInv
  <2> QED
    BY <2>1, ModifyShown
<1>2. ASSUME Synced, ~view'.aborted PROVE Synced'
  <2>1. id \in DOMAIN V /\ view'.members = view.members /\ W = [V EXCEPT ![id] = e]
    BY <1>1, <1>2
  <2>2. Shows(V, inductions, leftover)
    BY <1>2 DEF Synced
  <2>3. id \notin leftover /\ Matches(V[id], inductions[id])
    BY <2>1, <2>2 DEF Shows
  <2>4. Matches(e, inductions'[id])
    BY <2>1, <2>3
  <2>5. DOMAIN W = DOMAIN V /\ W[id] = e /\ \A i \in DOMAIN V : i # id => W[i] = V[i]
    BY <2>1
  <2>6. DOMAIN e = EntryFields
    BY <2>4 DEF Matches
  <2> HIDE DEF V, W
  <2>7. Shows(W, inductions', leftover')
    <3>1. leftover' \subseteq DOMAIN inductions' /\ \A i \in leftover' : i \notin DOMAIN W
      BY <2>2, <2>5 DEF Shows
    <3>2. \A i \in DOMAIN W : DOMAIN W[i] = EntryFields
      BY <2>2, <2>5, <2>6 DEF Shows
    <3>3. ASSUME NEW i \in DOMAIN inductions' \ leftover' PROVE i \in DOMAIN W /\ Matches(W[i], inductions'[i])
      <4>1. i \in DOMAIN inductions \ leftover
        OBVIOUS
      <4>2. i \in DOMAIN V /\ Matches(V[i], inductions[i])
        BY <2>2, <4>1 DEF Shows
      <4>3. CASE i = id
        BY <2>4, <2>5, <4>2, <4>3
      <4>4. CASE i # id
        BY <2>5, <4>1, <4>2, <4>4
      <4> QED
        BY <4>3, <4>4
    <3> QED
      BY <3>1, <3>2, <3>3 DEF Shows
  <2>8. view'.members = Active'
    BY <1>2, <2>1, ActiveSame DEF Synced
  <2> QED
    BY <2>7, <2>8 DEF Synced, W
<1> QED
  BY <1>1, <1>2, ViewKept

LEMMA ResetShown ==
  ASSUME NEW er, NEW cr, RowsShown(er, cr), \A r \in DOMAIN cr : DOMAIN cr[r] = RowFields
  PROVE  RowsShown(reset_endorsements(er), reset_endorsements(cr))
BY DEF RowsShown, reset_endorsements, RowFields, EntryRowFields

\* A new profile or a new video.
LEMMA UpdateShown ==
  ASSUME NEW e, NEW c, Good(c), Matches(e, c), NEW x
  PROVE  /\ Matches([e EXCEPT !.profile = x, !.rows = reset_endorsements(@)], update_profile(c, x))
         /\ Matches([e EXCEPT !.video = x, !.rows = reset_endorsements(@)], update_video(c, x))
<1> DEFINE er == reset_endorsements(e.rows)
           cr == reset_endorsements(c.rows)
<1>1. DOMAIN e = EntryFields /\ DOMAIN c = Fields
  BY DEF Matches, Good, Formed
<1>2. c.inviter # Contract => RowsShown(er, cr)
  <2> SUFFICES ASSUME c.inviter # Contract PROVE RowsShown(er, cr)
    OBVIOUS
  <2>1. \A r \in DOMAIN c.rows : DOMAIN c.rows[r] = RowFields
    BY DEF Good, Seen
  <2>2. RowsShown(e.rows, c.rows)
    BY DEF Matches
  <2> QED
    BY <2>1, <2>2, ResetShown
<1> HIDE DEF er, cr
<1>3. LET n == [e EXCEPT !.profile = x, !.rows = reset_endorsements(@)]
          m == update_profile(c, x)
      IN  /\ DOMAIN n = EntryFields /\ n.invitee = e.invitee /\ n.inviter = e.inviter
          /\ n.video = e.video /\ n.profile = x /\ n.rows = er
          /\ m.invitee = c.invitee /\ m.inviter = c.inviter
          /\ m.video = c.video /\ m.profile = x /\ m.rows = cr
  BY <1>1 DEF update_profile, Fields, EntryFields, er, cr
<1>4. LET n == [e EXCEPT !.video = x, !.rows = reset_endorsements(@)]
          m == update_video(c, x)
      IN  /\ DOMAIN n = EntryFields /\ n.invitee = e.invitee /\ n.inviter = e.inviter
          /\ n.video = x /\ n.profile = e.profile /\ n.rows = er
          /\ m.invitee = c.invitee /\ m.inviter = c.inviter
          /\ m.video = x /\ m.profile = c.profile /\ m.rows = cr
  BY <1>1 DEF update_video, Fields, EntryFields, er, cr
<1>5. ASSUME NEW n, NEW m, DOMAIN n = EntryFields, n.invitee = e.invitee, n.inviter = e.inviter,
             m.invitee = c.invitee, m.inviter = c.inviter, n.rows = er, m.rows = cr,
             e.video = c.video => n.video = m.video, e.profile = c.profile => n.profile = m.profile
      PROVE  Matches(n, m)
  BY <1>2, <1>5 DEF Matches
<1>6. Matches([e EXCEPT !.profile = x, !.rows = reset_endorsements(@)], update_profile(c, x))
  BY <1>3, <1>5
<1>7. Matches([e EXCEPT !.video = x, !.rows = reset_endorsements(@)], update_video(c, x))
  BY <1>4, <1>5
<1> QED
  BY <1>6, <1>7

-----------------------------------------------------------------------------
(***************************************************************************)
(* The micro chain: the handlers, after the actions that call them.        *)
(***************************************************************************)
LEMMA EntryOf ==
  ASSUME NEW v, NEW i, i \in DOMAIN v.inductions
  PROVE  view_entry(v, i) = v.inductions[i]
BY DEF view_entry

LEMMA ProfileShows ==
  ASSUME IInv, VInv, NEW id \in DOMAIN inductions, NEW x, inductprofil(id, x)
  PROVE  VInv'
<1> DEFINE ind == update_profile(inductions[id], x)
           all == [ind EXCEPT !.rows = endorse_all(@)]
           new == IF stage = "genesis" THEN all ELSE ind
           old == view_entry(view, id)
           e == [old EXCEPT !.profile = x, !.rows = reset_endorsements(@)]
<1>1. Good(inductions[id]) /\ (stage = "genesis" => inductions[id].inviter = Contract)
  BY DEF IInv, TableInv, Founders
<1>2. inductions' = [inductions EXCEPT ![id] = new] /\ UNCHANGED <<member, leftover, misnumbered>>
  BY DEF inductprofil
<1>3. view' = view_modify(view, id, e)
  BY DEF inductprofil, view_inductprofil
<1>4. ASSUME id \in DOMAIN view.inductions, Matches(view.inductions[id], inductions[id])
      PROVE  Matches(e, new)
  <2>1. old = view.inductions[id]
    BY <1>4, EntryOf
  <2> HIDE DEF old
  <2>2. Matches(e, ind)
    BY <1>1, <1>4, <2>1, UpdateShown
  <2>3. CASE stage = "genesis"
    <3>1. Good(ind) /\ SameParties(ind, inductions[id])
      BY <1>1, UpdatedGood
    <3> HIDE DEF ind, e
    <3>2. ind.inviter = Contract
      BY <1>1, <2>3, <3>1 DEF SameParties
    <3>3. SameParties(all, ind)
      BY <3>1, <3>2, EndorsedAllGood
    <3> HIDE DEF all
    <3> QED
      BY <2>2, <2>3, <3>2, <3>3 DEF Matches, SameParties
  <2>4. CASE stage # "genesis"
    BY <2>2, <2>4
  <2> QED
    BY <2>3, <2>4
<1> HIDE DEF new, e
<1>5. /\ DOMAIN inductions' = DOMAIN inductions /\ inductions'[id] = new
      /\ \A i \in DOMAIN inductions : i # id => inductions'[i] = inductions[i]
  BY <1>2
<1> QED
  BY <1>2, <1>3, <1>4, <1>5, OneShown

LEMMA VideoShows ==
  ASSUME IInv, VInv, NEW id \in DOMAIN inductions, NEW x, NEW a, inductvideo(a, id, x)
  PROVE  VInv'
<1> DEFINE new == update_video(inductions[id], x)
           old == view_entry(view, id)
           e == [old EXCEPT !.video = x, !.rows = reset_endorsements(@)]
<1>1. Good(inductions[id])
  BY DEF IInv, TableInv
<1>2. inductions' = [inductions EXCEPT ![id] = new] /\ UNCHANGED <<member, leftover, misnumbered>>
  BY DEF inductvideo
<1>3. view' = view_modify(view, id, e)
  BY DEF inductvideo, view_inductvideo
<1>4. ASSUME id \in DOMAIN view.inductions, Matches(view.inductions[id], inductions[id])
      PROVE  Matches(e, new)
  <2>1. old = view.inductions[id]
    BY <1>4, EntryOf
  <2> HIDE DEF old
  <2> QED
    BY <1>1, <1>4, <2>1, UpdateShown
<1> HIDE DEF new, e
<1>5. /\ DOMAIN inductions' = DOMAIN inductions /\ inductions'[id] = new
      /\ \A i \in DOMAIN inductions : i # id => inductions'[i] = inductions[i]
  BY <1>2
<1> QED
  BY <1>2, <1>3, <1>4, <1>5, OneShown

\* The first row of an account is at one place, and at the same in both.
LEMMA RowOfShown ==
  ASSUME NEW er, NEW cr, IsSeq(cr), RowsShown(er, cr), NEW a
  PROVE  row_of(er, a) = row_of(cr, a) /\ \A r \in row_of(cr, a) : row_of(cr, a) = {r}
<1> DEFINE n == Len(cr)
<1>1. DOMAIN er = DOMAIN cr /\ \A r \in DOMAIN cr : er[r].endorser = cr[r].endorser
  BY DEF RowsShown
<1>2. n \in Nat /\ DOMAIN cr = 1..n
  BY SeqFacts
<1> HIDE DEF n
<1>3. \A r \in DOMAIN cr : \A k \in 1..(r - 1) : k \in DOMAIN cr
  BY <1>2
<1>4. row_of(er, a) = row_of(cr, a)
  BY <1>1, <1>3 DEF row_of
<1>5. ASSUME NEW r \in row_of(cr, a), NEW s \in row_of(cr, a) PROVE r = s
  <2>1. r \in 1..n /\ s \in 1..n /\ cr[r].endorser = a /\ cr[s].endorser = a
    BY <1>2 DEF row_of
  <2>2. s \notin 1..(r - 1) /\ r \notin 1..(s - 1)
    BY <2>1 DEF row_of
  <2> QED
    BY <1>2, <2>1, <2>2
<1>6. \A r \in row_of(cr, a) : row_of(cr, a) = {r}
  BY <1>5
<1> QED
  BY <1>4, <1>6

\* What the handler of inductendors makes of an entry.
EndorsedEntry(e, a) ==
  [e EXCEPT !.rows =
    [k \in DOMAIN @ |-> IF {k} = row_of(@, a) THEN [@[k] EXCEPT !.endorsed = TRUE] ELSE @[k]]]

LEMMA EndorsementShown ==
  ASSUME NEW e, NEW c, Good(c), Matches(e, c), NEW a, NEW r \in row_of(c.rows, a), NEW new,
         SameParties(new, c), new.video = c.video, new.profile = c.profile,
         DOMAIN new.rows = DOMAIN c.rows,
         c.inviter # Contract => new.rows[r].endorser = c.rows[r].endorser /\ new.rows[r].endorsed = TRUE,
         \A k \in DOMAIN c.rows : k # r => new.rows[k] = c.rows[k]
  PROVE  Matches(EndorsedEntry(e, a), new)
<1> DEFINE er == e.rows
           rows == [k \in DOMAIN er |-> IF {k} = row_of(er, a) THEN [er[k] EXCEPT !.endorsed = TRUE] ELSE er[k]]
           f == [e EXCEPT !.rows = rows]
<1>1. DOMAIN e = EntryFields
  BY DEF Matches
<1>2. ASSUME c.inviter # Contract PROVE RowsShown(rows, new.rows)
  <2>1. RowsShown(er, c.rows)
    BY <1>2 DEF Matches
  <2>2. IsSeq(c.rows)
    BY DEF Good, Formed
  <2>3. row_of(er, a) = {r}
    BY <2>1, <2>2, RowOfShown
  <2>4. r \in DOMAIN c.rows
    BY DEF row_of
  <2>5. \A k : {k} = row_of(er, a) <=> k = r
    BY <2>3
  <2>6. DOMAIN er = DOMAIN c.rows /\ \A k \in DOMAIN er : /\ DOMAIN er[k] = EntryRowFields
                                                         /\ er[k].endorser = c.rows[k].endorser
                                                         /\ er[k].endorsed = c.rows[k].endorsed
    BY <2>1 DEF RowsShown
  <2> HIDE DEF er
  <2>7. DOMAIN rows = DOMAIN er /\ rows[r] = [er[r] EXCEPT !.endorsed = TRUE]
        /\ \A k \in DOMAIN er : k # r => rows[k] = er[k]
    BY <2>4, <2>5, <2>6
  <2> HIDE DEF rows
  <2>8. DOMAIN rows[r] = EntryRowFields /\ rows[r].endorser = er[r].endorser /\ rows[r].endorsed = TRUE
    BY <2>4, <2>6, <2>7 DEF EntryRowFields
  <2>9. ASSUME NEW k \in DOMAIN new.rows
        PROVE  /\ DOMAIN rows[k] = EntryRowFields
               /\ rows[k].endorser = new.rows[k].endorser /\ rows[k].endorsed = new.rows[k].endorsed
    <3>1. CASE k = r
      BY <1>2, <2>4, <2>6, <2>8, <3>1
    <3>2. CASE k # r
      BY <2>6, <2>7, <3>2
    <3> QED
      BY <3>1, <3>2
  <2> QED
    BY <2>6, <2>7, <2>9 DEF RowsShown
<1> HIDE DEF rows
<1>3. /\ DOMAIN f = EntryFields /\ f.invitee = e.invitee /\ f.inviter = e.inviter
      /\ f.video = e.video /\ f.profile = e.profile /\ f.rows = rows
  BY <1>1 DEF EntryFields
<1> HIDE DEF f
<1>4. Matches(f, new)
  BY <1>2, <1>3 DEF Matches, SameParties
<1> QED
  BY <1>4, Zenon DEF EndorsedEntry, f, rows, er

LEMMA EndorsementShows ==
  ASSUME IInv, VInv, NEW id \in DOMAIN inductions, NEW a, NEW hash, inductendors(a, id, hash)
  PROVE  VInv'
<1> DEFINE ind == inductions[id]
           new == inductions'[id]
           old == view_entry(view, id)
           e == EndorsedEntry(old, a)
<1>1. UNCHANGED <<member, leftover, misnumbered>>
  BY DEF inductendors
<1>2. view' = view_modify(view, id, e)
  BY Zenon DEF inductendors, view_inductendors, EndorsedEntry
<1>3. PICK r \in row_of(ind.rows, a) :
        inductions' = [inductions EXCEPT ![id].rows[r].endorsed = TRUE, ![id].rows[r].hash = hash]
  BY DEF inductendors, endorse
<1>4. Good(ind) /\ DOMAIN ind = Fields /\ r \in DOMAIN ind.rows
  BY DEF IInv, TableInv, Good, Formed, row_of
<1>5. /\ DOMAIN inductions' = DOMAIN inductions
      /\ \A i \in DOMAIN inductions : i # id => inductions'[i] = inductions[i]
  BY <1>3
<1> HIDE DEF ind, e
<1>6. /\ SameParties(new, ind) /\ new.video = ind.video /\ new.profile = ind.profile
      /\ DOMAIN new.rows = DOMAIN ind.rows
      /\ new.rows[r] = [[ind.rows[r] EXCEPT !.endorsed = TRUE] EXCEPT !.hash = hash]
      /\ \A k \in DOMAIN ind.rows : k # r => new.rows[k] = ind.rows[k]
  <2>1. new = [[ind EXCEPT !.rows[r].endorsed = TRUE] EXCEPT !.rows[r].hash = hash]
    BY <1>3 DEF ind
  <2> HIDE DEF new
  <2> QED
    BY <1>4, <2>1 DEF Fields, SameParties
<1>7. ind.inviter # Contract => new.rows[r].endorser = ind.rows[r].endorser /\ new.rows[r].endorsed = TRUE
  <2> SUFFICES ASSUME ind.inviter # Contract
               PROVE  new.rows[r].endorser = ind.rows[r].endorser /\ new.rows[r].endorsed = TRUE
    OBVIOUS
  <2>1. DOMAIN ind.rows[r] = RowFields
    BY <1>4 DEF Good, Seen
  <2> HIDE DEF new
  <2> QED
    BY <1>6, <2>1 DEF RowFields
<1> HIDE DEF new
<1>8. ASSUME id \in DOMAIN view.inductions, Matches(view.inductions[id], ind)
      PROVE  Matches(e, new)
  <2>1. old = view.inductions[id]
    BY <1>8, EntryOf
  <2>2. Matches(old, ind)
    BY <1>8, <2>1
  <2> HIDE DEF old
  <2> QED
    BY <1>4, <1>6, <1>7, <2>2, EndorsementShown DEF e
<1> QED
  BY <1>1, <1>2, <1>5, <1>8, OneShown DEF ind, new

LEMMA MatchesKept ==
  ASSUME NEW e, NEW c, Matches(e, c), NEW d, SameParties(d, c), c.inviter # Contract => d = c
  PROVE  Matches(e, d)
BY DEF Matches, SameParties

\* Inductions go, those of genesis may change, and entries go that show none.
LEMMA FewerShown ==
  ASSUME NEW V, NEW I, NEW L, Shows(V, I, L), NEW J, DOMAIN J \subseteq DOMAIN I,
         \A i \in DOMAIN J : SameParties(J[i], I[i]) /\ (I[i].inviter # Contract => J[i] = I[i]),
         NEW W, DOMAIN W \subseteq DOMAIN V, \A i \in DOMAIN W : W[i] = V[i],
         NEW M, M \subseteq DOMAIN J, DOMAIN J \cap L \subseteq M,
         \A i \in M : i \notin DOMAIN W,
         \A i \in DOMAIN J \ M : i \in DOMAIN V => i \in DOMAIN W
  PROVE  Shows(W, J, M)
<1>1. \A i \in DOMAIN W : DOMAIN W[i] = EntryFields
  BY DEF Shows
<1>2. ASSUME NEW i \in DOMAIN J \ M PROVE i \in DOMAIN W /\ Matches(W[i], J[i])
  <2>1. i \in DOMAIN I \ L
    OBVIOUS
  <2>2. i \in DOMAIN V /\ Matches(V[i], I[i])
    BY <2>1 DEF Shows
  <2>3. Matches(V[i], J[i])
    BY <2>2, MatchesKept
  <2> QED
    BY <2>2, <2>3
<1> QED
  BY <1>1, <1>2 DEF Shows

LEMMA AddedShown ==
  ASSUME NEW V, NEW I, NEW L, Shows(V, I, L), NEW id, id \notin DOMAIN I, NEW e, NEW c, Matches(e, c)
  PROVE  Shows(with(V, id, e), with(I, id, c), L)
<1> DEFINE W == with(V, id, e)
           J == with(I, id, c)
<1>1. /\ DOMAIN W = DOMAIN V \cup {id} /\ W[id] = e /\ \A i \in DOMAIN V : i # id => W[i] = V[i]
      /\ DOMAIN J = DOMAIN I \cup {id} /\ J[id] = c /\ \A i \in DOMAIN I : i # id => J[i] = I[i]
  BY DEF with
<1> HIDE DEF W, J
<1>2. DOMAIN e = EntryFields
  BY DEF Matches
<1>3. L \subseteq DOMAIN J /\ \A i \in L : i \notin DOMAIN W
  BY <1>1 DEF Shows
<1>4. \A i \in DOMAIN W : DOMAIN W[i] = EntryFields
  BY <1>1, <1>2 DEF Shows
<1>5. ASSUME NEW i \in DOMAIN J \ L PROVE i \in DOMAIN W /\ Matches(W[i], J[i])
  <2>1. CASE i = id
    BY <1>1, <2>1
  <2>2. CASE i # id
    <3>1. i \in DOMAIN I \ L
      BY <1>1, <2>2
    <3>2. i \in DOMAIN V /\ Matches(V[i], I[i])
      BY <3>1 DEF Shows
    <3> QED
      BY <1>1, <2>2, <3>1, <3>2
  <2> QED
    BY <2>1, <2>2
<1>6. Shows(W, J, L)
  BY <1>3, <1>4, <1>5 DEF Shows
<1> QED
  BY <1>6 DEF W, J

LEMMA CreatedShown ==
  ASSUME NEW inviter, NEW invitee, NEW n, NEW endorsers
  PROVE  Matches(view_induction(inviter, invitee, endorsers),
                 create_induction(inviter, invitee, n, 0, endorsers))
<1> DEFINE e == view_induction(inviter, invitee, endorsers)
           c == create_induction(inviter, invitee, n, 0, endorsers)
<1>1. /\ DOMAIN e = EntryFields /\ e.inviter = inviter /\ e.invitee = invitee /\ e.video = 0 /\ e.profile = 0
      /\ e.rows = [r \in DOMAIN endorsers |-> [endorser |-> endorsers[r], endorsed |-> FALSE]]
  BY DEF view_induction, EntryFields
<1>2. /\ c.inviter = inviter /\ c.invitee = invitee /\ c.video = 0 /\ c.profile = 0
      /\ c.rows = [r \in DOMAIN endorsers |-> create_endorsement(endorsers[r], FALSE)]
  BY DEF create_induction
<1> HIDE DEF e, c
<1>3. RowsShown(e.rows, c.rows)
  <2>1. DOMAIN e.rows = DOMAIN endorsers /\ DOMAIN c.rows = DOMAIN endorsers
    BY <1>1, <1>2
  <2>2. \A r \in DOMAIN endorsers : /\ e.rows[r] = [endorser |-> endorsers[r], endorsed |-> FALSE]
                                    /\ c.rows[r] = create_endorsement(endorsers[r], FALSE)
    BY <1>1, <1>2
  <2>3. \A a : LET x == [endorser |-> a, endorsed |-> FALSE]
                  y == create_endorsement(a, FALSE)
              IN  DOMAIN x = EntryRowFields /\ x.endorser = y.endorser /\ x.endorsed = y.endorsed
    BY DEF create_endorsement, EntryRowFields
  <2>4. ASSUME NEW r \in DOMAIN c.rows
        PROVE  /\ DOMAIN e.rows[r] = EntryRowFields
               /\ e.rows[r].endorser = c.rows[r].endorser /\ e.rows[r].endorsed = c.rows[r].endorsed
    <3>1. /\ e.rows[r] = [endorser |-> endorsers[r], endorsed |-> FALSE]
          /\ c.rows[r] = create_endorsement(endorsers[r], FALSE)
      BY <2>1, <2>2
    <3> QED
      BY <2>3, <3>1, Zenon
  <2> QED
    BY <2>1, <2>4 DEF RowsShown
<1>4. Matches(e, c)
  BY <1>1, <1>2, <1>3 DEF Matches
<1> QED
  BY <1>4 DEF e, c

LEMMA InvitationShows ==
  ASSUME IInv, VInv, NEW id, NEW inviter, NEW invitee \in Account, NEW W,
         inductinit(id, inviter, invitee, W)
  PROVE  VInv'
<1> DEFINE endorsers == <<inviter>> \o listed(W)
           ind == create_induction(inviter, invitee, Cardinality(W) + 1, 0, endorsers)
           e == view_induction(inviter, invitee, endorsers)
<1>1. /\ id \notin DOMAIN inductions /\ inductions' = with(inductions, id, ind)
      /\ view' = view_inductinit(view, id, inviter, invitee, listed(W))
      /\ UNCHANGED <<leftover, misnumbered>>
  BY DEF inductinit, initialize_induction
<1>2. Matches(e, ind)
  BY CreatedShown
<1>3. view' = IF view.aborted THEN view ELSE [view EXCEPT !.inductions = with(@, id, e)]
  BY <1>1, Zenon DEF view_inductinit
<1> HIDE DEF ind, e
<1>4. DOMAIN view = ViewFields
  BY DEF VInv
<1>5. DOMAIN view' = ViewFields /\ (view.aborted => view'.aborted)
  BY <1>3, <1>4
<1>6. Active' = Active
  <2>1. CASE is_new_member(invitee)
    <3>1. created(invitee)
      BY <2>1 DEF inductinit
    <3> QED
      BY <3>1, CreatedCounted DEF IInv
  <2>2. CASE ~is_new_member(invitee)
    BY <2>2, ActiveSame DEF inductinit
  <2> QED
    BY <2>1, <2>2
<1>7. ASSUME ~view.aborted, Synced PROVE Synced'
  <2>1. view'.members = view.members /\ view'.inductions = with(view.inductions, id, e)
    BY <1>3, <1>4, <1>7 DEF ViewFields
  <2>2. Shows(with(view.inductions, id, e), with(inductions, id, ind), leftover)
    BY <1>1, <1>2, <1>7, AddedShown DEF Synced
  <2> QED
    BY <1>1, <1>6, <1>7, <2>1, <2>2 DEF Synced
<1> QED
  BY <1>1, <1>5, <1>7, ViewKept

LEMMA CancellationShows ==
  ASSUME IInv, VInv, NEW id \in DOMAIN inductions, NEW account, inductcancel(account, id)
  PROVE  VInv'
<1> DEFINE a == inductions[id].invitee
           rest == without(inductions, {id})
           left == IF stage = "genesis" /\ ~has_induction(rest, a) THEN erase_endorser(rest, a) ELSE rest
           V == view.inductions
           U == without(V, {id})
<1>1. /\ inductions' = left /\ leftover' = leftover \ {id} /\ misnumbered' = misnumbered
      /\ view' = view_inductcancel(view, id)
      /\ IF has_induction(rest, a) THEN UNCHANGED <<member, stats, stage>>
         ELSE remove_if_pending({a}) /\ maybe_activate_contract
  BY DEF inductcancel, erase
<1>2. DOMAIN rest = DOMAIN inductions \ {id} /\ \A i \in DOMAIN rest : rest[i] = inductions[i]
  BY DEF without
<1>3. /\ DOMAIN left = DOMAIN rest
      /\ \A i \in DOMAIN left : /\ SameParties(left[i], inductions[i])
                                /\ inductions[i].inviter # Contract => left[i] = inductions[i]
  <2>1. CASE stage = "genesis" /\ ~has_induction(rest, a)
    <3>1. \A i \in DOMAIN rest : /\ Good(rest[i]) /\ rest[i].inviter = Contract
                                 /\ inductions[i].inviter = Contract
      BY <1>2, <2>1 DEF IInv, TableInv, Founders
    <3> HIDE DEF rest, a
    <3>2. left = erase_endorser(rest, a)
      BY <2>1
    <3> QED
      BY <1>2, <3>1, <3>2, ErasedGood
  <2>2. CASE ~(stage = "genesis" /\ ~has_induction(rest, a))
    <3> HIDE DEF rest, a
    <3>1. left = rest
      BY <2>2
    <3> HIDE DEF left
    <3> QED
      BY <1>2, <3>1 DEF SameParties
  <2> QED
    BY <2>1, <2>2
<1> HIDE DEF left, rest, a
<1>4. DOMAIN view = ViewFields
  BY DEF VInv
<1>5. view' = IF view.aborted THEN view ELSE [view EXCEPT !.inductions = U]
  BY <1>1, Zenon DEF view_inductcancel
<1>6. DOMAIN U = DOMAIN V \ {id} /\ \A i \in DOMAIN U : U[i] = V[i]
  BY DEF without
<1> HIDE DEF U
<1>7. DOMAIN view' = ViewFields /\ (view.aborted => view'.aborted)
  BY <1>4, <1>5
<1>8. Active' = Active
  <2>1. CASE has_induction(rest, a)
    BY <1>1, <2>1, ActiveSame
  <2>2. CASE ~has_induction(rest, a)
    BY <1>1, <2>2, PendingRemovedCounted DEF IInv
  <2> QED
    BY <2>1, <2>2
<1>9. ASSUME ~view.aborted, Synced PROVE Synced'
  <2>1. view'.members = view.members /\ view'.inductions = U
    BY <1>4, <1>5, <1>9 DEF ViewFields
  <2>2. Shows(V, inductions, leftover)
    BY <1>9 DEF Synced
  <2> HIDE DEF V
  <2>3. Shows(U, left, leftover')
    <3>1. leftover' \subseteq DOMAIN left /\ DOMAIN left \cap leftover \subseteq leftover'
      BY <1>1, <1>2, <1>3, <2>2 DEF Shows
    <3>2. \A i \in leftover' : i \notin DOMAIN U
      BY <1>1, <1>6, <2>2 DEF Shows
    <3>3. \A i \in DOMAIN left \ leftover' : i \in DOMAIN V => i \in DOMAIN U
      BY <1>2, <1>3, <1>6
    <3>4. DOMAIN left \subseteq DOMAIN inductions /\ DOMAIN U \subseteq DOMAIN V
      BY <1>2, <1>3, <1>6
    <3> QED
      BY <1>3, <1>6, <2>2, <3>1, <3>2, <3>3, <3>4, FewerShown
  <2> QED
    BY <1>1, <1>8, <1>9, <2>1, <2>3 DEF Synced
<1> QED
  BY <1>1, <1>7, <1>9, ViewKept

\* The micro chain is told nothing, and only genesis changes or inductions go.
LEMMA UntoldShows ==
  ASSUME VInv, DOMAIN inductions' \subseteq DOMAIN inductions,
         \A i \in DOMAIN inductions' :
           /\ SameParties(inductions'[i], inductions[i])
           /\ inductions[i].inviter # Contract => inductions'[i] = inductions[i],
         leftover' = leftover \cap DOMAIN inductions', Active' = Active, UNCHANGED <<view, misnumbered>>
  PROVE  VInv'
<1> DEFINE V == view.inductions
<1>1. ASSUME Synced PROVE Synced'
  <2>1. Shows(V, inductions, leftover)
    BY <1>1 DEF Synced
  <2>2. \A i \in leftover' : i \notin DOMAIN V
    BY <2>1 DEF Shows
  <2> HIDE DEF V
  <2>3. Shows(V, inductions', leftover')
    BY <2>1, <2>2, FewerShown
  <2> QED
    BY <1>1, <2>3 DEF Synced, V
<1>2. DOMAIN view' = ViewFields
  BY DEF VInv
<1> QED
  BY <1>1, <1>2, ViewKept

LEMMA SameInductionsShow ==
  ASSUME VInv, UNCHANGED <<inductions, leftover, view, misnumbered>>, Active' = Active
  PROVE  VInv'
<1>1. ASSUME Synced PROVE Synced'
  BY <1>1 DEF Synced
<1>2. DOMAIN view' = ViewFields
  BY DEF VInv
<1> QED
  BY <1>1, <1>2, ViewKept

LEMMA ExpirationShows ==
  ASSUME IInv, VInv, NEW id \in DOMAIN inductions, NEW e, gensetexpire(id, e)
  PROVE  VInv'
<1> DEFINE ind == inductions[id]
           new == [ind EXCEPT !.created_at = e - Lifetime]
<1>1. DOMAIN ind = Fields /\ ind.inviter = Contract
  BY DEF IInv, TableInv, Founders, Good, Formed, gensetexpire
<1>2. /\ inductions' = [inductions EXCEPT ![id] = new]
      /\ UNCHANGED <<member, view, leftover, misnumbered>>
  BY DEF gensetexpire
<1> HIDE DEF ind
<1>3. SameParties(new, ind)
  BY <1>1 DEF Fields, SameParties
<1> HIDE DEF new
<1>4. /\ DOMAIN inductions' = DOMAIN inductions /\ inductions'[id] = new
      /\ \A i \in DOMAIN inductions : i # id => inductions'[i] = inductions[i]
  BY <1>2
<1>5. ASSUME NEW i \in DOMAIN inductions
      PROVE  /\ SameParties(inductions'[i], inductions[i])
             /\ inductions[i].inviter # Contract => inductions'[i] = inductions[i]
  <2>1. CASE i = id
    BY <1>1, <1>3, <1>4, <2>1 DEF ind
  <2>2. CASE i # id
    BY <1>4, <2>2 DEF SameParties
  <2> QED
    BY <2>1, <2>2
<1>6. ASSUME Synced PROVE Synced'
  <2>1. Shows(view.inductions, inductions, leftover)
    BY <1>6 DEF Synced
  <2>2. \A i \in leftover : i \notin DOMAIN view.inductions /\ i \in DOMAIN inductions
    BY <2>1 DEF Shows
  <2>3. Shows(view.inductions, inductions', leftover)
    BY <1>4, <1>5, <2>1, <2>2, FewerShown
  <2> QED
    BY <1>2, <1>6, <2>3, ActiveSame DEF Synced
<1>7. DOMAIN view' = ViewFields
  BY <1>2 DEF VInv
<1> QED
  BY <1>2, <1>6, <1>7, ViewKept

LEMMA CollectionShows ==
  ASSUME IInv, VInv, NEW limit \in Nat, gc(limit)
  PROVE  VInv'
<1> DEFINE s == gc_after(limit)[limit]
<1>1. /\ inductions' = s.inductions /\ leftover' = leftover \cap DOMAIN s.inductions
      /\ UNCHANGED <<view, misnumbered>>
      /\ IF s.removed = {} THEN UNCHANGED <<member, stats, stage>>
         ELSE remove_if_pending(s.removed) /\ maybe_activate_contract
  BY Zenon DEF gc, gc_after, GcStart, erase
<1>2. GcInv(s)
  BY GcReaches
<1> HIDE DEF s
<1>3. Active' = Active
  <2>1. CASE s.removed = {}
    BY <1>1, <2>1, ActiveSame
  <2>2. CASE s.removed # {}
    BY <1>1, <2>2, PendingRemovedCounted DEF IInv
  <2> QED
    BY <2>1, <2>2
<1>4. DOMAIN inductions' \subseteq DOMAIN inductions /\ \A i \in DOMAIN inductions' : inductions'[i] = inductions[i]
  BY <1>1, <1>2 DEF GcInv
<1>5. \A i \in DOMAIN inductions' : SameParties(inductions'[i], inductions[i])
  BY <1>4 DEF SameParties
<1> QED
  BY <1>1, <1>3, <1>4, <1>5, UntoldShows

LEMMA ResignationShows ==
  ASSUME IInv, VInv, NEW a, resign(a)
  PROVE  VInv'
<1>1. Active' = Active \ {a}
  BY RemovedCounted DEF IInv, resign
<1>2. UNCHANGED <<inductions, leftover, misnumbered>> /\ view' = view_resign(view, a)
  BY DEF resign
<1>3. DOMAIN view = ViewFields
  BY DEF VInv
<1>4. view' = IF view.aborted THEN view ELSE [view EXCEPT !.members = @ \ {a}]
  BY <1>2, Zenon DEF view_resign
<1>5. DOMAIN view' = ViewFields /\ (view.aborted => view'.aborted)
  BY <1>3, <1>4
<1>6. ASSUME ~view.aborted, Synced PROVE Synced'
  <2>1. view'.members = view.members \ {a} /\ view'.inductions = view.inductions
    BY <1>3, <1>4, <1>6 DEF ViewFields
  <2> QED
    BY <1>1, <1>2, <1>6, <2>1 DEF Synced
<1> QED
  BY <1>2, <1>5, <1>6, ViewKept

\* The invitee's other entries go, and those of its inductions that are not erased are left over.
LEMMA DonationShows ==
  ASSUME IInv, VInv, NEW id \in DOMAIN inductions, inductdonate(id)
  PROVE  VInv'
<1> DEFINE ind == inductions[id]
           a == ind.invitee
           all == by_invitee(inductions, a)
           others == all \ {id}
           V == view.inductions
<1>1. set_active(a) /\ misnumbered' = misnumbered /\ view' = view_donate(view, id)
  BY DEF inductdonate
<1>2. PICK erased \in SUBSET others :
        /\ erase(without(inductions, erased \cup {id}))
        /\ leftover' = (leftover \ ({id} \cup erased)) \cup (others \ erased)
  BY DEF inductdonate
<1> DEFINE J == without(inductions, erased \cup {id})
<1>3. /\ inductions' = J /\ DOMAIN J = DOMAIN inductions \ (erased \cup {id})
      /\ \A i \in DOMAIN J : J[i] = inductions[i]
  BY <1>2 DEF without, erase
<1>4. Active' = Active \cup {a} /\ a \notin Active
  BY <1>1, ActivatedCounted DEF IInv
<1>5. all = {i \in DOMAIN inductions : inductions[i].invitee = a}
  BY DEF by_invitee
<1>6. DOMAIN view = ViewFields
  BY DEF VInv
<1> DEFINE b == V[id].invitee
           gone == by_invitee(V, b)
<1>7. \/ view.aborted /\ view' = view
      \/ ~view.aborted /\ id \notin DOMAIN V /\ view' = [view EXCEPT !.aborted = TRUE]
      \/ ~view.aborted /\ id \in DOMAIN V /\ b \in view.members /\ view' = [view EXCEPT !.aborted = TRUE]
      \/ /\ ~view.aborted /\ id \in DOMAIN V /\ b \notin view.members
         /\ view' = [view EXCEPT !.members = @ \cup {b}, !.inductions = without(@, gone)]
  BY <1>1, Zenon DEF view_donate
<1>8. gone = {i \in DOMAIN V : V[i].invitee = b}
  BY DEF by_invitee
<1> HIDE DEF J, all, gone
<1>9. DOMAIN view' = ViewFields /\ (view.aborted => view'.aborted)
  <2> HIDE DEF V, b
  <2> QED
    BY <1>6, <1>7 DEF ViewFields
<1>10. ASSUME ~view.aborted, Synced, ~view'.aborted PROVE Synced'
  <2> DEFINE U == without(V, gone)
  <2>1. id \in DOMAIN V /\ view'.members = view.members \cup {b} /\ view'.inductions = U
    <3>1. ~(view' = [view EXCEPT !.aborted = TRUE])
      BY <1>6, <1>10 DEF ViewFields
    <3>2. id \in DOMAIN V /\ view' = [view EXCEPT !.members = @ \cup {b}, !.inductions = without(@, gone)]
      BY <1>7, <1>10, <3>1
    <3> QED
      BY <1>6, <3>2 DEF ViewFields
  <2>2. Shows(V, inductions, leftover) /\ view.members = Active
    BY <1>10 DEF Synced
  <2>3. DOMAIN U = DOMAIN V \ gone /\ \A i \in DOMAIN U : U[i] = V[i]
    BY DEF without
  <2> HIDE DEF U, V
  <2>4. id \notin leftover /\ Matches(V[id], ind)
    BY <2>1, <2>2 DEF Shows
  <2>5. b = a
    BY <2>4 DEF Matches
  <2> HIDE DEF b, a
  <2>6. \A i \in DOMAIN inductions \ leftover : i \in gone <=> i \in all
    <3>1. \A i \in DOMAIN inductions \ leftover : i \in DOMAIN V /\ V[i].invitee = inductions[i].invitee
      BY <2>2 DEF Shows, Matches
    <3> QED
      BY <1>5, <1>8, <2>5, <3>1
  <2>7. leftover \subseteq DOMAIN inductions /\ \A i \in leftover : i \notin DOMAIN V
    BY <2>2 DEF Shows
  <2>8. all \subseteq DOMAIN inductions
    BY <1>5
  <2>9. Shows(U, J, leftover')
    <3>1. leftover' \subseteq DOMAIN J /\ DOMAIN J \cap leftover \subseteq leftover'
      BY <1>2, <1>3, <2>7, <2>8
    <3>2. ASSUME NEW i \in leftover' PROVE i \notin DOMAIN U
      <4>1. i \in leftover \/ i \in all
        BY <1>2
      <4>2. CASE i \in leftover
        BY <2>3, <2>7, <4>2
      <4>3. CASE i \notin leftover
        BY <2>3, <2>6, <2>8, <4>1, <4>3
      <4> QED
        BY <4>2, <4>3
    <3>3. ASSUME NEW i \in DOMAIN J \ leftover', i \in DOMAIN V PROVE i \in DOMAIN U
      <4>1. i \in DOMAIN inductions \ leftover /\ i \notin all
        BY <1>2, <1>3, <3>3
      <4> QED
        BY <2>3, <2>6, <3>3, <4>1
    <3>4. \A i \in DOMAIN J : SameParties(J[i], inductions[i])
      BY <1>3 DEF SameParties
    <3> QED
      BY <1>3, <2>2, <2>3, <3>1, <3>2, <3>3, <3>4, FewerShown
  <2> QED
    BY <1>3, <1>4, <2>1, <2>2, <2>5, <2>9 DEF Synced
<1> QED
  BY <1>1, <1>9, <1>10, ViewKept

LEMMA RenamedShown ==
  ASSUME NEW er, NEW cr, RowsShown(er, cr), \A r \in DOMAIN cr : DOMAIN cr[r] = RowFields, NEW a, NEW b
  PROVE  RowsShown(renamed_rows(er, a, b), renamed_rows(cr, a, b))
<1>1. DOMAIN er = DOMAIN cr
  BY DEF RowsShown
<1>2. DOMAIN renamed_rows(er, a, b) = DOMAIN cr /\ DOMAIN renamed_rows(cr, a, b) = DOMAIN cr
  BY <1>1 DEF renamed_rows
<1>3. ASSUME NEW r \in DOMAIN cr
      PROVE  LET x == renamed_rows(er, a, b)[r]
                 y == renamed_rows(cr, a, b)[r]
             IN  DOMAIN x = EntryRowFields /\ x.endorser = y.endorser /\ x.endorsed = y.endorsed
  <2>1. /\ DOMAIN er[r] = EntryRowFields /\ DOMAIN cr[r] = RowFields
        /\ er[r].endorser = cr[r].endorser /\ er[r].endorsed = cr[r].endorsed
    BY DEF RowsShown
  <2>2. /\ renamed_rows(er, a, b)[r] = IF er[r].endorser = a THEN [er[r] EXCEPT !.endorser = b] ELSE er[r]
        /\ renamed_rows(cr, a, b)[r] = IF cr[r].endorser = a THEN [cr[r] EXCEPT !.endorser = b] ELSE cr[r]
    BY <1>1 DEF renamed_rows
  <2> QED
    BY <2>1, <2>2 DEF EntryRowFields, RowFields
<1> QED
  BY <1>2, <1>3 DEF RowsShown

LEMMA RenamedEntryShown ==
  ASSUME NEW e, NEW c, Good(c), Matches(e, c), NEW a, NEW b, c.inviter # a
  PROVE  Matches(view_renamed(e, a, b), [c EXCEPT !.rows = renamed_rows(@, a, b)])
<1> DEFINE er == renamed_rows(e.rows, a, b)
           cr == renamed_rows(c.rows, a, b)
           f == view_renamed(e, a, b)
           d == [c EXCEPT !.rows = renamed_rows(@, a, b)]
<1>1. DOMAIN e = EntryFields /\ DOMAIN c = Fields /\ e.invitee = c.invitee
  BY DEF Matches, Good, Formed
<1>2. c.inviter # Contract => RowsShown(er, cr)
  <2> SUFFICES ASSUME c.inviter # Contract PROVE RowsShown(er, cr)
    OBVIOUS
  <2>1. \A r \in DOMAIN c.rows : DOMAIN c.rows[r] = RowFields
    BY DEF Good, Seen
  <2>2. RowsShown(e.rows, c.rows)
    BY DEF Matches
  <2> QED
    BY <2>1, <2>2, RenamedShown
<1> HIDE DEF er, cr
<1>3. /\ DOMAIN f = EntryFields /\ f.invitee = e.invitee /\ (e.inviter # a => f.inviter = e.inviter)
      /\ f.video = e.video /\ f.profile = e.profile /\ f.rows = er
  BY <1>1 DEF EntryFields, view_renamed, er
<1>4. /\ d.invitee = c.invitee /\ d.inviter = c.inviter
      /\ d.video = c.video /\ d.profile = c.profile /\ d.rows = cr
  BY <1>1 DEF Fields, cr
<1> HIDE DEF f, d
<1>5. Matches(f, d)
  BY <1>1, <1>2, <1>3, <1>4 DEF Matches
<1> QED
  BY <1>5 DEF f, d

LEMMA RenamingShows ==
  ASSUME IInv, VInv, NEW a, NEW b \in Account, rename(a, b)
  PROVE  VInv'
<1> DEFINE V == view.inductions
           U == [i \in DOMAIN V |-> view_renamed(V[i], a, b)]
           order == [k \in DOMAIN view.initial |-> IF view.initial[k] = a THEN b ELSE view.initial[k]]
           M == {IF m = a THEN b ELSE m : m \in view.members}
<1>1. Active' = (Active \ {a}) \cup {b} /\ a \in Active /\ b \notin Active
  BY RenamedCounted DEF IInv, rename
<1>2. /\ inductions' = [i \in DOMAIN inductions |-> [inductions[i] EXCEPT !.rows = renamed_rows(@, a, b)]]
      /\ \A i \in DOMAIN inductions : inductions[i].inviter # a
      /\ view' = view_rename(view, a, b) /\ UNCHANGED <<leftover, misnumbered>>
  BY DEF rename
<1>3. DOMAIN view = ViewFields
  BY DEF VInv
<1>4. view' = IF view.aborted THEN view
              ELSE [view EXCEPT !.inductions = U, !.members = M, !.initial = order]
  <2>1. CASE view.aborted
    BY <1>2, <2>1, Zenon DEF view_rename
  <2>2. CASE ~view.aborted
    <3>1. view' = [view EXCEPT !.inductions = U, !.members = M, !.initial = order]
      BY <1>2, <2>2, Zenon DEF view_rename
    <3> QED
      BY <2>2, <3>1
  <2> QED
    BY <2>1, <2>2
<1>5. DOMAIN view' = ViewFields /\ (view.aborted => view'.aborted)
  <2> HIDE DEF U, M, order
  <2> QED
    BY <1>3, <1>4 DEF ViewFields
<1>6. ASSUME ~view.aborted, Synced PROVE Synced'
  <2>1. view'.members = M /\ view'.inductions = U
    <3> HIDE DEF U, M, order
    <3> QED
      BY <1>3, <1>4, <1>6 DEF ViewFields
  <2>2. Shows(V, inductions, leftover) /\ view.members = Active
    BY <1>6 DEF Synced
  <2>3. M = Active'
    BY <1>1, <2>2
  <2> HIDE DEF V
  <2>4. DOMAIN U = DOMAIN V /\ \A i \in DOMAIN V : U[i] = view_renamed(V[i], a, b)
    OBVIOUS
  <2>5. /\ DOMAIN inductions' = DOMAIN inductions
        /\ \A i \in DOMAIN inductions : inductions'[i] = [inductions[i] EXCEPT !.rows = renamed_rows(@, a, b)]
    BY <1>2
  <2> HIDE DEF U
  <2>6. Shows(U, inductions', leftover')
    <3>1. leftover' \subseteq DOMAIN inductions' /\ \A i \in leftover' : i \notin DOMAIN U
      BY <1>2, <2>2, <2>4, <2>5 DEF Shows
    <3>2. ASSUME NEW i \in DOMAIN U PROVE DOMAIN U[i] = EntryFields
      <4>1. DOMAIN V[i] = EntryFields /\ U[i] = view_renamed(V[i], a, b)
        BY <2>2, <2>4 DEF Shows
      <4> QED
        BY <4>1 DEF view_renamed
    <3>3. ASSUME NEW i \in DOMAIN inductions' \ leftover' PROVE i \in DOMAIN U /\ Matches(U[i], inductions'[i])
      <4>1. i \in DOMAIN inductions \ leftover
        BY <1>2, <2>5
      <4>2. i \in DOMAIN V /\ Matches(V[i], inductions[i])
        BY <2>2, <4>1 DEF Shows
      <4>3. Good(inductions[i]) /\ inductions[i].inviter # a
        BY <1>2, <4>1 DEF IInv, TableInv
      <4>4. Matches(view_renamed(V[i], a, b), [inductions[i] EXCEPT !.rows = renamed_rows(@, a, b)])
        BY <4>2, <4>3, RenamedEntryShown
      <4> QED
        BY <2>4, <2>5, <4>1, <4>2, <4>4
    <3> QED
      BY <3>1, <3>2, <3>3 DEF Shows
  <2> QED
    BY <2>1, <2>3, <2>6 DEF Synced
<1> QED
  BY <1>2, <1>5, <1>6, ViewKept

\* The next id is decided by the ids in use.
LEMMA NextIdOfIds ==
  ASSUME NEW f, NEW g, DOMAIN f = DOMAIN g
  PROVE  next_id(f) = next_id(g)
<1> DEFINE greatest(D) == CHOOSE i \in D : \A j \in D : j <= i
<1>1. /\ next_id(f) = IF DOMAIN f = {} THEN 0 ELSE 1 + greatest(DOMAIN f)
      /\ next_id(g) = IF DOMAIN g = {} THEN 0 ELSE 1 + greatest(DOMAIN g)
  BY DEF next_id
<1> HIDE DEF greatest
<1> QED
  BY <1>1

LEMMA GenesisMatches ==
  ASSUME NEW a, NEW endorsers, NEW c, c.inviter = Contract, c.invitee = a
  PROVE  Matches(view_induction(Contract, a, endorsers), c)
<1>1. LET e == view_induction(Contract, a, endorsers) IN DOMAIN e = EntryFields /\ e.invitee = a
  BY DEF view_induction, EntryFields
<1> QED
  BY <1>1 DEF Matches

LEMMA GenesisAdditionShows ==
  ASSUME IInv, VInv, NEW a \in Account, NEW x, addtogenesis(a, x)
  PROVE  VInv'
<1> DEFINE I == [i \in DOMAIN inductions |-> add_endorsement(inductions[i], a, TRUE)]
           new == create_induction(Contract, a, Cardinality(DOMAIN member),
                                   inductions[least(DOMAIN inductions)].video, listed(DOMAIN member))
           ind == [new EXCEPT !.created_at = x - Lifetime]
           n == next_id(inductions)
           V == view.inductions
           U == [i \in DOMAIN V |-> view_add_witness(V[i], a)]
           v1 == [view EXCEPT !.initial = Append(@, a), !.inductions = U]
           e == view_induction(Contract, a, others_than(v1.initial, a))
<1>1. /\ stage = "genesis" /\ created(a) /\ inductions' = with(I, n, ind)
      /\ misnumbered' = (misnumbered \/ n # view_next_id(view))
      /\ view' = view_addtogenesis(view, a) /\ UNCHANGED leftover
  BY Zenon DEF addtogenesis
<1>2. view' = IF view.aborted THEN view ELSE [v1 EXCEPT !.inductions = with(@, view_next_id(v1), e)]
  <2>1. CASE view.aborted
    BY <1>1, <2>1, Zenon DEF view_addtogenesis
  <2>2. CASE ~view.aborted
    <3>1. view' = add_genesis_member(v1, a)
      BY <1>1, <2>2, Zenon DEF view_addtogenesis
    <3>2. add_genesis_member(v1, a) = [v1 EXCEPT !.inductions = with(@, view_next_id(v1), e)]
      BY Zenon DEF add_genesis_member
    <3> QED
      BY <2>2, <3>1, <3>2, Zenon
  <2> QED
    BY <2>1, <2>2, Zenon
<1>3. DOMAIN view = ViewFields
  BY DEF VInv
<1>4. DOMAIN U = DOMAIN V /\ \A i \in DOMAIN V : U[i] = view_add_witness(V[i], a)
  OBVIOUS
<1> HIDE DEF U, e
<1>5. DOMAIN v1 = ViewFields /\ v1.members = view.members /\ v1.inductions = U /\ v1.aborted = view.aborted
  BY <1>3 DEF ViewFields
<1> HIDE DEF v1
<1>6. view_next_id(v1) = view_next_id(view)
  <2>1. next_id(U) = next_id(V)
    BY <1>4, NextIdOfIds
  <2> QED
    BY <1>4, <1>5, <2>1 DEF view_next_id
<1>7. DOMAIN view' = ViewFields /\ (view.aborted => view'.aborted)
  BY <1>2, <1>3, <1>5 DEF ViewFields
<1>8. Active' = Active
  BY <1>1, CreatedCounted DEF IInv
<1>9. (misnumbered => misnumbered') /\ (~misnumbered' => n = view_next_id(view))
  <2> HIDE DEF n
  <2> QED
    BY <1>1
<1>10. ind.inviter = Contract /\ ind.invitee = a
  <2>1. DOMAIN new = Fields /\ new.inviter = Contract /\ new.invitee = a
    BY DEF create_induction, Fields
  <2> HIDE DEF new
  <2> QED
    BY <2>1 DEF Fields
<1>11. /\ DOMAIN I = DOMAIN inductions
       /\ \A i \in DOMAIN I : SameParties(I[i], inductions[i]) /\ inductions[i].inviter = Contract
  <2>1. \A i \in DOMAIN inductions : inductions[i].inviter = Contract /\ Good(inductions[i])
    BY <1>1 DEF IInv, TableInv, Founders
  <2> QED
    BY <2>1, AddedGood
<1>12. n \notin DOMAIN inductions
  BY NextIdIsNew DEF IInv, TableInv
<1> HIDE DEF I, ind, n
<1>13. ASSUME ~view.aborted, Synced, ~misnumbered' PROVE Synced'
  <2>1. view'.members = view.members /\ view'.inductions = with(U, n, e)
    BY <1>2, <1>5, <1>6, <1>9, <1>13 DEF ViewFields
  <2>2. Shows(V, inductions, leftover) /\ view.members = Active
    BY <1>13 DEF Synced
  <2> HIDE DEF V
  <2>3. Shows(U, I, leftover)
    <3>1. leftover \subseteq DOMAIN I /\ \A i \in leftover : i \notin DOMAIN U
      BY <1>4, <1>11, <2>2 DEF Shows
    <3>2. ASSUME NEW i \in DOMAIN V, DOMAIN V[i] = EntryFields
          PROVE  DOMAIN U[i] = EntryFields /\ U[i].invitee = V[i].invitee
      BY <1>4, <3>2 DEF view_add_witness, EntryFields
    <3>3. \A i \in DOMAIN U : DOMAIN U[i] = EntryFields
      BY <1>4, <2>2, <3>2 DEF Shows
    <3>4. ASSUME NEW i \in DOMAIN I \ leftover PROVE i \in DOMAIN U /\ Matches(U[i], I[i])
      <4>1. i \in DOMAIN V /\ Matches(V[i], inductions[i])
        BY <1>11, <2>2 DEF Shows
      <4>2. DOMAIN U[i] = EntryFields /\ U[i].invitee = I[i].invitee /\ I[i].inviter = Contract
        BY <1>11, <3>2, <4>1 DEF Matches, SameParties
      <4> QED
        BY <1>4, <4>1, <4>2 DEF Matches
    <3> QED
      BY <3>1, <3>3, <3>4 DEF Shows
  <2>4. Matches(e, ind)
    BY <1>10, GenesisMatches DEF e
  <2>5. Shows(with(U, n, e), with(I, n, ind), leftover)
    BY <1>11, <1>12, <2>3, <2>4, AddedShown
  <2> QED
    BY <1>1, <1>8, <2>1, <2>2, <2>5 DEF Synced
<1> QED
  BY <1>7, <1>9, <1>13, ViewKept

-----------------------------------------------------------------------------
(***************************************************************************)
(* What the handler of genesis makes, one member after the other: the      *)
(* function behind FoldLeft, defined on all sets of positions.             *)
(***************************************************************************)
GenesisStart(order) == [inductions |-> << >>, members |-> {}, initial |-> order, aborted |-> FALSE]

genesis_step(order, g, T) ==
  IF T = {} THEN GenesisStart(order)
  ELSE add_genesis_member(g[T \ {Max(T)}], order[Max(T)])

genesis_iter(order) == CHOOSE g : g = [T \in SUBSET DOMAIN order |-> genesis_step(order, g, T)]

LEMMA GenesisIsIter ==
  ASSUME NEW order
  PROVE  view_genesis(order) = genesis_iter(order)[DOMAIN order]
BY Zenon DEF view_genesis, FoldLeft, MapThenFoldSet, genesis_iter, genesis_step, GenesisStart

LEMMA MaxInSet ==
  ASSUME NEW n \in Nat, NEW T \in SUBSET (1..n), T # {}
  PROVE  /\ Max(T) \in T /\ IsFiniteSet(T) /\ IsFiniteSet(T \ {Max(T)})
         /\ Cardinality(T) \in Nat /\ Cardinality(T \ {Max(T)}) = Cardinality(T) - 1
<1>1. \E m \in T : \A j \in T : j <= m
  <2>1. T \subseteq 0..n
    OBVIOUS
  <2> QED
    BY <2>1, GreatestExists
<1>2. Max(T) \in T
  BY <1>1 DEF Max
<1>3. IsFiniteSet(T)
  <2>1. IsFiniteSet(1..n)
    BY FS_Interval
  <2> QED
    BY <2>1, FS_Subset
<1> QED
  BY <1>2, <1>3, FS_RemoveElement, FS_CardinalityType

LEMMA GenesisIter ==
  ASSUME NEW order, NEW n \in Nat, DOMAIN order = 1..n
  PROVE  \A T \in SUBSET (1..n) : genesis_iter(order)[T] = genesis_step(order, genesis_iter(order), T)
<1> DEFINE Level(k) == {T \in SUBSET (1..n) : Cardinality(T) <= k}
           P == {k \in Nat : \E g : g = [T \in Level(k) |-> genesis_step(order, g, T)]}
<1>1. \A T \in SUBSET (1..n) : IsFiniteSet(T) /\ Cardinality(T) \in Nat /\ Cardinality(T) <= n
  <2>1. IsFiniteSet(1..n) /\ Cardinality(1..n) = n
    BY FS_Interval
  <2> QED
    BY <2>1, FS_Subset, FS_CardinalityType
<1>2. 0 \in P
  <2> DEFINE g == [T \in Level(0) |-> GenesisStart(order)]
  <2>1. \A T \in Level(0) : T = {}
    BY <1>1, FS_EmptySet
  <2>2. g = [T \in Level(0) |-> genesis_step(order, g, T)]
    BY <2>1 DEF genesis_step
  <2> HIDE DEF g
  <2> QED
    BY <2>2
<1>3. ASSUME NEW k \in P PROVE k + 1 \in P
  <2>1. k \in Nat /\ k + 1 \in Nat
    OBVIOUS
  <2>2. PICK g : g = [T \in Level(k) |-> genesis_step(order, g, T)]
    OBVIOUS
  <2> DEFINE h == [T \in Level(k + 1) |-> genesis_step(order, g, T)]
  <2>3. ASSUME NEW T \in Level(k) PROVE T \in Level(k + 1) /\ h[T] = g[T]
    <3>1. T \in Level(k + 1)
      BY <1>1, <2>1
    <3> QED
      BY <2>2, <3>1
  <2>4. ASSUME NEW T \in Level(k + 1) PROVE genesis_step(order, h, T) = genesis_step(order, g, T)
    <3>1. CASE T = {}
      BY <3>1 DEF genesis_step
    <3>2. CASE T # {}
      <4>1. T \ {Max(T)} \in Level(k)
        <5>1. Cardinality(T) <= k + 1 /\ T \in SUBSET (1..n)
          OBVIOUS
        <5>2. Cardinality(T) \in Nat /\ Cardinality(T \ {Max(T)}) = Cardinality(T) - 1
          BY <3>2, <5>1, MaxInSet
        <5> DEFINE c == Cardinality(T)
                   d == Cardinality(T \ {Max(T)})
        <5> HIDE DEF c, d
        <5>3. d <= k
          <6>1. c <= k + 1 /\ c \in Nat /\ d = c - 1
            BY <5>1, <5>2 DEF c, d
          <6> QED
            BY <2>1, <6>1
        <5>4. T \ {Max(T)} \in SUBSET (1..n)
          BY <5>1
        <5> QED
          BY <5>3, <5>4 DEF d
      <4>2. h[T \ {Max(T)}] = g[T \ {Max(T)}]
        BY <2>3, <4>1
      <4> HIDE DEF h
      <4> QED
        BY <4>2 DEF genesis_step
    <3> QED
      BY <3>1, <3>2
  <2>5. h = [T \in Level(k + 1) |-> genesis_step(order, h, T)]
    BY <2>4
  <2>6. \E i : i = [T \in Level(k + 1) |-> genesis_step(order, i, T)]
    <3> HIDE DEF h
    <3> QED
      BY <2>5
  <2> QED
    BY <2>1, <2>6, Zenon
<1>4. n \in P
  <2>1. P \in SUBSET Nat
    OBVIOUS
  <2> HIDE DEF P
  <2> QED
    BY <1>2, <1>3, <2>1, NaturalsAll
<1>5. Level(n) = SUBSET (1..n)
  BY <1>1
<1>6. \E g : g = [T \in SUBSET (1..n) |-> genesis_step(order, g, T)]
  BY <1>4, <1>5
<1>7. genesis_iter(order) = [T \in SUBSET (1..n) |-> genesis_step(order, genesis_iter(order), T)]
  BY <1>6 DEF genesis_iter
<1> QED
  BY <1>7

\* The first k members have their entries.
GenesisView(v, order, k) ==
  /\ DOMAIN v = ViewFields /\ v.members = {} /\ v.aborted = FALSE
  /\ DOMAIN v.inductions = 1..k
  /\ \A i \in 1..k : DOMAIN v.inductions[i] = EntryFields /\ v.inductions[i].invitee = order[i]

LEMMA NextOfFirst ==
  ASSUME NEW v, NEW k \in Nat, DOMAIN v.inductions = 1..k
  PROVE  view_next_id(v) = k + 1
<1>1. CASE k = 0
  <2>1. DOMAIN v.inductions = {}
    BY <1>1
  <2> QED
    BY <1>1, <2>1 DEF view_next_id
<1>2. CASE k # 0
  <2> DEFINE D == DOMAIN v.inductions
             m == CHOOSE i \in D : \A j \in D : j <= i
  <2>1. k \in D /\ \A j \in D : j <= k
    BY <1>2
  <2>2. m \in D /\ \A j \in D : j <= m
    BY <2>1
  <2>3. view_next_id(v) = 1 + m
    BY <2>1 DEF view_next_id, next_id
  <2> HIDE DEF m
  <2>4. m = k
    BY <2>1, <2>2
  <2> QED
    BY <2>3, <2>4
<1> QED
  BY <1>1, <1>2

LEMMA GenesisMemberAdded ==
  ASSUME NEW v, NEW order, NEW k \in Nat, GenesisView(v, order, k)
  PROVE  GenesisView(add_genesis_member(v, order[k + 1]), order, k + 1)
<1> DEFINE a == order[k + 1]
           e == view_induction(Contract, a, others_than(v.initial, a))
           V == v.inductions
           U == with(V, k + 1, e)
           w == add_genesis_member(v, a)
<1>1. view_next_id(v) = k + 1
  BY NextOfFirst DEF GenesisView
<1>2. w = [v EXCEPT !.inductions = U]
  BY <1>1, Zenon DEF add_genesis_member
<1>3. DOMAIN e = EntryFields /\ e.invitee = a
  BY DEF view_induction, EntryFields
<1>4. DOMAIN U = DOMAIN V \cup {k + 1} /\ U[k + 1] = e /\ \A i \in DOMAIN V : i # k + 1 => U[i] = V[i]
  BY DEF with
<1> HIDE DEF e, U
<1>5. DOMAIN w = ViewFields /\ w.members = {} /\ w.aborted = FALSE /\ w.inductions = U
  BY <1>2 DEF GenesisView, ViewFields
<1>6. DOMAIN U = 1..(k + 1)
  BY <1>4 DEF GenesisView
<1>7. ASSUME NEW i \in 1..(k + 1) PROVE DOMAIN U[i] = EntryFields /\ U[i].invitee = order[i]
  <2>1. CASE i = k + 1
    BY <1>3, <1>4, <2>1
  <2>2. CASE i # k + 1
    <3>1. i \in 1..k
      BY <2>2
    <3>2. U[i] = V[i]
      BY <1>4, <2>2, <3>1 DEF GenesisView
    <3> QED
      BY <3>1, <3>2 DEF GenesisView
  <2> QED
    BY <2>1, <2>2
<1> HIDE DEF w, V
<1>8. GenesisView(w, order, k + 1)
  BY <1>5, <1>6, <1>7 DEF GenesisView
<1> QED
  BY <1>8 DEF w

LEMMA GenesisShown ==
  ASSUME NEW order, NEW n \in Nat, DOMAIN order = 1..n
  PROVE  GenesisView(view_genesis(order), order, n)
<1> DEFINE g == genesis_iter(order)
           P == {k \in Nat : k <= n => GenesisView(g[1..k], order, k)}
<1>1. \A T \in SUBSET (1..n) : g[T] = genesis_step(order, g, T)
  BY GenesisIter
<1> HIDE DEF g
<1>2. 0 \in P
  <2>1. 1..0 = {} /\ {} \in SUBSET (1..n)
    OBVIOUS
  <2>2. g[1..0] = GenesisStart(order)
    BY <1>1, <2>1 DEF genesis_step
  <2> DEFINE v == GenesisStart(order)
  <2>3. DOMAIN v = ViewFields /\ v.members = {} /\ v.aborted = FALSE /\ v.inductions = << >>
    BY DEF GenesisStart, ViewFields
  <2> HIDE DEF v
  <2>4. GenesisView(v, order, 0)
    BY <2>1, <2>3 DEF GenesisView
  <2> QED
    BY <2>2, <2>4 DEF v
<1>3. ASSUME NEW k \in P PROVE k + 1 \in P
  <2>1. k \in Nat /\ k + 1 \in Nat
    OBVIOUS
  <2>2. ASSUME k + 1 <= n PROVE GenesisView(g[1..(k + 1)], order, k + 1)
    <3> DEFINE T == 1..(k + 1)
    <3>1. T \in SUBSET (1..n) /\ T # {} /\ T \ {k + 1} = 1..k
      BY <2>1, <2>2
    <3>2. Max(T) = k + 1
      <4>1. k + 1 \in T /\ \A j \in T : k + 1 >= j
        BY <2>1
      <4>2. \A m \in T : (\A j \in T : m >= j) => m = k + 1
        BY <2>1, <4>1
      <4> HIDE DEF T
      <4> QED
        BY <4>1, <4>2 DEF Max
    <3> HIDE DEF T
    <3>3. g[T] = add_genesis_member(g[T \ {k + 1}], order[k + 1])
      BY <1>1, <3>1, <3>2 DEF genesis_step
    <3>4. g[T] = add_genesis_member(g[1..k], order[k + 1])
      BY <3>1, <3>3
    <3>5. GenesisView(g[1..k], order, k)
      BY <2>1, <2>2
    <3> QED
      BY <2>1, <3>4, <3>5, GenesisMemberAdded DEF T
  <2> QED
    BY <2>1, <2>2
<1>4. n \in P
  <2>1. P \in SUBSET Nat
    OBVIOUS
  <2> HIDE DEF P
  <2> QED
    BY <1>2, <1>3, <2>1, NaturalsAll
<1>5. view_genesis(order) = g[1..n]
  BY GenesisIsIter DEF g
<1> QED
  BY <1>4, <1>5

-----------------------------------------------------------------------------
(***************************************************************************)
(* The theorems.                                                           *)
(***************************************************************************)
LEMMA InitFits ==
  ASSUME Init
  PROVE  IInv
<1> DEFINE order == listed(Initial)
           n == Cardinality(Initial)
<1>1. IsFiniteSet(Initial) /\ n \in Nat
  BY InductionsAssumption, FS_Subset, FS_CardinalityType
<1>2. /\ IsSeq(order) /\ Len(order) = n /\ order \in [1..n -> Initial]
      /\ \A j, k \in 1..n : order[j] = order[k] => j = k
      /\ \A a \in Initial : \E k \in 1..n : order[k] = a
  <2>1. IsSeq(order) /\ Len(order) = n /\ order \in Bijection(1..n, Initial)
    BY <1>1, ListedSeq
  <2> HIDE DEF order, n
  <2>2. order \in [1..n -> Initial] /\ \A a \in Initial : \E k \in 1..n : order[k] = a
    BY <2>1 DEF Bijection, Surjection
  <2>3. \A j, k \in 1..n : order[j] = order[k] => j = k
    BY <2>1 DEF Bijection, Injection, IsInjective
  <2> QED
    BY <2>1, <2>2, <2>3
<1>3. /\ DOMAIN inductions = 1..n
      /\ \A i \in 1..n : inductions[i] = create_induction(Contract, order[i], n - 1, 1, others_than(order, order[i]))
  <2> HIDE DEF n
  <2> QED
    BY <1>2 DEF Init, genesis
<1>4. ASSUME NEW i \in 1..n
      PROVE  Good(inductions[i]) /\ inductions[i].invitee = order[i] /\ inductions[i].inviter = Contract
  <2> DEFINE P == {k \in DOMAIN order : order[k] # order[i]}
  <2>1. P = (1..n) \ {i}
    <3> HIDE DEF order
    <3> QED
      BY <1>2
  <2>2. IsFiniteSet(1..n) /\ Cardinality(1..n) = n
    BY <1>1, FS_Interval
  <2>3. IsFiniteSet(P) /\ Cardinality(P) = n - 1
    <3> HIDE DEF P, n
    <3> QED
      BY <2>1, <2>2, FS_RemoveElement
  <2>4. IsSeq(others_than(order, order[i])) /\ Len(others_than(order, order[i])) = n - 1
    BY <2>3, KeptSeq DEF others_than
  <2> HIDE DEF order, n
  <2> QED
    BY <1>3, <2>4, CreatedGood
<1> HIDE DEF order
<1>5. TableInv
  <2>1. Ids(inductions)
    BY <1>1, <1>3 DEF Ids
  <2> QED
    BY <1>3, <1>4, <2>1 DEF TableInv, Founders
<1>6. /\ DOMAIN member = Initial /\ Pending = Initial /\ Active = {}
      /\ stats = [pending_members |-> n, active_members |-> 0]
  BY DEF Init, Pending, Active
<1>7. MembersInv
  <2>1. stats.pending_members = Cardinality(Pending) /\ stats.active_members = Cardinality(Active)
    BY <1>6, FS_EmptySet
  <2>2. stats \in Counts /\ DOMAIN member \subseteq Account
    BY <1>1, <1>6, InductionsAssumption DEF Counts
  <2> QED
    BY <2>1, <2>2 DEF MembersInv, StatsMatch, Pending, Active
<1>8. Unforgotten(inductions, gc_queue, Pending)
  BY <1>2, <1>3, <1>4, <1>6 DEF Unforgotten
<1>9. Reachable(inductions, swept, Pending)
  BY <1>2, <1>3, <1>4, <1>6 DEF Reachable, has_induction, by_invitee
<1>10. MeetingsBelong
  BY DEF Init, MeetingsBelong
<1> QED
  BY <1>5, <1>7, <1>8, <1>9, <1>10 DEF IInv

LEMMA NextFits ==
  ASSUME IInv, [Next]_vars
  PROVE  IInv'
<1>1. CASE Joining
  <2>1. ASSUME NEW id \in 1..MaxId, NEW inviter \in Account, NEW invitee \in Account, NEW W \in SUBSET Account,
               inductinit(id, inviter, invitee, W)
        PROVE  IInv'
    <3>1. id \in Nat
      OBVIOUS
    <3> QED
      BY <2>1, <3>1, InvitationKeeps
  <2>2. ASSUME NEW id \in DOMAIN inductions, NEW a \in Account \cup {Contract}, inductcancel(a, id)
        PROVE  IInv'
    BY <2>2, CancellationKeeps
  <2>3. ASSUME NEW id \in DOMAIN inductions, NEW a \in Account, inductmeetin(a, id)
        PROVE  IInv'
    BY <2>3, MeetingKeeps
  <2>4. ASSUME NEW a \in Account, resign(a) PROVE IInv'
    BY <2>4, ResignationKeeps
  <2>5. ASSUME NEW a \in Account, NEW b \in Account, rename(a, b) PROVE IInv'
    BY <2>5, RenamingKeeps
  <2>6. ASSUME NEW a \in Account, NEW e \in now..(now + Lifetime), addtogenesis(a, e) PROVE IInv'
    BY <2>6, GenesisAdditionKeeps
  <2> QED
    BY <1>1, <2>1, <2>2, <2>3, <2>4, <2>5, <2>6 DEF Joining
<1>2. CASE Processing
  <2>1. ASSUME NEW id \in DOMAIN inductions, inductprofil(id, 1) PROVE IInv'
    BY <2>1, ProfileKeeps
  <2>2. ASSUME NEW id \in DOMAIN inductions, inductdonate(id) PROVE IInv'
    BY <2>2, DonationKeeps
  <2>3. ASSUME NEW id \in DOMAIN inductions, NEW a \in Account, NEW v \in 1..Videos, inductvideo(a, id, v)
        PROVE  IInv'
    BY <2>3, VideoKeeps
  <2>4. ASSUME NEW id \in DOMAIN inductions, NEW a \in Account, NEW v \in 1..Videos, inductendors(a, id, <<v, 1>>)
        PROVE  IInv'
    BY <2>4, EndorsementKeeps
  <2>5. ASSUME NEW id \in DOMAIN inductions, NEW e \in now..(now + Lifetime), gensetexpire(id, e) PROVE IInv'
    BY <2>5, ExpirationKeeps
  <2>6. ASSUME NEW limit \in 1..MaxLimit, gc(limit) PROVE IInv'
    <3>1. limit \in Nat
      OBVIOUS
    <3> QED
      BY <2>6, <3>1, CollectionKeeps
  <2>7. CASE Tick
    <3>1. UNCHANGED <<stage, member, stats, inductions, gc_queue, meetings, swept>>
      BY <2>7 DEF Tick
    <3>2. MembersInv' /\ Pending' = Pending
      BY <3>1 DEF IInv, MembersInv, StatsMatch, Pending
    <3> QED
      BY <3>1, <3>2, MembersOnly
  <2> QED
    BY <1>2, <2>1, <2>2, <2>3, <2>4, <2>5, <2>6, <2>7 DEF Processing
<1>3. CASE UNCHANGED vars
  <2>1. UNCHANGED <<stage, member, stats, inductions, gc_queue, meetings, swept>>
    BY <1>3 DEF vars
  <2>2. MembersInv' /\ Pending' = Pending
    BY <2>1 DEF IInv, MembersInv, StatsMatch, Pending
  <2> QED
    BY <2>1, <2>2, MembersOnly
<1> QED
  BY <1>1, <1>2, <1>3 DEF Next

\* What the invariant says of the properties.
LEMMA FitsSeen ==
  ASSUME IInv
  PROVE  EndorsedAsSeen
BY DEF IInv, TableInv, Good, Seen, EndorsedAsSeen

LEMMA FitsCollected ==
  ASSUME IInv
  PROVE  InductionsCollected
<1>1. NoneForgotten
  BY DEF IInv, Unforgotten, NoneForgotten, Pending, pending
<1>2. PendingHaveInductions
  BY DEF IInv, Reachable, PendingHaveInductions, Pending, pending
<1>3. EndorsementsCounted
  <2>1. ASSUME NEW i \in DOMAIN inductions
        PROVE  Len(create_nfts(inductions[i])) = inductions[i].endorsements + 2
    <3> DEFINE ind == inductions[i]
               e == get_endorsers(ind)
               p == <<Contract, ind.invitee>>
    <3>1. IsSeq(ind.rows) /\ ind.endorsements = Len(ind.rows)
      BY DEF IInv, TableInv, Good, Formed
    <3>2. e = [r \in DOMAIN ind.rows |-> e[r]]
      BY DEF get_endorsers
    <3>3. create_nfts(ind) = p \o e
      BY DEF create_nfts
    <3> HIDE DEF e, ind
    <3>4. IsSeq(e) /\ Len(e) = Len(ind.rows)
      BY <3>1, <3>2, MappedSeq
    <3>5. IsSeq(p) /\ Len(p) = 2
      <4>1. p \in Seq({Contract, ind.invitee})
        OBVIOUS
      <4> QED
        BY <4>1, SeqInSet
    <3>6. Len(ind.rows) \in Nat
      BY <3>1, SeqFacts
    <3> HIDE DEF p
    <3>7. Len(p \o e) = 2 + Len(e)
      BY <3>4, <3>5, JoinedSeq
    <3>8. Len(create_nfts(ind)) = ind.endorsements + 2
      BY <3>1, <3>3, <3>4, <3>6, <3>7
    <3> QED
      BY <3>8 DEF ind
  <2> QED
    BY <2>1 DEF EndorsementsCounted
<1>4. MeetingsBelong /\ StatsMatch
  BY DEF IInv, MembersInv
<1> QED
  BY <1>1, <1>2, <1>3, <1>4 DEF InductionsCollected

LEMMA InitShows ==
  ASSUME Init
  PROVE  VInv
<1> DEFINE order == listed(Initial)
           n == Cardinality(Initial)
<1>1. n \in Nat /\ Len(order) = n /\ DOMAIN order = 1..n
  <2>1. IsFiniteSet(Initial)
    BY InductionsAssumption, FS_Subset
  <2>2. IsSeq(order) /\ Len(order) = n
    BY <2>1, ListedSeq
  <2> HIDE DEF order
  <2> QED
    BY <2>2, SeqFacts
<1>2. view = view_genesis(order) /\ inductions = genesis /\ leftover = {} /\ misnumbered = FALSE
  BY DEF Init
<1>3. GenesisView(view, order, n)
  <2> HIDE DEF order, n
  <2> QED
    BY <1>1, <1>2, GenesisShown
<1>4. Active = {}
  BY DEF Init, Active
<1>5. /\ DOMAIN inductions = 1..n
      /\ \A i \in 1..n : inductions[i] = create_induction(Contract, order[i], n - 1, 1, others_than(order, order[i]))
  <2> HIDE DEF n
  <2> QED
    BY <1>1, <1>2 DEF genesis
<1>6. ASSUME NEW i \in 1..n PROVE inductions[i].inviter = Contract /\ inductions[i].invitee = order[i]
  <2>1. \A a, m, video, s : LET c == create_induction(Contract, a, m, video, s)
                             IN  c.inviter = Contract /\ c.invitee = a
    BY DEF create_induction
  <2> HIDE DEF order, n
  <2> QED
    BY <1>5, <2>1
<1> HIDE DEF order, n
<1>7. Shows(view.inductions, inductions, leftover)
  BY <1>2, <1>3, <1>5, <1>6 DEF Shows, GenesisView, Matches
<1> QED
  BY <1>3, <1>4, <1>7 DEF VInv, Synced, GenesisView

LEMMA NextShows ==
  ASSUME IInv, VInv, [Next]_vars
  PROVE  VInv'
<1>1. CASE Joining
  <2>1. ASSUME NEW id \in 1..MaxId, NEW inviter \in Account, NEW invitee \in Account, NEW W \in SUBSET Account,
               inductinit(id, inviter, invitee, W)
        PROVE  VInv'
    BY <2>1, InvitationShows
  <2>2. ASSUME NEW id \in DOMAIN inductions, NEW a \in Account \cup {Contract}, inductcancel(a, id)
        PROVE  VInv'
    BY <2>2, CancellationShows
  <2>3. ASSUME NEW id \in DOMAIN inductions, NEW a \in Account, inductmeetin(a, id)
        PROVE  VInv'
    <3>1. UNCHANGED <<member, inductions, leftover, view, misnumbered>>
      BY <2>3 DEF inductmeetin
    <3> QED
      BY <3>1, ActiveSame, SameInductionsShow
  <2>4. ASSUME NEW a \in Account, resign(a) PROVE VInv'
    BY <2>4, ResignationShows
  <2>5. ASSUME NEW a \in Account, NEW b \in Account, rename(a, b) PROVE VInv'
    BY <2>5, RenamingShows
  <2>6. ASSUME NEW a \in Account, NEW e \in now..(now + Lifetime), addtogenesis(a, e) PROVE VInv'
    BY <2>6, GenesisAdditionShows
  <2> QED
    BY <1>1, <2>1, <2>2, <2>3, <2>4, <2>5, <2>6 DEF Joining
<1>2. CASE Processing
  <2>1. ASSUME NEW id \in DOMAIN inductions, inductprofil(id, 1) PROVE VInv'
    BY <2>1, ProfileShows
  <2>2. ASSUME NEW id \in DOMAIN inductions, inductdonate(id) PROVE VInv'
    BY <2>2, DonationShows
  <2>3. ASSUME NEW id \in DOMAIN inductions, NEW a \in Account, NEW v \in 1..Videos, inductvideo(a, id, v)
        PROVE  VInv'
    BY <2>3, VideoShows
  <2>4. ASSUME NEW id \in DOMAIN inductions, NEW a \in Account, NEW v \in 1..Videos, inductendors(a, id, <<v, 1>>)
        PROVE  VInv'
    BY <2>4, EndorsementShows
  <2>5. ASSUME NEW id \in DOMAIN inductions, NEW e \in now..(now + Lifetime), gensetexpire(id, e) PROVE VInv'
    BY <2>5, ExpirationShows
  <2>6. ASSUME NEW limit \in 1..MaxLimit, gc(limit) PROVE VInv'
    <3>1. limit \in Nat
      OBVIOUS
    <3> QED
      BY <2>6, <3>1, CollectionShows
  <2>7. CASE Tick
    <3>1. UNCHANGED <<member, inductions, leftover, view, misnumbered>>
      BY <2>7 DEF Tick
    <3> QED
      BY <3>1, ActiveSame, SameInductionsShow
  <2> QED
    BY <1>2, <2>1, <2>2, <2>3, <2>4, <2>5, <2>6, <2>7 DEF Processing
<1>3. CASE UNCHANGED vars
  <2>1. UNCHANGED <<member, inductions, leftover, view, misnumbered>>
    BY <1>3 DEF vars
  <2> QED
    BY <2>1, ActiveSame, SameInductionsShow
<1> QED
  BY <1>1, <1>2, <1>3 DEF Next

LEMMA ShownAsIs ==
  ASSUME VInv
  PROVE  MicroChainShows
<1> SUFFICES ASSUME ~view.aborted, ~misnumbered
             PROVE  /\ view.members = {a \in DOMAIN member : active(a)}
                    /\ \A i \in DOMAIN inductions \ leftover : inductions[i].inviter # Contract =>
                         /\ i \in DOMAIN view.inductions
                         /\ LET e == view.inductions[i]
                                c == inductions[i]
                            IN  /\ e.invitee = c.invitee /\ e.inviter = c.inviter
                                /\ e.video = c.video /\ e.profile = c.profile
                                /\ \A r \in DOMAIN c.rows : e.rows[r].endorser = c.rows[r].endorser
                                                            /\ e.rows[r].endorsed = c.rows[r].endorsed
  BY DEF MicroChainShows
<1>1. view.members = Active /\ Shows(view.inductions, inductions, leftover)
  BY DEF VInv, Synced
<1>2. Active = {a \in DOMAIN member : active(a)}
  BY DEF Active, active
<1>3. ASSUME NEW i \in DOMAIN inductions \ leftover
      PROVE  i \in DOMAIN view.inductions /\ Matches(view.inductions[i], inductions[i])
  BY <1>1 DEF Shows
<1> QED
  BY <1>1, <1>2, <1>3 DEF Matches, RowsShown

LEMMA AlwaysFits == Spec => []IInv
BY InitFits, NextFits, PTL DEF Spec

\* In every behaviour and for any accounts, limits and times: an endorsement that stands is
\* for the video and the profile that the induction has (inductions.cpp, endorse and
\* reset_endorsements).
THEOREM EndorsementsStand == Spec => []EndorsedAsSeen
BY AlwaysFits, FitsSeen, PTL

\* In every behaviour and for any accounts, limits and times: inductions, the queue of gc, the
\* member table with its statistics, endorsement counts and meetings fit together
\* (inductions.cpp, actions/induct.cpp).
THEOREM InductionsStayCollected == Spec => []InductionsCollected
BY AlwaysFits, FitsCollected, PTL

\* In every behaviour and for any accounts, limits and times: the micro chain shows the members
\* and every induction begun after genesis as the contract has it, except those that inducted
\* left over, until one of its handlers aborts or addtogenesis chooses another id than it
\* (eden-micro-chain.cpp, inductions.cpp).
THEOREM MicroChainKeepsShowing == Spec => []MicroChainShows
<1>1. Init => IInv /\ VInv
  BY InitFits, InitShows
<1>2. (IInv /\ VInv) /\ [Next]_vars => (IInv /\ VInv)'
  BY NextFits, NextShows
<1>3. IInv /\ VInv => MicroChainShows
  BY ShownAsIs
<1> QED
  BY <1>1, <1>2, <1>3, PTL DEF Spec
=============================================================================
