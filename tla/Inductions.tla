----------------------------- MODULE Inductions -----------------------------
(***************************************************************************)
(* How accounts become members: invitations with endorsements, from the    *)
(* genesis of the community on (contracts/eden/src/inductions.cpp,         *)
(* actions/induct.cpp, actions/genesis.cpp, actions/notify_assets.cpp,     *)
(* encrypt.cpp and the member table of members.cpp), and the inductions    *)
(* and members the micro chain shows (eden-micro-chain.cpp).               *)
(*                                                                         *)
(* An action that fails a check changes nothing and is no step.  Profiles  *)
(* and videos are numbers, 0 for none.  Whether the invitee can pay the    *)
(* donation is Treasury's business.                                        *)
(***************************************************************************)
EXTENDS Integers, Sequences, FiniteSets, SequencesExt

CONSTANTS
  Account,
  Initial,      \* the accounts genesis begins with
  Contract,     \* the account of the contract, inviter of genesis members
  MinWitnesses, MaxWitnesses,
  MaxGc,        \* other inductions that inducted erases (max_gc_on_induction)
  Lifetime,     \* life of an induction
  MaxActive,    \* max_active_members
  Videos,       \* bound on videos
  MaxId,        \* bound on ids
  MaxTime,      \* bound on time
  MaxLimit      \* bound on the limit of gc

ASSUME InductionsAssumption ==
  /\ Initial \subseteq Account /\ Contract \notin Account /\ IsFiniteSet(Account)
  /\ MaxGc \in Nat /\ Lifetime \in Nat

VARIABLES
  now,
  stage,       \* "genesis" or "active"
  member,      \* account -> "pending" or "active"
  stats,       \* [pending_members, active_members]
  inductions,  \* id -> [inviter, invitee, endorsements, created_at, video, profile, rows]
               \* where rows are the endorsements [endorser, endorsed, hash]
  gc_queue,    \* accounts whose inductions are to be erased
  meetings,    \* ids with encrypted meeting data
  view,        \* the micro chain: [inductions, members, initial, aborted]
  leftover,    \* history: inductions of a member that inducted did not erase
  swept,       \* history: pending members whose inductions gc erased for an earlier
               \* membership
  misnumbered  \* history: addtogenesis chose another id than the micro chain

vars == <<now, stage, member, stats, inductions, gc_queue, meetings, view, leftover, swept, misnumbered>>

-----------------------------------------------------------------------------
(***************************************************************************)
(* Helpers.                                                                *)
(***************************************************************************)
without(f, S) == [x \in DOMAIN f \ S |-> f[x]]
with(f, x, v) == [y \in DOMAIN f \cup {x} |-> IF y = x THEN v ELSE f[y]]

is_new_member(a) == a \notin DOMAIN member
pending(a) == a \in DOMAIN member /\ member[a] = "pending"
active(a) == a \in DOMAIN member /\ member[a] = "active"

by_invitee(I, a) == {i \in DOMAIN I : I[i].invitee = a}
has_induction(I, a) == by_invitee(I, a) # {}
get_endorsers(ind) == [r \in DOMAIN ind.rows |-> ind.rows[r].endorser]
is_endorser(i, a) == \E r \in DOMAIN inductions[i].rows : inductions[i].rows[r].endorser = a
is_invitee(i, a) == inductions[i].invitee = a
is_valid_induction(ind) == now - ind.created_at <= Lifetime

least(S) == CHOOSE x \in S : \A y \in S : x <= y
next_id(f) == IF DOMAIN f = {} THEN 0 ELSE 1 + (CHOOSE i \in DOMAIN f : \A j \in DOMAIN f : j <= i)

\* The elements of s at the positions P, in their order.
kept(s, P) == [n \in 1..Cardinality(P) |-> s[CHOOSE k \in P : Cardinality({j \in P : j <= k}) = n]]
others_than(s, a) == kept(s, {k \in DOMAIN s : s[k] # a})

NoHash == <<0, 0>>
create_endorsement(a, endorsed) == [endorser |-> a, endorsed |-> endorsed, hash |-> NoHash]
add_endorsement(ind, a, endorsed) ==
  [ind EXCEPT !.rows = Append(@, create_endorsement(a, endorsed)), !.endorsements = @ + 1]

\* The induction with its endorsements: genesis and initialize_induction create both.
create_induction(inviter, invitee, endorsements, video, endorsers) ==
  [inviter |-> inviter, invitee |-> invitee, endorsements |-> endorsements, created_at |-> now,
   video |-> video, profile |-> 0,
   rows |-> [r \in DOMAIN endorsers |-> create_endorsement(endorsers[r], FALSE)]]

\* The first endorsement of an account: after a rename there may be two.
row_of(rows, a) ==
  {r \in DOMAIN rows : rows[r].endorser = a /\ \A k \in 1..(r - 1) : rows[k].endorser # a}

\* The accounts in some order, as the rows of a table.
listed(S) == CHOOSE s \in [1..Cardinality(S) -> S] : \A a \in S : \E k \in DOMAIN s : s[k] = a

\* Mutant: a change does not take the endorsements back.
Mut_reset_endorsements(rows) == rows

reset_endorsements(rows) == [r \in DOMAIN rows |-> [rows[r] EXCEPT !.endorsed = FALSE]]
endorse_all(rows) == [r \in DOMAIN rows |-> [rows[r] EXCEPT !.endorsed = TRUE]]
fully_endorsed(ind) == \A r \in DOMAIN ind.rows : ind.rows[r].endorsed

\* create_nft: the supply of the member's template, 0 for one that is locked later.
create_nft(ind) == IF stage = "genesis" THEN 0 ELSE ind.endorsements + 2

\* create_nfts: who gets an asset.
create_nfts(ind) == <<Contract, ind.invitee>> \o get_endorsers(ind)

-----------------------------------------------------------------------------
(***************************************************************************)
(* The micro chain.  A handler that does not find its record aborts.       *)
(***************************************************************************)
view_induction(inviter, invitee, endorsers) ==
  [inviter |-> inviter, invitee |-> invitee, video |-> 0, profile |-> 0,
   rows |-> [r \in DOMAIN endorsers |-> [endorser |-> endorsers[r], endorsed |-> FALSE]]]

\* add_or_replace
view_inductinit(v, i, inviter, invitee, witnesses) ==
  IF v.aborted THEN v
  ELSE [v EXCEPT !.inductions = with(@, i, view_induction(inviter, invitee, <<inviter>> \o witnesses))]

view_modify(v, i, e) ==
  IF v.aborted THEN v
  ELSE IF i \notin DOMAIN v.inductions THEN [v EXCEPT !.aborted = TRUE]
  ELSE [v EXCEPT !.inductions[i] = e]

\* What modify would find; view_modify aborts if there is nothing.
view_entry(v, i) ==
  IF i \in DOMAIN v.inductions THEN v.inductions[i] ELSE view_induction(Contract, Contract, << >>)

view_inductprofil(v, i, profile) ==
  view_modify(v, i, [view_entry(v, i) EXCEPT !.profile = profile, !.rows = reset_endorsements(@)])

\* Mutant: the micro chain keeps the endorsements.
Mut_view_inductvideo(v, i, video) == view_modify(v, i, [view_entry(v, i) EXCEPT !.video = video])

view_inductvideo(v, i, video) ==
  view_modify(v, i, [view_entry(v, i) EXCEPT !.video = video, !.rows = reset_endorsements(@)])

view_inductendors(v, i, a) ==
  view_modify(v, i, [view_entry(v, i) EXCEPT !.rows =
    [r \in DOMAIN @ |-> IF {r} = row_of(@, a) THEN [@[r] EXCEPT !.endorsed = TRUE] ELSE @[r]]])

\* inductdonate: the member appears and all its inductions go.
view_donate(v, i) ==
  IF v.aborted THEN v
  ELSE IF i \notin DOMAIN v.inductions THEN [v EXCEPT !.aborted = TRUE]
  ELSE LET a == v.inductions[i].invitee
       IN  IF a \in v.members THEN [v EXCEPT !.aborted = TRUE]
           ELSE [v EXCEPT !.members = @ \cup {a},
                          !.inductions = without(@, by_invitee(@, a))]

\* add_genesis_member: available_pk(db.inductions, 1)
view_next_id(v) == IF DOMAIN v.inductions = {} THEN 1 ELSE next_id(v.inductions)

add_genesis_member(v, a) ==
  [v EXCEPT !.inductions =
     with(@, view_next_id(v), view_induction(Contract, a, others_than(v.initial, a)))]

view_add_witness(e, a) == [e EXCEPT !.rows = Append(@, [endorser |-> a, endorsed |-> FALSE])]

\* A witness of every induction, and an induction of its own.
view_addtogenesis(v, a) ==
  IF v.aborted THEN v
  ELSE add_genesis_member(
         [v EXCEPT !.initial = Append(@, a),
                   !.inductions = [i \in DOMAIN @ |-> view_add_witness(@[i], a)]], a)

view_genesis(order) ==
  LET empty == [inductions |-> << >>, members |-> {}, initial |-> order, aborted |-> FALSE]
  IN  FoldLeft(add_genesis_member, empty, order)

renamed_rows(rows, a, b) ==
  [r \in DOMAIN rows |-> IF rows[r].endorser = a THEN [rows[r] EXCEPT !.endorser = b] ELSE rows[r]]

view_renamed(e, a, b) == [e EXCEPT !.inviter = IF @ = a THEN b ELSE @, !.rows = renamed_rows(@, a, b)]

view_rename(v, a, b) ==
  IF v.aborted THEN v
  ELSE [v EXCEPT
    !.inductions = [i \in DOMAIN @ |-> view_renamed(@[i], a, b)],
    !.members = {IF m = a THEN b ELSE m : m \in @},
    !.initial = [k \in DOMAIN @ |-> IF @[k] = a THEN b ELSE @[k]]]

view_inductcancel(v, i) == IF v.aborted THEN v ELSE [v EXCEPT !.inductions = without(@, {i})]
view_resign(v, a) == IF v.aborted THEN v ELSE [v EXCEPT !.members = @ \ {a}]

-----------------------------------------------------------------------------
(***************************************************************************)
(* The member table.                                                       *)
(***************************************************************************)
\* members::create
created(a) == is_new_member(a) /\ member' = with(member, a, "pending")
                               /\ stats' = [stats EXCEPT !.pending_members = @ + 1]

\* members::set_active
set_active(a) ==
  /\ pending(a) /\ stats.active_members < MaxActive
  /\ member' = [member EXCEPT ![a] = "active"]
  /\ stats' = [pending_members |-> stats.pending_members - 1, active_members |-> stats.active_members + 1]

\* members::remove and erase, of an active member.
removed(a) ==
  /\ member' = without(member, {a})
  /\ stats' = [stats EXCEPT !.active_members = @ - 1]

\* members::rename; emplace fails if the new account has a row.
member_renamed(a, b) == is_new_member(b) /\ member' = with(without(member, {a}), b, member[a])

\* remove_if_pending for some accounts; member_tb.get fails for one that is not there.
removable(A) == A \subseteq DOMAIN member
pending_of(A) == {a \in A : member[a] = "pending"}

remove_if_pending(A) ==
  /\ removable(A)
  /\ member' = without(member, pending_of(A))
  /\ stats' = [stats EXCEPT !.pending_members = @ - Cardinality(pending_of(A))]

\* maybe_activate_contract
maybe_activate_contract ==
  stage' = IF stage = "genesis" /\ stats'.pending_members = 0 THEN "active" ELSE stage

-----------------------------------------------------------------------------
(***************************************************************************)
(* Invitations.                                                            *)
(***************************************************************************)
check_new_induction(invitee, inviter) ==
  \A i \in DOMAIN inductions : ~(is_invitee(i, invitee) /\ inductions[i].inviter = inviter)

check_valid_endorsers(inviter, witnesses) ==
  Cardinality(witnesses) \in MinWitnesses..MaxWitnesses /\ inviter \notin witnesses

\* emplace fails for an id in use.
initialize_induction(id, inviter, invitee, witnesses) ==
  /\ check_new_induction(invitee, inviter) /\ check_valid_endorsers(inviter, witnesses)
  /\ id \notin DOMAIN inductions
  /\ inductions' = with(inductions, id,
                        create_induction(inviter, invitee, Cardinality(witnesses) + 1, 0,
                                         <<inviter>> \o listed(witnesses)))

inductinit(id, inviter, invitee, witnesses) ==
  /\ stage = "active"
  /\ active(inviter) /\ \A w \in witnesses : active(w)
  /\ IF is_new_member(invitee) THEN created(invitee)
     ELSE pending(invitee) /\ UNCHANGED <<member, stats>>
  /\ initialize_induction(id, inviter, invitee, witnesses)
  /\ view' = view_inductinit(view, id, inviter, invitee, listed(witnesses))
  /\ swept' = swept \ {invitee}
  /\ UNCHANGED <<now, stage, gc_queue, meetings, leftover, misnumbered>>

update_profile(ind, profile) == [ind EXCEPT !.profile = profile, !.rows = reset_endorsements(@)]

\* In genesis the profile is endorsed at once.
inductprofil(id, profile) ==
  LET ind == update_profile(inductions[id], profile)
  IN  /\ pending(ind.invitee) /\ is_valid_induction(ind)
      /\ inductions' = [inductions EXCEPT ![id] =
                          IF stage = "genesis" THEN [ind EXCEPT !.rows = endorse_all(@)] ELSE ind]
      /\ view' = view_inductprofil(view, id, profile)
      /\ UNCHANGED <<now, stage, member, stats, gc_queue, meetings, leftover, swept, misnumbered>>

update_video(ind, video) == [ind EXCEPT !.video = video, !.rows = reset_endorsements(@)]

inductvideo(account, id, video) ==
  /\ stage = "active"
  /\ pending(inductions[id].invitee)
  /\ is_endorser(id, account)
  /\ is_valid_induction(inductions[id])
  /\ inductions' = [inductions EXCEPT ![id] = update_video(@, video)]
  /\ view' = view_inductvideo(view, id, video)
  /\ UNCHANGED <<now, stage, member, stats, gc_queue, meetings, leftover, swept, misnumbered>>

\* The endorser signs the hash of the video and the profile it has seen.
endorse(id, account, hash) ==
  LET ind == inductions[id]
  IN  /\ is_valid_induction(ind)
      /\ ind.video # 0 /\ ind.profile # 0
      /\ hash = <<ind.video, ind.profile>>
      /\ \E r \in row_of(ind.rows, account) :
           /\ ~ind.rows[r].endorsed
           /\ inductions' = [inductions EXCEPT ![id].rows[r].endorsed = TRUE, ![id].rows[r].hash = hash]

inductendors(account, id, hash) ==
  /\ pending(inductions[id].invitee) /\ is_endorser(id, account) /\ active(account)
  /\ endorse(id, account, hash)
  /\ view' = view_inductendors(view, id, account)
  /\ UNCHANGED <<now, stage, member, stats, gc_queue, meetings, leftover, swept, misnumbered>>

\* inductmeetin: participants must have member rows for their keys to be found.
inductmeetin(account, id) ==
  /\ stage = "active" /\ is_endorser(id, account)
  /\ \A a \in Range(get_endorsers(inductions[id])) \cup {inductions[id].invitee} : a \in DOMAIN member
  /\ meetings' = meetings \cup {id}
  /\ UNCHANGED <<now, stage, member, stats, inductions, gc_queue, view, leftover, swept, misnumbered>>

\* erase_induction of all but some: endorsements and meeting data go with it.
erase(I) == inductions' = I /\ meetings' = meetings \cap DOMAIN I

\* Mutant: an account is not queued when the limit is just used up.
Mut_queue_gc(a, erased, others) ==
  IF Cardinality(erased) <= MaxGc THEN UNCHANGED gc_queue
  ELSE a \notin gc_queue /\ gc_queue' = gc_queue \cup {a}

\* Inductions remain when the limit is used up; emplace fails for an account that is
\* in the queue already.
queue_gc(a, erased, others) ==
  IF Cardinality(erased) < MaxGc THEN UNCHANGED gc_queue
  ELSE a \notin gc_queue /\ gc_queue' = gc_queue \cup {a}

\* inductdonate, the notifications of the asset contract and inducted: one transaction.
\* The invitee's other inductions are erased in the order of their inviters.
inductdonate(id) ==
  LET ind    == inductions[id]
      others == by_invitee(inductions, ind.invitee) \ {id}
  IN  /\ is_valid_induction(ind)
      /\ fully_endorsed(ind)
      /\ create_nft(ind) = 0 \/ Len(create_nfts(ind)) <= create_nft(ind)  \* or mintasset fails
      /\ set_active(ind.invitee)
      /\ \E erased \in SUBSET others :
           /\ Cardinality(erased) = IF Cardinality(others) < MaxGc THEN Cardinality(others) ELSE MaxGc
           /\ erase(without(inductions, erased \cup {id}))
           /\ queue_gc(ind.invitee, erased, others)
           /\ leftover' = (leftover \ ({id} \cup erased)) \cup (others \ erased)
      /\ maybe_activate_contract
      /\ view' = view_donate(view, id)
      /\ UNCHANGED <<now, swept, misnumbered>>

\* erase_endorser: in genesis the account leaves the other inductions too.
erase_endorser(I, a) ==
  [i \in DOMAIN I |->
     LET mine == {r \in DOMAIN I[i].rows : I[i].rows[r].endorser = a}
     IN  [I[i] EXCEPT !.rows = kept(@, DOMAIN @ \ mine), !.endorsements = @ - Cardinality(mine)]]

inductcancel(account, id) ==
  LET a    == inductions[id].invitee
      rest == without(inductions, {id})
      left == IF stage = "genesis" /\ ~has_induction(rest, a) THEN erase_endorser(rest, a) ELSE rest
  IN  /\ IF stage = "genesis" THEN account = Contract
         ELSE is_invitee(id, account) \/ is_endorser(id, account)
      /\ \A i \in DOMAIN left : left[i].endorsements = rest[i].endorsements \/ left[i].endorsements > 0
      /\ erase(left)
      /\ IF has_induction(rest, a) THEN UNCHANGED <<member, stats, stage>>
         ELSE remove_if_pending({a}) /\ maybe_activate_contract
      /\ view' = view_inductcancel(view, id)
      /\ leftover' = leftover \ {id}
      /\ swept' = swept \cap DOMAIN member'
      /\ UNCHANGED <<now, gc_queue, misnumbered>>

-----------------------------------------------------------------------------
(***************************************************************************)
(* gc erases, one by one up to a limit: expired inductions, the oldest     *)
(* first, then the inductions of the accounts in the queue and, when an    *)
(* account has none left, its row of the queue.                            *)
(***************************************************************************)
expired(I) == {i \in DOMAIN I : ~is_valid_induction(I[i])}
oldest(I, S) ==
  least({i \in S : \A j \in S : I[i].created_at <= I[j].created_at})

gc_step(s) ==
  LET old == oldest(s.inductions, expired(s.inductions))
      a   == s.inductions[old].invitee
      left == without(s.inductions, {old})
      q   == CHOOSE b \in s.queue : TRUE
      of  == by_invitee(s.inductions, q)
  IN  IF expired(s.inductions) # {} THEN
        [s EXCEPT !.inductions = left, !.steps = @ + 1,
                  !.removed = IF has_induction(left, a) THEN @ ELSE @ \cup {a}]
      ELSE IF s.queue = {} THEN s
      ELSE IF of # {} THEN
        [s EXCEPT !.inductions = without(@, {least(of)}), !.steps = @ + 1,
                  !.swept = IF pending(q) THEN @ \cup {q} ELSE @]
      ELSE [s EXCEPT !.queue = @ \ {q}, !.steps = @ + 1]

gc(limit) ==
  LET after[k \in 0..limit] ==
        IF k = 0 THEN [inductions |-> inductions, queue |-> gc_queue, removed |-> {}, steps |-> 0,
                       swept |-> swept]
        ELSE gc_step(after[k - 1])
      s == after[limit]
  IN  /\ s.steps > 0
      /\ erase(s.inductions)
      /\ gc_queue' = s.queue
      /\ IF s.removed = {} THEN UNCHANGED <<member, stats, stage>>
         ELSE remove_if_pending(s.removed) /\ maybe_activate_contract
      /\ leftover' = leftover \cap DOMAIN s.inductions
      /\ swept' = s.swept \cap DOMAIN member'
      /\ UNCHANGED <<now, view, misnumbered>>

-----------------------------------------------------------------------------
(***************************************************************************)
(* Members and genesis.                                                    *)
(***************************************************************************)
resign(a) ==
  /\ active(a) /\ removed(a)
  /\ view' = view_resign(view, a)
  /\ UNCHANGED <<now, stage, inductions, gc_queue, meetings, leftover, swept, misnumbered>>

rename(a, b) ==
  /\ active(a) /\ member_renamed(a, b)
  /\ ~has_induction(inductions, a)
  /\ \A i \in DOMAIN inductions : inductions[i].inviter # a
  /\ inductions' = [i \in DOMAIN inductions |-> [inductions[i] EXCEPT !.rows = renamed_rows(@, a, b)]]
  /\ view' = view_rename(view, a, b)
  /\ UNCHANGED <<now, stage, stats, gc_queue, meetings, leftover, swept, misnumbered>>

\* update_expiration
expires(e) == e >= now /\ e - now <= Lifetime

gensetexpire(id, expiration) ==
  /\ stage = "genesis" /\ expires(expiration)
  /\ inductions' = [inductions EXCEPT ![id].created_at = expiration - Lifetime]
  /\ UNCHANGED <<now, stage, member, stats, gc_queue, meetings, view, leftover, swept, misnumbered>>

\* The new account becomes a witness of all inductions and gets one of its own, with
\* the members so far as endorsers.
addtogenesis(a, expiration) ==
  LET old == listed(DOMAIN member)
      ind == create_induction(Contract, a, Cardinality(DOMAIN member),
                              inductions[least(DOMAIN inductions)].video, old)
  IN  /\ stage = "genesis" /\ created(a) /\ expires(expiration)
      /\ DOMAIN inductions # {}
      /\ inductions' = with([i \in DOMAIN inductions |-> add_endorsement(inductions[i], a, TRUE)],
                            next_id(inductions), [ind EXCEPT !.created_at = expiration - Lifetime])
      /\ view' = view_addtogenesis(view, a)
      /\ misnumbered' = (misnumbered \/ next_id(inductions) # view_next_id(view))
      /\ UNCHANGED <<now, stage, gc_queue, meetings, leftover, swept>>

Tick ==
  /\ now < MaxTime  \* bound
  /\ now' = now + 1
  /\ UNCHANGED <<stage, member, stats, inductions, gc_queue, meetings, view, leftover, swept, misnumbered>>

\* The genesis action has run.
genesis ==
  LET order == listed(Initial)
  IN  [i \in DOMAIN order |->
         create_induction(Contract, order[i], Len(order) - 1, 1, others_than(order, order[i]))]

Init ==
  /\ now = 0 /\ stage = "genesis"
  /\ member = [a \in Initial |-> "pending"]
  /\ stats = [pending_members |-> Cardinality(Initial), active_members |-> 0]
  /\ inductions = genesis
  /\ gc_queue = {} /\ meetings = {} /\ leftover = {} /\ swept = {}
  /\ misnumbered = FALSE
  /\ view = view_genesis(listed(Initial))

\* What begins or ends an invitation or a membership, and meetings.
Joining ==
  \/ \E id \in 1..MaxId, inviter \in Account, invitee \in Account, W \in SUBSET Account :
       inductinit(id, inviter, invitee, W)
  \/ \E id \in DOMAIN inductions, a \in Account \cup {Contract} : inductcancel(a, id)
  \/ \E id \in DOMAIN inductions, a \in Account : inductmeetin(a, id)
  \/ \E a \in Account : \/ resign(a)
                        \/ \E b \in Account : rename(a, b)
                        \/ \E e \in now..(now + Lifetime) : addtogenesis(a, e)

\* What happens to an induction meanwhile.
Processing ==
  \/ \E id \in DOMAIN inductions :
       \/ inductprofil(id, 1)
       \/ inductdonate(id)
       \/ \E a \in Account : \/ \E v \in 1..Videos : inductvideo(a, id, v)
                             \/ \E v \in 1..Videos : inductendors(a, id, <<v, 1>>)
       \/ \E e \in now..(now + Lifetime) : gensetexpire(id, e)
  \/ \E limit \in 1..MaxLimit : gc(limit)
  \/ Tick

Next == Joining \/ Processing

Spec == Init /\ [][Next]_vars

-----------------------------------------------------------------------------
(***************************************************************************)
(* Properties.                                                             *)
(***************************************************************************)
\* An endorsement stands for what was endorsed: it is for the video and the profile
\* that the induction has now, so that is what goes into the new member's assets, whoever
\* changed either between an endorsement and the donation (reset_endorsements).
EndorsedAsSeen ==
  \A i \in DOMAIN inductions : inductions[i].inviter # Contract =>
    \A r \in DOMAIN inductions[i].rows :
      inductions[i].rows[r].endorsed =>
        inductions[i].rows[r].hash = <<inductions[i].video, inductions[i].profile>>

\* The number kept with an induction, from which the supply of the member's asset is
\* computed (create_nft), agrees with the endorsement rows, for each of which an asset
\* is minted (create_nfts), while accounts join and leave genesis and are renamed.
EndorsementsCounted ==
  \A i \in DOMAIN inductions : Len(create_nfts(inductions[i])) = inductions[i].endorsements + 2

\* The statistics agree with the member table: genesis ends with the last pending
\* member, and elections start at a number of active ones.
StatsMatch ==
  /\ stats.pending_members = Cardinality({a \in DOMAIN member : member[a] = "pending"})
  /\ stats.active_members = Cardinality({a \in DOMAIN member : member[a] = "active"})

\* No induction is forgotten: its invitee is pending, or gc will find it in the queue.
NoneForgotten ==
  \A i \in DOMAIN inductions : pending(inductions[i].invitee) \/ inductions[i].invitee \in gc_queue

\* A pending member has an induction by which it can become active or be removed, unless
\* gc has erased it on account of an earlier membership of the same account.
PendingHaveInductions ==
  \A a \in DOMAIN member : pending(a) => has_induction(inductions, a) \/ a \in swept

\* Meeting data never outlives its induction, whose id may be used again.
MeetingsBelong == meetings \subseteq DOMAIN inductions

\* Once the contract is active the micro chain shows its members, and every induction
\* begun since then as it is, except those that inducted left over; unless an account was
\* added to genesis after gc had removed the one with the highest id.
MicroChainShows ==
  ~view.aborted /\ ~misnumbered =>
    /\ view.members = {a \in DOMAIN member : active(a)}
    /\ \A i \in DOMAIN inductions \ leftover : inductions[i].inviter # Contract =>
         /\ i \in DOMAIN view.inductions
         /\ LET e == view.inductions[i]
                c == inductions[i]
            IN  /\ e.invitee = c.invitee /\ e.inviter = c.inviter
                /\ e.video = c.video /\ e.profile = c.profile
                /\ \A r \in DOMAIN c.rows : e.rows[r].endorser = c.rows[r].endorser
                                            /\ e.rows[r].endorsed = c.rows[r].endorsed

\* Whatever order invitations, endorsements, donations, cancellations, resignations, renamings
\* and batches of gc come in, what they leave fits together: no induction is forgotten, every
\* pending member has one, its endorsements, its meeting and the statistics of members agree
\* with the tables (inductions.cpp, actions/induct.cpp).
InductionsCollected ==
  NoneForgotten /\ PendingHaveInductions /\ EndorsementsCounted /\ MeetingsBelong /\ StatsMatch

=============================================================================
