------------------------------ MODULE Sessions ------------------------------
(***************************************************************************)
(* Session keys (contracts/eden/src/actions/sessions.cpp): members         *)
(* register keys that sign for them, each with an expiration, and a signed *)
(* message carries a sequence number that is accepted once.  The contract  *)
(* tells the micro chain of sessions by events (eden-micro-chain.cpp).     *)
(*                                                                         *)
(* The actions newsession, delsession and run are complete but commented   *)
(* out of the contract's dispatcher (include/eden.hpp:240-242): what is    *)
(* shown here is what holds once they are switched on.                     *)
(*                                                                         *)
(* An action that fails a check changes nothing and is no step.            *)
(***************************************************************************)
EXTENDS Integers, Sequences, FiniteSets, SequencesExt

CONSTANTS
  Account,
  Key,
  MaxSessions,   \* sessions an account may have (4)
  MaxSequences,  \* sequence numbers remembered per session (20)
  MaxSkip,       \* sequence numbers a message may skip (10)
  MaxLife,       \* the longest life of a session (90 days)
  MaxTime,       \* bound on time
  MaxSequence    \* bound on sequence numbers

ASSUME SessionsAssumption ==
  /\ MaxSessions \in Nat \ {0} /\ MaxSequences \in Nat \ {0}
  /\ MaxSkip \in Nat /\ MaxLife \in Nat \ {0}
  /\ MaxTime \in Nat /\ MaxSequence \in Nat

VARIABLES
  now,
  members,   \* accounts with a row in the member table
  sessions,  \* account -> [list: <<[key, expiration, sequences]>>, earliest_expiration]
  view,      \* the micro chain's sessions: [account, key, expiration]
  aborted,   \* the micro chain has stopped: an event violated the uniqueness of its table
  accepted   \* history: [account, key] -> sequence numbers accepted since it was registered

vars == <<now, members, sessions, view, aborted, accepted>>

Never == MaxTime + MaxLife + 1  \* block_timestamp::max()

Symmetry == Permutations(Key)  \* nothing orders keys

-----------------------------------------------------------------------------
(***************************************************************************)
(* Helpers.                                                                *)
(***************************************************************************)
set_expiration(list) ==
  LET times == {list[i].expiration : i \in DOMAIN list} \cup {Never}
  IN  CHOOSE t \in times : \A u \in times : t <= u

\* The elements of s at the positions P, in their order.
kept(s, P) == [n \in 1..Cardinality(P) |-> s[CHOOSE k \in P : Cardinality({j \in P : j <= k}) = n]]

\* expire: the sessions that remain, and the keys of those that do not.
alive(list) == kept(list, {i \in DOMAIN list : list[i].expiration > now})
expired_keys(list) == {list[i].key : i \in {j \in DOMAIN list : list[j].expiration <= now}}

keys(list) == {list[i].key : i \in DOMAIN list}
position(list, k) == CHOOSE i \in DOMAIN list : list[i].key = k

container(list) == [list |-> list, earliest_expiration |-> set_expiration(list)]

with_row(a, row) == [b \in DOMAIN sessions \cup {a} |-> IF b = a THEN row ELSE sessions[b]]
without_rows(A) == [b \in DOMAIN sessions \ A |-> sessions[b]]

\* session_del_event: handle_event removes the session if it is there.
without(v, a, K) == {s \in v : ~(s.account = a /\ s.key \in K)}

\* The history of a session ends with its registration.
registered(rows) == {p \in Account \X Key : p[1] \in DOMAIN rows /\ p[2] \in keys(rows[p[1]].list)}

-----------------------------------------------------------------------------
(***************************************************************************)
(* Actions.                                                                *)
(***************************************************************************)
\* newsession for an account that has a row: the oldest session makes room.
appended(row, session) ==
  LET list == Append(alive(row.list), session)
  IN  container(IF Len(list) > MaxSessions THEN Tail(list) ELSE list)

\* The events of newsession: the expired sessions are deleted, then the new one is
\* created, which the micro chain's table refuses if it still has the key.
newsession(a, k, expiration) ==
  LET session == [key |-> k, expiration |-> expiration, sequences |-> << >>]
      old     == IF a \in DOMAIN sessions THEN sessions[a].list ELSE << >>
      viewed  == without(view, a, expired_keys(old))
      clash   == \E s \in viewed : s.account = a /\ s.key = k
  IN  /\ expiration > now /\ expiration <= now + MaxLife
      /\ a \in members
      /\ k \notin keys(alive(old))
      /\ sessions' = with_row(a, IF old = << >> THEN container(<<session>>)
                                 ELSE appended(sessions[a], session))
      /\ aborted' = (aborted \/ clash)
      /\ view' = IF aborted' THEN view
                 ELSE viewed \cup {[account |-> a, key |-> k, expiration |-> expiration]}
      /\ accepted' = [p \in registered(sessions') |-> IF p = <<a, k>> \/ p \notin DOMAIN accepted THEN << >>
                                                      ELSE accepted[p]]
      /\ UNCHANGED <<now, members>>

\* The row of an account after delsession, or none if no session is left.
delsession(a, k) ==
  LET list == sessions[a].list
      rest == alive(RemoveAt(list, position(list, k)))
  IN  /\ a \in DOMAIN sessions /\ k \in keys(list)
      /\ sessions' = IF rest = << >> THEN without_rows({a}) ELSE with_row(a, container(rest))
      /\ view' = IF aborted THEN view ELSE without(view, a, {k} \cup expired_keys(list))
      /\ accepted' = [p \in registered(sessions') |-> accepted[p]]
      /\ UNCHANGED <<now, members, aborted>>

\* Mutant: a number below the window is refused only when the window is more than full.
Mut_acceptable(list, s) ==
  /\ IF list = << >> THEN s <= MaxSkip
     ELSE /\ ~(s < list[1] /\ Len(list) > MaxSequences)
          /\ s <= list[Len(list)] + MaxSkip
  /\ \A i \in DOMAIN list : list[i] # s

\* run's checks of a sequence number against the ones remembered.
acceptable(list, s) ==
  /\ IF list = << >> THEN s <= MaxSkip
     ELSE /\ ~(s < list[1] /\ Len(list) >= MaxSequences)
          /\ s <= list[Len(list)] + MaxSkip
  /\ \A i \in DOMAIN list : list[i] # s

\* The number is put in its place; the smallest is dropped when there are too many.
remember(list, s) ==
  LET below == Cardinality({i \in DOMAIN list : list[i] < s})
      more  == InsertAt(list, below + 1, s)
  IN  IF Len(more) > MaxSequences THEN Tail(more) ELSE more

with_sequence(session, s) == [session EXCEPT !.sequences = remember(@, s)]

\* run with a signature; what its verbs do is delsession or nothing to sessions.
\* Expired sessions go first, and the key must not be one of them.
run(a, k, s, deleted) ==
  LET list == alive(sessions[a].list)
      i    == position(list, k)
      used == [list EXCEPT ![i] = with_sequence(@, s)]
      rest == kept(used, {j \in DOMAIN used : used[j].key \notin deleted})
  IN  /\ a \in DOMAIN sessions /\ k \in keys(list)
      /\ acceptable(list[i].sequences, s)
      /\ deleted \subseteq keys(list)
      /\ sessions' = IF rest = << >> THEN without_rows({a}) ELSE with_row(a, container(rest))
      /\ view' = IF aborted THEN view
                 ELSE without(view, a, deleted \cup expired_keys(sessions[a].list))
      /\ accepted' = [p \in registered(sessions') |-> IF p = <<a, k>> THEN Append(accepted[p], s) ELSE accepted[p]]
      /\ UNCHANGED <<now, members, aborted>>

\* Rows are handled by earliest expiration; equal ones in the order of accounts, which
\* is left open.
gc_order(A) == \A a \in A : \A b \in DOMAIN sessions \ A :
                 sessions[b].earliest_expiration <= now =>
                   sessions[a].earliest_expiration <= sessions[b].earliest_expiration

\* gc_sessions with room for n rows.
gc_sessions(n) ==
  LET due == {a \in DOMAIN sessions : sessions[a].earliest_expiration <= now}
  IN  \E A \in SUBSET due :
        LET gone == {a \in A : alive(sessions[a].list) = << >>}
        IN  /\ A # {} /\ gc_order(A)
            /\ Cardinality(A) = IF Cardinality(due) < n THEN Cardinality(due) ELSE n
            /\ sessions' = [a \in DOMAIN sessions \ gone |->
                              IF a \in A THEN container(alive(sessions[a].list)) ELSE sessions[a]]
            /\ view' = IF aborted THEN view
                       ELSE {s \in view : ~(s.account \in A /\ s.key \in expired_keys(sessions[s.account].list))}
            /\ accepted' = [p \in registered(sessions') |-> accepted[p]]
            /\ UNCHANGED <<now, members, aborted>>

\* Mutant: the member's row goes, its sessions stay.
Mut_remove_member(a) ==
  /\ a \in members
  /\ members' = members \ {a}
  /\ UNCHANGED <<now, sessions, view, aborted, accepted>>

\* A member is removed or renamed (members.cpp): remove_sessions.
remove_member(a) ==
  /\ a \in members
  /\ members' = members \ {a}
  /\ sessions' = without_rows({a})
  /\ view' = IF aborted THEN view
             ELSE without(view, a, IF a \in DOMAIN sessions THEN keys(sessions[a].list) ELSE {})
  /\ accepted' = [p \in registered(sessions') |-> accepted[p]]
  /\ UNCHANGED <<now, aborted>>

\* A member is created (inductinit, genesis, rename).
create_member(a) ==
  /\ a \notin members
  /\ members' = members \cup {a}
  /\ UNCHANGED <<now, sessions, view, aborted, accepted>>

\* clearall, in the contract and in the micro chain.
clearall ==
  /\ members' = {} /\ sessions' = << >> /\ accepted' = << >>
  /\ view' = IF aborted THEN view ELSE {}
  /\ UNCHANGED <<now, aborted>>

Tick ==
  /\ now < MaxTime  \* bound
  /\ now' = now + 1
  /\ UNCHANGED <<members, sessions, view, aborted, accepted>>

Init ==
  /\ now = 0 /\ members = {} /\ sessions = << >>
  /\ view = {} /\ aborted = FALSE /\ accepted = << >>

Next ==
  \/ \E a \in Account, k \in Key, d \in 1..MaxLife : newsession(a, k, now + d)
  \/ \E a \in Account, k \in Key : delsession(a, k)
  \/ \E a \in Account, k \in Key, s \in 0..MaxSequence :
       run(a, k, s, {}) \/ \E d \in Key : run(a, k, s, {d})
  \/ \E n \in 1..Cardinality(Account) : gc_sessions(n)
  \/ \E a \in Account : remove_member(a) \/ create_member(a)
  \/ clearall
  \/ Tick

Spec == Init /\ [][Next]_vars

-----------------------------------------------------------------------------
(***************************************************************************)
(* Properties.                                                             *)
(***************************************************************************)
\* A sequence number is accepted once per registration of a key, although only the
\* last MaxSequences numbers are remembered and messages may arrive out of order (run).
NoReplay == \A p \in DOMAIN accepted : IsInjective(accepted[p])

\* An account with an expired session is one that gc finds: the index by earliest
\* expiration is right whichever sessions were added, evicted, used and deleted
\* (gc_sessions, set_expiration).
ExpiredAreFound ==
  \A a \in DOMAIN sessions :
    expired_keys(sessions[a].list) # {} => sessions[a].earliest_expiration <= now

\* Every session of the contract is one the micro chain shows, and sessions
\* belong to members, until an event stops the micro chain.
AllShown ==
  \A a \in DOMAIN sessions :
    /\ a \in members
    /\ \A i \in DOMAIN sessions[a].list :
         LET s == sessions[a].list[i]
         IN  aborted \/ [account |-> a, key |-> s.key, expiration |-> s.expiration] \in view

\* A session that has expired is found by gc, and one that is valid is shown by the micro
\* chain, whatever was added, evicted, used and deleted in between (sessions.cpp).
SessionsShown == ExpiredAreFound /\ AllShown

\* "events handle session creation and deletion" (eden-micro-chain.cpp:1366): the micro
\* chain shows exactly the contract's sessions.  Does not hold: no event tells that the
\* oldest session of an account was evicted by a fifth.
EventsTellAll ==
  \A v \in view : /\ v.account \in DOMAIN sessions
                  /\ v.key \in keys(sessions[v.account].list)

=============================================================================
