--------------------------- MODULE MCInductions ---------------------------
(***************************************************************************)
(* Inductions with two founders and one more account, from genesis on and, *)
(* with more invitations and departures, from a community whose genesis is *)
(* complete.                                                               *)
(***************************************************************************)
EXTENDS Inductions

CONSTANTS MaxWork, GenesisWork  \* bounds on invitations and departures

VARIABLE work  \* how many more invitations and departures there may be

\* Both founders have donated.
Founded ==
  /\ now = 0 /\ stage = "active"
  /\ member = [a \in Initial |-> "active"]
  /\ stats = [pending_members |-> 0, active_members |-> Cardinality(Initial)]
  /\ inductions = << >>
  /\ gc_queue = {} /\ meetings = {} /\ leftover = {} /\ swept = {}
  /\ misnumbered = FALSE
  /\ view = [inductions |-> << >>, members |-> Initial, initial |-> listed(Initial), aborted |-> FALSE]

MCInit == (Init /\ work = GenesisWork) \/ (Founded /\ work = MaxWork)

MCNext ==
  \/ work > 0 /\ work' = work - 1 /\ Joining
  \/ Processing /\ UNCHANGED work

MCSpec == MCInit /\ [][MCNext]_<<vars, work>>

=============================================================================
