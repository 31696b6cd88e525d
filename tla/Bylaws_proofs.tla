---------------------------- MODULE Bylaws_proofs ----------------------------
(***************************************************************************)
(* Bylaws advance only with the support of the present board, and are      *)
(* ratified by a later board than the one that made them pending, for any  *)
(* number of members, texts and times.                                     *)
(*                                                                         *)
(* The inductive invariant adds to the types and to ApprovalsFromBoard how *)
(* times and terms are related: bylaws that became pending in this term    *)
(* are not older than the election that began it.                          *)
(***************************************************************************)
EXTENDS Bylaws, FiniteSetTheorems, TLAPS

TermsFollowTime ==
  /\ last_election_time <= now
  /\ \A s \in DOMAIN bylaws : bylaws[s].term <= term
  /\ "pending" \in DOMAIN bylaws /\ ~running /\ bylaws["pending"].term = term =>
       bylaws["pending"].time >= last_election_time

IInv == TypeOK /\ ApprovalsFromBoard /\ TermsFollowTime

-----------------------------------------------------------------------------
\* The lengths of time are natural numbers.
LEMMA Lengths == Quarter \in Nat \ {0} /\ TriggerLead \in Nat /\ MaxLead \in Nat
BY BylawsAssumption

\* Before the first election there are no bylaws.
LEMMA InitIInv == Init => IInv
<1> SUFFICES ASSUME Init PROVE IInv
  OBVIOUS
<1>1. DOMAIN bylaws = {}
  BY DEF Init
<1>2. bylaws \in [DOMAIN bylaws -> Rows]
  BY <1>1 DEF Init
<1>3. TypeOK
  <2>1. electionTime \in Nat
    BY Lengths DEF Init
  <2>2. Founders \subseteq Member
    BY BylawsAssumption
  <2> QED
    BY <1>1, <1>2, <2>1, <2>2 DEF Init, TypeOK
<1> QED
  BY <1>1, <1>3 DEF Init, IInv, ApprovalsFromBoard, TermsFollowTime, never

\* Proposed bylaws are new and nobody has approved them.
LEMMA bylawsproposeIInv ==
  ASSUME IInv, NEW m \in Member, NEW text \in Text, bylawspropose(m, text)
  PROVE  IInv'
<1>1. row(text, {m}) \in Rows
  BY DEF row, Rows, IInv, TypeOK
<1>2. /\ DOMAIN bylaws' = DOMAIN bylaws \cup {"proposed"}
      /\ \A s \in DOMAIN bylaws' :
           bylaws'[s] = IF s = "proposed" THEN row(text, {m}) ELSE bylaws[s]
  BY DEF bylawspropose, put
<1>3. bylaws' \in [DOMAIN bylaws' -> Rows] /\ DOMAIN bylaws' \subseteq Stages
  BY <1>1, <1>2 DEF bylawspropose, put, IInv, TypeOK, Stages
<1>4. TypeOK'
  BY <1>3 DEF bylawspropose, IInv, TypeOK
<1>5. ApprovalsFromBoard'
  BY <1>2 DEF bylawspropose, IInv, ApprovalsFromBoard, row
<1>6. term \in Nat /\ row(text, {m}).term = term
  BY DEF row, IInv, TypeOK
<1>7. TermsFollowTime'
  <2>1. \A s \in DOMAIN bylaws' : bylaws'[s].term <= term
    BY <1>2, <1>6 DEF IInv, TermsFollowTime
  <2>2. "pending" \in DOMAIN bylaws' =>
          "pending" \in DOMAIN bylaws /\ bylaws'["pending"] = bylaws["pending"]
    BY <1>2
  <2> QED
    BY <2>1, <2>2 DEF bylawspropose, IInv, TermsFollowTime
<1> QED
  BY <1>4, <1>5, <1>7 DEF IInv

\* An approval is one of a board member, or makes a new row without approvals.
LEMMA approveIInv ==
  ASSUME IInv, NEW m \in Member, NEW text \in Text,
         NEW current \in Stages \ {"ratified"}, NEW next \in Stages, current # next,
         approve(current, next, m, text)
  PROVE  IInv'
<1> DEFINE by == bylaws[current].approvals \cup {m}
<1>1. current \in DOMAIN bylaws /\ bylaws[current] \in Rows /\ m \in board /\ ~running
  BY DEF approve, IInv, TypeOK
<1>2. row(text, by) \in Rows
  BY <1>1 DEF row, Rows, IInv, TypeOK
<1>3. CASE enough(bylaws[current].approvals)
  <2>1. /\ DOMAIN bylaws' = (DOMAIN bylaws \cup {next}) \ {current}
        /\ \A s \in DOMAIN bylaws' : bylaws'[s] = IF s = next THEN row(text, by) ELSE bylaws[s]
    BY <1>3 DEF approve
  <2>2. bylaws' \in [DOMAIN bylaws' -> Rows] /\ DOMAIN bylaws' \subseteq Stages
    BY <1>2, <1>3, <2>1 DEF approve, IInv, TypeOK
  <2>3. TypeOK'
    BY <2>2 DEF approve, IInv, TypeOK
  <2>4. ApprovalsFromBoard'
    BY <2>1 DEF approve, IInv, ApprovalsFromBoard, row
  <2>5. TermsFollowTime'
    BY <1>1, <2>1 DEF approve, IInv, TypeOK, TermsFollowTime, row
  <2> QED
    BY <2>3, <2>4, <2>5 DEF IInv
<1>4. CASE ~enough(bylaws[current].approvals)
  <2>1. bylaws' = [bylaws EXCEPT ![current].approvals = by]
    BY <1>4 DEF approve
  <2>2. /\ DOMAIN bylaws' = DOMAIN bylaws
        /\ \A s \in DOMAIN bylaws :
             bylaws'[s] = IF s = current THEN [bylaws[s] EXCEPT !.approvals = by] ELSE bylaws[s]
    BY <2>1
  <2>3. bylaws' \in [DOMAIN bylaws' -> Rows]
    BY <1>1, <2>1, <2>2 DEF Rows, IInv, TypeOK
  <2>4. TypeOK'
    BY <2>2, <2>3 DEF approve, IInv, TypeOK
  <2>5. /\ bylaws'[current].approvals = by
        /\ \A s \in DOMAIN bylaws : /\ s # current => bylaws'[s] = bylaws[s]
                                    /\ bylaws'[s].term = bylaws[s].term
                                    /\ bylaws'[s].time = bylaws[s].time
    BY <1>1, <2>2 DEF Rows, IInv, TypeOK
  <2>6. ApprovalsFromBoard'
    BY <1>1, <2>2, <2>5 DEF approve, IInv, ApprovalsFromBoard
  <2>7. TermsFollowTime'
    BY <2>2, <2>5 DEF approve, IInv, TypeOK, TermsFollowTime
  <2> QED
    BY <2>4, <2>6, <2>7 DEF IInv
<1> QED
  BY <1>3, <1>4

\* What keeps times and terms of the rows, while no new election is held.
LEMMA SameTerms ==
  ASSUME IInv, DOMAIN bylaws' = DOMAIN bylaws,
         \A s \in DOMAIN bylaws :
           bylaws'[s].term = bylaws[s].term /\ bylaws'[s].time = bylaws[s].time,
         UNCHANGED <<now, running, last_election_time, term>>
  PROVE  TermsFollowTime'
BY DEF IInv, TermsFollowTime

\* Who resigns loses the seat and the approvals.
LEMMA resignIInv ==
  ASSUME IInv, NEW m \in Member, resign(m)
  PROVE  IInv'
<1>1. bylaws' = [s \in DOMAIN bylaws |->
                   IF s = "ratified" THEN bylaws[s]
                   ELSE [bylaws[s] EXCEPT !.approvals = @ \ {m}]]
  BY DEF resign, on_resign
<1>2. \A s \in DOMAIN bylaws : bylaws[s] \in Rows
  BY DEF IInv, TypeOK
<1>3. DOMAIN bylaws' = DOMAIN bylaws /\ bylaws' \in [DOMAIN bylaws' -> Rows]
  BY <1>1, <1>2 DEF Rows
<1>4. \A s \in DOMAIN bylaws :
        /\ bylaws'[s].term = bylaws[s].term /\ bylaws'[s].time = bylaws[s].time
        /\ s # "ratified" => bylaws'[s].approvals = bylaws[s].approvals \ {m}
        /\ s = "ratified" => bylaws'[s] = bylaws[s]
  BY <1>1, <1>2 DEF Rows
<1>5. TypeOK'
  <2>1. electionTime' \in Nat
    <3>1. electionTime' = electionTime \/ electionTime' \in (now + TriggerLead)..electionTime
      BY DEF resign
    <3>2. now \in Nat /\ electionTime \in Nat
      BY DEF IInv, TypeOK
    <3> QED
      BY <3>1, <3>2, Lengths
  <2> QED
    BY <1>3, <2>1 DEF resign, IInv, TypeOK
<1>6. ApprovalsFromBoard'
  BY <1>3, <1>4 DEF resign, IInv, ApprovalsFromBoard
<1>7. TermsFollowTime'
  BY <1>3, <1>4, SameTerms DEF resign
<1> QED
  BY <1>5, <1>6, <1>7 DEF IInv

\* The new name takes the seat and the approvals of the old one.
LEMMA renameIInv ==
  ASSUME IInv, NEW m \in Member, NEW new \in Member, rename(m, new)
  PROVE  IInv'
<1> DEFINE all(as) == {IF x = m THEN new ELSE x : x \in as}
<1>1. bylaws' = [s \in DOMAIN bylaws |->
                   IF s = "ratified" THEN bylaws[s]
                   ELSE [bylaws[s] EXCEPT !.approvals = all(@)]]
  BY DEF rename, on_rename, renamed
<1>2. \A s \in DOMAIN bylaws : bylaws[s] \in Rows
  BY DEF IInv, TypeOK
<1>3. \A as \in SUBSET Member : all(as) \in SUBSET Member
  OBVIOUS
<1>4. board' = all(board) /\ member' = all(member) /\ lead' = IF lead = m THEN new ELSE lead
  BY DEF rename, renamed
<1> HIDE DEF all
<1>5. DOMAIN bylaws' = DOMAIN bylaws /\ bylaws' \in [DOMAIN bylaws' -> Rows]
  BY <1>1, <1>2, <1>3 DEF Rows
<1>6. \A s \in DOMAIN bylaws :
        /\ bylaws'[s].term = bylaws[s].term /\ bylaws'[s].time = bylaws[s].time
        /\ s # "ratified" => bylaws'[s].approvals = all(bylaws[s].approvals)
        /\ s = "ratified" => bylaws'[s] = bylaws[s]
  BY <1>1, <1>2 DEF Rows
<1>7. /\ all({}) = {}
      /\ \A as, bs : as \subseteq bs => all(as) \subseteq all(bs)
  BY DEF all
<1>8. TypeOK'
  <2>1. board' \subseteq member' /\ member' \subseteq Member
    BY <1>3, <1>4, <1>7 DEF IInv, TypeOK
  <2> QED
    BY <1>4, <1>5, <2>1 DEF rename, IInv, TypeOK
<1>9. ApprovalsFromBoard'
  <2> SUFFICES ASSUME NEW s \in DOMAIN bylaws
               PROVE  /\ bylaws'[s].approvals \subseteq all(board)
                      /\ running \/ s = "ratified" => bylaws'[s].approvals = {}
    BY <1>4, <1>5 DEF rename, ApprovalsFromBoard
  <2>1. /\ bylaws[s].approvals \subseteq board
        /\ running \/ s = "ratified" => bylaws[s].approvals = {}
    BY DEF IInv, ApprovalsFromBoard
  <2>2. CASE s = "ratified"
    BY <1>6, <2>1, <2>2
  <2>3. CASE s # "ratified"
    BY <1>6, <1>7, <2>1, <2>3
  <2> QED
    BY <2>2, <2>3
<1>10. TermsFollowTime'
  BY <1>5, <1>6, SameTerms DEF rename
<1> QED
  BY <1>8, <1>9, <1>10 DEF IInv

\* An election begins without proposed bylaws and without approvals.
LEMMA start_electionIInv ==
  ASSUME IInv, start_election
  PROVE  IInv'
<1>1. /\ DOMAIN bylaws' = DOMAIN bylaws \ {"proposed"}
      /\ \A s \in DOMAIN bylaws' :
           bylaws'[s] = IF s = "pending" THEN [bylaws[s] EXCEPT !.approvals = {}] ELSE bylaws[s]
  BY DEF start_election, new_board
<1>2. \A s \in DOMAIN bylaws : bylaws[s] \in Rows
  BY DEF IInv, TypeOK
<1>3. \A s \in DOMAIN bylaws' : bylaws'[s] \in Rows
  BY <1>1, <1>2 DEF Rows
<1>4. bylaws' \in [DOMAIN bylaws' -> Rows]
  BY <1>1, <1>3 DEF start_election, new_board
<1>5. \A s \in DOMAIN bylaws' :
        /\ bylaws'[s].term = bylaws[s].term
        /\ s = "pending" => bylaws'[s].approvals = {}
        /\ s # "pending" => bylaws'[s] = bylaws[s]
  BY <1>1, <1>2 DEF Rows
<1>6. TypeOK'
  BY <1>1, <1>4 DEF start_election, IInv, TypeOK
<1>7. ApprovalsFromBoard'
  BY <1>1, <1>5 DEF start_election, IInv, TypeOK, Stages, ApprovalsFromBoard
<1>8. TermsFollowTime'
  BY <1>1, <1>5 DEF start_election, IInv, TypeOK, TermsFollowTime
<1> QED
  BY <1>6, <1>7, <1>8 DEF IInv

\* No approvals are left when the board is replaced.
LEMMA finish_electionIInv ==
  ASSUME IInv, NEW voters \in SUBSET member,
         NEW time \in (last_election_time + 1)..(now + MaxLead), NEW winner \in voters,
         finish_election(voters, winner, time)
  PROVE  IInv'
<1>1. electionTime' \in Nat
  BY Lengths DEF finish_election, IInv, TypeOK, never
<1>2. TypeOK'
  <2>1. board' \subseteq member' /\ lead' \in Member
    BY DEF finish_election, IInv, TypeOK
  <2>2. term' \in Nat
    BY DEF finish_election, IInv, TypeOK
  <2>3. running' \in BOOLEAN
    BY DEF finish_election
  <2> QED
    BY <1>1, <2>1, <2>2, <2>3 DEF finish_election, IInv, TypeOK
<1>3. ApprovalsFromBoard'
  BY DEF finish_election, IInv, ApprovalsFromBoard
<1>4. \A s \in DOMAIN bylaws : bylaws[s].term \in Nat /\ bylaws[s].term <= term
  BY DEF IInv, TypeOK, Rows, TermsFollowTime
<1>5. TermsFollowTime'
  BY <1>4 DEF finish_election, IInv, TypeOK, TermsFollowTime
<1> QED
  BY <1>2, <1>3, <1>5 DEF IInv

\* The steps that leave the bylaws and the board alone.
LEMMA OtherIInv ==
  ASSUME IInv,
         \/ \E m \in Member : inducted(m)
         \/ \E time \in (now + 1)..(now + MaxLead) : electsettime(time)
         \/ Tick
         \/ UNCHANGED vars
  PROVE  IInv'
<1>1. ASSUME NEW m \in Member, inducted(m) PROVE IInv'
  BY <1>1 DEF inducted, IInv, TypeOK, ApprovalsFromBoard, TermsFollowTime
<1>2. ASSUME NEW time \in (now + 1)..(now + MaxLead), electsettime(time) PROVE IInv'
  <2>1. electionTime' \in Nat
    BY <1>2, Lengths DEF electsettime, IInv, TypeOK
  <2> QED
    BY <1>2, <2>1 DEF electsettime, IInv, TypeOK, ApprovalsFromBoard, TermsFollowTime
<1>3. CASE Tick
  <2>1. now' \in Nat /\ last_election_time <= now'
    BY <1>3 DEF Tick, IInv, TypeOK, TermsFollowTime, never
  <2> QED
    BY <1>3, <2>1 DEF Tick, IInv, TypeOK, ApprovalsFromBoard, TermsFollowTime
<1>4. CASE UNCHANGED vars
  BY <1>4 DEF vars, IInv, TypeOK, ApprovalsFromBoard, TermsFollowTime
<1> QED
  BY <1>1, <1>2, <1>3, <1>4

\* Every step preserves the invariant.
LEMMA NextIInv == IInv /\ [Next]_vars => IInv'
<1> SUFFICES ASSUME IInv, [Next]_vars PROVE IInv'
  OBVIOUS
<1>1. ASSUME NEW m \in Member, NEW text \in Text, bylawspropose(m, text) PROVE IInv'
  BY <1>1, bylawsproposeIInv
<1>2. ASSUME NEW m \in Member, NEW text \in Text, bylawsapprove(m, text) PROVE IInv'
  BY <1>2, approveIInv DEF bylawsapprove, Stages
<1>3. ASSUME NEW m \in Member, NEW text \in Text, bylawsratify(m, text) PROVE IInv'
  BY <1>3, approveIInv DEF bylawsratify, Stages
<1>4. ASSUME NEW m \in Member, resign(m) PROVE IInv'
  BY <1>4, resignIInv
<1>5. ASSUME NEW m \in Member, NEW new \in Member, rename(m, new) PROVE IInv'
  BY <1>5, renameIInv
<1>6. ASSUME start_election PROVE IInv'
  BY <1>6, start_electionIInv
<1>7. ASSUME NEW voters \in SUBSET member,
             NEW time \in (last_election_time + 1)..(now + MaxLead), NEW winner \in voters,
             finish_election(voters, winner, time)
      PROVE  IInv'
  BY <1>7, finish_electionIInv
<1> QED
  BY <1>1, <1>2, <1>3, <1>4, <1>5, <1>6, <1>7, OtherIInv DEF Next

\* The invariant holds in every reachable state.
LEMMA Invariance == Spec => []IInv
BY InitIInv, NextIInv, PTL DEF Spec

-----------------------------------------------------------------------------
\* The tables keep their types and the board stays a set of active members.
THEOREM TypeCorrect == Spec => []TypeOK
<1>1. IInv => TypeOK
  BY DEF IInv
<1> QED
  BY Invariance, <1>1, PTL

\* Approvals are always those of the present board, for every history of resignations,
\* renamings and elections.
THEOREM ApprovalsStayFromBoard == Spec => []ApprovalsFromBoard
<1>1. IInv => ApprovalsFromBoard
  BY DEF IInv
<1> QED
  BY Invariance, <1>1, PTL

\* One more than two thirds, rounded down, is more than two thirds.
LEMMA TwoThirds ==
  ASSUME NEW n \in Nat, NEW k \in Nat, k >= (n * 2) \div 3
  PROVE  3 * (k + 1) > 2 * n
<1>1. (n * 2) \div 3 \in Nat /\ n * 2 < 3 * ((n * 2) \div 3) + 3
  OBVIOUS
<1> QED
  BY <1>1

\* approve() moves bylaws on when the approvals with the new one exceed two thirds of
\* the board.
LEMMA EnoughIsSupermajority ==
  ASSUME IInv, NEW current \in DOMAIN bylaws, NEW m \in board,
         m \notin bylaws[current].approvals, enough(bylaws[current].approvals)
  PROVE  LET by == bylaws[current].approvals \cup {m}
         IN  by \subseteq board /\ 3 * Cardinality(by) > 2 * Cardinality(board)
<1> DEFINE as == bylaws[current].approvals
<1>1. as \subseteq board
  BY DEF IInv, ApprovalsFromBoard
<1>2. IsFiniteSet(board)
  <2>1. board \subseteq Member
    BY DEF IInv, TypeOK
  <2> QED
    BY <2>1, BylawsAssumption, FS_Subset
<1>3. IsFiniteSet(as)
  BY <1>1, <1>2, FS_Subset
<1>4. Cardinality(as) \in Nat /\ Cardinality(board) \in Nat
  BY <1>2, <1>3, FS_CardinalityType
<1>5. Cardinality(as \cup {m}) = Cardinality(as) + 1
  BY <1>3, FS_AddElement
<1>6. Cardinality(as) >= (Cardinality(board) * 2) \div 3
  BY DEF enough
<1> HIDE DEF as
<1>7. 3 * Cardinality(as \cup {m}) > 2 * Cardinality(board)
  BY <1>4, <1>5, <1>6, TwoThirds
<1> QED
  BY <1>1, <1>7 DEF as

\* Only approve() brings bylaws to the stages after "proposed".
LEMMA OnlyApproveGains ==
  ASSUME IInv, [Next]_vars, NEW stage \in {"pending", "ratified"}, Gains(stage)
  PROVE  \E m \in Member, text \in Text :
           \/ stage = "pending" /\ bylawsapprove(m, text)
           \/ stage = "ratified" /\ bylawsratify(m, text)
<1>1. \A s \in DOMAIN bylaws : bylaws[s] \in Rows
  BY DEF IInv, TypeOK
<1> DEFINE Kept == /\ stage \in DOMAIN bylaws' => stage \in DOMAIN bylaws
                   /\ stage \in DOMAIN bylaws' =>
                        /\ bylaws'[stage].text = bylaws[stage].text
                        /\ bylaws'[stage].time = bylaws[stage].time
<1>2. ~Kept
  BY DEF Gains
<1>3. ASSUME NEW m \in Member, NEW text \in Text, bylawspropose(m, text) PROVE FALSE
  BY <1>2, <1>3 DEF bylawspropose, put
<1>4. ASSUME NEW m \in Member, resign(m) PROVE FALSE
  <2>1. DOMAIN bylaws' = DOMAIN bylaws
    BY <1>4 DEF resign, on_resign
  <2>2. \A s \in DOMAIN bylaws :
          bylaws'[s] = IF s = "ratified" THEN bylaws[s]
                       ELSE [bylaws[s] EXCEPT !.approvals = @ \ {m}]
    BY <1>4 DEF resign, on_resign
  <2> QED
    BY <1>1, <1>2, <2>1, <2>2 DEF Rows
<1>5. ASSUME NEW m \in Member, NEW new \in Member, rename(m, new) PROVE FALSE
  <2>1. DOMAIN bylaws' = DOMAIN bylaws
    BY <1>5 DEF rename, on_rename, renamed
  <2>2. \A s \in DOMAIN bylaws :
          bylaws'[s] = IF s = "ratified" THEN bylaws[s]
                       ELSE [bylaws[s] EXCEPT !.approvals = {IF x = m THEN new ELSE x : x \in @}]
    BY <1>5 DEF rename, on_rename, renamed
  <2> QED
    BY <1>1, <1>2, <2>1, <2>2 DEF Rows
<1>6. ASSUME start_election PROVE FALSE
  <2>1. DOMAIN bylaws' = DOMAIN bylaws \ {"proposed"}
    BY <1>6 DEF start_election, new_board
  <2>2. \A s \in DOMAIN bylaws' :
          bylaws'[s] = IF s = "pending" THEN [bylaws[s] EXCEPT !.approvals = {}] ELSE bylaws[s]
    BY <1>6 DEF start_election, new_board
  <2> QED
    BY <1>1, <1>2, <2>1, <2>2 DEF Rows
<1>7. ASSUME UNCHANGED bylaws PROVE FALSE
  BY <1>2, <1>7
<1>8. ASSUME NEW m \in Member, NEW text \in Text, bylawsapprove(m, text), stage = "ratified"
      PROVE  FALSE
  <2>1. bylaws' = IF enough(bylaws["proposed"].approvals)
                  THEN [s \in (DOMAIN bylaws \cup {"pending"}) \ {"proposed"} |->
                          IF s = "pending"
                          THEN row(text, bylaws["proposed"].approvals \cup {m}) ELSE bylaws[s]]
                  ELSE [bylaws EXCEPT !["proposed"].approvals = @ \cup {m}]
    BY <1>8 DEF bylawsapprove, approve
  <2>2. "ratified" \in DOMAIN bylaws' =>
          "ratified" \in DOMAIN bylaws /\ bylaws'["ratified"] = bylaws["ratified"]
    BY <2>1
  <2> QED
    BY <1>2, <1>8, <2>2
<1>9. ASSUME NEW m \in Member, NEW text \in Text, bylawsratify(m, text), stage = "pending"
      PROVE  FALSE
  <2>1. "pending" \in DOMAIN bylaws
    BY <1>9 DEF bylawsratify, approve
  <2>2. CASE enough(bylaws["pending"].approvals)
    <3>1. DOMAIN bylaws' = (DOMAIN bylaws \cup {"ratified"}) \ {"pending"}
      BY <1>9, <2>2 DEF bylawsratify, approve
    <3> QED
      BY <1>2, <1>9, <3>1
  <2>3. CASE ~enough(bylaws["pending"].approvals)
    <3>1. bylaws' = [bylaws EXCEPT !["pending"].approvals = @ \cup {m}]
      BY <1>9, <2>3 DEF bylawsratify, approve
    <3>2. bylaws'["pending"] = [bylaws["pending"] EXCEPT !.approvals = @ \cup {m}]
      BY <2>1, <3>1
    <3> QED
      BY <1>1, <1>2, <1>9, <2>1, <3>2 DEF Rows
  <2> QED
    BY <2>2, <2>3
<1> HIDE DEF Kept
<1>10. \/ \E m \in Member, text \in Text : bylawsapprove(m, text)
       \/ \E m \in Member, text \in Text : bylawsratify(m, text)
       \/ UNCHANGED bylaws
  BY <1>3, <1>4, <1>5, <1>6
     DEF Next, vars, inducted, electsettime, finish_election, Tick
<1> QED
  BY <1>7, <1>8, <1>9, <1>10

\* Bylaws become pending and are ratified by approvals of more than two thirds of the
\* board at that moment, for boards of any size.
THEOREM SupermajorityAdopts == Spec => AdoptedBySupermajority
<1> DEFINE Adopted ==
      \A stage \in {"pending", "ratified"} :
        Gains(stage) =>
          LET by == bylaws'[stage].by
          IN  by \subseteq board /\ 3 * Cardinality(by) > 2 * Cardinality(board)
<1>1. IInv /\ [Next]_vars => Adopted
  <2> SUFFICES ASSUME IInv, [Next]_vars, NEW stage \in {"pending", "ratified"}, Gains(stage)
               PROVE  /\ bylaws'[stage].by \subseteq board
                      /\ 3 * Cardinality(bylaws'[stage].by) > 2 * Cardinality(board)
    OBVIOUS
  <2>1. PICK m \in Member, text \in Text :
          \/ stage = "pending" /\ bylawsapprove(m, text)
          \/ stage = "ratified" /\ bylawsratify(m, text)
    BY OnlyApproveGains
  <2>2. PICK current \in {"proposed", "pending"} :
          approve(current, stage, m, text) /\ current # stage
    BY <2>1 DEF bylawsapprove, bylawsratify
  <2>3. current \in DOMAIN bylaws /\ bylaws[current] \in Rows
    BY <2>2 DEF approve, IInv, TypeOK
  <2>4. enough(bylaws[current].approvals)
    <3> SUFFICES ASSUME ~enough(bylaws[current].approvals) PROVE FALSE
      OBVIOUS
    <3>1. bylaws' = [bylaws EXCEPT ![current].approvals = @ \cup {m}]
      BY <2>2 DEF approve
    <3>2. DOMAIN bylaws' = DOMAIN bylaws /\ (stage \in DOMAIN bylaws => bylaws'[stage] = bylaws[stage])
      BY <2>2, <3>1
    <3> QED
      BY <3>2 DEF Gains
  <2>5. bylaws'[stage] = row(text, bylaws[current].approvals \cup {m})
    BY <2>2, <2>4 DEF approve
  <2>6. bylaws'[stage].by = bylaws[current].approvals \cup {m}
    BY <2>5 DEF row
  <2>7. m \in board /\ m \notin bylaws[current].approvals
    BY <2>2 DEF approve
  <2> QED
    BY <2>3, <2>4, <2>6, <2>7, EnoughIsSupermajority
<1>2. Spec => [][Adopted]_vars
  BY Invariance, <1>1, PTL DEF Spec
<1> QED
  BY <1>2 DEF AdoptedBySupermajority

\* What a board ratifies has been pending since an earlier board.
THEOREM LaterBoardRatifies == Spec => RatifiedByLaterBoard
<1> DEFINE Later ==
      Gains("ratified") =>
        /\ "pending" \in DOMAIN bylaws
        /\ bylaws["pending"].text = bylaws'["ratified"].text
        /\ bylaws["pending"].term < term
<1>1. IInv /\ [Next]_vars => Later
  <2> SUFFICES ASSUME IInv, [Next]_vars, Gains("ratified")
               PROVE  /\ "pending" \in DOMAIN bylaws
                      /\ bylaws["pending"].text = bylaws'["ratified"].text
                      /\ bylaws["pending"].term < term
    OBVIOUS
  <2>1. PICK m \in Member, text \in Text : bylawsratify(m, text)
    BY OnlyApproveGains
  <2>2. /\ "pending" \in DOMAIN bylaws /\ bylaws["pending"].text = text
        /\ ~running /\ bylaws["pending"].time + Quarter <= last_election_time
        /\ last_election_time # never
    BY <2>1 DEF bylawsratify, approve, old_enough
  <2>3. bylaws["pending"].time \in Nat /\ bylaws["pending"].term \in Nat /\ term \in Nat
    BY <2>2 DEF IInv, TypeOK, Rows
  <2>4. last_election_time \in Nat
    BY <2>2 DEF IInv, TypeOK
  <2>5. bylaws["pending"].term # term
    BY <2>2, <2>3, <2>4, Lengths DEF IInv, TermsFollowTime
  <2>6. bylaws["pending"].term < term
    BY <2>2, <2>3, <2>5 DEF IInv, TermsFollowTime
  <2>7. bylaws'["ratified"].text = text
    <3>1. CASE enough(bylaws["pending"].approvals)
      <4>1. bylaws'["ratified"] = row(text, bylaws["pending"].approvals \cup {m})
        BY <2>1, <3>1 DEF bylawsratify, approve
      <4> QED
        BY <4>1 DEF row
    <3>2. CASE ~enough(bylaws["pending"].approvals)
      <4>1. bylaws' = [bylaws EXCEPT !["pending"].approvals = @ \cup {m}]
        BY <2>1, <3>2 DEF bylawsratify, approve
      <4>2. /\ DOMAIN bylaws' = DOMAIN bylaws
            /\ "ratified" \in DOMAIN bylaws => bylaws'["ratified"] = bylaws["ratified"]
        BY <4>1
      <4> QED
        BY <4>2 DEF Gains
    <3> QED
      BY <3>1, <3>2
  <2> QED
    BY <2>2, <2>6, <2>7
<1>2. Spec => [][Later]_vars
  BY Invariance, <1>1, PTL DEF Spec
<1> QED
  BY <1>2 DEF RatifiedByLaterBoard

=============================================================================
