------------------------------ MODULE FleetProofs ------------------------------
(***************************************************************************)
(* Proofs about the update decision and the devices that follow it, for    *)
(* any catalog, any cohorts, any native builds and any number of devices.  *)
(***************************************************************************)
EXTENDS Fleet, TLAPS, WellFoundedInduction

-----------------------------------------------------------------------------
(* decide_update, for any candidates and any cohorts: what it names, and   *)
(* what it answers when asked again from there.                            *)

\* A non-empty set of ids has a greatest one, and both scans find it.
LEMMA GreatestIs ==
  ASSUME NEW ids, ids \subseteq 1..LastId, ids # {}
  PROVE  Greatest(ids) \in ids /\ \A b \in ids : b <= Greatest(ids)
<1> DEFINE Bounds == { n \in Nat : \A b \in ids : b <= n }
<1>1. LastId \in Bounds
  BY LastIdAssumption
<1>2. PICK least \in Bounds : \A n \in Bounds : ~(n < least)
  <2>1. \E x \in Bounds : \A y \in Bounds : <<y, x>> \notin OpToRel(<, Nat)
    <3> HIDE DEF Bounds
    <3>1. Bounds # {}
      BY <1>1
    <3>2. Bounds \subseteq Nat
      BY DEF Bounds
    <3>3. QED
      BY <3>1, <3>2, NatLessThanWellFounded, WFMin
  <2>2. QED
    BY <2>1 DEF OpToRel
<1>3. least \in ids
  <2> SUFFICES ASSUME least \notin ids PROVE FALSE
    OBVIOUS
  <2>1. PICK b \in ids : TRUE
    OBVIOUS
  <2>2. least \in Nat /\ least - 1 \in Nat
    BY <1>2, <2>1
  <2>3. \A c \in ids : c <= least - 1
    BY <1>2, <2>2
  <2>4. QED
    BY <1>2, <2>2, <2>3
<1>4. \A b \in ids : b <= least
  BY <1>2
<1>5. QED
  BY <1>3, <1>4 DEF Greatest

\* The five outcomes, told apart by what the catalog offers.
LEMMA DecisionCases ==
  ASSUME NEW candidates, NEW eligible, NEW client, NEW min,
         NEW answer, answer = decide_update(candidates, eligible, client, min),
         client \in Nat, min \in Nat
  PROVE  /\ Newer(candidates, eligible, client) # {} =>
              answer = Update(Greatest(Newer(candidates, eligible, client)))
         /\ Newer(candidates, eligible, client) = {} /\ Keeps(candidates, eligible, client) =>
              answer = NoUpdate
         /\ /\ Newer(candidates, eligible, client) = {} /\ ~Keeps(candidates, eligible, client)
            /\ Older(candidates, client) # {}
            => answer = Rollback(Greatest(Older(candidates, client)))
         /\ /\ Newer(candidates, eligible, client) = {} /\ ~Keeps(candidates, eligible, client)
            /\ Older(candidates, client) = {}
            => answer = IF client <= min THEN NoUpdate ELSE Rollback(NIL)
<1>1. client <= min \/ client > min
  OBVIOUS
<1>2. client > min <=> ~(client <= min)
  OBVIOUS
<1>3. QED
  BY <1>2 DEF decide_update

\* Answers that say different things differ.
LEMMA AnswersDiffer ==
  \A a, b : /\ Update(a) # NoUpdate /\ Update(a) # Rollback(b) /\ Rollback(b) # NoUpdate
            /\ Update(a) = Update(b) => a = b
            /\ Rollback(a) = Rollback(b) => a = b
            /\ Update(a).status = "UPDATE"
            /\ Rollback(a).status # "UPDATE" /\ NoUpdate.status # "UPDATE"
BY DEF Update, Rollback, NoUpdate

\* Having been updated, a device is told to stay.
LEMMA UpdateSettles ==
  ASSUME NEW candidates, candidates \subseteq 1..LastId, NEW eligible,
         NEW client \in Nat, NEW min \in Nat, NEW to \in Nat,
         decide_update(candidates, eligible, client, min) = Update(to)
  PROVE  decide_update(candidates, eligible, to, min) = NoUpdate
<1> DEFINE newer == Newer(candidates, eligible, client)
<1>1. newer # {} /\ to = Greatest(newer)
  BY DecisionCases, AnswersDiffer
<1>2. newer \subseteq 1..LastId
  BY DEF Newer
<1>3. to \in newer /\ \A b \in newer : b <= to
  BY <1>1, <1>2, GreatestIs
<1>4. to \in candidates \cap eligible
  BY <1>3 DEF Newer
<1>5. Newer(candidates, eligible, to) = {}
  <2> SUFFICES ASSUME NEW b \in candidates \cap eligible, b > to PROVE FALSE
    BY DEF Newer
  <2>1. b \in Nat /\ to > client
    BY <1>3, LastIdAssumption DEF Newer
  <2>2. b \in newer
    BY <2>1 DEF Newer
  <2>3. QED
    BY <1>3, <2>1, <2>2
<1>6. QED
  BY <1>4, <1>5, DecisionCases DEF Keeps

\* Having been rolled back, a device is not updated again.
LEMMA RollbackNeverReturns ==
  ASSUME NEW candidates, candidates \subseteq 1..LastId, NEW eligible,
         NEW client \in Nat, NEW min \in Nat, NEW to \in Nat, to # NIL,
         \A b \in candidates : b >= min,
         decide_update(candidates, eligible, client, min) = Rollback(to)
  PROVE  /\ decide_update(candidates, eligible, to, min).status # "UPDATE"
         /\ to <= min => decide_update(candidates, eligible, to, min) = NoUpdate
<1> DEFINE older == Older(candidates, client)
<1>1. Newer(candidates, eligible, client) = {} /\ ~Keeps(candidates, eligible, client)
  BY DecisionCases, AnswersDiffer
<1>2. older # {} /\ to = Greatest(older)
  BY <1>1, DecisionCases, AnswersDiffer
<1>3. older \subseteq 1..LastId
  BY DEF Older
<1>4. to \in older /\ \A b \in older : b <= to
  BY <1>2, <1>3, GreatestIs
<1>5. Newer(candidates, eligible, to) = {}
  <2> SUFFICES ASSUME NEW b \in candidates \cap eligible, b > to PROVE FALSE
    BY DEF Newer
  <2>1. b \in Nat
    BY LastIdAssumption
  <2>2. ~(b > client) /\ b # client
    BY <1>1 DEF Newer, Keeps
  <2>3. b \in older
    BY <2>1, <2>2 DEF Older
  <2>4. QED
    BY <1>4, <2>1, <2>3
<1>6. decide_update(candidates, eligible, to, min).status # "UPDATE"
  BY <1>5, DecisionCases, AnswersDiffer
<1>7. ASSUME to <= min PROVE decide_update(candidates, eligible, to, min) = NoUpdate
  <2>1. Older(candidates, to) = {}
    <3> SUFFICES ASSUME NEW b \in candidates, b < to PROVE FALSE
      BY DEF Older
    <3>1. b \in Nat /\ b >= min
      BY LastIdAssumption
    <3>2. QED
      BY <1>7, <3>1
  <2>2. QED
    BY <1>5, <1>7, <2>1, DecisionCases
<1>8. QED
  BY <1>6, <1>7

\* Having been reset, a device is left alone, as what or as whom it reports.
LEMMA ResetSettles ==
  ASSUME NEW candidates, candidates \subseteq 1..LastId, NEW eligible,
         NEW client \in Nat, NEW min \in Nat, NEW to \in {NIL, min},
         decide_update(candidates, eligible, client, min) = Rollback(NIL)
  PROVE  decide_update(candidates, eligible, to, min) = NoUpdate
<1> DEFINE older == Older(candidates, client)
<1>1. Newer(candidates, eligible, client) = {} /\ ~Keeps(candidates, eligible, client)
  BY DecisionCases, AnswersDiffer
<1>2. older = {}
  <2> SUFFICES ASSUME older # {} PROVE FALSE
    OBVIOUS
  <2>1. Greatest(older) = NIL
    BY <1>1, DecisionCases, AnswersDiffer
  <2>2. older \subseteq 1..LastId
    BY DEF Older
  <2>3. Greatest(older) \in 1..LastId
    BY <2>2, GreatestIs
  <2>4. QED
    BY <2>1, <2>3 DEF NIL
<1>3. client > min
  BY <1>1, <1>2, DecisionCases, AnswersDiffer
<1>4. \A b \in candidates \cap eligible : FALSE
  <2> SUFFICES ASSUME NEW b \in candidates \cap eligible PROVE FALSE
    OBVIOUS
  <2>1. b \in Nat /\ ~(b > client) /\ b # client /\ ~(b < client)
    BY <1>1, <1>2, LastIdAssumption DEF Newer, Older, Keeps
  <2>2. QED
    BY <2>1
<1>5. to \in Nat /\ to <= min /\ to < client
  BY <1>3 DEF NIL
<1>6. Newer(candidates, eligible, to) = {} /\ Older(candidates, to) = {}
  <2>1. Newer(candidates, eligible, to) = {}
    BY <1>4 DEF Newer
  <2>2. \A b \in candidates : ~(b < to)
    BY <1>2, <1>5, LastIdAssumption DEF Older
  <2>3. QED
    BY <2>1, <2>2 DEF Older
<1>7. QED
  BY <1>5, <1>6, DecisionCases

\* What the decision names is a candidate, or no bundle.
LEMMA DecisionNames ==
  ASSUME NEW candidates, candidates \subseteq 1..LastId, NEW eligible,
         NEW client \in Nat, NEW min \in Nat
  PROVE  /\ decide_update(candidates, eligible, client, min).id \in candidates \cup {NIL}
         /\ decide_update(candidates, eligible, client, min).status
              \in {"UPDATE", "ROLLBACK", "UP_TO_DATE"}
         /\ decide_update(candidates, eligible, client, min) \in
              [status : {"UPDATE", "ROLLBACK", "UP_TO_DATE"}, id : candidates \cup {NIL}]
<1> DEFINE newer == Newer(candidates, eligible, client)
           older == Older(candidates, client)
           answer == decide_update(candidates, eligible, client, min)
<1>1. newer # {} => Greatest(newer) \in candidates
  <2>1. newer \subseteq candidates
    BY DEF Newer
  <2>2. QED
    BY <2>1, GreatestIs
<1>2. older # {} => Greatest(older) \in candidates
  <2>1. older \subseteq candidates
    BY DEF Older
  <2>2. QED
    BY <2>1, GreatestIs
<1>3. \/ newer # {} /\ answer = Update(Greatest(newer))
      \/ older # {} /\ answer = Rollback(Greatest(older))
      \/ answer = Rollback(NIL) \/ answer = NoUpdate
  BY DecisionCases
<1>4. QED
  BY <1>1, <1>2, <1>3 DEF NoUpdate, Update, Rollback

-----------------------------------------------------------------------------
(* The devices.                                                            *)

\* What a check is computed from.
LEMMA AnswerFacts ==
  ASSUME TypeOK, NEW d \in Device
  PROVE  /\ Candidates(d) \subseteq 1..LastId /\ Candidates(d) \subseteq Bundle
         /\ \A b \in Candidates(d) : b >= Floor[d]
         /\ running[d] \in Nat /\ Floor[d] \in Nat
BY FleetAssumption, LastIdAssumption DEF TypeOK, Candidates

\* An answer names a candidate or no bundle.
LEMMA AnswerType ==
  ASSUME TypeOK, NEW d \in Device
  PROVE  /\ Answer(d) \in Reply
         /\ Answer(d).id \in Candidates(d) \cup {NIL}
<1>1. Answer(d).id \in Candidates(d) \cup {NIL}
      /\ Answer(d) \in [status : Status, id : Candidates(d) \cup {NIL}]
  BY AnswerFacts, DecisionNames DEF Answer, Status
<1>2. QED
  BY <1>1, AnswerFacts DEF Reply

\* The answer depends on the catalog and on what the device runs.
LEMMA AnswerUnchanged ==
  ASSUME catalog' = catalog, NEW d \in Device, running'[d] = running[d]
  PROVE  Answer(d)' = Answer(d)
<1>1. Candidates(d)' = Candidates(d) /\ Eligible(d)' = Eligible(d)
  BY DEF catalog, Candidates, Eligible
<1>2. QED
  BY <1>1 DEF Answer

LEMMA FleetInit ==
  Init => FleetInv
<1> SUFFICES ASSUME Init PROVE FleetInv
  OBVIOUS
<1>1. Bundle \cup {NIL} \subseteq Nat
  BY FleetAssumption, LastIdAssumption DEF NIL
<1>2. running \in [Device -> Nat]
  BY <1>1 DEF Init
<1>3. TypeOK
  BY <1>2 DEF Init, TypeOK, Status
<1>4. Timely /\ AboveFloor /\ NoFlapping
  BY DEF Init, Timely, AboveFloor, NoFlapping
<1>5. QED
  BY <1>3, <1>4 DEF FleetInv

LEMMA EditStep ==
  ASSUME FleetInv, NEW b \in Bundle, Edit(b)
  PROVE  FleetInv'
BY DEF FleetInv, TypeOK, Timely, AboveFloor, NoFlapping, Edit

LEMMA CheckStep ==
  ASSUME FleetInv, NEW d \in Device, Check(d)
  PROVE  FleetInv'
<1>1. \A e \in Device : Answer(e)' = Answer(e)
  BY AnswerUnchanged DEF Check
<1>2. TypeOK'
  BY AnswerType DEF FleetInv, TypeOK, Check, catalog
<1>3. Timely' /\ AboveFloor'
  BY <1>1, AnswerType, AnswerFacts DEF FleetInv, TypeOK, Timely, AboveFloor, Check
<1>4. NoFlapping'
  BY <1>1 DEF FleetInv, NoFlapping, Check
<1>5. QED
  BY <1>2, <1>3, <1>4 DEF FleetInv

LEMMA LoseStep ==
  ASSUME FleetInv, NEW d \in Device, Lose(d)
  PROVE  FleetInv'
<1>1. \A e \in Device : Answer(e)' = Answer(e)
  BY AnswerUnchanged DEF Lose
<1>2. TypeOK'
  BY DEF FleetInv, TypeOK, Lose, catalog
<1>3. Timely' /\ AboveFloor'
  BY <1>1 DEF FleetInv, TypeOK, Timely, AboveFloor, Lose
<1>4. NoFlapping'
  BY <1>1 DEF FleetInv, NoFlapping, Lose
<1>5. QED
  BY <1>2, <1>3, <1>4 DEF FleetInv

\* Acting on an answer that no edit has overtaken puts the device where the
\* same catalog does not send it back from.
LEMMA MoveFacts ==
  ASSUME FleetInv, NEW d \in Device, timely[d], reply[d] # NoReply,
         reply[d].status # "UP_TO_DATE",
         NEW to \in IF reply[d].id = NIL THEN {NIL, Floor[d]} ELSE {reply[d].id}
  PROVE  LET after == decide_update(Candidates(d), Eligible(d), to, Floor[d])
         IN /\ reply[d].status = "UPDATE" => after = NoUpdate
            /\ reply[d].status = "ROLLBACK" => after.status # "UPDATE"
            /\ reply[d].status = "ROLLBACK" /\ to <= Floor[d] => after = NoUpdate
<1> DEFINE newer == Newer(Candidates(d), Eligible(d), running[d])
           older == Older(Candidates(d), running[d])
<1>1. reply[d] = Answer(d)
  BY DEF FleetInv, Timely
<1>2. newer \subseteq 1..LastId /\ older \subseteq 1..LastId
  BY AnswerFacts DEF FleetInv, Newer, Older
<1>3. \/ \E b \in 1..LastId : Answer(d) = Update(b) \/ Answer(d) = Rollback(b)
      \/ Answer(d) = Rollback(NIL)
      \/ Answer(d) = NoUpdate
  BY <1>2, AnswerFacts, DecisionCases, GreatestIs DEF FleetInv, Answer
<1>4. Answer(d) # NoUpdate
  BY <1>1 DEF NoUpdate
<1>5. ASSUME NEW b \in 1..LastId, Answer(d) = Update(b)
      PROVE  /\ reply[d].status = "UPDATE" /\ to = b
             /\ decide_update(Candidates(d), Eligible(d), to, Floor[d]) = NoUpdate
  <2>1. reply[d].status = "UPDATE" /\ reply[d].id = b /\ b # NIL /\ b \in Nat
    BY <1>1, <1>5, FleetAssumption, LastIdAssumption DEF Update, NIL
  <2>2. QED
    BY <1>5, <2>1, AnswerFacts, UpdateSettles DEF FleetInv, Answer
<1>6. ASSUME NEW b \in 1..LastId, Answer(d) = Rollback(b)
      PROVE  /\ reply[d].status = "ROLLBACK"
             /\ decide_update(Candidates(d), Eligible(d), to, Floor[d]).status # "UPDATE"
             /\ to <= Floor[d] =>
                  decide_update(Candidates(d), Eligible(d), to, Floor[d]) = NoUpdate
  <2>1. reply[d].status = "ROLLBACK" /\ reply[d].id = b /\ b # NIL /\ b \in Nat
    BY <1>1, <1>6, FleetAssumption, LastIdAssumption DEF Rollback, NIL
  <2>2. to = b
    BY <2>1
  <2>3. QED
    BY <1>6, <2>1, <2>2, AnswerFacts, RollbackNeverReturns DEF FleetInv, Answer
<1>7. ASSUME Answer(d) = Rollback(NIL)
      PROVE  /\ reply[d].status = "ROLLBACK"
             /\ decide_update(Candidates(d), Eligible(d), to, Floor[d]) = NoUpdate
  <2>1. reply[d].status = "ROLLBACK" /\ reply[d].id = NIL
    BY <1>1, <1>7 DEF Rollback
  <2>2. QED
    BY <1>7, <2>1, AnswerFacts, ResetSettles DEF FleetInv, Answer
<1>8. QED
  BY <1>3, <1>4, <1>5, <1>6, <1>7, AnswersDiffer

LEMMA ApplyStep ==
  ASSUME FleetInv, NEW d \in Device, Apply(d)
  PROVE  FleetInv'
<1>1. /\ reply[d] # NoReply /\ reply[d] \in Reply
      /\ catalog' = catalog /\ timely' = timely
      /\ reply' = [reply EXCEPT ![d] = NoReply]
  BY DEF FleetInv, TypeOK, Apply
<1>2. CASE reply[d].status = "UP_TO_DATE" /\ UNCHANGED <<running, via, fresh>>
  <2>1. \A e \in Device : Answer(e)' = Answer(e)
    BY <1>1, <1>2, AnswerUnchanged
  <2>2. TypeOK'
    BY <1>1, <1>2 DEF FleetInv, TypeOK, catalog
  <2>3. Timely' /\ AboveFloor' /\ NoFlapping'
    BY <1>1, <1>2, <2>1 DEF FleetInv, TypeOK, Timely, AboveFloor, NoFlapping
  <2>4. QED
    BY <2>2, <2>3 DEF FleetInv
<1>3. CASE reply[d].status # "UP_TO_DATE"
  <2>1. PICK to \in IF reply[d].id = NIL THEN {NIL, Floor[d]} ELSE {reply[d].id} :
           running' = [running EXCEPT ![d] = to]
    BY <1>3 DEF Apply
  <2>2. /\ via' = [via EXCEPT ![d] = reply[d].status]
        /\ fresh' = [fresh EXCEPT ![d] = timely[d]]
    BY <1>3 DEF Apply
  <2>3. to \in Nat
    <3>1. reply[d].id \in Bundle \cup {NIL} /\ Floor[d] \in Nat
      BY <1>1, FleetAssumption, LastIdAssumption DEF Reply
    <3>2. Bundle \cup {NIL} \subseteq Nat
      BY FleetAssumption, LastIdAssumption DEF NIL
    <3>3. QED
      BY <3>1, <3>2 DEF NIL
  <2>4. running'[d] = to /\ \A e \in Device \ {d} : running'[e] = running[e]
    BY <2>1 DEF FleetInv, TypeOK
  <2>5. TypeOK'
    BY <1>1, <2>1, <2>2, <2>3 DEF FleetInv, TypeOK, Reply, catalog
  <2>6. \A e \in Device \ {d} : Answer(e)' = Answer(e)
    BY <1>1, <2>4, AnswerUnchanged
  <2>7. Timely' /\ AboveFloor'
    BY <1>1, <2>6 DEF FleetInv, TypeOK, Timely, AboveFloor
  <2>8. Answer(d)' = decide_update(Candidates(d), Eligible(d), to, Floor[d])
    BY <1>1, <2>4 DEF Answer, catalog, Candidates, Eligible
  <2>9. NoFlapping'
    <3> SUFFICES ASSUME NEW e \in Device, fresh'[e]
                 PROVE  /\ via'[e] = "UPDATE" => Answer(e)' = NoUpdate
                        /\ via'[e] = "ROLLBACK" => Answer(e)'.status # "UPDATE"
                        /\ via'[e] = "ROLLBACK" /\ running'[e] <= Floor[e]
                           => Answer(e)' = NoUpdate
      BY DEF NoFlapping
    <3>1. CASE e # d
      BY <2>2, <2>4, <2>6, <3>1 DEF FleetInv, NoFlapping
    <3>2. CASE e = d
      <4>1. timely[d] /\ via'[d] = reply[d].status
        BY <2>2, <3>2 DEF FleetInv, TypeOK
      <4>2. QED
        BY <1>1, <1>3, <2>4, <2>8, <3>2, <4>1, MoveFacts
    <3>3. QED
      BY <3>1, <3>2
  <2>10. QED
    BY <2>5, <2>7, <2>9 DEF FleetInv
<1>4. QED
  BY <1>2, <1>3 DEF Apply

LEMMA FleetStutter ==
  ASSUME FleetInv, UNCHANGED vars
  PROVE  FleetInv'
<1>1. \A e \in Device : Answer(e)' = Answer(e)
  BY AnswerUnchanged DEF vars, catalog
<1>2. QED
  BY <1>1 DEF FleetInv, TypeOK, Timely, AboveFloor, NoFlapping, vars

\* Answers in flight stay right until an edit overtakes them, and no device
\* is sent back and forth by a catalog that does not change.
THEOREM FleetInvariance ==
  Spec => []FleetInv
<1>1. Init => FleetInv
  BY FleetInit
<1>2. FleetInv /\ [Next]_vars => FleetInv'
  BY EditStep, CheckStep, ApplyStep, LoseStep, FleetStutter DEF Next
<1>3. QED
  BY <1>1, <1>2, PTL DEF Spec

\* For any catalog and any cohorts, a device that was updated keeps what it
\* has, one that was rolled back is not updated again and one that was reset
\* is left alone, until an operator edits the catalog.
THEOREM NoDeviceFlaps ==
  Spec => []NoFlapping
<1>1. FleetInv => NoFlapping
  BY DEF FleetInv
<1>2. QED
  BY <1>1, FleetInvariance, PTL

\* Whatever is published and however late its answer, no device is moved to
\* a bundle older than its native build.
THEOREM NoDeviceBelowFloor ==
  Spec => NeverBelowFloor
<1>1. ASSUME FleetInv, [Next]_vars, NEW d \in Device, running'[d] # running[d]
      PROVE  running'[d] = NIL \/ running'[d] >= Floor[d]
  <2>1. PICK e \in Device : Apply(e)
    BY <1>1 DEF Next, vars, Edit, Check, Lose
  <2>2. PICK b \in IF reply[e].id = NIL THEN {NIL, Floor[e]} ELSE {reply[e].id} :
           running' = [running EXCEPT ![e] = b]
    BY <1>1, <2>1 DEF Apply
  <2>3. e = d /\ running'[d] = b
    BY <1>1, <2>2 DEF FleetInv, TypeOK
  <2>4. reply[d] # NoReply /\ Floor[d] \in Nat
    BY <2>1, <2>3, FleetAssumption, LastIdAssumption DEF Apply
  <2>5. QED
    BY <1>1, <2>2, <2>3, <2>4 DEF FleetInv, AboveFloor
<1>2. FleetInv /\ [Next]_vars
      => [\A d \in Device : running'[d] # running[d] =>
             running'[d] = NIL \/ running'[d] >= Floor[d]]_vars
  BY <1>1
<1>3. QED
  BY <1>2, FleetInvariance, PTL DEF Spec, NeverBelowFloor
===============================================================================
