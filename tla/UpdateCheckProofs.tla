--------------------------- MODULE UpdateCheckProofs ---------------------------
(***************************************************************************)
(* Proofs about the update check, for any catalog, any assets and any      *)
(* devices: CheckInv is inductive, and the properties of what is served    *)
(* and counted follow from it.                                             *)
(***************************************************************************)
EXTENDS UpdateCheck, TLAPS, WellFoundedInduction

-----------------------------------------------------------------------------
(* What is decided.                                                        *)

\* The scans of the candidates end with one of them.
LEMMA GreatestIsOne ==
  ASSUME NEW ids, ids \subseteq 1..LastId, ids # {}
  PROVE  Greatest(ids) \in ids
<1> DEFINE Distances == { n \in Nat : LastId - n \in ids }
<1>1. LastId \in Nat /\ \A b \in ids : b \in Nat /\ LastId - b \in Distances
  BY LastIdAssumption
<1>2. PICK least \in Distances : \A n \in Distances : <<n, least>> \notin OpToRel(<, Nat)
  <2>1. Distances # {} /\ Distances \subseteq Nat
    BY <1>1
  <2> HIDE DEF Distances
  <2>2. QED
    BY <2>1, NatLessThanWellFounded, WFMin
<1>3. \A b \in ids : ~(LastId - b < least)
  <2>1. \A n \in Distances : ~(n < least)
    BY <1>2 DEF OpToRel
  <2>2. QED
    BY <1>1, <2>1
<1>4. least \in Nat /\ LastId - least \in ids
  BY <1>2
<1>5. \A b \in ids : b <= LastId - least
  <2> HIDE DEF Distances
  <2>1. QED
    BY <1>1, <1>3, <1>4
<1>6. QED
  BY <1>4, <1>5 DEF Greatest

\* What the decision names is a candidate, or no bundle.
LEMMA DecisionNames ==
  ASSUME NEW candidates, candidates \subseteq 1..LastId, NEW eligible,
         NEW client \in Nat, NEW min \in Nat
  PROVE  /\ decide_update(candidates, eligible, client, min).id \in candidates \cup {NIL}
         /\ decide_update(candidates, eligible, client, min) \in
              [status : {"UPDATE", "ROLLBACK", "UP_TO_DATE"}, id : candidates \cup {NIL}]
<1> DEFINE newer == Newer(candidates, eligible, client)
           older == Older(candidates, client)
           decided == decide_update(candidates, eligible, client, min)
<1>1. newer \subseteq candidates /\ older \subseteq candidates
  BY DEF Newer, Older
<1>2. newer # {} => Greatest(newer) \in candidates
  BY <1>1, GreatestIsOne
<1>3. older # {} => Greatest(older) \in candidates
  BY <1>1, GreatestIsOne
<1>4. client <= min <=> ~(client > min)
  OBVIOUS
<1>5. \/ newer # {} /\ decided = Update(Greatest(newer))
      \/ older # {} /\ decided = Rollback(Greatest(older))
      \/ decided = Rollback(NIL) \/ decided = NoUpdate
  BY <1>4 DEF decide_update
<1>6. QED
  BY <1>2, <1>3, <1>5 DEF NoUpdate, Update, Rollback

-----------------------------------------------------------------------------
(* What is read.                                                           *)

LEMMA ManifestFacts ==
  /\ \A m \in Manifest : DOMAIN m \subseteq Asset
  /\ NoAssets \in Manifest /\ DOMAIN NoAssets = {}
<1>1. \A m \in Manifest : DOMAIN m \subseteq Asset
  BY DEF Manifest
<1>2. DOMAIN NoAssets = {}
  BY DEF NoAssets
<1>3. NoAssets \in [{} -> Hash]
  BY DEF NoAssets
<1>4. NoAssets \in Manifest
  BY <1>3 DEF Manifest
<1>5. QED
  BY <1>1, <1>2, <1>4

LEMMA RowFacts ==
  ASSUME NEW row \in Row
  PROVE  /\ row.manifest \in Manifest \cup {NoManifest}
         /\ row.patches \subseteq Patch
BY DEF Row

LEMMA RequestFacts ==
  ASSUME TypeOK, request # NoRequest
  PROVE  /\ request.app \in App /\ request.client \in Bundle \cup {NIL}
         /\ request.holds \in Manifest
BY DeviceAssumption DEF TypeOK, Request

LEMMA DecideFacts ==
  ASSUME TypeOK, request # NoRequest
  PROVE  /\ Decide \in DecisionType
         /\ Decide.id # NIL => /\ <<request.app, Decide.id>> \in Key
                               /\ rows[<<request.app, Decide.id>>] \in Row
<1> DEFINE found == Candidates(request.app)
<1>1. found \subseteq 1..LastId /\ found \subseteq Bundle
  BY UpdateCheckAssumption DEF Candidates
<1>2. request.client \in Nat /\ NIL \in Nat
  <2>1. \A b \in Bundle : b \in Nat
    BY UpdateCheckAssumption, LastIdAssumption
  <2>2. request.client \in Bundle \cup {NIL}
    BY RequestFacts
  <2>3. QED
    BY <2>1, <2>2 DEF NIL
<1>3. /\ Decide.id \in found \cup {NIL}
      /\ Decide \in [status : {"UPDATE", "ROLLBACK", "UP_TO_DATE"}, id : found \cup {NIL}]
  BY <1>1, <1>2, DecisionNames DEF Decide
<1>4. Decide \in DecisionType
  BY <1>1, <1>3 DEF DecisionType
<1>5. Decide.id # NIL => Decide.id \in Bundle /\ Here(<<request.app, Decide.id>>)
  BY <1>1, <1>3 DEF Candidates
<1>6. QED
  BY <1>4, <1>5, RequestFacts DEF Key, Here, TypeOK

\* The plan speaks of the assets of the target.
LEMMA PlanFacts ==
  ASSUME TypeOK, target # NoRow, target.manifest # NoManifest
  PROVE  /\ Changed \subseteq DOMAIN target.manifest /\ DOMAIN target.manifest \subseteq Asset
         /\ Patchable \subseteq HbcAsset
<1>1. target.manifest \in Manifest
  BY RowFacts DEF TypeOK
<1>2. QED
  BY <1>1, ManifestFacts DEF Changed, Patchable, HbcAssets

-----------------------------------------------------------------------------
(* Steps that many actions take.                                           *)

Early == {"bundle", "manifest", "manifest_url", "current", "base", "patches"}
Middle == Early \cup {"patch", "assets"}

LEMMA BaseFrame ==
  ASSUME BaseInv, UNCHANGED <<rows, published, request, base>>
  PROVE  BaseInv'
BY DEF BaseInv, Here

LEMMA PatchFrame ==
  ASSUME PatchInv, UNCHANGED <<rows, published, request, decision, target, base, patch>>
  PROVE  PatchInv'
BY DEF PatchInv, Bundled, Here

\* A check that ends in an error leaves everything as it is but the counter.
LEMMA FailStep ==
  ASSUME CheckInv, pc \in Middle, Fail,
         UNCHANGED <<world, request, decision, target, base, patch>>,
         todo' \subseteq Asset, files' \subseteq Asset
  PROVE  CheckInv'
<1> USE DEF CheckInv, world
<1>1. TypeOK'
  <2>1. answer' \in Answer
    BY DEF Fail, Reply, Answer
  <2>2. QED
    BY <2>1 DEF TypeOK, Fail
<1>2. answer' # NoAnswer /\ answer'.status = 500 /\ "failed" \in errors' /\ pc' = "idle"
  <2>1. answer' \in Answer
    BY DEF Fail, Reply, Answer
  <2>2. QED
    BY <2>1, SentinelAssumption DEF Fail, Reply
<1>3. StageInv'
  BY <1>2 DEF StageInv, Middle, Early, Bundled
<1>4. CountInv'
  BY <1>2 DEF CountInv, Middle, Early, Served, Answered, Bundled, Fail
<1>5. BaseInv'
  BY BaseFrame
<1>6. PatchInv'
  BY PatchFrame
<1>7. DiffInv' /\ QuietInv'
  BY <1>2 DEF DiffInv, QuietInv
<1>8. QED
  BY <1>1, <1>3, <1>4, <1>5, <1>6, <1>7

\* A check that goes on before anything is planned.
LEMMA EarlyStep ==
  ASSUME CheckInv, pc \in Early, pc # "patches", pc' \in Early \ {"bundle"}, Continue(pc'),
         Quiet \/ Degrade, base' \in Base, BaseInv', PatchInv',
         UNCHANGED <<world, request, decision, target, patch, todo, files>>,
         pc' # "manifest" => target.manifest # NoManifest
  PROVE  CheckInv'
<1> USE DEF CheckInv, world
<1>1. TypeOK'
  BY DEF TypeOK, Early, Continue, Quiet, Degrade
<1>2. answer' = NoAnswer /\ pc' \in Early
  BY DEF StageInv, Early, Continue
<1>3. StageInv'
  BY <1>2 DEF StageInv, Early, Bundled
<1>4. CountInv'
  BY <1>2 DEF CountInv, Early, Served, Answered, Bundled, Continue, Quiet, Degrade
<1>5. DiffInv' /\ QuietInv'
  BY <1>2 DEF DiffInv, QuietInv, Early
<1>6. QED
  BY <1>1, <1>3, <1>4, <1>5

\* A bundle served without its artifacts.
LEMMA BareStep ==
  ASSUME CheckInv, pc \in Early, Respond(TRUE, NoArtifacts), Quiet \/ Degrade,
         UNCHANGED <<world, request, decision, target, plan>>,
         target.manifest = NoManifest \/ target.columns # "complete" \/ errors' # {}
  PROVE  CheckInv'
<1> USE DEF CheckInv, world, plan
<1>1. TypeOK'
  <2>1. answer' \in Answer
    BY DEF Respond, Reply, Answer
  <2>2. QED
    BY <2>1 DEF TypeOK, Respond, Quiet, Degrade
<1>2. /\ answer' # NoAnswer /\ answer'.status = 200 /\ answer'.url
      /\ answer'.artifacts = NoArtifacts /\ pc' = "record"
  <2>1. answer' \in Answer
    BY DEF Respond, Reply, Answer
  <2>2. QED
    BY <2>1, SentinelAssumption DEF Respond, Reply
<1>3. StageInv'
  BY <1>2 DEF StageInv, Early, Bundled
<1>4. CountInv'
  BY <1>2 DEF CountInv, Early, Served, Answered, Bundled, Respond, Quiet, Degrade
<1>5. BaseInv'
  BY BaseFrame
<1>6. PatchInv'
  BY PatchFrame
<1>7. DiffInv' /\ QuietInv'
  BY <1>2 DEF DiffInv, QuietInv
<1>8. QED
  BY <1>1, <1>3, <1>4, <1>5, <1>6, <1>7

-----------------------------------------------------------------------------
(* One lemma for each action.                                              *)

LEMMA InitHolds == Init => CheckInv
<1> SUFFICES ASSUME Init PROVE CheckInv
  OBVIOUS
<1> USE DEF Init
<1>1. TypeOK
  BY ManifestFacts DEF TypeOK, Base, NoBase
<1>2. StageInv /\ CountInv
  BY DEF StageInv, CountInv, Bundled, Served, Answered
<1>3. BaseInv /\ PatchInv
  BY DEF BaseInv, PatchInv, Bundled, NoBase
<1>4. DiffInv /\ QuietInv
  BY DEF DiffInv, QuietInv, Bundled
<1>5. QED
  BY <1>1, <1>2, <1>3, <1>4 DEF CheckInv

LEMMA ReceiveStep ==
  ASSUME CheckInv, NEW r \in Device, Receive(r)
  PROVE  CheckInv'
<1> USE DEF CheckInv
<1>1. TypeOK'
  BY ManifestFacts DEF TypeOK, Receive, Fresh, Base, NoBase
<1>2. request' = r /\ r # NoRequest /\ pc' = "candidates" /\ answer' = NoAnswer /\ ~Bundled'
  BY DeviceAssumption DEF Receive, Fresh, Bundled
<1>3. StageInv'
  BY <1>2 DEF StageInv, Receive, Fresh, Bundled
<1>4. CountInv'
  BY <1>2 DEF CountInv, Receive, Fresh, Served, Answered
<1>5. BaseInv'
  <2>1. base'.assets = NoAssets
    BY DEF Receive, Fresh, NoBase
  <2>2. QED
    BY <1>2, <2>1, ManifestFacts DEF BaseInv, Receive, Here
<1>6. PatchInv'
  BY <1>2 DEF PatchInv, Receive, Fresh, NoBase
<1>7. DiffInv' /\ QuietInv'
  BY <1>2 DEF DiffInv, QuietInv
<1>8. QED
  BY <1>1, <1>3, <1>4, <1>5, <1>6, <1>7

LEMMA RefuseStep ==
  ASSUME CheckInv, Refuse
  PROVE  CheckInv'
<1> USE DEF CheckInv
<1>1. PICK status \in {404, 400} : Reply(status, FALSE, NoArtifacts)
  BY DEF Refuse
<1>2. answer' \in Answer /\ answer' # NoAnswer /\ answer'.status \in {404, 400}
  <2>1. answer' \in Answer
    BY <1>1 DEF Reply, Answer
  <2>2. QED
    BY <1>1, <2>1, SentinelAssumption DEF Reply
<1>3. TypeOK'
  BY <1>2, ManifestFacts DEF TypeOK, Refuse, Fresh, Base, NoBase
<1>4. pc' = "idle" /\ request' = NoRequest /\ ~Bundled'
  BY DEF Refuse, Fresh, Bundled
<1>5. StageInv'
  BY <1>2, <1>4 DEF StageInv, Refuse, Fresh, Bundled
<1>6. CountInv'
  BY <1>2, <1>4 DEF CountInv, Refuse, Fresh, Served, Answered
<1>7. BaseInv'
  BY <1>4 DEF BaseInv
<1>8. PatchInv'
  BY <1>4 DEF PatchInv, Refuse, Fresh, NoBase
<1>9. DiffInv' /\ QuietInv'
  BY <1>2, <1>4 DEF DiffInv, QuietInv
<1>10. QED
  BY <1>3, <1>5, <1>6, <1>7, <1>8, <1>9

\* The candidates query: it fails, or it decides.
LEMMA QueryCandidatesStep ==
  ASSUME CheckInv, QueryCandidates
  PROVE  CheckInv'
<1> USE DEF CheckInv, QueryCandidates, world, plan
<1>1. request # NoRequest /\ decision = NoDecision /\ answer = NoAnswer
      /\ patch = NoPatch /\ counted = 0 /\ ~Bundled
  BY DEF StageInv, CountInv, Served, Answered, Bundled
<1>2. BaseInv'
  BY BaseFrame
<1>3. CASE FailUncounted /\ UNCHANGED <<decision, target>>
  <2>1. answer' \in Answer
    BY <1>3 DEF FailUncounted, Reply, Answer
  <2>2. answer' # NoAnswer /\ answer'.status = 500 /\ ~Bundled' /\ pc' = "idle"
    BY <1>1, <1>3, <2>1, SentinelAssumption DEF FailUncounted, Reply, Bundled
  <2>3. TypeOK'
    BY <1>3, <2>1 DEF TypeOK, FailUncounted
  <2>4. StageInv'
    BY <1>1, <1>3, <2>2 DEF StageInv, Bundled
  <2>5. CountInv'
    BY <1>1, <1>3, <2>2 DEF CountInv, Served, Answered, FailUncounted
  <2>6. PatchInv'
    BY <1>3, PatchFrame
  <2>7. DiffInv' /\ QuietInv'
    BY <2>2 DEF DiffInv, QuietInv
  <2>8. QED
    BY <1>2, <2>3, <2>4, <2>5, <2>6, <2>7
<1>4. CASE decision' = Decide /\ Quiet /\ Decide.id # NIL
           /\ target' = rows[<<request.app, Decide.id>>] /\ Continue("bundle")
  <2>1. Decide \in DecisionType /\ target' \in Row
    BY <1>1, <1>4, DecideFacts
  <2>2. /\ Bundled' /\ target' # NoRow /\ pc' = "bundle" /\ answer' = NoAnswer
        /\ counted' = 0 /\ errors' = errors
    BY <1>1, <1>4, <2>1, SentinelAssumption, UpdateCheckAssumption
       DEF Bundled, Continue, Quiet
  <2>3. TypeOK'
    BY <1>4, <2>1, <2>2 DEF TypeOK
  <2>4. StageInv'
    BY <1>1, <2>2 DEF StageInv
  <2>5. CountInv'
    BY <1>1, <2>2 DEF CountInv, Served, Answered
  <2>6. PatchInv'
    <3>1. target'.patches = rows[<<request.app, decision'.id>>].patches
      BY <1>4
    <3>2. QED
      BY <1>1, <3>1 DEF PatchInv
  <2>7. DiffInv' /\ QuietInv'
    BY <2>2 DEF DiffInv, QuietInv
  <2>8. QED
    BY <1>2, <2>3, <2>4, <2>5, <2>6, <2>7
<1>5. CASE decision' = Decide /\ Quiet /\ Decide.id = NIL
           /\ target' = NoRow /\ Respond(FALSE, NoArtifacts)
  <2>1. Decide \in DecisionType
    BY <1>1, DecideFacts
  <2>2. answer' \in Answer
    BY <1>5 DEF Respond, Reply, Answer
  <2>3. /\ ~Bundled' /\ pc' = "record" /\ answer' # NoAnswer /\ answer'.status = 200
        /\ counted' = 0 /\ errors' = errors
    BY <1>1, <1>5, <2>2, SentinelAssumption DEF Bundled, Respond, Reply, Quiet
  <2>4. TypeOK'
    BY <1>5, <2>1, <2>2, <2>3 DEF TypeOK
  <2>5. StageInv'
    BY <1>1, <2>3 DEF StageInv
  <2>6. CountInv'
    BY <1>1, <2>3 DEF CountInv, Served, Answered
  <2>7. PatchInv'
    BY <1>1, <2>3 DEF PatchInv
  <2>8. DiffInv' /\ QuietInv'
    BY <2>3 DEF DiffInv, QuietInv
  <2>9. QED
    BY <1>2, <2>4, <2>5, <2>6, <2>7, <2>8
<1>6. QED
  BY <1>3, <1>4, <1>5

\* The url of the bundle.
LEMMA PresignBundleStep ==
  ASSUME CheckInv, PresignBundle
  PROVE  CheckInv'
<1> USE DEF PresignBundle, world, plan
<1>1. CASE Fail
  BY <1>1, FailStep DEF CheckInv, TypeOK, Middle, Early
<1>2. CASE Quiet /\ Continue("manifest")
  <2>1. base' \in Base /\ BaseInv' /\ PatchInv'
    BY BaseFrame, PatchFrame DEF CheckInv, TypeOK
  <2>2. QED
    BY <1>2, <2>1, EarlyStep DEF Early, Continue
<1>3. QED
  BY <1>1, <1>2

\* The target's manifest.
LEMMA ReadManifestStep ==
  ASSUME CheckInv, ReadManifest
  PROVE  CheckInv'
<1> USE DEF ReadManifest, world, plan
<1>1. CASE Fail
  BY <1>1, FailStep DEF CheckInv, TypeOK, Middle, Early
<1>2. CASE ((target.manifest = NoManifest /\ Quiet) \/ Degrade) /\ Respond(TRUE, NoArtifacts)
  BY <1>2, BareStep DEF Early, Degrade
<1>3. CASE target.manifest # NoManifest /\ Quiet /\ Continue("manifest_url")
  <2>1. base' \in Base /\ BaseInv' /\ PatchInv'
    BY BaseFrame, PatchFrame DEF CheckInv, TypeOK
  <2>2. QED
    BY <1>3, <2>1, EarlyStep DEF Early, Continue
<1>4. QED
  BY <1>1, <1>2, <1>3

\* The manifest's own url.
LEMMA PresignManifestStep ==
  ASSUME CheckInv, PresignManifest
  PROVE  CheckInv'
<1> USE DEF PresignManifest, world, plan
<1>1. CASE Fail
  BY <1>1, FailStep DEF CheckInv, TypeOK, Middle, Early
<1>2. CASE Quiet /\ Continue("current")
  <2>1. base' \in Base /\ BaseInv' /\ PatchInv'
    BY BaseFrame, PatchFrame DEF CheckInv, TypeOK
  <2>2. target.manifest # NoManifest
    BY DEF CheckInv, StageInv
  <2>3. QED
    BY <1>2, <2>1, <2>2, EarlyStep DEF Early, Continue
<1>3. QED
  BY <1>1, <1>2

\* The device's bundle: whatever is found, the base is what the device holds.
LEMMA FindCurrentStep ==
  ASSUME CheckInv, FindCurrent
  PROVE  CheckInv'
<1> USE DEF FindCurrent, world
<1>1. /\ request # NoRequest /\ patch = NoPatch /\ target.manifest # NoManifest
      /\ TypeOK /\ BaseInv /\ PatchInv /\ Bundled
  BY DEF CheckInv, StageInv
<1>2. /\ pc' \in {"patches", "base"} /\ Continue(pc') /\ (Quiet \/ Degrade)
  BY DEF Continue
<1>3. \/ base' = NoBase
      \/ \E k \in CurrentKeys : base' = [NoBase EXCEPT !.id = k[2]]
      \/ \E k \in CurrentKeys : /\ rows[k].manifest # NoManifest
                                /\ base' = [id |-> k[2], assets |-> rows[k].manifest]
  OBVIOUS
<1>4. \A k \in CurrentKeys : /\ k = <<request.app, request.client>> /\ k \in Key
                             /\ rows[k] \in Row /\ Here(k) /\ k[2] = request.client
  BY <1>1 DEF CurrentKeys, Here, TypeOK
<1>5. NoBase \in Base /\ NoBase.id = NIL /\ NoBase.assets = NoAssets
  BY ManifestFacts DEF NoBase, Base
<1>6. /\ base' \in Base /\ base'.id \in {NIL, request.client}
      /\ \/ base'.assets = NoAssets
         \/ \E k \in CurrentKeys : rows[k].manifest # NoManifest /\ base'.assets = rows[k].manifest
  <2>1. CASE base' = NoBase
    BY <1>5, <2>1
  <2>2. ASSUME NEW k \in CurrentKeys, base' = [NoBase EXCEPT !.id = k[2]] PROVE <1>6
    BY <1>1, <1>4, <1>5, <2>2, ManifestFacts, RequestFacts DEF Base, NoBase
  <2>3. ASSUME NEW k \in CurrentKeys, rows[k].manifest # NoManifest,
               base' = [id |-> k[2], assets |-> rows[k].manifest]
        PROVE  <1>6
    <3>1. rows[k].manifest \in Manifest
      BY <1>4, <2>3, RowFacts
    <3>2. QED
      BY <1>1, <1>4, <2>3, <3>1, RequestFacts DEF Base
  <2>4. QED
    BY <1>3, <2>1, <2>2, <2>3
<1>7. BaseInv'
  BY <1>1, <1>4, <1>6, ManifestFacts DEF BaseInv, Here
<1>8. PatchInv'
  BY <1>1, <1>6 DEF PatchInv, Bundled, Here
<1>9. QED
  BY <1>1, <1>2, <1>6, <1>7, <1>8, EarlyStep DEF Early

\* Its manifest.
LEMMA ReadBaseStep ==
  ASSUME CheckInv, ReadBase
  PROVE  CheckInv'
<1> USE DEF ReadBase, world
<1>1. CASE Fail /\ UNCHANGED base
  BY <1>1, FailStep DEF CheckInv, TypeOK, Middle, Early
<1>2. CASE /\ Quiet \/ Degrade
           /\ base' = [base EXCEPT !.assets = NoAssets] \/ UNCHANGED base
           /\ Continue("patches")
  <2>1. /\ request # NoRequest /\ patch = NoPatch /\ target.manifest # NoManifest
        /\ TypeOK /\ BaseInv /\ PatchInv
    BY DEF CheckInv, StageInv
  <2>2. base' \in Base /\ base'.id = base.id /\ base'.assets \in {base.assets, NoAssets}
    BY <1>2, <2>1, ManifestFacts DEF TypeOK, Base
  <2>3. BaseInv'
    BY <2>1, <2>2, ManifestFacts DEF BaseInv, Here
  <2>4. PatchInv'
    BY <2>1, <2>2 DEF PatchInv, Bundled, Here
  <2>5. QED
    BY <1>2, <2>1, <2>2, <2>3, <2>4, EarlyStep DEF Early, Continue
<1>3. QED
  BY <1>1, <1>2

\* The patches, and the plan.
LEMMA QueryPatchesStep ==
  ASSUME CheckInv, QueryPatches
  PROVE  CheckInv'
<1> USE DEF QueryPatches, world
<1>1. /\ request # NoRequest /\ patch = NoPatch /\ target # NoRow /\ answer = NoAnswer
      /\ target.manifest # NoManifest /\ Bundled /\ files = {} /\ "failed" \notin errors
      /\ TypeOK /\ BaseInv /\ PatchInv /\ StageInv /\ CountInv
  BY DEF CheckInv, StageInv, CountInv, Answered
<1>2. PICK found \in {{}, TargetPatches} :
         /\ \/ found = {} /\ Degrade
            \/ found = TargetPatches /\ Quiet
         /\ \/ ~Plannable /\ Respond(TRUE, NoArtifacts) /\ UNCHANGED <<patch, todo>>
            \/ /\ Plannable
               /\ todo' = Changed
               /\ patch' = IF PatchFor(found) = {} THEN NoPatch
                           ELSE CHOOSE p \in PatchFor(found) : TRUE
               /\ Continue("patch")
  OBVIOUS
<1>3. CASE ~Plannable /\ Respond(TRUE, NoArtifacts) /\ UNCHANGED <<patch, todo>>
  BY <1>2, <1>3, BareStep DEF plan, Early, Plannable
<1>4. CASE /\ todo' = Changed
           /\ patch' = IF PatchFor(found) = {} THEN NoPatch
                       ELSE CHOOSE p \in PatchFor(found) : TRUE
           /\ Continue("patch")
  <2>1. found \subseteq Patch
    <3>1. <<request.app, decision.id>> \in Key /\ Here(<<request.app, decision.id>>)
          => rows[<<request.app, decision.id>>] \in Row
      BY <1>1 DEF TypeOK, Here
    <3>2. decision.id \in Bundle
      BY <1>1 DEF TypeOK, DecisionType, Bundled
    <3>3. <<request.app, decision.id>> \in Key
      BY <1>1, <3>2, RequestFacts DEF Key
    <3>4. QED
      BY <3>1, <3>3, RowFacts DEF TargetPatches
  <2>2. patch' # NoPatch => patch' \in found /\ patch'.base = base.id /\ Patchable # {}
    BY <1>4 DEF PatchFor
  <2>3. /\ pc' = "patch" /\ answer' = NoAnswer /\ counted' = counted
        /\ errors' = errors \/ errors' = errors \cup {"degraded"}
    BY <1>1, <1>2, <1>4 DEF Continue, Quiet, Degrade
  <2>4. todo' \subseteq Asset
    BY <1>1, <1>4, PlanFacts
  <2>5. TypeOK'
    BY <1>1, <2>1, <2>2, <2>3, <2>4 DEF TypeOK
  <2>6. StageInv'
    BY <1>1, <2>3 DEF StageInv, Bundled
  <2>7. CountInv'
    BY <1>1, <2>3 DEF CountInv, Served, Answered
  <2>8. BaseInv'
    BY <1>1, BaseFrame
  <2>9. PatchInv'
    <3>1. patch' # NoPatch => Here(<<request.app, decision.id>>)
                              /\ patch' \in rows[<<request.app, decision.id>>].patches
      BY <1>2, <2>2 DEF TargetPatches
    <3>2. QED
      BY <1>1, <2>2, <3>1 DEF PatchInv, Bundled, Here
  <2>10. DiffInv'
    BY <1>4, <2>2, <2>3
       DEF DiffInv, Changed, Unchanged, Patchable, HbcAssets
  <2>11. QuietInv'
    BY <1>1, <2>3 DEF QuietInv
  <2>12. QED
    BY <2>5, <2>6, <2>7, <2>8, <2>9, <2>10, <2>11 DEF CheckInv
<1>5. QED
  BY <1>2, <1>3, <1>4

\* The patch's url.
LEMMA PresignPatchStep ==
  ASSUME CheckInv, PresignPatch
  PROVE  CheckInv'
<1> USE DEF PresignPatch, world, plan
<1>1. CASE Fail
  BY <1>1, FailStep DEF CheckInv, TypeOK, Middle
<1>2. CASE Quiet /\ Continue("assets")
  <2>1. /\ pc' = "assets" /\ answer' = NoAnswer /\ counted' = counted /\ errors' = errors
        /\ TypeOK /\ StageInv /\ CountInv /\ BaseInv /\ PatchInv /\ DiffInv /\ QuietInv
    BY <1>2 DEF CheckInv, StageInv, Continue, Quiet
  <2>2. TypeOK'
    BY <2>1 DEF TypeOK
  <2>3. StageInv'
    BY <2>1 DEF StageInv, Bundled
  <2>4. CountInv'
    BY <2>1 DEF CountInv, Served, Answered
  <2>5. BaseInv' /\ PatchInv'
    BY <2>1, BaseFrame, PatchFrame
  <2>6. todo = Changed /\ todo' = todo /\ Changed' = Changed
    BY <2>1 DEF DiffInv, Changed, Unchanged
  <2>7. DiffInv'
    BY <2>1, <2>6 DEF DiffInv
  <2>8. QuietInv'
    BY <2>1, <2>6 DEF QuietInv, Bundled
  <2>9. QED
    BY <2>2, <2>3, <2>4, <2>5, <2>7, <2>8 DEF CheckInv
<1>3. QED
  BY <1>1, <1>2

\* The url of one changed asset.
LEMMA PresignAssetStep ==
  ASSUME CheckInv, NEW a \in Asset, PresignAsset(a)
  PROVE  CheckInv'
<1> USE DEF PresignAsset, world
<1>1. CASE Fail /\ UNCHANGED files
  BY <1>1, FailStep DEF CheckInv, TypeOK, Middle
<1>2. CASE /\ \/ Quiet /\ files' = files \cup {a}
              \/ Covered(a) /\ Degrade /\ UNCHANGED files
           /\ Continue("assets")
  <2>1. /\ pc' = "assets" /\ answer' = NoAnswer /\ counted' = counted /\ todo' = todo \ {a}
        /\ TypeOK /\ StageInv /\ CountInv /\ BaseInv /\ PatchInv /\ DiffInv /\ QuietInv
    BY <1>2 DEF CheckInv, StageInv, Continue
  <2>2. \/ errors' = errors /\ files' = files \cup {a}
        \/ errors' = errors \cup {"degraded"} /\ files' = files /\ Covered(a)
    BY <1>2 DEF Quiet, Degrade
  <2>3. TypeOK'
    BY <2>1, <2>2 DEF TypeOK
  <2>4. StageInv'
    BY <2>1 DEF StageInv, Bundled
  <2>5. CountInv'
    BY <2>1, <2>2 DEF CountInv, Served, Answered
  <2>6. BaseInv' /\ PatchInv'
    BY <2>1, BaseFrame, PatchFrame
  <2>7. /\ Changed' = Changed /\ Patchable' = Patchable /\ Bundled' = Bundled
        /\ \A b \in Asset : Covered(b)' = Covered(b)
    BY DEF Changed, Unchanged, Patchable, HbcAssets, Covered, Bundled
  <2>8. Changed \subseteq Asset
    BY <2>1, PlanFacts DEF StageInv
  <2>9. DiffInv'
    <3>1. \A b \in Changed : b \in todo' \/ b \in files' \/ Covered(b)
      BY <2>1, <2>2 DEF DiffInv
    <3>2. QED
      BY <2>1, <2>7, <2>8, <3>1 DEF DiffInv
  <2>10. QuietInv'
    BY <2>1, <2>2, <2>7 DEF QuietInv
  <2>11. QED
    BY <2>3, <2>4, <2>5, <2>6, <2>9, <2>10 DEF CheckInv
<1>3. QED
  BY <1>1, <1>2

\* The answer with its artifacts.
LEMMA AssembleStep ==
  ASSUME CheckInv, Assemble
  PROVE  CheckInv'
<1> USE DEF Assemble, world, plan
<1> DEFINE sent == [changed |-> Changed,
                    files   |-> files,
                    patch   |-> IF Changed \cap Patchable = {} THEN NoPatch ELSE patch]
<1>1. /\ target # NoRow /\ target.manifest # NoManifest /\ Bundled
      /\ TypeOK /\ StageInv /\ CountInv /\ BaseInv /\ PatchInv /\ DiffInv /\ QuietInv
  BY DEF CheckInv, StageInv
<1>2. sent \in Artifacts
  BY <1>1, PlanFacts DEF Artifacts, TypeOK
<1>3. answer' = [status |-> 200, url |-> TRUE, artifacts |-> sent]
  BY DEF Respond, Reply
<1>4. answer' \in Answer
  BY <1>2, <1>3 DEF Answer
<1>5. /\ answer' # NoAnswer /\ answer'.status = 200 /\ answer'.url
      /\ answer'.artifacts = sent /\ sent # NoArtifacts
      /\ pc' = "record" /\ counted' = counted /\ errors' = errors
  BY <1>2, <1>3, <1>4, SentinelAssumption DEF Respond, Quiet
<1>6. TypeOK'
  BY <1>1, <1>4, <1>5 DEF TypeOK
<1>7. StageInv'
  BY <1>1, <1>5 DEF StageInv, Bundled
<1>8. CountInv'
  BY <1>1, <1>5 DEF CountInv, Served, Answered
<1>9. BaseInv' /\ PatchInv'
  BY <1>1, BaseFrame, PatchFrame
<1>10. Changed' = Changed /\ Patchable' = Patchable /\ Bundled' = Bundled
  BY DEF Changed, Unchanged, Patchable, HbcAssets, Bundled
<1>11. DiffInv'
  <2>1. \A a \in Changed : a \in files \/ (a \in Patchable /\ sent.patch # NoPatch)
    BY <1>1 DEF DiffInv, Covered
  <2>2. sent.changed = Changed /\ sent.files = files /\ sent.patch \in {patch, NoPatch}
    OBVIOUS
  <2>3. QED
    BY <1>1, <1>5, <1>10, <2>1, <2>2 DEF DiffInv
<1>12. QuietInv'
  BY <1>1, <1>5, <1>10 DEF QuietInv
<1>13. QED
  BY <1>6, <1>7, <1>8, <1>9, <1>11, <1>12 DEF CheckInv

LEMMA RecordStep ==
  ASSUME CheckInv, Record
  PROVE  CheckInv'
<1> USE DEF Record, world, plan
<1>1. /\ answer # NoAnswer /\ answer.status = 200 /\ counted = 0 /\ "failed" \notin errors
      /\ TypeOK /\ StageInv /\ CountInv /\ BaseInv /\ PatchInv /\ DiffInv /\ QuietInv
  BY DEF CheckInv, StageInv, CountInv, Served, Answered
<1>2. TypeOK'
  BY <1>1 DEF TypeOK
<1>3. StageInv'
  BY <1>1 DEF StageInv, Bundled
<1>4. CountInv'
  BY <1>1 DEF CountInv, Served, Answered
<1>5. BaseInv' /\ PatchInv'
  BY <1>1, BaseFrame, PatchFrame
<1>6. DiffInv' /\ QuietInv'
  BY <1>1 DEF DiffInv, QuietInv, Bundled, Changed, Unchanged, Patchable, HbcAssets
<1>7. QED
  BY <1>2, <1>3, <1>4, <1>5, <1>6 DEF CheckInv

\* What a commit of the CLI API leaves alone.
LEMMA CommitFrame ==
  ASSUME CheckInv, rows' \in [Key -> Row \cup {NoRow}], published \subseteq published',
         published' \subseteq Key,
         UNCHANGED <<pc, request, decision, target, plan, errors, counted, answer>>
  PROVE  TypeOK' /\ StageInv' /\ CountInv' /\ DiffInv' /\ QuietInv'
<1> USE DEF plan
<1>1. TypeOK /\ StageInv /\ CountInv /\ DiffInv /\ QuietInv
  BY DEF CheckInv
<1>2. TypeOK'
  BY <1>1 DEF TypeOK
<1>3. StageInv'
  BY <1>1 DEF StageInv, Bundled
<1>4. CountInv'
  BY <1>1 DEF CountInv, Served, Answered, Bundled
<1>5. /\ Changed' = Changed /\ Patchable' = Patchable /\ Bundled' = Bundled
      /\ \A a : Covered(a)' = Covered(a)
  BY DEF Changed, Unchanged, Patchable, HbcAssets, Bundled, Covered
<1>6. DiffInv'
  BY <1>1, <1>5 DEF DiffInv
<1>7. QuietInv'
  BY <1>1, <1>5 DEF QuietInv
<1>8. QED
  BY <1>2, <1>3, <1>4, <1>6, <1>7

LEMMA PublishStep ==
  ASSUME CheckInv, NEW k \in Key, NEW row \in Version[k], Publish(k, row)
  PROVE  CheckInv'
<1> USE DEF Publish
<1>1. row \in Row
  BY UpdateCheckAssumption
<1>2. TypeOK /\ BaseInv /\ PatchInv
  BY DEF CheckInv
<1>3. rows' \in [Key -> Row \cup {NoRow}] /\ published' \subseteq Key
  BY <1>1, <1>2 DEF TypeOK
<1>4. \A q \in Key \ published' : rows'[q] = rows[q] /\ q \notin published
  BY <1>2 DEF TypeOK
<1>5. request' = request /\ decision' = decision /\ target' = target
      /\ base' = base /\ patch' = patch
  BY DEF plan
<1>6. BaseInv'
  BY <1>2, <1>4, <1>5 DEF BaseInv, Here
<1>7. PatchInv'
  <2>1. ASSUME Bundled, <<request.app, decision.id>> \notin published'
        PROVE  /\ <<request.app, decision.id>> \notin published
               /\ rows'[<<request.app, decision.id>>] = rows[<<request.app, decision.id>>]
    <3>1. request # NoRequest /\ decision.id \in Bundle
      BY <1>2, <2>1 DEF CheckInv, StageInv, Bundled, TypeOK, DecisionType
    <3>2. <<request.app, decision.id>> \in Key
      BY <1>2, <3>1, RequestFacts DEF Key
    <3>3. QED
      BY <1>4, <2>1, <3>2
  <2>2. QED
    BY <1>2, <1>5, <2>1 DEF PatchInv, Bundled, Here
<1>8. QED
  BY <1>3, <1>6, <1>7, CommitFrame DEF CheckInv

LEMMA DeleteStep ==
  ASSUME CheckInv, NEW k \in Key, Delete(k)
  PROVE  CheckInv'
<1> USE DEF Delete
<1>1. TypeOK /\ BaseInv /\ PatchInv
  BY DEF CheckInv
<1>2. \A q \in Key : \/ rows'[q] = NoRow
                     \/ /\ Here(q) /\ rows'[q] \in Row
                        /\ rows'[q].manifest = rows[q].manifest
                        /\ rows'[q].patches \subseteq rows[q].patches
  BY <1>1 DEF TypeOK, Here, Row
<1>3. rows' \in [Key -> Row \cup {NoRow}] /\ published' = published
  BY <1>2
<1>4. request' = request /\ decision' = decision /\ target' = target
      /\ base' = base /\ patch' = patch
  BY DEF plan
<1>5. BaseInv'
  BY <1>1, <1>2, <1>3, <1>4 DEF BaseInv, Here
<1>6. PatchInv'
  <2>1. ASSUME Bundled PROVE <<request.app, decision.id>> \in Key
    <3>1. request # NoRequest /\ decision.id \in Bundle
      BY <1>1, <2>1 DEF CheckInv, StageInv, Bundled, TypeOK, DecisionType
    <3>2. QED
      BY <1>1, <3>1, RequestFacts DEF Key
  <2>2. QED
    BY <1>1, <1>2, <1>3, <1>4, <2>1 DEF PatchInv, Bundled, Here
<1>7. published' \subseteq Key
  BY <1>1, <1>3 DEF TypeOK
<1>8. QED
  BY <1>3, <1>5, <1>6, <1>7, CommitFrame DEF CheckInv

LEMMA CheckStutter ==
  ASSUME CheckInv, UNCHANGED vars
  PROVE  CheckInv'
<1> USE DEF vars
<1>1. UNCHANGED <<pc, request, decision, target, plan, errors, counted, answer>>
  BY DEF plan
<1>2. TypeOK' /\ StageInv' /\ CountInv' /\ DiffInv' /\ QuietInv'
  <2>1. rows' \in [Key -> Row \cup {NoRow}] /\ published' \subseteq Key
    BY DEF CheckInv, TypeOK
  <2>2. QED
    BY <1>1, <2>1, CommitFrame
<1>3. BaseInv' /\ PatchInv'
  BY BaseFrame, PatchFrame DEF CheckInv
<1>4. QED
  BY <1>2, <1>3 DEF CheckInv

-----------------------------------------------------------------------------
(* The theorems.                                                           *)

\* CheckInv holds of every check of the update check handlers, whatever fails
\* and whatever is published or deleted between their awaits.
THEOREM CheckInvariance == Spec => []CheckInv
<1>1. Init => CheckInv
  BY InitHolds
<1>2. CheckInv /\ [Next]_vars => CheckInv'
  <2> SUFFICES ASSUME CheckInv, [Next]_vars PROVE CheckInv'
    OBVIOUS
  <2>1. CASE \E r \in Device : Receive(r)
    BY <2>1, ReceiveStep
  <2>2. CASE Refuse
    BY <2>2, RefuseStep
  <2>3. CASE Step
    BY <2>3, QueryCandidatesStep, PresignBundleStep, ReadManifestStep, PresignManifestStep,
       FindCurrentStep, ReadBaseStep, QueryPatchesStep, PresignPatchStep, PresignAssetStep,
       AssembleStep, RecordStep DEF Step
  <2>4. CASE \E k \in Key : \E row \in Version[k] : Publish(k, row)
    BY <2>4, PublishStep
  <2>5. CASE \E k \in Key : Delete(k)
    BY <2>5, DeleteStep
  <2>6. CASE UNCHANGED vars
    BY <2>6, CheckStutter
  <2>7. QED
    BY <2>1, <2>2, <2>3, <2>4, <2>5, <2>6 DEF Next
<1>3. QED
  BY <1>1, <1>2, PTL DEF Spec

\* record_update_check runs once for every answer that is served and for no
\* other.
THEOREM ServedIsCounted == Spec => []CountedIfServed
<1>1. CheckInv => CountedIfServed
  BY DEF CheckInv, CountInv, CountedIfServed, Served
<1>2. QED
  BY <1>1, CheckInvariance, PTL

\* A device told to run a bundle gets everything it needs to: the bundle's url,
\* and for each asset of a diff a url, a patch or what it already holds.
THEOREM ServedIsUsable == Spec => []UpdateIsUsable
<1>1. CheckInv => UpdateIsUsable
  <2> SUFFICES ASSUME CheckInv, Served, Bundled PROVE UpdateIsUsable
    BY DEF UpdateIsUsable
  <2>1. TypeOK /\ answer # NoAnswer /\ answer.status = 200 /\ request # NoRequest
        /\ target # NoRow /\ BaseInv /\ DiffInv
    BY DEF CheckInv, StageInv, Served, Answered, Bundled
  <2>2. answer.url
    BY <2>1 DEF DiffInv
  <2>3. ASSUME answer.artifacts # NoArtifacts, <<request.app, request.client>> \notin published,
               NEW a \in DOMAIN target.manifest
        PROVE  \/ a \in answer.artifacts.files
               \/ /\ a \in answer.artifacts.changed /\ a \in HbcAsset
                  /\ answer.artifacts.patch # NoPatch
               \/ a \in DOMAIN request.holds /\ request.holds[a] = target.manifest[a]
    <3>1. CASE a \in Changed
      <4>1. Patchable \subseteq HbcAsset
        BY <2>1, <2>3, PlanFacts DEF DiffInv
      <4>2. QED
        BY <2>1, <2>3, <3>1, <4>1 DEF DiffInv
    <3>2. CASE a \notin Changed
      <4>1. a \in DOMAIN base.assets /\ base.assets[a] = target.manifest[a]
        BY <3>2 DEF Changed, Unchanged
      <4>2. QED
        BY <2>1, <2>3, <4>1 DEF BaseInv
    <3>3. QED
      BY <3>1, <3>2
  <2>4. QED
    BY <2>2, <2>3 DEF UpdateIsUsable
<1>2. QED
  BY <1>1, CheckInvariance, PTL

\* The patch that is sent starts from what the device runs and is one of the
\* target's own.
THEOREM ServedPatchFits == Spec => []PatchFits
<1>1. CheckInv => PatchFits
  <2> SUFFICES ASSUME CheckInv, Served, Bundled, answer.artifacts # NoArtifacts,
                      answer.artifacts.patch # NoPatch
               PROVE  PatchFits
    BY DEF PatchFits
  <2>1. TypeOK /\ PatchInv /\ answer.artifacts.patch = patch /\ patch # NoPatch
    BY DEF CheckInv, DiffInv, Served, Answered
  <2>2. patch.base \in Bundle
    BY <2>1 DEF TypeOK, Patch
  <2>3. patch.base = base.id /\ base.id # NIL
    BY <2>1, <2>2, UpdateCheckAssumption DEF PatchInv, NIL
  <2>4. QED
    BY <2>1, <2>3 DEF PatchInv, PatchFits
<1>2. QED
  BY <1>1, CheckInvariance, PTL

\* ota_update_check_errors_total tells denied updates from degraded ones, and
\* an answer it says nothing about lacks nothing.
THEOREM ErrorsAreExplained == Spec => []ErrorsExplainAnswer
<1>1. CheckInv => ErrorsExplainAnswer
  BY DEF CheckInv, CountInv, QuietInv, ErrorsExplainAnswer, Answered
<1>2. QED
  BY <1>1, CheckInvariance, PTL
===============================================================================
