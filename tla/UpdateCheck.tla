------------------------------ MODULE UpdateCheck ------------------------------
(***************************************************************************)
(* One update check (src/src/routes/check.rs), await by await: the queries *)
(* to MySQL, the reads from S3 and the presigned urls may each fail, and   *)
(* operators republish and delete bundles between any two of them.  Checks *)
(* share nothing but the tables, which they only read, so one at a time is *)
(* modelled.  What the device holds and the tables' writers are external   *)
(* (CliApi has the writers' own steps); S3 objects never change.           *)
(***************************************************************************)
EXTENDS Decision

CONSTANTS
  App,          \* the configured applications
  Bundle,       \* bundle ids, in their byte order
  Asset,        \* asset paths
  HbcAsset,     \* those that end in ".bundle"
  Hash,         \* contents of an asset
  Version,      \* the rows that may be published under each key
  Device,       \* the devices that may ask: see Request
  NoRow, NoManifest, NoPatch, NoArtifacts, NoDecision, NoRequest, NoAnswer

Key == App \X Bundle

\* A manifest says the content of each of its assets.
Manifest == UNION { [assets -> Hash] : assets \in SUBSET Asset }
NoAssets == [a \in {} |-> a]

\* A bsdiff patch that makes `file`, the target's bytecode, out of `base`; it is
\* not usable if its URI or one of its hashes is empty.
Patch == [base : Bundle, file : Hash, usable : BOOLEAN]

\* A row of `bundles` with its rows of `bundle_patches`.  `columns` stands for
\* manifest_file_hash and asset_base_storage_uri: both usable, one of them NULL
\* or "", or a base that is no URI.
Row == [open     : BOOLEAN,
        manifest : Manifest \cup {NoManifest},
        columns  : {"complete", "empty", "unresolvable"},
        patches  : SUBSET Patch]

ASSUME UpdateCheckAssumption ==
  /\ Bundle \subseteq 1..LastId
  /\ HbcAsset \subseteq Asset
  /\ Version \in [Key -> SUBSET Row]
  /\ NoRow \notin Row /\ NoManifest \notin Manifest /\ NoPatch \notin Patch

\* The application a device belongs to, the bundle it runs, what it holds.
Request == [app : App, client : Bundle \cup {NIL}, holds : Manifest]

ASSUME DeviceAssumption == Device \subseteq Request /\ NoRequest \notin Request

VARIABLES
  rows,         \* the tables
  published,    \* the keys published to since the check began
  pc,           \* the await the check is at
  request,      \* the device that asks
  decision,     \* what decide_update decided
  target,       \* the row it decided for, as the candidates query read it
  base,         \* the device's bundle as found, and its assets to diff against
  patch,        \* the patch selected for the device
  todo,         \* changed assets whose urls are still to be presigned
  files,        \* changed assets with a url
  errors,       \* outcomes added to ota_update_check_errors_total by the check
  counted,      \* what the check added to ota_update_checks_total
  answer

world == <<rows, published>>
plan == <<base, patch, todo, files>>
vars == <<rows, published, pc, request, decision, target, base, patch, todo,
          files, errors, counted, answer>>

Base == [id : Bundle \cup {NIL}, assets : Manifest]
NoBase == [id |-> NIL, assets |-> NoAssets]
DecisionType == [status : {"UPDATE", "ROLLBACK", "UP_TO_DATE"}, id : Bundle \cup {NIL}]
Artifacts == [changed : SUBSET Asset, files : SUBSET Asset, patch : Patch \cup {NoPatch}]
Answer == [status : {200, 400, 404, 500}, url : BOOLEAN, artifacts : Artifacts \cup {NoArtifacts}]

ASSUME SentinelAssumption ==
  NoDecision \notin DecisionType /\ NoArtifacts \notin Artifacts /\ NoAnswer \notin Answer

TypeOK ==
  /\ rows \in [Key -> Row \cup {NoRow}]
  /\ published \subseteq Key
  /\ pc \in {"idle", "candidates", "bundle", "manifest", "manifest_url", "current",
             "base", "patches", "patch", "assets", "record"}
  /\ request \in Device \cup {NoRequest}
  /\ decision \in DecisionType \cup {NoDecision}
  /\ target \in Row \cup {NoRow}
  /\ base \in Base
  /\ patch \in Patch \cup {NoPatch}
  /\ todo \subseteq Asset /\ files \subseteq Asset
  /\ errors \subseteq {"failed", "degraded"}
  /\ counted \in 0..1
  /\ answer \in Answer \cup {NoAnswer}

-----------------------------------------------------------------------------
(* What is read, and what the pure functions make of it.                   *)

Here(k) == rows[k] # NoRow

\* The query's rows; version, platform and native floor always match here (they
\* are Fleet's).
Candidates(app) == { b \in Bundle : Here(<<app, b>>) }
Open(app) == { b \in Candidates(app) : rows[<<app, b>>].open }

Decide == decide_update(Candidates(request.app), Open(request.app), request.client, NIL)

\* SELECT ... WHERE id = ? AND app_name = ?, and the same without its scope.
CurrentKeysOfAnyApp == { k \in Key : k[2] = request.client /\ Here(k) }
CurrentKeys == { k \in Key : k = <<request.app, request.client>> /\ Here(k) }

PatchesOfAnyApp ==
  UNION { rows[<<app, decision.id>>].patches : app \in { a \in App : Here(<<a, decision.id>>) } }
TargetPatches ==
  IF Here(<<request.app, decision.id>>) THEN rows[<<request.app, decision.id>>].patches ELSE {}

\* resolve_unique_hbc_asset_path
HbcAssets == DOMAIN target.manifest \cap HbcAsset
Patchable == IF \E a \in HbcAssets : HbcAssets = {a} THEN HbcAssets ELSE {}

\* plan_manifest_artifacts: the patch for the bundle found, and the assets that
\* the base lacks or has other content for.
PatchFor(found) == { p \in found : p.base = base.id /\ p.usable /\ Patchable # {} }
Unchanged(a) == a \in DOMAIN base.assets /\ base.assets[a] = target.manifest[a]
Changed == { a \in DOMAIN target.manifest : ~Unchanged(a) }
Plannable ==
  target.columns = "complete" \/ (target.columns = "unresolvable" /\ Changed = {})

-----------------------------------------------------------------------------
(* How a check ends.                                                       *)

Reply(status, url, artifacts) ==
  answer' = [status |-> status, url |-> url, artifacts |-> artifacts]

\* Err: answered 500, and counted as failed; the first two definitions leave
\* the count out, and count an update all the same.
FailUncounted ==
  /\ pc' = "idle"
  /\ Reply(500, FALSE, NoArtifacts)
  /\ UNCHANGED <<errors, counted>>
FailButCount ==
  /\ pc' = "idle"
  /\ Reply(500, FALSE, NoArtifacts)
  /\ errors' = errors \cup {"failed"}
  /\ counted' = counted + 1
Fail ==
  /\ pc' = "idle"
  /\ Reply(500, FALSE, NoArtifacts)
  /\ errors' = errors \cup {"failed"}
  /\ UNCHANGED counted

\* The response is complete; record_update_check is what is left to do.
Respond(url, artifacts) ==
  /\ pc' = "record"
  /\ Reply(200, url, artifacts)
  /\ UNCHANGED counted

Degrade == errors' = errors \cup {"degraded"}
Quiet == UNCHANGED errors

Continue(to) == pc' = to /\ UNCHANGED <<counted, answer>>

-----------------------------------------------------------------------------
(* The handler.                                                            *)

Init ==
  /\ rows = [k \in Key |-> NoRow]
  /\ published = {}
  /\ pc = "idle"
  /\ request = NoRequest
  /\ decision = NoDecision
  /\ target = NoRow
  /\ base = NoBase
  /\ patch = NoPatch
  /\ todo = {}
  /\ files = {}
  /\ errors = {}
  /\ counted = 0
  /\ answer = NoAnswer

Fresh ==
  /\ published' = {}
  /\ decision' = NoDecision
  /\ target' = NoRow
  /\ base' = NoBase /\ patch' = NoPatch /\ todo' = {} /\ files' = {}
  /\ errors' = {}
  /\ counted' = 0

\* A device asks, holding what it downloaded when it installed its bundle: the
\* bundle's assets as they are now, or anything if the bundle is gone.
Receive(r) ==
  /\ pc = "idle"
  /\ LET k == <<r.app, r.client>> IN
       k \in Key /\ Here(k) /\ rows[k].manifest # NoManifest => r.holds = rows[k].manifest
  /\ request' = r
  /\ Fresh
  /\ pc' = "candidates"
  /\ answer' = NoAnswer
  /\ UNCHANGED rows

\* An application the server does not serve, a platform that is neither ios
\* nor android, a version that does not parse.
Refuse ==
  /\ pc = "idle"
  /\ \E status \in {404, 400} : Reply(status, FALSE, NoArtifacts)
  /\ request' = NoRequest
  /\ Fresh
  /\ UNCHANGED <<rows, pc>>

\* The candidates query, decide_update, and the answers that name no bundle.
QueryCandidates ==
  /\ pc = "candidates"
  /\ \/ FailUncounted /\ UNCHANGED <<decision, target>>
     \/ /\ decision' = Decide
        /\ Quiet
        /\ \/ Decide.id # NIL /\ target' = rows[<<request.app, Decide.id>>] /\ Continue("bundle")
           \/ Decide.id = NIL /\ target' = NoRow /\ Respond(FALSE, NoArtifacts)
  /\ UNCHANGED <<world, request, plan>>

\* make_response: without a url for the bundle there is no answer.
PresignBundle ==
  /\ pc = "bundle"
  /\ Fail \/ (Quiet /\ Continue("manifest"))
  /\ UNCHANGED <<world, request, decision, target, plan>>

\* resolve_manifest_artifacts from here on.  An object that does not exist or
\* is no manifest costs the artifacts, a read that fails costs the answer.
ReadManifest ==
  /\ pc = "manifest"
  /\ \/ target.manifest = NoManifest /\ Quiet /\ Respond(TRUE, NoArtifacts)
     \/ target.manifest # NoManifest /\ Fail
     \/ target.manifest # NoManifest /\ Degrade /\ Respond(TRUE, NoArtifacts)
     \/ target.manifest # NoManifest /\ Quiet /\ Continue("manifest_url")
  /\ UNCHANGED <<world, request, decision, target, plan>>

PresignManifest ==
  /\ pc = "manifest_url"
  /\ Fail \/ (Quiet /\ Continue("current"))
  /\ UNCHANGED <<world, request, decision, target, plan>>

\* The device's bundle, in its own application.  A query that fails is a bundle
\* that is not there, except for the count.  The row's manifest is kept in
\* base, to be dropped again if its object cannot be used.
FindCurrent ==
  /\ pc = "current"
  /\ \/ request.client # NIL /\ Degrade /\ base' = NoBase /\ Continue("patches")
     \/ CurrentKeys = {} /\ Quiet /\ base' = NoBase /\ Continue("patches")
     \/ \E k \in CurrentKeys :
          /\ Quiet
          /\ \/ rows[k].manifest = NoManifest /\ base' = [NoBase EXCEPT !.id = k[2]] /\ Continue("patches")
             \/ /\ rows[k].manifest # NoManifest
                /\ base' = [id |-> k[2], assets |-> rows[k].manifest]
                /\ Continue("base")
  /\ UNCHANGED <<world, request, decision, target, patch, todo, files>>

ReadBase ==
  /\ pc = "base"
  /\ \/ Fail /\ UNCHANGED base
     \/ Degrade /\ base' = [base EXCEPT !.assets = NoAssets] /\ Continue("patches")
     \/ Quiet /\ UNCHANGED base /\ Continue("patches")
  /\ UNCHANGED <<world, request, decision, target, patch, todo, files>>

\* The patches query, and the plan made from everything read.
QueryPatches ==
  /\ pc = "patches"
  /\ \E found \in {{}, TargetPatches} :
       /\ \/ found = {} /\ Degrade
          \/ found = TargetPatches /\ Quiet
       /\ \/ ~Plannable /\ Respond(TRUE, NoArtifacts) /\ UNCHANGED <<patch, todo>>
          \/ /\ Plannable
             /\ todo' = Changed
             /\ patch' = IF PatchFor(found) = {} THEN NoPatch ELSE CHOOSE p \in PatchFor(found) : TRUE
             /\ Continue("patch")
  /\ UNCHANGED <<world, request, decision, target, base, files>>

PresignPatch ==
  /\ pc = "patch"
  /\ \/ patch = NoPatch /\ Quiet /\ Continue("assets")
     \/ patch # NoPatch /\ (Fail \/ (Quiet /\ Continue("assets")))
  /\ UNCHANGED <<world, request, decision, target, plan>>

Covered(a) == patch # NoPatch /\ a \in Patchable

\* The catch around the url made as wide as the loop.
PresignAssetOrSkip(a) ==
  /\ pc = "assets"
  /\ a \in todo
  /\ todo' = todo \ {a}
  /\ \/ Quiet /\ files' = files \cup {a} /\ Continue("assets")
     \/ Degrade /\ UNCHANGED files /\ Continue("assets")
  /\ UNCHANGED <<world, request, decision, target, base, patch>>

\* One changed asset: its url may be missing only if the patch covers it.
PresignAsset(a) ==
  /\ pc = "assets"
  /\ a \in todo
  /\ todo' = todo \ {a}
  /\ \/ Quiet /\ files' = files \cup {a} /\ Continue("assets")
     \/ Covered(a) /\ Degrade /\ UNCHANGED files /\ Continue("assets")
     \/ ~Covered(a) /\ Fail /\ UNCHANGED files
  /\ UNCHANGED <<world, request, decision, target, base, patch>>

Assemble ==
  /\ pc = "assets"
  /\ todo = {}
  /\ Quiet
  /\ Respond(TRUE, [changed |-> Changed,
                    files   |-> files,
                    patch   |-> IF Changed \cap Patchable = {} THEN NoPatch ELSE patch])
  /\ UNCHANGED <<world, request, decision, target, plan>>

\* record_update_check, only now that the response can be served.
Record ==
  /\ pc = "record"
  /\ counted' = counted + 1
  /\ pc' = "idle"
  /\ UNCHANGED <<world, request, decision, target, plan, errors, answer>>

-----------------------------------------------------------------------------
(* The CLI API's commits, and the specification.                           *)

\* POST: a whole row and its patches in one transaction; bases must exist.
Publish(k, row) ==
  /\ rows[k] # row
  /\ \A p \in row.patches : Here(<<k[1], p.base>>)
  /\ rows' = [rows EXCEPT ![k] = row]
  /\ published' = published \cup {k}
  /\ UNCHANGED <<pc, request, decision, target, plan, errors, counted, answer>>

\* DELETE: the patches that use the row as their base go with it.
Delete(k) ==
  /\ Here(k)
  /\ rows' = [q \in Key |->
       IF q = k \/ ~Here(q) THEN NoRow
       ELSE [rows[q] EXCEPT !.patches = { p \in @ : <<q[1], p.base>> # k }]]
  /\ UNCHANGED <<published, pc, request, decision, target, plan, errors, counted, answer>>

Step ==
  \/ QueryCandidates \/ PresignBundle \/ ReadManifest \/ PresignManifest
  \/ FindCurrent \/ ReadBase \/ QueryPatches \/ PresignPatch
  \/ \E a \in Asset : PresignAsset(a)
  \/ Assemble \/ Record

Next ==
  \/ \E r \in Device : Receive(r)
  \/ Refuse
  \/ Step
  \/ \E k \in Key : \E row \in Version[k] : Publish(k, row)
  \/ \E k \in Key : Delete(k)

Spec == Init /\ [][Next]_vars

-----------------------------------------------------------------------------
(* Properties.                                                             *)

Answered == pc = "idle" /\ answer # NoAnswer
Served == Answered /\ answer.status = 200
Bundled == decision # NoDecision /\ decision.id # NIL

\* The counter of updates counts the answers that were served, once each: a
\* check that fails on the way, at whatever step, adds nothing to it.
CountedIfServed ==
  Answered => counted = IF answer.status = 200 THEN 1 ELSE 0

\* A device told to run a bundle can: it gets the bundle's url, since without
\* one it would reset itself, and if it is sent a diff, then every asset of the
\* bundle is in it with a url or a patch or is one the device holds, unless the
\* device's own bundle was published to while the check ran.
UpdateIsUsable ==
  Served /\ Bundled =>
    /\ answer.url
    /\ answer.artifacts # NoArtifacts /\ <<request.app, request.client>> \notin published =>
         \A a \in DOMAIN target.manifest :
            \/ a \in answer.artifacts.files
            \/ a \in answer.artifacts.changed /\ a \in HbcAsset /\ answer.artifacts.patch # NoPatch
            \/ a \in DOMAIN request.holds /\ request.holds[a] = target.manifest[a]

\* A patch sent turns what the device runs into the bundle it is sent with,
\* unless that bundle was published to between the two queries.
PatchFits ==
  Served /\ Bundled /\ answer.artifacts # NoArtifacts /\ answer.artifacts.patch # NoPatch =>
    /\ answer.artifacts.patch.base = request.client
    /\ <<request.app, decision.id>> \notin published => answer.artifacts.patch \in target.patches

\* Storage errors are told apart by what they cost.  Once a bundle is chosen,
\* "failed" is counted exactly if the device is denied it; and an answer that
\* nothing was counted for is as good as the catalog allows: a diff for every
\* bundle that has one, every changed asset with a url.
ErrorsExplainAnswer ==
  Answered /\ Bundled =>
    /\ "failed" \in errors <=> answer.status = 500
    /\ errors = {} /\ target.manifest # NoManifest /\ target.columns = "complete" =>
         answer.artifacts # NoArtifacts /\ answer.artifacts.files = answer.artifacts.changed

\* What is known of a check at each await.
StageInv ==
  /\ pc \notin {"idle", "record"} => answer = NoAnswer
  /\ pc = "record" => answer # NoAnswer /\ answer.status = 200
  /\ pc # "idle" => request # NoRequest
  /\ request = NoRequest => decision = NoDecision
  /\ pc = "candidates" => decision = NoDecision
  /\ pc \notin {"idle", "candidates", "record"} => Bundled
  /\ Bundled => target # NoRow
  /\ pc \in {"manifest_url", "current", "base", "patches", "patch", "assets"} =>
       target.manifest # NoManifest
  /\ pc \in {"candidates", "bundle", "manifest", "manifest_url", "current", "base", "patches"} =>
       patch = NoPatch /\ files = {}

\* The counters while the check runs, and after it.
CountInv ==
  /\ counted = IF Served THEN 1 ELSE 0
  /\ Answered /\ Bundled => ("failed" \in errors <=> answer.status = 500)
  /\ ~Answered => "failed" \notin errors

\* The base is the device's own: what it has, the device holds, unless its
\* bundle was published to.
BaseInv ==
  request # NoRequest /\ <<request.app, request.client>> \notin published =>
    /\ LET k == <<request.app, request.client>> IN
         k \in Key /\ Here(k) /\ rows[k].manifest # NoManifest => rows[k].manifest = request.holds
    /\ \A a \in DOMAIN base.assets :
         a \in DOMAIN request.holds /\ request.holds[a] = base.assets[a]

\* The rows and the plan agree as long as the target is not published to.
PatchInv ==
  /\ base.id # NIL => request # NoRequest /\ base.id = request.client
  /\ Bundled /\ <<request.app, decision.id>> \notin published =>
       /\ Here(<<request.app, decision.id>>) =>
            rows[<<request.app, decision.id>>].patches \subseteq target.patches
       /\ patch # NoPatch => patch \in target.patches
  /\ patch # NoPatch => patch.base = base.id

\* No changed asset is forgotten on the way to the answer.
DiffInv ==
  /\ pc = "patch" => todo = Changed /\ (patch # NoPatch => Patchable # {})
  /\ pc = "assets" => \A a \in Changed : a \in todo \/ a \in files \/ Covered(a)
  /\ answer # NoAnswer /\ answer.status = 200 /\ Bundled =>
       /\ answer.url
       /\ answer.artifacts # NoArtifacts =>
            /\ target.manifest # NoManifest
            /\ answer.artifacts.changed = Changed
            /\ answer.artifacts.patch \in {patch, NoPatch}
            /\ \A a \in Changed :
                  \/ a \in answer.artifacts.files
                  \/ a \in Patchable /\ answer.artifacts.patch # NoPatch

\* Until something is counted, nothing is left out.
QuietInv ==
  Bundled /\ errors = {} =>
    /\ pc = "patch" => files = {}
    /\ pc = "assets" => files \cup todo = Changed
    /\ answer # NoAnswer /\ target.manifest # NoManifest /\ target.columns = "complete" =>
         answer.artifacts # NoArtifacts /\ answer.artifacts.files = answer.artifacts.changed

\* The inductive invariant of UpdateCheckProofs.
CheckInv ==
  TypeOK /\ StageInv /\ CountInv /\ BaseInv /\ PatchInv /\ DiffInv /\ QuietInv
===============================================================================
