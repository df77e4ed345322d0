--------------------------------- MODULE Fleet ---------------------------------
(***************************************************************************)
(* Devices polling the update check (src/src/routes/check.rs) while        *)
(* operators publish, enable, disable, retarget and delete bundles.  The   *)
(* server keeps nothing per device: each answer is computed from the       *)
(* catalog as it is when the check is served and from the bundle id the    *)
(* device sends, and is acted on later, by when the catalog may have       *)
(* changed.  The device side is external: it runs what it is told to run.  *)
(***************************************************************************)
EXTENDS Decision

CONSTANTS
  Device,
  Bundle,     \* bundle ids that may be published
  Floor,      \* minBundleId of each device: the age of its native build
  NoReply     \* no answer on its way to the device

ASSUME FleetAssumption ==
  /\ Bundle \subseteq 1..LastId
  /\ Floor \in [Device -> Nat]

VARIABLES
  listed,     \* listed[b]: devices whose platform, channel and version it matches, enabled
  open,       \* open[b]: devices whose cohort it is open to
  running,    \* the bundle each device runs and reports
  reply,      \* the answer on its way to each device
  via,        \* how the device came to run what it runs
  timely,     \* the catalog is still the one that answer was computed from
  fresh       \* the catalog is still the one it was moved to `running` by

catalog == <<listed, open>>
vars == <<listed, open, running, reply, via, timely, fresh>>

Status == {"UPDATE", "ROLLBACK", "UP_TO_DATE"}
Reply == [status : Status, id : Bundle \cup {NIL}]

TypeOK ==
  /\ listed \in [Bundle -> SUBSET Device]
  /\ open \in [Bundle -> SUBSET Device]
  /\ running \in [Device -> Nat]
  /\ reply \in [Device -> Reply \cup {NoReply}]
  /\ via \in [Device -> Status]
  /\ timely \in [Device -> BOOLEAN]
  /\ fresh \in [Device -> BOOLEAN]

\* The rows of the check's query: those no older than the native build.
RowsOfAnyAge(d) == { b \in Bundle : d \in listed[b] }
Candidates(d) == { b \in Bundle : d \in listed[b] /\ b >= Floor[d] }
Eligible(d) == { b \in Bundle : d \in open[b] }

Answer(d) == decide_update(Candidates(d), Eligible(d), running[d], Floor[d])

-----------------------------------------------------------------------------

Init ==
  /\ listed = [b \in Bundle |-> {}]
  /\ open = [b \in Bundle |-> {}]
  /\ running \in [Device -> Bundle \cup {NIL}]
  /\ reply = [d \in Device |-> NoReply]
  /\ via = [d \in Device |-> "UP_TO_DATE"]
  /\ timely = [d \in Device |-> FALSE]
  /\ fresh = [d \in Device |-> FALSE]

\* One bundle is published, changed or deleted through the CLI API.
Edit(b) ==
  /\ \E devices, cohorts \in SUBSET Device :
        /\ listed' = [listed EXCEPT ![b] = devices]
        /\ open' = [open EXCEPT ![b] = cohorts]
  /\ catalog' # catalog
  /\ timely' = [d \in Device |-> FALSE]
  /\ fresh' = [d \in Device |-> FALSE]
  /\ UNCHANGED <<running, reply, via>>

\* A check is served; the device waits for its answer before it asks again.
Check(d) ==
  /\ reply[d] = NoReply
  /\ reply' = [reply EXCEPT ![d] = Answer(d)]
  /\ timely' = [timely EXCEPT ![d] = TRUE]
  /\ UNCHANGED <<catalog, running, via, fresh>>

\* The device acts on the answer.  A reset runs the code of the native build,
\* which reports itself as the floor or, in a development build, as nil.
Apply(d) ==
  /\ reply[d] # NoReply
  /\ \/ /\ reply[d].status = "UP_TO_DATE"
        /\ UNCHANGED <<running, via, fresh>>
     \/ /\ reply[d].status # "UP_TO_DATE"
        /\ \E b \in IF reply[d].id = NIL THEN {NIL, Floor[d]} ELSE {reply[d].id} :
              running' = [running EXCEPT ![d] = b]
        /\ via' = [via EXCEPT ![d] = reply[d].status]
        /\ fresh' = [fresh EXCEPT ![d] = timely[d]]
  /\ reply' = [reply EXCEPT ![d] = NoReply]
  /\ UNCHANGED <<catalog, timely>>

\* The answer is lost, or its download fails: the device keeps what it runs.
Lose(d) ==
  /\ reply[d] # NoReply
  /\ reply' = [reply EXCEPT ![d] = NoReply]
  /\ UNCHANGED <<catalog, running, via, timely, fresh>>

Next ==
  \/ \E b \in Bundle : Edit(b)
  \/ \E d \in Device : Check(d) \/ Apply(d) \/ Lose(d)

Spec == Init /\ [][Next]_vars

\* Devices keep asking, and answers get through every now and then.
FairSpec == Spec /\ \A d \in Device : WF_vars(Check(d)) /\ SF_vars(Apply(d))

-----------------------------------------------------------------------------
(* Properties.                                                             *)

\* Nothing a device is told sends it back and forth: unless the catalog has
\* changed since, what it was updated to is what it keeps, what it was rolled
\* back from it is never updated to again, and once reset it is left alone.
NoFlapping ==
  \A d \in Device : fresh[d] =>
     /\ via[d] = "UPDATE" => Answer(d) = NoUpdate
     /\ via[d] = "ROLLBACK" => Answer(d).status # "UPDATE"
     /\ via[d] = "ROLLBACK" /\ running[d] <= Floor[d] => Answer(d) = NoUpdate

\* An answer that no edit has overtaken is still the right one.
Timely ==
  \A d \in Device : timely[d] /\ reply[d] # NoReply => reply[d] = Answer(d)

\* No answer, overtaken or not, names a bundle older than the native build.
AboveFloor ==
  \A d \in Device : reply[d] # NoReply => reply[d].id = NIL \/ reply[d].id >= Floor[d]

\* The inductive invariant of FleetProofs.
FleetInv == TypeOK /\ Timely /\ AboveFloor /\ NoFlapping

\* A device is never moved to a bundle older than its native build.
NeverBelowFloor ==
  [][\A d \in Device : running'[d] # running[d] =>
        running'[d] = NIL \/ running'[d] >= Floor[d]]_vars

\* Once operators stop editing, every device ends up, and stays, on the
\* greatest bundle it is eligible for; without one, on none at all.
Settled(d) == running[d] \in Destination(Candidates(d), Eligible(d), Floor[d])
Converges ==
  <>[][FALSE]_catalog => \A d \in Device : <>[]Settled(d)
===============================================================================
