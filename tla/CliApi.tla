-------------------------------- MODULE CliApi --------------------------------
(***************************************************************************)
(* The writing handlers of the CLI API (create_bundles, update_bundle and  *)
(* delete_bundle of src/src/routes/api.rs), statement by statement, over   *)
(* MySQL/InnoDB: every request is served by its own task, all tasks share  *)
(* the pool and the two tables, and the tasks interleave between any two   *)
(* statements.                                                             *)
(*                                                                         *)
(* InnoDB is modelled by what the handlers rely on: a transaction writes   *)
(* into an overlay of its own that COMMIT merges and ROLLBACK drops; rows  *)
(* it wrote, patch lists it rewrote and parents of patches it inserted     *)
(* stay locked until then; a plain SELECT inside it reads the snapshot of  *)
(* the first such SELECT plus its own writes, every other statement reads  *)
(* the current rows (REPEATABLE READ).                                     *)
(***************************************************************************)
EXTENDS BundleData

CONSTANTS
  Handler,      \* the tasks serving requests
  Untouched,    \* "this transaction has not written this row"
  NoSnapshot,   \* no consistent read has been made yet
  NoRequest,
  NoAnswer

Answer == [status : {200, 201, 400, 401, 404, 500}, body : {"json", "text"}]

ASSUME HandlerAssumption ==
  /\ Untouched \notin Row \cup {NoRow}
  /\ NoRequest \notin Request
  /\ NoAnswer \notin Answer

VARIABLES
  bundles,    \* committed rows of `bundles`
  patches,    \* committed rows of `bundle_patches`, by bundle
  pc,         \* the statement each handler executes next
  req,        \* the request it serves
  item,       \* the bundle of the request it is at
  next,       \* order_index of the patch it is at
  set,        \* PATCH: the SET clause, metadata merged with the row read
  snapshot,   \* keys the transaction's consistent reads see
  rows,       \* the transaction's own writes to `bundles`
  cleared,    \* the bundles whose patches it has deleted
  lists,      \* the patches it has inserted since
  answer      \* the last response each handler sent

db == <<bundles, patches>>
tx == <<item, next, set, snapshot, rows, cleared, lists>>
vars == <<bundles, patches, pc, req, item, next, set, snapshot, rows, cleared, lists, answer>>

TypeOK ==
  /\ bundles \in [Key -> Row \cup {NoRow}]
  /\ patches \in [Key -> SUBSET PatchRow]
  /\ pc \in [Handler -> {"idle", "fetch", "write", "clear", "own", "insert",
                         "commit", "delete"}]
  /\ req \in [Handler -> Request \cup {NoRequest}]
  /\ item \in [Handler -> Nat \ {0}]
  /\ next \in [Handler -> Nat]
  /\ set \in [Handler -> SetClause \cup {Absent}]
  /\ snapshot \in [Handler -> (SUBSET Key) \cup {NoSnapshot}]
  /\ rows \in [Handler -> [Key -> Row \cup {NoRow, Untouched}]]
  /\ cleared \in [Handler -> SUBSET Key]
  /\ lists \in [Handler -> [Key -> SUBSET PatchRow]]
  /\ answer \in [Handler -> Answer \cup {NoAnswer}]

-----------------------------------------------------------------------------
(* What a handler sees and holds.                                          *)

This(w) == req[w].items[item[w]]
KeyOf(w) == <<req[w].app, This(w).id>>
BaseKey(w, p) == <<req[w].app, p.base>>

\* The patch at position `next` of the list being inserted.
PatchAt(w) == CHOOSE p \in PatchRows(This(w).patches) : p.ord = next[w]

\* The set clause in force: the payload's own, or PATCH's merged one.
SetOf(w) == IF req[w].verb = "PATCH" THEN set[w] ELSE This(w).set

\* A current read from inside the transaction.
Current(w, k) == IF rows[w][k] # Untouched THEN rows[w][k] ELSE bundles[k]

RowLocked(v, k) == rows[v][k] # Untouched
ListLocked(v, k) == k \in cleared[v]

\* Inserting a patch takes a shared lock on both rows it refers to.
ParentLocked(v, k) ==
  \E q \in cleared[v] : \E p \in lists[v][q] : k \in {q, <<q[1], p.base>>}

\* The locks the next statement of w needs, and the handlers in its way.
Conflicts(w, v) ==
  LET k == KeyOf(w) IN
  CASE pc[w] = "write"  -> /\ HasColumns(SetOf(w))
                           /\ RowLocked(v, k) \/ ParentLocked(v, k)
    [] pc[w] = "clear"  -> ListLocked(v, k)
    [] pc[w] = "insert" -> RowLocked(v, k) \/ RowLocked(v, BaseKey(w, PatchAt(w)))
    [] pc[w] = "delete" -> \/ RowLocked(v, k) \/ ParentLocked(v, k)
                           \/ \E q \in cleared[v] : Cascade(patches, k)[q] # patches[q]
    [] OTHER -> FALSE

Blocked(w) == \E v \in Handler \ {w} : Conflicts(w, v)

\* The transaction is over: its handler answers and forgets it.  With no
\* COMMIT before it this is the rollback of the dropped sqlx transaction.
Finish(w, status, body) ==
  /\ answer' = [answer EXCEPT ![w] = [status |-> status, body |-> body]]
  /\ pc' = [pc EXCEPT ![w] = "idle"]
  /\ req' = [req EXCEPT ![w] = NoRequest]
  /\ item' = [item EXCEPT ![w] = 1]
  /\ next' = [next EXCEPT ![w] = 0]
  /\ set' = [set EXCEPT ![w] = Absent]
  /\ snapshot' = [snapshot EXCEPT ![w] = NoSnapshot]
  /\ rows' = [rows EXCEPT ![w] = [k \in Key |-> Untouched]]
  /\ cleared' = [cleared EXCEPT ![w] = {}]
  /\ lists' = [lists EXCEPT ![w] = [k \in Key |-> {}]]

Goto(w, label) == pc' = [pc EXCEPT ![w] = label]

\* The loop over the batch that stays at its bundle.
AdvanceWithinBundle(w, n) ==
  IF \E p \in PatchRows(This(w).patches) : p.ord = n
  THEN /\ Goto(w, "own")
       /\ next' = [next EXCEPT ![w] = n]
       /\ UNCHANGED item
  ELSE /\ next' = [next EXCEPT ![w] = 0]
       /\ Goto(w, IF item[w] < Len(req[w].items) THEN "write" ELSE "commit")
       /\ UNCHANGED item

\* The patch loop of one bundle has `n` patches left to do from `next`; then
\* the next bundle of the batch, then COMMIT.
AdvanceFrom(w, n) ==
  IF \E p \in PatchRows(This(w).patches) : p.ord = n
  THEN /\ Goto(w, "own")
       /\ next' = [next EXCEPT ![w] = n]
       /\ UNCHANGED item
  ELSE /\ next' = [next EXCEPT ![w] = 0]
       /\ IF item[w] < Len(req[w].items)
          THEN Goto(w, "write") /\ item' = [item EXCEPT ![w] = @ + 1]
          ELSE Goto(w, "commit") /\ UNCHANGED item

-----------------------------------------------------------------------------
(* The handlers.                                                           *)

Init ==
  /\ bundles = [k \in Key |-> NoRow]
  /\ patches = [k \in Key |-> {}]
  /\ pc = [w \in Handler |-> "idle"]
  /\ req = [w \in Handler |-> NoRequest]
  /\ item = [w \in Handler |-> 1]
  /\ next = [w \in Handler |-> 0]
  /\ set = [w \in Handler |-> Absent]
  /\ snapshot = [w \in Handler |-> NoSnapshot]
  /\ rows = [w \in Handler |-> [k \in Key |-> Untouched]]
  /\ cleared = [w \in Handler |-> {}]
  /\ lists = [w \in Handler |-> [k \in Key |-> {}]]
  /\ answer = [w \in Handler |-> NoAnswer]

\* Validation of the payload without the row constraints.
RefusalBySyntax(r) ==
  IF Authorize(r) # 200 THEN Authorize(r)
  ELSE IF r.malformed = "early" \/ (r.verb = "POST" /\ r.malformed = "late")
       THEN 400 ELSE 200

\* A request arrives, is authorized and has its payload validated: all of it
\* happens before the first statement.
Refusal(r) ==
  IF Authorize(r) # 200 THEN Authorize(r)
  ELSE IF \/ r.malformed = "early"
          \/ r.verb = "POST" /\ r.malformed = "late"
          \/ r.verb = "POST" /\ \E i \in DOMAIN r.items : ~Persistable(r.items[i].set)
       THEN 400 ELSE 200

FirstStatement(r) ==
  CASE r.verb = "POST"   -> IF r.items = <<>> THEN "commit" ELSE "write"
    [] r.verb = "PATCH"  -> "fetch"
    [] r.verb = "DELETE" -> "delete"

Receive(w, r) ==
  /\ pc[w] = "idle"
  /\ IF Refusal(r) # 200
     THEN /\ answer' = [answer EXCEPT ![w] = [status |-> Refusal(r), body |-> "json"]]
          /\ UNCHANGED <<pc, req>>
     ELSE /\ Goto(w, FirstStatement(r))
          /\ req' = [req EXCEPT ![w] = r]
          /\ answer' = [answer EXCEPT ![w] = NoAnswer]
  /\ UNCHANGED <<bundles, patches, tx>>

\* update_bundle reads the row through the pool, outside any transaction,
\* and decides everything from what it read.
Fetch(w) ==
  /\ pc[w] = "fetch"
  /\ LET row == bundles[KeyOf(w)] IN
     \/ row = NoRow /\ Finish(w, 404, "json")
     \/ /\ row # NoRow
        /\ LET merged == MergeMetadata(row, This(w).set) IN
           \/ /\ ~Persistable(Overwrite(row, merged)) \/ req[w].malformed = "late"
              /\ Finish(w, 400, "json")
           \/ /\ Persistable(Overwrite(row, merged)) /\ req[w].malformed # "late"
              /\ ~HasColumns(merged) /\ This(w).patches = Absent
              /\ Finish(w, 200, "json")
           \/ /\ Persistable(Overwrite(row, merged)) /\ req[w].malformed # "late"
              /\ HasColumns(merged) \/ This(w).patches # Absent
              /\ set' = [set EXCEPT ![w] = merged]
              /\ Goto(w, "write")
              /\ UNCHANGED <<req, item, next, snapshot, rows, cleared, lists, answer>>
  /\ UNCHANGED db

\* The upsert of create_bundles, the UPDATE of update_bundle.  An UPDATE of a
\* row that is gone affects nothing (it locks the gap) and is not an error;
\* one the CHECK constraint refuses is.
WriteRow(w) ==
  LET k == KeyOf(w)
      row == IF req[w].verb = "POST" THEN This(w).set
             ELSE IF Current(w, k) = NoRow THEN NoRow
             ELSE Overwrite(Current(w, k), set[w])
      after == IF req[w].verb = "PATCH" /\ This(w).patches = Absent
               THEN "commit" ELSE "clear"
  IN
  /\ pc[w] = "write"
  /\ ~Blocked(w)
  /\ \/ /\ HasColumns(SetOf(w)) /\ row # NoRow /\ ~SqlCheck(row)
        /\ Finish(w, 500, "json")
     \/ /\ HasColumns(SetOf(w))
        /\ row # NoRow => SqlCheck(row)
        /\ rows' = [rows EXCEPT ![w][k] = row]
        /\ Goto(w, after)
        /\ UNCHANGED <<req, item, next, set, snapshot, cleared, lists, answer>>
     \/ /\ ~HasColumns(SetOf(w))
        /\ Goto(w, after)
        /\ UNCHANGED <<req, item, next, set, snapshot, rows, cleared, lists, answer>>
  /\ UNCHANGED db

\* The DELETE without its app_name predicate.
ClearPatchesOfEveryApp(w) ==
  /\ pc[w] = "clear"
  /\ ~Blocked(w)
  /\ cleared' = [cleared EXCEPT ![w] = @ \cup { q \in Key : q[2] = This(w).id }]
  /\ lists' = [lists EXCEPT ![w] = [q \in Key |-> IF q[2] = This(w).id THEN {} ELSE @[q]]]
  /\ AdvanceFrom(w, 0)
  /\ UNCHANGED <<bundles, patches, req, set, snapshot, rows, answer>>

\* An upsert that leaves the bundle's previous patches in place.
KeepOldPatches(w) ==
  /\ pc[w] = "clear"
  /\ ~Blocked(w)
  /\ cleared' = [cleared EXCEPT ![w] = @ \cup {KeyOf(w)}]
  /\ lists' = [lists EXCEPT ![w][KeyOf(w)] = patches[KeyOf(w)]]
  /\ AdvanceFrom(w, 0)
  /\ UNCHANGED <<bundles, patches, req, set, snapshot, rows, answer>>

\* DELETE FROM bundle_patches WHERE app_name = ? AND bundle_id = ?
ClearPatches(w) ==
  /\ pc[w] = "clear"
  /\ ~Blocked(w)
  /\ cleared' = [cleared EXCEPT ![w] = @ \cup {KeyOf(w)}]
  /\ lists' = [lists EXCEPT ![w][KeyOf(w)] = {}]
  /\ AdvanceFrom(w, 0)
  /\ UNCHANGED <<bundles, patches, req, set, snapshot, rows, answer>>

\* app_owns_bundle, the transaction's only consistent read: the first call
\* fixes the snapshot of all the later ones.
Visible(w) ==
  IF snapshot[w] = NoSnapshot THEN { k \in Key : bundles[k] # NoRow } ELSE snapshot[w]

OwnsBase(w) ==
  LET k == BaseKey(w, PatchAt(w)) IN k \in Visible(w) \/ rows[w][k] \notin {NoRow, Untouched}

CheckBase(w) ==
  /\ pc[w] = "own"
  /\ \/ /\ OwnsBase(w)
        /\ snapshot' = [snapshot EXCEPT ![w] = Visible(w)]
        /\ Goto(w, "insert")
        /\ UNCHANGED <<req, item, next, set, rows, cleared, lists, answer>>
     \/ /\ ~OwnsBase(w)
        /\ Finish(w, 400, IF req[w].verb = "POST" THEN "text" ELSE "json")
  /\ UNCHANGED db

\* The INSERT passes if both foreign keys hold and the primary key is new.
InsertAccepted(w) ==
  /\ Current(w, KeyOf(w)) # NoRow
  /\ Current(w, BaseKey(w, PatchAt(w))) # NoRow
  /\ \A p \in lists[w][KeyOf(w)] : p.base # PatchAt(w).base

InsertPatch(w) ==
  /\ pc[w] = "insert"
  /\ ~Blocked(w)
  /\ \/ /\ InsertAccepted(w)
        /\ lists' = [lists EXCEPT ![w][KeyOf(w)] = @ \cup {PatchAt(w)}]
        /\ AdvanceFrom(w, next[w] + 1)
        /\ UNCHANGED <<req, set, snapshot, rows, cleared, answer>>
     \/ /\ ~InsertAccepted(w)
        /\ Finish(w, 500, "json")
  /\ UNCHANGED db

\* COMMIT merges the overlay; `status` is what the client is told.
Merge(w) ==
  /\ bundles' = [k \in Key |-> IF rows[w][k] # Untouched THEN rows[w][k] ELSE bundles[k]]
  /\ patches' = [k \in Key |-> IF k \in cleared[w] THEN lists[w][k] ELSE patches[k]]

Commit(w) ==
  /\ pc[w] = "commit"
  /\ Merge(w)
  /\ Finish(w, IF req[w].verb = "POST" THEN 201 ELSE 200, "json")

\* A single statement outside any transaction; a missing row is no error.
Remove(w) ==
  /\ ~Blocked(w)
  /\ bundles' = [bundles EXCEPT ![KeyOf(w)] = NoRow]
  /\ patches' = Cascade(patches, KeyOf(w))

DeleteBundle(w) ==
  /\ pc[w] = "delete"
  /\ Remove(w)
  /\ Finish(w, 200, "json")

\* The connection breaks after the database has committed: the handler sees
\* an error and answers 500.
Unacknowledged(w) ==
  /\ \/ pc[w] = "commit" /\ Merge(w)
     \/ pc[w] = "delete" /\ Remove(w)
  /\ Finish(w, 500, "json")

\* InnoDB ends every wait that no lock release ends: a deadlock victim or
\* innodb_lock_wait_timeout.
WaitAborted(w) ==
  /\ Blocked(w)
  /\ Finish(w, 500, "json")
  /\ UNCHANGED db

\* Any statement may fail (connection lost, pool exhausted, server restart).
StatementFails(w) ==
  /\ pc[w] # "idle"
  /\ Finish(w, 500, "json")
  /\ UNCHANGED db

\* The process is killed: every open transaction is rolled back, no answer.
Crash ==
  /\ \E w \in Handler : pc[w] # "idle"
  /\ pc' = [w \in Handler |-> "idle"]
  /\ req' = [w \in Handler |-> NoRequest]
  /\ item' = [w \in Handler |-> 1]
  /\ next' = [w \in Handler |-> 0]
  /\ set' = [w \in Handler |-> Absent]
  /\ snapshot' = [w \in Handler |-> NoSnapshot]
  /\ rows' = [w \in Handler |-> [k \in Key |-> Untouched]]
  /\ cleared' = [w \in Handler |-> {}]
  /\ lists' = [w \in Handler |-> [k \in Key |-> {}]]
  /\ UNCHANGED <<bundles, patches, answer>>

Statement(w) ==
  \/ Fetch(w) \/ WriteRow(w) \/ ClearPatches(w) \/ CheckBase(w) \/ InsertPatch(w)
  \/ Commit(w) \/ DeleteBundle(w) \/ WaitAborted(w)

Next ==
  \/ \E w \in Handler : \/ \E r \in Request : Receive(w, r)
                        \/ Statement(w)
                        \/ Unacknowledged(w)
                        \/ StatementFails(w)
  \/ Crash

Spec == Init /\ [][Next]_vars

\* A task that can run does run, and InnoDB ends every lock wait.
FairSpec == Spec /\ \A w \in Handler : WF_vars(Statement(w))

-----------------------------------------------------------------------------
(* Properties.                                                             *)

\* What is known of a handler at each statement: it serves an authorized
\* request, writes only inside a transaction, and only rows of its application.
ControlOf(w) ==
  /\ pc[w] = "idle" <=> req[w] = NoRequest
  /\ pc[w] = "idle" => item[w] = 1
  /\ pc[w] # "idle" => req[w].app \in App /\ req[w].token = req[w].app
  /\ pc[w] = "fetch" => req[w].verb = "PATCH"
  /\ pc[w] = "delete" => req[w].verb = "DELETE"
  /\ pc[w] \in {"write", "clear", "own", "insert", "commit"} => req[w].verb # "DELETE"
  /\ pc[w] \notin {"idle", "commit"} => item[w] \in DOMAIN req[w].items
  /\ pc[w] = "write" /\ req[w].verb = "PATCH" => set[w] \in SetClause
  /\ pc[w] \in {"own", "insert"} =>
        /\ KeyOf(w) \in cleared[w]
        /\ \E p \in PatchRows(This(w).patches) : p.ord = next[w]
  /\ pc[w] \in {"idle", "fetch", "delete"} =>
        cleared[w] = {} /\ rows[w] = [k \in Key |-> Untouched]
  /\ \A k \in Key : RowLocked(w, k) \/ ListLocked(w, k) => k[1] = req[w].app

ControlInv == \A w \in Handler : ControlOf(w)

\* What the locks guarantee: rows and lists have one writer at a time, a row
\* locked as absent is absent, and the two rows every inserted patch refers
\* to exist and are written by nobody else until the transaction ends.
LocksOf(w, k) ==
  /\ RowLocked(w, k) => \A v \in Handler \ {w} : ~RowLocked(v, k)
  /\ ListLocked(w, k) => \A v \in Handler \ {w} : ~ListLocked(v, k)
  /\ rows[w][k] = NoRow => bundles[k] = NoRow
  /\ ParentLocked(w, k) => /\ Current(w, k) # NoRow
                           /\ \A v \in Handler \ {w} : ~RowLocked(v, k)

LockInv == \A w \in Handler : \A k \in Key : LocksOf(w, k)

\* Every committed patch refers to two committed bundles of its own
\* application, however inserts of patches interleave with deletes of their
\* bases (the composite foreign keys and the locks their checks take).
PatchEndpointsExist == PatchEndpoints(bundles, patches)

\* The inductive invariant of CliApiProofs.
IInv == TypeOK /\ ControlInv /\ LockInv /\ PatchEndpointsExist

\* No step changes a row of an application unless a request authorized with
\* that application's token is committing or deleting at that step.
TenantIsolation ==
  [][\A k \in Key : bundles'[k] # bundles[k] \/ patches'[k] # patches[k] =>
        \E w \in Handler : /\ pc[w] \in {"commit", "delete"}
                           /\ req[w].token = k[1]]_vars

\* app_owns_bundle leaves the foreign keys nothing to refuse but a race: a
\* patch INSERT fails only when a row the request had seen was deleted since.
ForeignKeyErrorsAreRaces ==
  \A w \in Handler : pc[w] = "insert" /\ ~InsertAccepted(w) =>
     \/ BaseKey(w, PatchAt(w)) \in snapshot[w] /\ bundles[BaseKey(w, PatchAt(w))] = NoRow
     \/ req[w].verb = "PATCH" /\ bundles[KeyOf(w)] = NoRow

\* The handlers implement the atomic catalog: batches are all or nothing,
\* patch lists are replaced whole, answers tell the truth about the effect.
Catalog == INSTANCE BundleCatalog WITH
  bundles <- bundles, patches <- patches, req <- req, answer <- answer
ImplementsCatalog == Catalog!Spec

\* Every request is answered, in spite of requests that wait for each other's
\* locks (two batches publishing the same bundles in opposite orders).
EveryRequestAnswered ==
  \A w \in Handler : pc[w] # "idle" ~> pc[w] = "idle"

\* "Bundle must define either targetAppVersion or fingerprintHash": no
\* committed row has both blank (assert_bundle_persistence_constraints).
CommittedRowsPersistable ==
  \A k \in Key : bundles[k] # NoRow => Persistable(bundles[k])

\* A PATCH about to commit over a row that is there, and what it sent.
Patching(w) == pc[w] = "commit" /\ req[w].verb = "PATCH" /\ bundles[KeyOf(w)] # NoRow
Sent(w) == req[w].items[1].set.metadata

\* "Deep merged into the stored value, never replaced" (UpdateBundlePayload):
\* a PATCH that sends an object leaves, once it commits, the keys the row had
\* until then and those it sent, and no others.
MetadataIsMerged ==
  [][\A w \in Handler :
        Patching(w) /\ Commit(w) /\ Sent(w) \notin {Null, Absent} /\ Sent(w).object
        => bundles'[KeyOf(w)].metadata =
             [object |-> TRUE, keys |-> bundles[KeyOf(w)].metadata.keys \cup Sent(w).keys]]_vars
===============================================================================
