------------------------------ MODULE Migrations ------------------------------
(***************************************************************************)
(* The schema migrations (src/migrations) as the server runs them at       *)
(* startup (init_db_with_options of src/src/db.rs), statement by           *)
(* statement: MySQL commits every DDL statement by itself, so a failure or *)
(* a crash leaves a migration half done.  sqlx records a migration as      *)
(* unfinished with its first DDL statement and as done after its last, and *)
(* refuses to start over an unfinished one.                                *)
(*                                                                         *)
(* An instance of an earlier release may still be serving while the new    *)
(* one migrates or fails to; it goes on attaching patches and deleting     *)
(* bundles under whatever keys are there.                                  *)
(***************************************************************************)
EXTENDS Naturals, Sequences

CONSTANTS
  App, Id,
  NoApp,       \* a patch row without app_name, or with NULL in it
  Database,    \* what the server may be started on
  MaxCrashes,  \* bound: how often the migrating process is killed
  MaxWrites    \* bound: requests served by the earlier release meanwhile

\* `valid` is the CHECK constraint's condition on the row.
BundleRow == [app : App, id : Id, valid : BOOLEAN]
PatchRow == [app : App \cup {NoApp}, bundle : Id, base : Id]

\* What statements create, require and drop.
Object == {"bundles", "bundle_patches", "settings", "bundle_fk", "base_fk", "scoped_keys",
           "text_indexes", "prefix_indexes", "checks", "ascii_ids", "app_column",
           "app_required", "app_index", "bundle_id_index", "base_id_index",
           "app_patch_indexes"}

Migration == 1..5
Recorded == {"no", "unfinished", "done"}

ASSUME MigrationsAssumption ==
  /\ NoApp \notin App
  /\ MaxCrashes \in Nat /\ MaxWrites \in Nat
  /\ Database \subseteq [bundles : SUBSET BundleRow, patches : SUBSET PatchRow,
                         schema : SUBSET Object, recorded : [Migration -> Recorded]]

\* What MySQL and sqlx keep true of every database: migrations are run in the
\* order of their numbers, what a migration adds last is there once it is done,
\* and a constraint holds of the rows.  The foreign keys are scoped by the last
\* migration, after it has made app_name NOT NULL.
Consistent(bs, ps, objects, records) ==
  /\ \A m, n \in Migration : m < n /\ records[n] # "no" => records[m] = "done"
  /\ records[3] = "done" => "checks" \in objects
  /\ "checks" \in objects => \A b \in bs : b.valid
  /\ records[5] = "done" => "scoped_keys" \in objects
  /\ "scoped_keys" \in objects =>
       /\ records[4] = "done"
       /\ {"bundle_fk", "base_fk", "app_required"} \subseteq objects
       /\ \A p \in ps : \A id \in {p.bundle, p.base} : \E b \in bs : b.app = p.app /\ b.id = id

ASSUME DatabaseAssumption ==
  \A d \in Database : Consistent(d.bundles, d.patches, d.schema, d.recorded)

VARIABLES
  bundles,   \* rows of `bundles`
  patches,   \* rows of `bundle_patches`
  schema,    \* the objects that exist
  recorded,  \* _sqlx_migrations
  server,    \* "down", "migrating" or "serving"
  at,        \* the statement the migration is at
  crashes, writes,
  fresh      \* observed: patches attached since app_name was added

vars == <<bundles, patches, schema, recorded, server, at, crashes, writes, fresh>>
counters == <<crashes, writes>>

-----------------------------------------------------------------------------
(* The statements.                                                         *)

Statement(name, when, drops, adds) == [name |-> name, when |-> when, drops |-> drops, adds |-> adds]

\* A plain statement fails when what it drops is not there or what it adds is.
Drop(objects) == Statement("ddl", "always", objects, {})
Add(objects) == Statement("ddl", "always", {}, objects)

\* A guarded one is skipped instead.
CreateIfMissing(objects) == Statement("ddl", "missing", {}, objects)
DropIfThere(objects) == Statement("ddl", "there", objects, {})

\* MODIFY COLUMN, and what reads or writes rows.
Modify(objects) == Statement("modify", "always", {}, objects)
Rows(name) == Statement(name, "always", {}, {})
AddKeys(name, objects) == Statement(name, "always", {}, objects)

init ==
  <<CreateIfMissing({"bundles", "text_indexes", "app_index"}),
    CreateIfMissing({"bundle_patches", "bundle_fk", "base_fk", "bundle_id_index", "base_id_index"}),
    CreateIfMissing({"settings"}), Rows("insert_ignore")>>

widen_string_columns ==
  <<Drop({"text_indexes"}), Modify({}), Add({"prefix_indexes"}), Modify({})>>

bundle_check_constraints == <<AddKeys("checks", {"checks"})>>

\* The drops as the first revision of the file had them.
CollationAsFirstPublished ==
  <<Drop({"bundle_fk", "base_fk"}), Modify({"ascii_ids"}), Modify({"ascii_ids"}),
    AddKeys("keys", {"bundle_fk", "base_fk"})>>

id_ascii_bin_collation ==
  <<DropIfThere({"bundle_fk"}), DropIfThere({"base_fk"}),
    Modify({"ascii_ids"}), Modify({"ascii_ids"}),
    AddKeys("keys", {"bundle_fk", "base_fk"})>>

\* The backfill after the rows without an owner are deleted.
DeleteBeforeBackfill ==
  <<Drop({"bundle_fk", "base_fk"}), Add({"app_column"}),
    Rows("delete_unowned"), Rows("backfill"), AddKeys("required", {"app_required"}),
    Modify({}), Modify({}), Drop({"app_index"}), Add({"app_patch_indexes"}),
    AddKeys("owned_keys", {"bundle_fk", "base_fk", "scoped_keys"}),
    Drop({"bundle_id_index"}), Drop({"base_id_index"})>>

\* The base is not tied to the patch's application.
BundleKeyOnly ==
  <<Drop({"bundle_fk", "base_fk"}), Add({"app_column"}),
    Rows("backfill"), Rows("delete_unowned"), AddKeys("required", {"app_required"}),
    Modify({}), Modify({}), Drop({"app_index"}), Add({"app_patch_indexes"}),
    AddKeys("unowned_base", {"bundle_fk", "base_fk", "scoped_keys"}),
    Drop({"bundle_id_index"}), Drop({"base_id_index"})>>

\* The two statements that replace the primary keys cannot fail: ids are
\* unique before, and pairs of them with an application are after.
tenant_scoped_primary_keys ==
  <<Drop({"bundle_fk", "base_fk"}), Add({"app_column"}),
    Rows("backfill"), Rows("delete_unowned"), AddKeys("required", {"app_required"}),
    Modify({}), Modify({}), Drop({"app_index"}), Add({"app_patch_indexes"}),
    AddKeys("owned_keys", {"bundle_fk", "base_fk", "scoped_keys"}),
    Drop({"bundle_id_index"}), Drop({"base_id_index"})>>

migrations ==
  <<init, widen_string_columns, bundle_check_constraints,
    id_ascii_bin_collation, tenant_scoped_primary_keys>>

Exists(id) == \E b \in bundles : b.id = id
ExistsFor(app, id) == \E b \in bundles : b.app = app /\ b.id = id

\* ADD CONSTRAINT and NOT NULL look at every row there is.
RowsAllow(name) ==
  CASE name = "checks" -> \A b \in bundles : b.valid
    [] name = "keys" -> \A p \in patches : Exists(p.bundle) /\ Exists(p.base)
    [] name = "required" -> \A p \in patches : p.app # NoApp
    [] name = "owned_keys" ->
         \A p \in patches : ExistsFor(p.app, p.bundle) /\ ExistsFor(p.app, p.base)
    [] name = "unowned_base" -> \A p \in patches : ExistsFor(p.app, p.bundle)
    [] OTHER -> TRUE

Skipped(s) == \/ s.when = "missing" /\ s.adds \cap schema # {}
              \/ s.when = "there" /\ ~(s.drops \subseteq schema)

Succeeds(s) == /\ s.drops \subseteq schema
               /\ s.name = "modify" \/ s.adds \cap schema = {}
               /\ RowsAllow(s.name)

\* The rows after it: UPDATE ... JOIN, and DELETE ... WHERE app_name IS NULL.
PatchesAfter(s) ==
  CASE s.name = "backfill" ->
         { IF Exists(p.bundle) THEN [p EXCEPT !.app = (CHOOSE b \in bundles : b.id = p.bundle).app]
           ELSE p : p \in patches }
    [] s.name = "delete_unowned" -> { p \in patches : p.app # NoApp }
    [] OTHER -> patches

-----------------------------------------------------------------------------
(* The server.                                                             *)

Pending == { m \in Migration : recorded[m] # "done" }
Current == CHOOSE m \in Pending : \A n \in Pending : m <= n

\* sqlx refuses to start over an unfinished migration: the process exits.
Start ==
  /\ server = "down"
  /\ \A m \in Migration : recorded[m] # "unfinished"
  /\ server' = "migrating" /\ at' = 1
  /\ UNCHANGED <<bundles, patches, schema, recorded, counters, fresh>>

\* One statement of the first migration that is not done.  The first one that
\* is DDL commits the record of the attempt; DO 0, in the place of a guarded
\* drop, is not.  The error of a statement that fails ends the process.
Execute ==
  /\ server = "migrating" /\ Pending # {}
  /\ at <= Len(migrations[Current])
  /\ LET s == migrations[Current][at] IN
     /\ recorded' = IF s.when = "there" /\ Skipped(s) THEN recorded ELSE [recorded EXCEPT ![Current] = "unfinished"]
     /\ IF Skipped(s) \/ ~Succeeds(s) THEN UNCHANGED <<schema, patches>>
        ELSE /\ schema' = (schema \ (s.drops \cup IF "bundle_fk" \in s.drops THEN {"scoped_keys"} ELSE {}))
                          \cup s.adds
             /\ patches' = PatchesAfter(s)
     /\ IF Skipped(s) \/ Succeeds(s) THEN at' = at + 1 /\ UNCHANGED server
        ELSE at' = 1 /\ server' = "down"
  /\ UNCHANGED <<bundles, counters, fresh>>

Finish ==
  /\ server = "migrating" /\ Pending # {}
  /\ at = Len(migrations[Current]) + 1
  /\ recorded' = [recorded EXCEPT ![Current] = "done"]
  /\ at' = 1
  /\ UNCHANGED <<bundles, patches, schema, server, counters, fresh>>

\* The pool is handed to the router only after the last migration.
Serve ==
  /\ server = "migrating" /\ Pending = {}
  /\ server' = "serving"
  /\ UNCHANGED <<bundles, patches, schema, recorded, at, counters, fresh>>

\* The process or the database is killed between two statements.
Crash ==
  /\ server = "migrating" /\ crashes < MaxCrashes
  /\ crashes' = crashes + 1
  /\ server' = "down" /\ at' = 1
  /\ UNCHANGED <<bundles, patches, schema, recorded, writes, fresh>>

-----------------------------------------------------------------------------
(* The operator's repair, as the header of id_ascii_bin_collation has it:  *)
(* remove the orphans, then clear the failed attempt.                      *)

Repairable == server = "down" /\ recorded[4] = "unfinished"

RemoveOrphans ==
  /\ Repairable
  /\ patches' = { p \in patches : Exists(p.bundle) /\ Exists(p.base) }
  /\ patches' # patches
  /\ UNCHANGED <<bundles, schema, recorded, server, at, counters, fresh>>

ClearFailed ==
  /\ Repairable
  /\ \A p \in patches : Exists(p.bundle) /\ Exists(p.base)
  /\ recorded' = [recorded EXCEPT ![4] = "no"]
  /\ UNCHANGED <<bundles, patches, schema, server, at, counters, fresh>>

-----------------------------------------------------------------------------
(* An instance of the release before the tenant keys.  It attaches patches *)
(* to a bundle and a base of one application, without an app_name.         *)

EarlierServes ==
  /\ server # "serving" /\ writes < MaxWrites
  /\ {"bundles", "bundle_patches"} \subseteq schema
  /\ writes' = writes + 1

EarlierAttaches ==
  /\ EarlierServes
  /\ "app_required" \notin schema
  /\ \E b, base \in bundles :
       /\ b.app = base.app
       /\ \A p \in patches : ~(p.bundle = b.id /\ p.base = base.id)
       /\ LET p == [app |-> NoApp, bundle |-> b.id, base |-> base.id] IN
          /\ patches' = patches \cup {p}
          /\ fresh' = IF "app_column" \in schema THEN fresh \cup {p} ELSE fresh
  /\ UNCHANGED <<bundles, schema, recorded, server, at, crashes>>

\* ON DELETE CASCADE of the keys that are there; each names the application
\* too once they are scoped.
Cascades(b, p) ==
  /\ "scoped_keys" \in schema => p.app = b.app
  /\ \/ "bundle_fk" \in schema /\ p.bundle = b.id
     \/ "base_fk" \in schema /\ p.base = b.id

EarlierDeletes ==
  /\ EarlierServes
  /\ \E b \in bundles :
       /\ bundles' = bundles \ {b}
       /\ patches' = { p \in patches : ~Cascades(b, p) }
  /\ UNCHANGED <<schema, recorded, server, at, crashes, fresh>>

-----------------------------------------------------------------------------

Init ==
  /\ \E d \in Database : /\ bundles = d.bundles /\ patches = d.patches
                         /\ schema = d.schema /\ recorded = d.recorded
  /\ server = "down" /\ at = 1
  /\ crashes = 0 /\ writes = 0 /\ fresh = {}

Migrate == Execute \/ Finish \/ Serve

Next ==
  \/ Start \/ Migrate \/ Crash
  \/ RemoveOrphans \/ ClearFailed
  \/ EarlierAttaches \/ EarlierDeletes

\* The supervisor restarts a server that exited, a migration goes on, and the
\* operator follows the procedure as often as it takes.
Fairness == WF_vars(Start) /\ WF_vars(Migrate) /\ WF_vars(RemoveOrphans) /\ WF_vars(ClearFailed)

Spec == Init /\ [][Next]_vars /\ Fairness

-----------------------------------------------------------------------------
(* Properties.                                                             *)

\* A server that serves has the tenant keys, and every patch there is has its
\* bundle and its base in its own application, whatever an earlier release
\* wrote or deleted while keys were missing.
ServedCatalogIsScoped ==
  server = "serving" =>
    /\ {"bundle_fk", "base_fk", "scoped_keys", "checks"} \subseteq schema
    /\ \A b \in bundles : b.valid
    /\ \A p \in patches : ExistsFor(p.app, p.bundle) /\ ExistsFor(p.app, p.base)

\* No statement of a migration takes a bundle, or a patch whose bundle and
\* base exist, but for those the earlier release attached while app_name was
\* there and it did not know of it.
UsablePatchesSurvive ==
  [][Execute => \A p \in patches :
        \/ \E q \in patches' : q.bundle = p.bundle /\ q.base = p.base
        \/ ~Exists(p.bundle) \/ ~Exists(p.base)
        \/ p \in fresh]_vars

\* "Then start the server: this migration re-runs from the top and restores
\* both foreign keys itself": wherever it stopped and whatever orphans were
\* written meanwhile, the repair gets id_ascii_bin_collation done.
RepairCompletes == recorded[4] = "unfinished" ~> recorded[4] = "done"

\* README: "Two things to check before upgrading an existing database, because
\* both fail in ways that stop the server from starting": a database whose
\* rows pass, upgraded without a crash and with no other writer, starts.
CheckedDatabaseStarts ==
  crashes = 0 /\ writes = 0 /\ (\A b \in bundles : b.valid) /\ server = "down"
    => \A m \in Migration : recorded[m] # "unfinished"
===============================================================================
