--------------------------- MODULE MigrationsProofs ---------------------------
(***************************************************************************)
(* What the schema migrations keep, for any applications, bundles, patches *)
(* and consistent databases, any number of crashes, and whatever an        *)
(* earlier release writes meanwhile: a server that serves has every patch  *)
(* scoped to one application, and no usable patch is lost on the way.      *)
(***************************************************************************)
EXTENDS Migrations, TLAPS

-----------------------------------------------------------------------------
(* The invariant.                                                          *)

TypeOK ==
  /\ bundles \subseteq BundleRow /\ patches \subseteq PatchRow
  /\ schema \subseteq Object
  /\ recorded \in [Migration -> Recorded]
  /\ server \in {"down", "migrating", "serving"}
  /\ at \in Nat \ {0}

Whole == Consistent(bundles, patches, schema, recorded)

\* Which of the last migration's effects are there while it runs.
Scoping ==
  /\ at > 1 => ("scoped_keys" \in schema <=> at > 10)
  /\ at > 2 => "app_column" \in schema
  /\ at > 5 => "app_required" \in schema
  /\ at = 4 => \A p \in patches : p.app = NoApp => ~Exists(p.bundle) \/ p \in fresh

\* How far the migration that runs has come.
Progress ==
  server = "migrating" /\ Pending # {} =>
    /\ Current = 3 /\ at > 1 => "checks" \in schema
    /\ Current = 5 => Scoping

\* The pool is handed over only when everything is done.
Handed == server = "serving" => Pending = {}

MigrationsInv == TypeOK /\ Whole /\ Progress /\ Handed

-----------------------------------------------------------------------------
(* The statements.                                                         *)

\* The migration that runs is the first that is not done.
LEMMA CurrentIsFirst ==
  ASSUME TypeOK, Pending # {}
  PROVE  /\ Current \in Migration /\ recorded[Current] # "done"
         /\ \A m \in Migration : m < Current => recorded[m] = "done"
<1> DEFINE First(m) == m \in Pending /\ \A n \in Pending : m <= n
<1>1. Pending \subseteq 1..5
  BY DEF Pending, Migration
<1>2. \E m \in Pending : First(m)
  <2>1. CASE 1 \in Pending
    BY <1>1, <2>1
  <2>2. CASE 1 \notin Pending /\ 2 \in Pending
    BY <1>1, <2>2
  <2>3. CASE 1 \notin Pending /\ 2 \notin Pending /\ 3 \in Pending
    BY <1>1, <2>3
  <2>4. CASE 1 \notin Pending /\ 2 \notin Pending /\ 3 \notin Pending /\ 4 \in Pending
    BY <1>1, <2>4
  <2>5. CASE 1 \notin Pending /\ 2 \notin Pending /\ 3 \notin Pending /\ 4 \notin Pending
    <3>1. PICK m \in Pending : TRUE
      OBVIOUS
    <3>2. m = 5
      BY <1>1, <2>5, <3>1
    <3>3. QED
      BY <1>1, <2>5, <3>1, <3>2
  <2>6. QED
    BY <2>1, <2>2, <2>3, <2>4, <2>5
<1>3. First(Current)
  BY <1>2 DEF Current
<1>4. QED
  BY <1>3 DEF Pending, Migration

Numbered(m, i) == m \in Migration /\ i \in 1..Len(migrations[m])

\* What each migration is made of, as far as the keys, the constraint and the
\* owners of patches go.
Part(m, i, s) ==
  /\ s.drops \subseteq Object /\ s.adds \subseteq Object
  /\ \A o \in {"checks", "scoped_keys", "app_column", "app_required"} : o \notin s.drops
  /\ "base_fk" \in s.drops \/ "bundle_fk" \in s.drops => m >= 4
  /\ m = 4 => /\ s.name \in {"ddl", "modify", "keys"}
              /\ "checks" \notin s.adds /\ "scoped_keys" \notin s.adds
  /\ m < 3 => /\ s.name \notin {"backfill", "delete_unowned"}
              /\ "checks" \notin s.adds /\ "scoped_keys" \notin s.adds
  /\ m = 3 => s.name = "checks" /\ s.adds = {"checks"} /\ s.when = "always"
  /\ m = 5 =>
       /\ s.when = "always" /\ "checks" \notin s.adds
       /\ i = 1 => s = Drop({"bundle_fk", "base_fk"})
       /\ i > 1 => "bundle_fk" \notin s.drops /\ "base_fk" \notin s.drops
       /\ "scoped_keys" \in s.adds <=> i = 10
       /\ i = 2 => s = Add({"app_column"})
       /\ i = 3 => s = Rows("backfill")
       /\ i = 4 => s = Rows("delete_unowned")
       /\ i = 5 => s = AddKeys("required", {"app_required"})
       /\ i = 10 => s = AddKeys("owned_keys", {"bundle_fk", "base_fk", "scoped_keys"})
       /\ i \notin {3, 4} => s.name \notin {"backfill", "delete_unowned"}

LEMMA Parts ==
  ASSUME NEW m, NEW i, Numbered(m, i)
  PROVE  Part(m, i, migrations[m][i])
<1>1. CASE m = 1
  <2>1. migrations[m] = init
    BY <1>1 DEF migrations
  <2>2. Len(init) = 4 /\ i \in 1..4
    BY <2>1 DEF Numbered, init
  <2>3. CASE i = 1
    <3>1. init[1] = CreateIfMissing({"bundles", "text_indexes", "app_index"})
      BY DEF init
    <3>2. QED
      BY <1>1, <2>1, <2>3, <3>1 DEF Part, Object, Statement, CreateIfMissing
  <2>4. CASE i = 2
    <3>1. init[2] = CreateIfMissing({"bundle_patches", "bundle_fk", "base_fk", "bundle_id_index", "base_id_index"})
      BY DEF init
    <3>2. QED
      BY <1>1, <2>1, <2>4, <3>1 DEF Part, Object, Statement, CreateIfMissing
  <2>5. CASE i = 3
    <3>1. init[3] = CreateIfMissing({"settings"})
      BY DEF init
    <3>2. QED
      BY <1>1, <2>1, <2>5, <3>1 DEF Part, Object, Statement, CreateIfMissing
  <2>6. CASE i = 4
    <3>1. init[4] = Rows("insert_ignore")
      BY DEF init
    <3>2. QED
      BY <1>1, <2>1, <2>6, <3>1 DEF Part, Object, Statement, Rows
  <2>7. QED
    BY <2>2, <2>3, <2>4, <2>5, <2>6
<1>2. CASE m = 2
  <2>1. migrations[m] = widen_string_columns
    BY <1>2 DEF migrations
  <2>2. Len(widen_string_columns) = 4 /\ i \in 1..4
    BY <2>1 DEF Numbered, widen_string_columns
  <2>3. CASE i = 1
    <3>1. widen_string_columns[1] = Drop({"text_indexes"})
      BY DEF widen_string_columns
    <3>2. QED
      BY <1>2, <2>1, <2>3, <3>1 DEF Part, Object, Statement, Drop
  <2>4. CASE i = 2
    <3>1. widen_string_columns[2] = Modify({})
      BY DEF widen_string_columns
    <3>2. QED
      BY <1>2, <2>1, <2>4, <3>1 DEF Part, Object, Statement, Modify
  <2>5. CASE i = 3
    <3>1. widen_string_columns[3] = Add({"prefix_indexes"})
      BY DEF widen_string_columns
    <3>2. QED
      BY <1>2, <2>1, <2>5, <3>1 DEF Part, Object, Statement, Add
  <2>6. CASE i = 4
    <3>1. widen_string_columns[4] = Modify({})
      BY DEF widen_string_columns
    <3>2. QED
      BY <1>2, <2>1, <2>6, <3>1 DEF Part, Object, Statement, Modify
  <2>7. QED
    BY <2>2, <2>3, <2>4, <2>5, <2>6
<1>3. CASE m = 3
  <2>1. migrations[m] = bundle_check_constraints
    BY <1>3 DEF migrations
  <2>2. Len(bundle_check_constraints) = 1 /\ i \in 1..1
    BY <2>1 DEF Numbered, bundle_check_constraints
  <2>3. CASE i = 1
    <3>1. bundle_check_constraints[1] = AddKeys("checks", {"checks"})
      BY DEF bundle_check_constraints
    <3>2. QED
      BY <1>3, <2>1, <2>3, <3>1 DEF Part, Object, Statement, AddKeys
  <2>4. QED
    BY <2>2, <2>3
<1>4. CASE m = 4
  <2>1. migrations[m] = id_ascii_bin_collation
    BY <1>4 DEF migrations
  <2>2. Len(id_ascii_bin_collation) = 5 /\ i \in 1..5
    BY <2>1 DEF Numbered, id_ascii_bin_collation
  <2>3. CASE i = 1
    <3>1. id_ascii_bin_collation[1] = DropIfThere({"bundle_fk"})
      BY DEF id_ascii_bin_collation
    <3>2. QED
      BY <1>4, <2>1, <2>3, <3>1 DEF Part, Object, Statement, DropIfThere
  <2>4. CASE i = 2
    <3>1. id_ascii_bin_collation[2] = DropIfThere({"base_fk"})
      BY DEF id_ascii_bin_collation
    <3>2. QED
      BY <1>4, <2>1, <2>4, <3>1 DEF Part, Object, Statement, DropIfThere
  <2>5. CASE i = 3
    <3>1. id_ascii_bin_collation[3] = Modify({"ascii_ids"})
      BY DEF id_ascii_bin_collation
    <3>2. QED
      BY <1>4, <2>1, <2>5, <3>1 DEF Part, Object, Statement, Modify
  <2>6. CASE i = 4
    <3>1. id_ascii_bin_collation[4] = Modify({"ascii_ids"})
      BY DEF id_ascii_bin_collation
    <3>2. QED
      BY <1>4, <2>1, <2>6, <3>1 DEF Part, Object, Statement, Modify
  <2>7. CASE i = 5
    <3>1. id_ascii_bin_collation[5] = AddKeys("keys", {"bundle_fk", "base_fk"})
      BY DEF id_ascii_bin_collation
    <3>2. QED
      BY <1>4, <2>1, <2>7, <3>1 DEF Part, Object, Statement, AddKeys
  <2>8. QED
    BY <2>2, <2>3, <2>4, <2>5, <2>6, <2>7
<1>5. CASE m = 5
  <2>1. migrations[m] = tenant_scoped_primary_keys
    BY <1>5 DEF migrations
  <2>2. Len(tenant_scoped_primary_keys) = 12 /\ i \in 1..12
    BY <2>1 DEF Numbered, tenant_scoped_primary_keys
  <2>3. CASE i = 1
    <3>1. tenant_scoped_primary_keys[1] = Drop({"bundle_fk", "base_fk"})
      BY DEF tenant_scoped_primary_keys
    <3>2. QED
      BY <1>5, <2>1, <2>3, <3>1 DEF Part, Object, Statement, Drop
  <2>4. CASE i = 2
    <3>1. tenant_scoped_primary_keys[2] = Add({"app_column"})
      BY DEF tenant_scoped_primary_keys
    <3>2. QED
      BY <1>5, <2>1, <2>4, <3>1 DEF Part, Object, Statement, Add
  <2>5. CASE i = 3
    <3>1. tenant_scoped_primary_keys[3] = Rows("backfill")
      BY DEF tenant_scoped_primary_keys
    <3>2. QED
      BY <1>5, <2>1, <2>5, <3>1 DEF Part, Object, Statement, Rows
  <2>6. CASE i = 4
    <3>1. tenant_scoped_primary_keys[4] = Rows("delete_unowned")
      BY DEF tenant_scoped_primary_keys
    <3>2. QED
      BY <1>5, <2>1, <2>6, <3>1 DEF Part, Object, Statement, Rows
  <2>7. CASE i = 5
    <3>1. tenant_scoped_primary_keys[5] = AddKeys("required", {"app_required"})
      BY DEF tenant_scoped_primary_keys
    <3>2. QED
      BY <1>5, <2>1, <2>7, <3>1 DEF Part, Object, Statement, AddKeys
  <2>8. CASE i = 6
    <3>1. tenant_scoped_primary_keys[6] = Modify({})
      BY DEF tenant_scoped_primary_keys
    <3>2. QED
      BY <1>5, <2>1, <2>8, <3>1 DEF Part, Object, Statement, Modify
  <2>9. CASE i = 7
    <3>1. tenant_scoped_primary_keys[7] = Modify({})
      BY DEF tenant_scoped_primary_keys
    <3>2. QED
      BY <1>5, <2>1, <2>9, <3>1 DEF Part, Object, Statement, Modify
  <2>10. CASE i = 8
    <3>1. tenant_scoped_primary_keys[8] = Drop({"app_index"})
      BY DEF tenant_scoped_primary_keys
    <3>2. QED
      BY <1>5, <2>1, <2>10, <3>1 DEF Part, Object, Statement, Drop
  <2>11. CASE i = 9
    <3>1. tenant_scoped_primary_keys[9] = Add({"app_patch_indexes"})
      BY DEF tenant_scoped_primary_keys
    <3>2. QED
      BY <1>5, <2>1, <2>11, <3>1 DEF Part, Object, Statement, Add
  <2>12. CASE i = 10
    <3>1. tenant_scoped_primary_keys[10] = AddKeys("owned_keys", {"bundle_fk", "base_fk", "scoped_keys"})
      BY DEF tenant_scoped_primary_keys
    <3>2. QED
      BY <1>5, <2>1, <2>12, <3>1 DEF Part, Object, Statement, AddKeys
  <2>13. CASE i = 11
    <3>1. tenant_scoped_primary_keys[11] = Drop({"bundle_id_index"})
      BY DEF tenant_scoped_primary_keys
    <3>2. QED
      BY <1>5, <2>1, <2>13, <3>1 DEF Part, Object, Statement, Drop
  <2>14. CASE i = 12
    <3>1. tenant_scoped_primary_keys[12] = Drop({"base_id_index"})
      BY DEF tenant_scoped_primary_keys
    <3>2. QED
      BY <1>5, <2>1, <2>14, <3>1 DEF Part, Object, Statement, Drop
  <2>15. QED
    BY <2>2, <2>3, <2>4, <2>5, <2>6, <2>7, <2>8, <2>9, <2>10, <2>11, <2>12, <2>13, <2>14
<1>6. QED
  BY <1>1, <1>2, <1>3, <1>4, <1>5 DEF Numbered, Migration

-----------------------------------------------------------------------------
(* Rows.                                                                   *)

\* The backfill gives a patch the application of a bundle it has, and changes
\* nothing else of it.
LEMMA Backfilled ==
  ASSUME TypeOK, NEW s, s.name = "backfill", NEW q \in PatchesAfter(s)
  PROVE  /\ q \in PatchRow
         /\ \E p \in patches : q.bundle = p.bundle /\ q.base = p.base
         /\ Exists(q.bundle) => q.app \in App
<1>1. PICK p \in patches :
        q = IF Exists(p.bundle) THEN [p EXCEPT !.app = (CHOOSE b \in bundles : b.id = p.bundle).app]
            ELSE p
  BY DEF PatchesAfter
<1>2. p \in PatchRow
  BY DEF TypeOK
<1>3. CASE Exists(p.bundle)
  <2> DEFINE owner == CHOOSE b \in bundles : b.id = p.bundle
  <2>1. owner \in bundles
    BY <1>3 DEF Exists
  <2> HIDE DEF owner
  <2>2. owner.app \in App
    BY <2>1 DEF TypeOK, BundleRow
  <2>3. q = [p EXCEPT !.app = owner.app]
    BY <1>1, <1>3 DEF owner
  <2>4. QED
    BY <1>2, <2>2, <2>3 DEF PatchRow
<1>4. CASE ~Exists(p.bundle)
  BY <1>1, <1>2, <1>4
<1>5. QED
  BY <1>3, <1>4

\* What a statement leaves of the rows.
LEMMA RowsAfter ==
  ASSUME TypeOK, NEW s
  PROVE  /\ PatchesAfter(s) \subseteq PatchRow
         /\ s.name = "delete_unowned" => PatchesAfter(s) = { p \in patches : p.app # NoApp }
         /\ s.name \notin {"backfill", "delete_unowned"} => PatchesAfter(s) = patches
<1>1. s.name = "delete_unowned" => PatchesAfter(s) = { p \in patches : p.app # NoApp }
  BY DEF PatchesAfter
<1>2. s.name \notin {"backfill", "delete_unowned"} => PatchesAfter(s) = patches
  BY DEF PatchesAfter
<1>3. s.name = "backfill" => PatchesAfter(s) \subseteq PatchRow
  BY Backfilled
<1>4. QED
  BY <1>1, <1>2, <1>3 DEF TypeOK

-----------------------------------------------------------------------------
(* A statement of a migration.                                             *)

\* The statement takes effect, or nothing changes but the record.
Effective(s) ==
  /\ ~Skipped(s) /\ Succeeds(s)
  /\ schema' = (schema \ (s.drops \cup IF "bundle_fk" \in s.drops THEN {"scoped_keys"} ELSE {}))
               \cup s.adds
  /\ patches' = PatchesAfter(s)
  /\ at' = at + 1 /\ server' = server

Idle(s) ==
  /\ UNCHANGED <<schema, patches>>
  /\ \/ Skipped(s) /\ at' = at + 1 /\ server' = server
     \/ at' = 1 /\ server' = "down"

LEMMA ExecuteMeans ==
  ASSUME TypeOK, Execute, NEW s, s = migrations[Current][at]
  PROVE  /\ server = "migrating" /\ Pending # {} /\ Numbered(Current, at)
         /\ bundles' = bundles /\ fresh' = fresh
         /\ recorded' \in {recorded, [recorded EXCEPT ![Current] = "unfinished"]}
         /\ Pending' = Pending /\ Current' = Current
         /\ Effective(s) \/ Idle(s)
<1>1. /\ server = "migrating" /\ Pending # {} /\ at <= Len(migrations[Current])
      /\ bundles' = bundles /\ fresh' = fresh
      /\ recorded' \in {recorded, [recorded EXCEPT ![Current] = "unfinished"]}
  BY DEF Execute
<1>2. Current \in Migration /\ recorded[Current] # "done"
  BY <1>1, CurrentIsFirst
<1>3. Numbered(Current, at)
  <2>1. Len(migrations[Current]) \in Nat
    BY <1>2 DEF Migration, migrations, init, widen_string_columns, bundle_check_constraints,
                id_ascii_bin_collation, tenant_scoped_primary_keys
  <2>2. QED
    BY <1>1, <1>2, <2>1 DEF Numbered, TypeOK
<1>4. \A m \in Migration : recorded'[m] # "done" <=> recorded[m] # "done"
  BY <1>1, <1>2 DEF TypeOK
<1>5. Pending' = Pending
  BY <1>4 DEF Pending
<1>6. Current' = Current
  BY <1>5 DEF Current
<1>7. Effective(s) \/ Idle(s)
  BY DEF Execute, Effective, Idle
<1>8. QED
  BY <1>1, <1>3, <1>5, <1>6, <1>7

\* The records, and the keys, are those of consistent databases.
Ordered(records) == \A m, n \in Migration : m < n /\ records[n] # "no" => records[m] = "done"
Owned(p) == ExistsFor(p.app, p.bundle) /\ ExistsFor(p.app, p.base)

LEMMA WholeMeans ==
  Whole <=> /\ Ordered(recorded)
            /\ recorded[3] = "done" => "checks" \in schema
            /\ "checks" \in schema => \A b \in bundles : b.valid
            /\ recorded[5] = "done" => "scoped_keys" \in schema
            /\ "scoped_keys" \in schema =>
                 /\ recorded[4] = "done"
                 /\ {"bundle_fk", "base_fk", "app_required"} \subseteq schema
                 /\ \A p \in patches : Owned(p)
BY DEF Whole, Consistent, Ordered, Owned, ExistsFor

LEMMA ExecuteKeepsRecords ==
  ASSUME MigrationsInv, Execute
  PROVE  /\ Ordered(recorded')
         /\ \A m \in Migration : recorded'[m] = "done" <=> recorded[m] = "done"
<1> DEFINE s == migrations[Current][at]
<1>1. /\ Pending # {}
      /\ recorded' \in {recorded, [recorded EXCEPT ![Current] = "unfinished"]}
  BY ExecuteMeans DEF MigrationsInv
<1>2. /\ Current \in Migration /\ recorded[Current] # "done"
      /\ \A m \in Migration : m < Current => recorded[m] = "done"
  BY <1>1, CurrentIsFirst DEF MigrationsInv
<1>3. Ordered(recorded)
  BY WholeMeans DEF MigrationsInv
<1>4. QED
  BY <1>1, <1>2, <1>3 DEF Ordered, MigrationsInv, TypeOK, Migration

\* A statement that takes effect scopes the keys, or they stay as they were
\* with the rows, or they are not scoped afterwards.
LEMMA EffectOnKeys ==
  ASSUME MigrationsInv, Execute, NEW s, s = migrations[Current][at], Effective(s)
  PROVE  \/ Current = 5 /\ at = 10 /\ s = AddKeys("owned_keys", {"bundle_fk", "base_fk", "scoped_keys"})
         \/ /\ Current = 5 /\ at > 10 /\ "scoped_keys" \in schema /\ patches' = patches
            /\ \A o \in {"scoped_keys", "bundle_fk", "base_fk", "app_required"} : o \in schema => o \in schema'
         \/ "scoped_keys" \notin schema' /\ (Current = 5 => at < 10)
<1>1. TypeOK /\ Whole /\ Progress
  BY DEF MigrationsInv
<1>2. server = "migrating" /\ Pending # {} /\ Numbered(Current, at)
  BY <1>1, ExecuteMeans
<1>3. Part(Current, at, s)
  BY <1>2, Parts
<1>4. /\ Current \in Migration /\ recorded[Current] # "done"
      /\ \A m \in Migration : m < Current => recorded[m] = "done"
  BY <1>1, <1>2, CurrentIsFirst
<1>5. "scoped_keys" \in schema => Current = 5
  <2>1. "scoped_keys" \in schema => recorded[4] = "done" /\ Ordered(recorded)
    BY <1>1, WholeMeans
  <2>2. QED
    BY <1>1, <1>4, <2>1 DEF Ordered, TypeOK, Migration, Recorded
<1>6. at \in Nat /\ at >= 1
  BY <1>1 DEF TypeOK
<1>7. schema' = (schema \ (s.drops \cup IF "bundle_fk" \in s.drops THEN {"scoped_keys"} ELSE {})) \cup s.adds
  BY DEF Effective
<1>8. CASE Current # 5
  <2>1. "scoped_keys" \notin s.adds
    BY <1>3, <1>4, <1>8 DEF Part, Migration
  <2>2. QED
    BY <1>5, <1>7, <1>8, <2>1
<1>9. CASE Current = 5
  <2>1. at > 1 => ("scoped_keys" \in schema <=> at > 10)
    BY <1>1, <1>2, <1>9 DEF Progress, Scoping
  <2>2. "scoped_keys" \in s.adds <=> at = 10
    BY <1>3, <1>9 DEF Part
  <2>3. CASE at = 10
    BY <1>3, <1>9, <2>3 DEF Part
  <2>4. CASE at = 1
    <3>1. s = Drop({"bundle_fk", "base_fk"})
      BY <1>3, <1>9, <2>4 DEF Part
    <3>2. "bundle_fk" \in s.drops
      BY <3>1 DEF Drop, Statement
    <3>3. QED
      BY <1>7, <1>9, <2>2, <2>4, <3>2
  <2>5. CASE at > 1 /\ at < 10
    BY <1>6, <1>7, <1>9, <2>1, <2>2, <2>5
  <2>6. CASE at > 10
    <3>1. /\ s.name \notin {"backfill", "delete_unowned"}
          /\ "bundle_fk" \notin s.drops /\ "base_fk" \notin s.drops
          /\ "app_required" \notin s.drops /\ "scoped_keys" \notin s.drops
      BY <1>3, <1>6, <1>9, <2>6 DEF Part
    <3>2. patches' = patches
      BY <1>1, <3>1, RowsAfter DEF Effective
    <3>3. QED
      BY <1>6, <1>7, <1>9, <2>1, <2>6, <3>1, <3>2
  <2>7. QED
    BY <1>6, <2>3, <2>4, <2>5, <2>6
<1>10. QED
  BY <1>8, <1>9

\* The constraint on bundles is only ever added, over rows that satisfy it.
LEMMA EffectOnChecks ==
  ASSUME MigrationsInv, Execute, NEW s, s = migrations[Current][at], Effective(s)
  PROVE  /\ "checks" \in schema => "checks" \in schema'
         /\ Current = 3 => "checks" \in schema'
         /\ "checks" \in schema' => \A b \in bundles : b.valid
<1>1. TypeOK /\ Whole
  BY DEF MigrationsInv
<1>2. Pending # {} /\ Numbered(Current, at)
  BY <1>1, ExecuteMeans
<1>3. Part(Current, at, s)
  BY <1>2, Parts
<1>4. Current \in Migration
  BY <1>1, <1>2, CurrentIsFirst
<1>5. "checks" \notin s.drops /\ (Current = 3 => s.adds = {"checks"} /\ s.name = "checks")
      /\ (Current # 3 => "checks" \notin s.adds)
  BY <1>3, <1>4 DEF Part, Migration
<1>6. Current = 3 => \A b \in bundles : b.valid
  BY <1>5 DEF Effective, Succeeds, RowsAllow
<1>7. "checks" \in schema => \A b \in bundles : b.valid
  BY <1>1, WholeMeans
<1>8. QED
  BY <1>5, <1>6, <1>7 DEF Effective

LEMMA ExecuteKeepsTypes ==
  ASSUME MigrationsInv, Execute
  PROVE  TypeOK'
<1> DEFINE s == migrations[Current][at]
<1>1. TypeOK
  BY DEF MigrationsInv
<1>2. /\ server = "migrating" /\ Pending # {} /\ Numbered(Current, at)
      /\ bundles' = bundles
      /\ recorded' \in {recorded, [recorded EXCEPT ![Current] = "unfinished"]}
      /\ Effective(s) \/ Idle(s)
  BY <1>1, ExecuteMeans
<1>3. s.drops \subseteq Object /\ s.adds \subseteq Object
  BY <1>2, Parts DEF Part
<1>4. recorded' \in [Migration -> Recorded]
  BY <1>1, <1>2 DEF TypeOK, Recorded
<1>5. PatchesAfter(s) \subseteq PatchRow
  BY <1>1, RowsAfter
<1> HIDE DEF s
<1>6. CASE Effective(s)
  BY <1>1, <1>2, <1>3, <1>4, <1>5, <1>6 DEF Effective, TypeOK
<1>7. CASE Idle(s)
  BY <1>1, <1>2, <1>4, <1>7 DEF Idle, TypeOK
<1>8. QED
  BY <1>2, <1>6, <1>7

LEMMA ExecuteKeepsWhole ==
  ASSUME MigrationsInv, Execute
  PROVE  Whole'
<1> DEFINE s == migrations[Current][at]
<1>1. TypeOK /\ Whole /\ Progress
  BY DEF MigrationsInv
<1>2. bundles' = bundles /\ (Effective(s) \/ Idle(s)) /\ Pending # {} /\ Numbered(Current, at)
  BY <1>1, ExecuteMeans
<1>3. /\ Ordered(recorded')
      /\ \A m \in Migration : recorded'[m] = "done" <=> recorded[m] = "done"
  BY ExecuteKeepsRecords
<1>4. /\ Current \in Migration /\ recorded[Current] # "done"
      /\ \A m \in Migration : m < Current => recorded[m] = "done"
  BY <1>1, <1>2, CurrentIsFirst
<1>5. 3 \in Migration /\ 4 \in Migration /\ 5 \in Migration
  BY DEF Migration
<1>6. CASE Idle(s)
  <2>1. schema' = schema /\ patches' = patches
    BY <1>6 DEF Idle
  <2>2. (\A p \in patches : Owned(p)) => \A p \in patches' : Owned(p)'
    BY <1>2, <2>1 DEF Owned, ExistsFor
  <2>3. QED
    BY <1>1, <1>2, <1>3, <1>5, <2>1, <2>2, WholeMeans DEF Whole, Consistent, Ordered, Owned, ExistsFor
<1>7. CASE Effective(s)
  <2>1. /\ recorded'[3] = "done" => "checks" \in schema'
        /\ "checks" \in schema' => \A b \in bundles' : b.valid
    BY <1>1, <1>2, <1>3, <1>5, <1>7, EffectOnChecks, WholeMeans
  <2>2. "scoped_keys" \in schema' =>
          /\ Current = 5
          /\ {"bundle_fk", "base_fk", "app_required"} \subseteq schema'
          /\ \A p \in patches' : Owned(p)'
    <3>1. CASE Current = 5 /\ at = 10 /\ s = AddKeys("owned_keys", {"bundle_fk", "base_fk", "scoped_keys"})
      <4>1. /\ s.name = "owned_keys" /\ s.drops = {}
            /\ s.adds = {"bundle_fk", "base_fk", "scoped_keys"}
        BY <3>1 DEF AddKeys, Statement
      <4> HIDE DEF s
      <4>2. \A p \in patches : Owned(p)
        BY <1>7, <4>1 DEF Effective, Succeeds, RowsAllow, Owned
      <4>3. patches' = patches
        BY <1>1, <1>7, <4>1, RowsAfter DEF Effective
      <4>4. \A p \in patches' : Owned(p)'
        BY <1>2, <4>2, <4>3 DEF Owned, ExistsFor
      <4>5. server = "migrating"
        BY <1>1, ExecuteMeans
      <4>6. "app_required" \in schema
        BY <1>1, <1>2, <3>1, <4>5 DEF Progress, Scoping
      <4>7. QED
        BY <1>7, <3>1, <4>1, <4>4, <4>6 DEF Effective
    <3>2. CASE /\ Current = 5 /\ at > 10 /\ "scoped_keys" \in schema /\ patches' = patches
               /\ \A o \in {"scoped_keys", "bundle_fk", "base_fk", "app_required"} : o \in schema => o \in schema'
      <4>1. /\ {"bundle_fk", "base_fk", "app_required"} \subseteq schema
            /\ \A p \in patches : Owned(p)
        BY <1>1, <3>2, WholeMeans
      <4>2. \A p \in patches' : Owned(p)'
        BY <1>2, <3>2, <4>1 DEF Owned, ExistsFor
      <4>3. QED
        BY <3>2, <4>1, <4>2
    <3>3. QED
      BY <1>7, <3>1, <3>2, EffectOnKeys
  <2>3. "scoped_keys" \in schema' => recorded'[4] = "done"
    BY <1>3, <1>4, <1>5, <2>2
  <2>4. recorded'[5] = "done" => "scoped_keys" \in schema'
    <3>1. SUFFICES ASSUME recorded[5] = "done" PROVE FALSE
      BY <1>3, <1>5
    <3>2. Ordered(recorded)
      BY <1>1, WholeMeans
    <3>3. \A m \in Migration : recorded[m] = "done"
      BY <1>1, <3>1, <3>2 DEF Ordered, Migration
    <3>4. QED
      BY <1>4, <3>3
  <2>5. QED
    BY <1>3, <2>1, <2>2, <2>3, <2>4 DEF Whole, Consistent, Ordered, Owned, ExistsFor
<1>8. QED
  BY <1>2, <1>6, <1>7

LEMMA ExecuteKeepsProgress ==
  ASSUME MigrationsInv, Execute
  PROVE  Progress' /\ Handed'
<1> DEFINE s == migrations[Current][at]
<1>1. TypeOK /\ Whole /\ Progress
  BY DEF MigrationsInv
<1>2. /\ server = "migrating" /\ Pending # {} /\ Numbered(Current, at)
      /\ bundles' = bundles /\ fresh' = fresh
      /\ Pending' = Pending /\ Current' = Current
      /\ Effective(s) \/ Idle(s)
  BY <1>1, ExecuteMeans
<1>3. Part(Current, at, s)
  BY <1>2, Parts
<1>4. at \in Nat /\ at >= 1
  BY <1>1 DEF TypeOK
<1> HIDE DEF s
<1>5. CASE Idle(s)
  <2>1. Current \in {3, 5} => ~Skipped(s)
    BY <1>3 DEF Part, Skipped
  <2>2. QED
    BY <1>2, <1>5, <2>1 DEF Idle, Progress, Handed
<1>6. CASE Effective(s)
  <2>1. at' = at + 1 /\ server' = "migrating"
    BY <1>2, <1>6 DEF Effective
  <2>2. Current = 3 => "checks" \in schema'
    BY <1>6, EffectOnChecks DEF s
  <2>3. ASSUME Current = 5
        PROVE  Scoping'
    <3>1. Scoping
      BY <1>1, <1>2, <2>3 DEF Progress
    <3>2. "scoped_keys" \in schema' <=> at' > 10
      <4>1. CASE at = 10 /\ s = AddKeys("owned_keys", {"bundle_fk", "base_fk", "scoped_keys"})
        BY <1>6, <2>1, <4>1 DEF Effective, AddKeys, Statement
      <4>2. CASE /\ at > 10 /\ "scoped_keys" \in schema
                 /\ \A o \in {"scoped_keys", "bundle_fk", "base_fk", "app_required"} : o \in schema => o \in schema'
        BY <1>4, <2>1, <4>2
      <4>3. CASE "scoped_keys" \notin schema' /\ at < 10
        BY <1>4, <2>1, <4>3
      <4>4. QED
        BY <1>6, <2>3, <4>1, <4>2, <4>3, EffectOnKeys DEF s
    <3>3. at' > 2 => "app_column" \in schema'
      <4>1. at = 2 => "app_column" \in s.adds
        BY <1>3, <2>3 DEF Part, Add, Statement
      <4>2. "app_column" \notin s.drops
        BY <1>3 DEF Part
      <4>3. QED
        BY <1>4, <1>6, <2>1, <3>1, <4>1, <4>2 DEF Scoping, Effective
    <3>4. at' > 5 => "app_required" \in schema'
      <4>1. at = 5 => "app_required" \in s.adds
        BY <1>3, <2>3 DEF Part, AddKeys, Statement
      <4>2. "app_required" \notin s.drops
        BY <1>3 DEF Part
      <4>3. QED
        BY <1>4, <1>6, <2>1, <3>1, <4>1, <4>2 DEF Scoping, Effective
    <3>5. ASSUME at' = 4, NEW p \in patches', p.app = NoApp
          PROVE  ~Exists(p.bundle)'
      <4>1. at = 3
        BY <1>4, <2>1, <3>5
      <4>2. s.name = "backfill"
        BY <1>3, <2>3, <4>1 DEF Part, Rows, Statement
      <4>3. p \in PatchesAfter(s)
        BY <1>6, <3>5 DEF Effective
      <4>4. Exists(p.bundle) => p.app \in App
        BY <1>1, <4>2, <4>3, Backfilled
      <4>5. QED
        BY <1>2, <3>5, <4>4, MigrationsAssumption DEF Exists
    <3>6. QED
      BY <3>2, <3>3, <3>4, <3>5 DEF Scoping
  <2>4. QED
    BY <1>2, <2>1, <2>2, <2>3 DEF Progress, Handed
<1>7. QED
  BY <1>2, <1>5, <1>6

-----------------------------------------------------------------------------
(* The other steps.                                                        *)

LEMMA FinishInvariance ==
  ASSUME MigrationsInv, Finish
  PROVE  MigrationsInv'
<1>1. TypeOK /\ Whole /\ Progress
  BY DEF MigrationsInv
<1>2. /\ server = "migrating" /\ Pending # {} /\ at = Len(migrations[Current]) + 1
      /\ recorded' = [recorded EXCEPT ![Current] = "done"] /\ at' = 1
      /\ UNCHANGED <<bundles, patches, schema, server, counters, fresh>>
  BY DEF Finish
<1>3. /\ Current \in Migration /\ recorded[Current] # "done"
      /\ \A m \in Migration : m < Current => recorded[m] = "done"
  BY <1>1, <1>2, CurrentIsFirst
<1>4. TypeOK'
  BY <1>1, <1>2, <1>3 DEF TypeOK, Recorded
<1>5. Ordered(recorded')
  <2>1. Ordered(recorded)
    BY <1>1, WholeMeans
  <2>2. QED
    BY <1>1, <1>2, <1>3, <2>1 DEF Ordered, TypeOK, Migration
<1>6. Current = 3 => "checks" \in schema
  <2>1. Len(migrations[3]) = 1
    BY DEF migrations, bundle_check_constraints
  <2>2. QED
    BY <1>1, <1>2, <2>1 DEF Progress
<1>7. Current = 5 => "scoped_keys" \in schema
  <2>1. Len(migrations[5]) = 12
    BY DEF migrations, tenant_scoped_primary_keys
  <2>2. ASSUME Current = 5 PROVE at = 13
    <3>1. Len(migrations[Current]) = 12
      BY <2>1, <2>2
    <3>2. at = Len(migrations[Current]) + 1
      BY <1>2
    <3>3. QED
      BY <3>1, <3>2
  <2>3. Current = 5 => Scoping
    BY <1>1, <1>2 DEF Progress
  <2>4. QED
    BY <2>2, <2>3 DEF Scoping
<1>8. \A m \in Migration : recorded'[m] = IF m = Current THEN "done" ELSE recorded[m]
  BY <1>1, <1>2, <1>3 DEF TypeOK
<1>9. 3 \in Migration /\ 4 \in Migration /\ 5 \in Migration
  BY DEF Migration
<1>10. Whole'
  BY <1>1, <1>2, <1>5, <1>6, <1>7, <1>8, <1>9, WholeMeans DEF Whole, Consistent, Ordered, Owned, ExistsFor
<1>11. Progress'
  <2>1. at' = 1
    BY <1>2
  <2>2. QED
    BY <2>1 DEF Progress, Scoping
<1>12. Handed'
  BY <1>2 DEF Handed
<1>13. QED
  BY <1>4, <1>10, <1>11, <1>12 DEF MigrationsInv

\* Starting, handing over and dying change no table and no record.
LEMMA ServerInvariance ==
  ASSUME MigrationsInv, Start \/ Serve \/ Crash
  PROVE  MigrationsInv'
<1>1. UNCHANGED <<bundles, patches, schema, recorded, fresh>>
  BY DEF Start, Serve, Crash
<1>2. TypeOK'
  BY <1>1 DEF MigrationsInv, TypeOK, Start, Serve, Crash
<1>3. Whole'
  BY <1>1 DEF MigrationsInv, Whole, Consistent
<1>4. server' = "migrating" => at' = 1
  BY DEF Start, Serve, Crash
<1>5. Progress'
  BY <1>4 DEF Progress, Scoping
<1>6. Pending' = Pending
  BY <1>1 DEF Pending
<1>7. Handed'
  BY <1>6 DEF Handed, Start, Serve, Crash
<1>8. QED
  BY <1>2, <1>3, <1>5, <1>7 DEF MigrationsInv

\* The repair works on a database whose keys are not scoped yet.
LEMMA RepairInvariance ==
  ASSUME MigrationsInv, RemoveOrphans \/ ClearFailed
  PROVE  MigrationsInv'
<1>1. /\ server = "down" /\ recorded[4] = "unfinished"
      /\ UNCHANGED <<bundles, schema, server, at, counters, fresh>>
      /\ patches' \subseteq patches
      /\ recorded' \in {recorded, [recorded EXCEPT ![4] = "no"]}
  BY DEF RemoveOrphans, ClearFailed, Repairable
<1>2. TypeOK'
  BY <1>1 DEF MigrationsInv, TypeOK, Recorded
<1>3. TypeOK /\ Whole
  BY DEF MigrationsInv
<1>4. Ordered(recorded')
  <2>1. Ordered(recorded)
    BY <1>3, WholeMeans
  <2>2. recorded[5] = "no"
    BY <1>1, <2>1 DEF Ordered, Migration
  <2>3. QED
    BY <1>1, <1>3, <2>1, <2>2 DEF Ordered, TypeOK, Migration
<1>5. "scoped_keys" \notin schema
  BY <1>1, <1>3, WholeMeans
<1>6. \A m \in {3, 5} : recorded'[m] = recorded[m]
  BY <1>1, <1>3 DEF TypeOK, Migration
<1>7. Whole'
  BY <1>1, <1>3, <1>4, <1>5, <1>6, WholeMeans DEF Whole, Consistent, Ordered
<1>8. Progress' /\ Handed'
  BY <1>1 DEF Progress, Handed
<1>9. QED
  BY <1>2, <1>7, <1>8 DEF MigrationsInv

LEMMA AttachInvariance ==
  ASSUME MigrationsInv, EarlierAttaches
  PROVE  MigrationsInv'
<1>1. PICK b \in bundles, base \in bundles :
        LET p == [app |-> NoApp, bundle |-> b.id, base |-> base.id] IN
        /\ patches' = patches \cup {p}
        /\ fresh' = IF "app_column" \in schema THEN fresh \cup {p} ELSE fresh
  BY DEF EarlierAttaches
<1> DEFINE p == [app |-> NoApp, bundle |-> b.id, base |-> base.id]
<1>2. /\ server # "serving" /\ "app_required" \notin schema
      /\ UNCHANGED <<bundles, schema, recorded, server, at, crashes>>
  BY DEF EarlierAttaches, EarlierServes
<1>3. TypeOK /\ Whole /\ Progress
  BY DEF MigrationsInv
<1>4. p \in PatchRow
  BY <1>3 DEF TypeOK, PatchRow, BundleRow
<1> HIDE DEF p
<1>5. patches' = patches \cup {p} /\ fresh' = IF "app_column" \in schema THEN fresh \cup {p} ELSE fresh
  BY <1>1 DEF p
<1>6. TypeOK'
  BY <1>2, <1>3, <1>4, <1>5 DEF TypeOK
<1>7. "scoped_keys" \notin schema
  BY <1>2, <1>3, WholeMeans
<1>8. Whole'
  BY <1>2, <1>3, <1>7, WholeMeans DEF Whole, Consistent, Ordered
<1>9. Pending' = Pending /\ Current' = Current
  BY <1>2 DEF Pending, Current
<1>10. Scoping => Scoping'
  <2>1. fresh \subseteq fresh' /\ ("app_column" \in schema => p \in fresh')
    BY <1>5
  <2>2. ASSUME Scoping, at = 4, NEW q \in patches', q.app = NoApp
        PROVE  ~Exists(q.bundle)' \/ q \in fresh'
    <3>1. "app_column" \in schema
      BY <2>2 DEF Scoping
    <3>2. CASE q \in patches
      BY <1>2, <2>1, <2>2, <3>2 DEF Scoping, Exists
    <3>3. QED
      BY <1>5, <2>1, <2>2, <3>1, <3>2
  <2>3. QED
    BY <1>2, <2>2 DEF Scoping
<1>11. Progress' /\ Handed'
  BY <1>2, <1>3, <1>9, <1>10 DEF Progress, Handed
<1>12. QED
  BY <1>6, <1>8, <1>11 DEF MigrationsInv

\* A scoped key takes the patches of the bundle that is deleted, and no others.
LEMMA DeleteInvariance ==
  ASSUME MigrationsInv, EarlierDeletes
  PROVE  MigrationsInv'
<1>1. PICK b \in bundles : bundles' = bundles \ {b} /\ patches' = { p \in patches : ~Cascades(b, p) }
  BY DEF EarlierDeletes
<1>2. server # "serving" /\ UNCHANGED <<schema, recorded, server, at, crashes, fresh>>
  BY DEF EarlierDeletes, EarlierServes
<1>3. TypeOK /\ Whole /\ Progress
  BY DEF MigrationsInv
<1>4. TypeOK'
  BY <1>1, <1>2, <1>3 DEF TypeOK
<1>5. ASSUME "scoped_keys" \in schema, NEW p \in patches'
      PROVE  Owned(p)'
  <2>1. p \in patches /\ ~Cascades(b, p)
    BY <1>1
  <2>2. Owned(p) /\ {"bundle_fk", "base_fk"} \subseteq schema
    BY <1>3, <1>5, <2>1, WholeMeans
  <2>3. ~(p.app = b.app /\ (p.bundle = b.id \/ p.base = b.id))
    BY <1>5, <2>1, <2>2 DEF Cascades
  <2>4. QED
    BY <1>1, <2>2, <2>3 DEF Owned, ExistsFor
<1>6. Whole'
  BY <1>1, <1>2, <1>3, <1>5, WholeMeans DEF Whole, Consistent, Ordered, Owned, ExistsFor
<1>7. Pending' = Pending /\ Current' = Current
  BY <1>2 DEF Pending, Current
<1>8. Scoping => Scoping'
  <2>1. patches' \subseteq patches /\ bundles' \subseteq bundles
    BY <1>1
  <2>2. QED
    BY <1>2, <2>1 DEF Scoping, Exists
<1>9. Progress' /\ Handed'
  BY <1>2, <1>3, <1>7, <1>8 DEF Progress, Handed
<1>10. QED
  BY <1>4, <1>6, <1>9 DEF MigrationsInv

LEMMA NextInvariance ==
  ASSUME MigrationsInv, [Next]_vars
  PROVE  MigrationsInv'
<1>1. CASE Execute
  BY <1>1, ExecuteKeepsTypes, ExecuteKeepsWhole, ExecuteKeepsProgress DEF MigrationsInv
<1>2. CASE Finish
  BY <1>2, FinishInvariance
<1>3. CASE Start \/ Serve \/ Crash
  BY <1>3, ServerInvariance
<1>4. CASE RemoveOrphans \/ ClearFailed
  BY <1>4, RepairInvariance
<1>5. CASE EarlierAttaches
  BY <1>5, AttachInvariance
<1>6. CASE EarlierDeletes
  BY <1>6, DeleteInvariance
<1>7. CASE UNCHANGED vars
  <2>1. UNCHANGED <<bundles, patches, schema, recorded, server, at, fresh>>
    BY <1>7 DEF vars
  <2>2. Pending' = Pending /\ Current' = Current
    BY <2>1 DEF Pending, Current
  <2>3. QED
    BY <2>1, <2>2 DEF MigrationsInv, TypeOK, Whole, Consistent, Progress, Scoping, Handed, Exists
<1>8. QED
  BY <1>1, <1>2, <1>3, <1>4, <1>5, <1>6, <1>7 DEF Next, Migrate

-----------------------------------------------------------------------------
(* The theorems.                                                           *)

\* The migrations run in order, each constraint that is there holds of the
\* rows, and a migration that is done has left what it adds, through every
\* crash, repair and write of an earlier release (init_db_with_options).
THEOREM MigrationsInvariance ==
  Spec => []MigrationsInv
<1>1. Init => MigrationsInv
  <2> SUFFICES ASSUME Init PROVE MigrationsInv
    OBVIOUS
  <2>1. PICK d \in Database : /\ bundles = d.bundles /\ patches = d.patches
                              /\ schema = d.schema /\ recorded = d.recorded
    BY DEF Init
  <2>2. server = "down" /\ at = 1
    BY DEF Init
  <2>3. d \in [bundles : SUBSET BundleRow, patches : SUBSET PatchRow,
               schema : SUBSET Object, recorded : [Migration -> Recorded]]
    BY MigrationsAssumption
  <2>4. TypeOK
    BY <2>1, <2>2, <2>3 DEF TypeOK
  <2>5. Whole
    BY <2>1, DatabaseAssumption DEF Whole
  <2>6. QED
    BY <2>2, <2>4, <2>5 DEF MigrationsInv, Progress, Handed
<1>2. MigrationsInv /\ [Next]_vars => MigrationsInv'
  BY NextInvariance
<1>3. QED
  BY <1>1, <1>2, PTL DEF Spec

\* A server that serves has both keys scoped and the constraint in place, its
\* bundles are valid, and every patch has its bundle and its base in its own
\* application (tenant_scoped_primary_keys).
THEOREM ServedIsScoped ==
  Spec => []ServedCatalogIsScoped
<1>1. MigrationsInv => ServedCatalogIsScoped
  <2> SUFFICES ASSUME MigrationsInv, server = "serving"
               PROVE  /\ {"bundle_fk", "base_fk", "scoped_keys", "checks"} \subseteq schema
                      /\ \A b \in bundles : b.valid
                      /\ \A p \in patches : ExistsFor(p.app, p.bundle) /\ ExistsFor(p.app, p.base)
    BY DEF ServedCatalogIsScoped
  <2>1. recorded[3] = "done" /\ recorded[5] = "done"
    BY DEF MigrationsInv, Handed, Pending, Migration
  <2>2. QED
    BY <2>1, WholeMeans DEF MigrationsInv, Owned
<1>2. QED
  BY <1>1, MigrationsInvariance, PTL

\* No statement of a migration loses a patch whose bundle and base exist, but
\* for one that was attached without an owner once owners are recorded: the
\* backfill comes before the deletion of what has none.
THEOREM PatchesSurvive ==
  Spec => UsablePatchesSurvive
<1> DEFINE Kept == \A p \in patches :
             \/ \E q \in patches' : q.bundle = p.bundle /\ q.base = p.base
             \/ ~Exists(p.bundle) \/ ~Exists(p.base)
             \/ p \in fresh
<1>1. MigrationsInv /\ Execute => Kept
  <2> SUFFICES ASSUME MigrationsInv, Execute, NEW p \in patches
               PROVE  \/ \E q \in patches' : q.bundle = p.bundle /\ q.base = p.base
                      \/ ~Exists(p.bundle) \/ p \in fresh
    OBVIOUS
  <2> DEFINE s == migrations[Current][at]
  <2>1. TypeOK /\ Progress
    BY DEF MigrationsInv
  <2>2. /\ server = "migrating" /\ Pending # {} /\ Numbered(Current, at)
        /\ Effective(s) \/ Idle(s)
    BY <2>1, ExecuteMeans
  <2>3. Part(Current, at, s) /\ Current \in Migration
    BY <2>2, Parts DEF Numbered
  <2> HIDE DEF s
  <2>4. CASE s.name = "backfill" /\ Effective(s)
    <3> DEFINE q == IF Exists(p.bundle)
                    THEN [p EXCEPT !.app = (CHOOSE b \in bundles : b.id = p.bundle).app] ELSE p
    <3>1. q \in patches'
      <4> DEFINE Given(r) == IF Exists(r.bundle)
                             THEN [r EXCEPT !.app = (CHOOSE b \in bundles : b.id = r.bundle).app] ELSE r
      <4>1. PatchesAfter(s) = { Given(r) : r \in patches }
        BY <2>4 DEF PatchesAfter
      <4> HIDE DEF Given
      <4>2. Given(p) \in PatchesAfter(s)
        BY <4>1
      <4>3. QED
        BY <2>4, <4>2 DEF Effective, Given
    <3>2. p \in PatchRow
      BY <2>1 DEF TypeOK
    <3>3. q.bundle = p.bundle /\ q.base = p.base
      BY <3>2 DEF PatchRow
    <3>4. QED
      BY <3>1, <3>3
  <2>5. CASE s.name = "delete_unowned" /\ Effective(s)
    <3>1. Current = 5 /\ at = 4
      BY <2>1, <2>3, <2>5 DEF Part, Migration, TypeOK, Rows, Statement
    <3>2. p.app = NoApp => ~Exists(p.bundle) \/ p \in fresh
      BY <2>1, <2>2, <3>1 DEF Progress, Scoping
    <3>3. patches' = { r \in patches : r.app # NoApp }
      BY <2>1, <2>5, RowsAfter DEF Effective
    <3>4. QED
      BY <3>2, <3>3
  <2>6. CASE s.name \notin {"backfill", "delete_unowned"} /\ Effective(s)
    BY <2>1, <2>6, RowsAfter DEF Effective
  <2>7. CASE Idle(s)
    BY <2>7 DEF Idle
  <2>8. QED
    BY <2>2, <2>4, <2>5, <2>6, <2>7
<1>2. MigrationsInv /\ [Next]_vars => [Execute => Kept]_vars
  BY <1>1
<1>3. QED
  BY <1>2, MigrationsInvariance, PTL DEF Spec, UsablePatchesSurvive
===============================================================================
