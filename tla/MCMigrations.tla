----------------------------- MODULE MCMigrations -----------------------------
(***************************************************************************)
(* Databases for model checking Migrations.                                *)
(***************************************************************************)
EXTENDS Migrations

CONSTANTS a1, a2, b1, b2, b3

Bundle(app, id) == [app |-> app, id |-> id, valid |-> TRUE]
From(bundle, base) == [app |-> NoApp, bundle |-> bundle, base |-> base]

Tables == {"bundles", "bundle_patches", "settings", "bundle_fk", "base_fk", "app_index",
           "bundle_id_index", "base_id_index"}
Done(n) == [m \in Migration |-> IF m <= n THEN "done" ELSE "no"]
Held == {Bundle(a1, b1), Bundle(a1, b2), Bundle(a2, b3)}

New == [bundles |-> {}, patches |-> {}, schema |-> {}, recorded |-> Done(0)]

\* A database that migrations 1 to n have been run on.
Upgraded(n, patched) ==
  [bundles |-> Held, patches |-> patched, recorded |-> Done(n),
   schema |-> Tables \cup (IF n = 1 THEN {"text_indexes"} ELSE {"prefix_indexes"})
              \cup (IF n >= 3 THEN {"checks"} ELSE {})
              \cup (IF n >= 4 THEN {"ascii_ids"} ELSE {})]

\* The broken first revision of id_ascii_bin_collation failed on it, and a
\* patch lost its base since.
Damaged ==
  [Upgraded(3, {From(b2, b1), From(b1, b2)}) EXCEPT
     !.bundles = @ \ {Bundle(a1, b1)}, !.schema = @ \ {"bundle_fk", "base_fk"},
     !.recorded[4] = "unfinished"]

\* A row with neither target version nor fingerprint.
Unchecked ==
  [Upgraded(2, {From(b2, b1)}) EXCEPT
     !.bundles = (@ \ {Bundle(a2, b3)}) \cup {[app |-> a1, id |-> b3, valid |-> FALSE]}]

Databases == { New, Upgraded(1, {From(b2, b1)}), Upgraded(3, {From(b2, b1), From(b3, b3)}),
               Upgraded(4, {From(b1, b2)}), Damaged, Unchecked }

\* Release 1.0.0 let a patch have a base of another application.
CrossApp == { Upgraded(3, {From(b2, b1), From(b2, b3)}) }
===============================================================================
