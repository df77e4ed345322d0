----------------------------- MODULE BundleSchema -----------------------------
(***************************************************************************)
(* The two tables of src/migrations as they are once every migration has   *)
(* run, and the check of a caller's token (src/src/routes/api.rs), shared  *)
(* by the modules of the write API and of the read API.                    *)
(*                                                                         *)
(* Of the eighteen columns of `bundles` four are kept, one per rule the    *)
(* handlers treat differently: target_app_version and fingerprint_hash     *)
(* (nullable, checked together), metadata (merged on PATCH) and file,      *)
(* which stands for every column that is simply replaced.                  *)
(***************************************************************************)
EXTENDS Naturals, Sequences, FiniteSets

CONSTANTS
  App,          \* the configured applications (tenants)
  Id,           \* bundle ids
  MetadataKey,  \* keys that may occur in a bundle's metadata
  File,         \* contents of the replaced columns
  NoApp,        \* an application the server is not configured for
  NoRow,        \* "no such row"
  Null,         \* an explicit JSON null, SQL's NULL
  Absent        \* a key or a parameter that is not in the request

Key == App \X Id

\* A nullable text column: "blank" is a string that trims to nothing.
Text == {"blank", "text"}

\* Any JSON value but null.  A JSON string may hold an object of its own
\* (parse_bundle_metadata reads that layer too), hence keys without `object`;
\* for an array, a number or any other string there are none.
Metadata == [object : BOOLEAN, keys : SUBSET MetadataKey]

\* The column's default, {}.
NoMetadata == [object |-> TRUE, keys |-> {}]

Row == [target      : Text \cup {Null},
        fingerprint : Text \cup {Null},
        metadata    : Metadata,
        file        : File]

\* One row of bundle_patches.
PatchRow == [base : Id, ord : Nat, file : File]

ASSUME ConstantsAssumption ==
  /\ NoApp \notin App
  /\ NoRow \notin Row
  /\ Null # Absent
  /\ Absent \notin Text \cup File
  /\ {Null, Absent} \cap Metadata = {}

-----------------------------------------------------------------------------

\* authorize: an unknown application is 404, then the token must be its own.
Authorize(r) == IF r.app \notin App THEN 404
                ELSE IF r.token # r.app THEN 401 ELSE 200

\* ON DELETE CASCADE on the bundle's key only.
CascadeOwnOnly(of, k) == [of EXCEPT ![k] = {}]

\* A row of `bundles` goes: its patches go with it, and so do the patches of
\* its application that use it as their base (both keys ON DELETE CASCADE).
Cascade(of, k) ==
  [q \in Key |-> IF q = k THEN {}
                 ELSE { p \in of[q] : <<q[1], p.base>> # k }]

\* A row of bundle_patches refers to rows of `bundles` of the same application.
PatchEndpoints(table, of) ==
  \A k \in Key : \A p \in of[k] :
     table[k] # NoRow /\ table[<<k[1], p.base>>] # NoRow
===============================================================================
