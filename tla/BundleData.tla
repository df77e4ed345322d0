------------------------------ MODULE BundleData ------------------------------
(***************************************************************************)
(* Request payloads and pure helpers of the bundle write API               *)
(* (src/src/routes/api.rs).  Shared by BundleCatalog, which states what    *)
(* the API promises, and CliApi, which says how the handlers do it.        *)
(***************************************************************************)
EXTENDS BundleSchema

CONSTANT Request   \* the payloads the clients may send

\* One entry of a payload's `patches` array.
RawPatch == [base : Id, file : File]

\* What a payload says of each column.
SetClause == [target      : Text \cup {Null, Absent},
              fingerprint : Text \cup {Null, Absent},
              metadata    : Metadata \cup {Null, Absent},
              file        : File \cup {Absent}]

Item == [id : Id, set : SetClause, patches : Seq(RawPatch) \cup {Absent}]

\* `malformed` says which validation the payload fails: one made before any
\* row is read, or one that PATCH makes after it has read the row.
RequestType == [verb      : {"POST", "PATCH", "DELETE"},
                app       : App \cup {NoApp},
                token     : App \cup {NoApp},
                malformed : {"no", "early", "late"},
                items     : Seq(Item)]

\* POST sends whole rows (serde fills the optional fields); PATCH and DELETE
\* name exactly one bundle.
WholeRow(clause) ==
  /\ Absent \notin {clause.target, clause.fingerprint, clause.metadata, clause.file}
  /\ clause.metadata # Null

ASSUME RequestAssumption ==
  /\ Request \subseteq RequestType
  /\ \A r \in Request :
        IF r.verb = "POST" THEN \A i \in DOMAIN r.items : WholeRow(r.items[i].set)
                           ELSE Len(r.items) = 1

-----------------------------------------------------------------------------

\* The payload's entries as they come, repeated bases included.
KeepEveryPatch(raw) ==
  IF raw = Absent THEN {}
  ELSE { [base |-> raw[i].base, ord |-> i - 1, file |-> raw[i].file] : i \in DOMAIN raw }

\* get_bundle_patches: the first entry per base wins, numbered in order.
PatchRows(raw) ==
  IF raw = Absent THEN {}
  ELSE LET first == { i \in DOMAIN raw : \A j \in 1..(i-1) : raw[j].base # raw[i].base }
       IN  { [base |-> raw[i].base,
              ord  |-> Cardinality({ j \in first : j < i }),
              file |-> raw[i].file] : i \in first }

\* assert_bundle_persistence_constraints, applied to a whole row.
Persistable(row) == row.target = "text" \/ row.fingerprint = "text"

\* The CHECK constraint of the schema: NULL is refused, a blank string is not.
SqlCheck(row) == row.target # Null \/ row.fingerprint # Null

\* build_update_query: an absent column keeps its value, a null metadata
\* resets the column to {}.
Overwrite(row, clause) ==
  [target      |-> IF clause.target = Absent THEN row.target ELSE clause.target,
   fingerprint |-> IF clause.fingerprint = Absent THEN row.fingerprint ELSE clause.fingerprint,
   metadata    |-> IF clause.metadata = Absent THEN row.metadata
                   ELSE IF clause.metadata = Null THEN NoMetadata ELSE clause.metadata,
   file        |-> IF clause.file = Absent THEN row.file ELSE clause.file]

\* metadata treated like targetCohorts and patches: replaced.
ReplaceMetadata(row, clause) == clause

\* merge_bundle_metadata against the row that was read: an object adds its
\* keys to those of the object that is stored, if one is; any other value is
\* stored as it came.  null is not merged.
MergeMetadata(row, clause) ==
  [clause EXCEPT !.metadata =
     IF @ \in {Absent, Null} \/ ~@.object THEN @
     ELSE [object |-> TRUE, keys |-> row.metadata.keys \cup @.keys]]

\* What PATCH promises of a row's metadata, whatever row it merged it with.
MetadataPromised(row, clause, m) ==
  IF clause.metadata \in {Absent, Null} THEN m = Overwrite(row, clause).metadata
  ELSE IF clause.metadata.object THEN m.object /\ clause.metadata.keys \subseteq m.keys
  ELSE m = clause.metadata

HasColumns(clause) ==
  \/ clause.target # Absent
  \/ clause.fingerprint # Absent
  \/ clause.metadata # Absent
  \/ clause.file # Absent
===============================================================================
