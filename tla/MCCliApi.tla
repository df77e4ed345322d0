------------------------------- MODULE MCCliApi -------------------------------
(***************************************************************************)
(* Request payloads for model checking CliApi.                             *)
(***************************************************************************)
EXTENDS CliApi

CONSTANTS a1, a2, b1, b2, f1, f2, m1, m2

Object(keys) == [object |-> TRUE, keys |-> keys]
Array == [object |-> FALSE, keys |-> {}]
ObjectInString(keys) == [object |-> FALSE, keys |-> keys]

Published(file) ==
  [target |-> "text", fingerprint |-> Null, metadata |-> NoMetadata, file |-> file]
Nothing == [target |-> Absent, fingerprint |-> Absent, metadata |-> Absent, file |-> Absent]

Bundle(id, file, list) == [id |-> id, set |-> Published(file), patches |-> list]
From(base, file) == [base |-> base, file |-> file]

Post(app, items) == [verb |-> "POST", app |-> app, token |-> app,
                     malformed |-> "no", items |-> items]
PatchOf(app, id, clause, list) ==
  [verb |-> "PATCH", app |-> app, token |-> app, malformed |-> "no",
   items |-> <<[id |-> id, set |-> clause, patches |-> list]>>]
DeleteOf(app, id) == [verb |-> "DELETE", app |-> app, token |-> app, malformed |-> "no",
                      items |-> <<[id |-> id, set |-> Nothing, patches |-> Absent]>>]

\* One application: a batch whose second bundle is patched from the first
\* (named twice), a batch that names its base too early, a bundle patched
\* from itself and from the other, a column patch, a patch-list patch and
\* both deletes.
OneTenant ==
  { Post(a1, <<Bundle(b1, f1, Absent),
               Bundle(b2, f1, <<From(b1, f1), From(b1, f2)>>)>>),
    Post(a1, <<Bundle(b2, f2, <<From(b1, f2)>>), Bundle(b1, f2, <<>>)>>),
    PatchOf(a1, b1, [Nothing EXCEPT !.file = f2], <<From(b1, f2), From(b2, f2)>>),
    PatchOf(a1, b2, [Nothing EXCEPT !.file = f2], Absent),
    Post(a1, <<Bundle(b2, f1, <<>>)>>),
    DeleteOf(a1, b1), DeleteOf(a1, b2) }

\* A second application publishes and deletes a bundle of the same id, one
\* token is presented to the other application, and one application is not
\* configured.
TwoTenants ==
  LET Publish(app) == Post(app, <<Bundle(b1, f1, <<From(b1, f1)>>)>>) IN
  OneTenant \cup { Publish(a2),
                   [Publish(a1) EXCEPT !.token = a2],
                   [Publish(a1) EXCEPT !.app = NoApp, !.token = NoApp] }

\* Payloads that validation must refuse, next to ones it must let through:
\* clearing or blanking the version or the fingerprint, adding, keeping,
\* resetting and replacing metadata, some of it an object inside a string.
Validated ==
  { Post(a1, <<[id |-> b1, patches |-> Absent,
                set |-> [target |-> t, fingerprint |-> f, metadata |-> m, file |-> f1]]>>) :
      t \in {Null, "blank", "text"}, f \in {Null, "text"},
      m \in {Object({m1}), ObjectInString({m1})} }
  \cup { PatchOf(a1, b1, clause, Absent) :
      clause \in {Nothing, [Nothing EXCEPT !.target = Null], [Nothing EXCEPT !.target = "blank"],
                  [Nothing EXCEPT !.fingerprint = Null],
                  [Nothing EXCEPT !.metadata = Object({m2})], [Nothing EXCEPT !.metadata = Null],
                  [Nothing EXCEPT !.metadata = Array]} }
  \cup { DeleteOf(a1, b1) }
  \cup { [Post(a1, <<Bundle(b1, f1, Absent)>>) EXCEPT !.malformed = "early"],
         [PatchOf(a1, b1, Nothing, <<>>) EXCEPT !.malformed = "late"] }

\* Two column patches that are each fine on the published row.
ClearedApart ==
  { Post(a1, <<[id |-> b1, patches |-> Absent,
                set |-> [target |-> "text", fingerprint |-> "text",
                         metadata |-> NoMetadata, file |-> f1]]>>),
    PatchOf(a1, b1, [Nothing EXCEPT !.target = "blank"], Absent),
    PatchOf(a1, b1, [Nothing EXCEPT !.fingerprint = Null], Absent) }

\* Two patches that each add a metadata key; with two handlers one is lost.
MetadataAdded ==
  { Post(a1, <<Bundle(b1, f1, Absent)>>),
    PatchOf(a1, b1, [Nothing EXCEPT !.metadata = Object({m1})], Absent),
    PatchOf(a1, b1, [Nothing EXCEPT !.metadata = Object({m2})], Absent) }
===============================================================================
