----------------------------- MODULE MCUpdateCheck -----------------------------
(***************************************************************************)
(* Two applications with two bundle ids; an asset that patches can cover   *)
(* and one they cannot.                                                    *)
(***************************************************************************)
EXTENDS UpdateCheck, TLC

CONSTANTS a, b, img, hbc, h1, h2

MCApp == {a, b}
MCBundle == 1..2
MCAsset == {img, hbc}
MCHbcAsset == {hbc}
MCHash == {h1, h2}

Old == [x \in MCAsset |-> h1]
New == [x \in MCAsset |-> h2]

Mixed == [x \in MCAsset |-> IF x = hbc THEN h1 ELSE h2]

MCRow(open, manifest, columns, patches) ==
  [open |-> open, manifest |-> manifest, columns |-> columns, patches |-> patches]

\* An application with a bundle and its successor, in several forms, and one
\* whose bundles have the same ids and other contents.
MCVersion ==
  (<<a, 1>> :> { MCRow(TRUE, Old, "complete", {}), MCRow(FALSE, NoManifest, "empty", {}),
                 MCRow(TRUE, Old, "empty", {}) }) @@
  (<<a, 2>> :> { MCRow(TRUE, New, "complete", {[base |-> 1, file |-> h2, usable |-> TRUE]}),
                 MCRow(TRUE, New, "complete", {[base |-> 1, file |-> h2, usable |-> FALSE]}),
                 MCRow(TRUE, Mixed, "complete", {[base |-> 1, file |-> h1, usable |-> TRUE]}),
                 MCRow(TRUE, New, "unresolvable", {}) }) @@
  (<<b, 1>> :> { MCRow(TRUE, New, "complete", {}) }) @@
  (<<b, 2>> :> { MCRow(TRUE, Old, "complete", {[base |-> 1, file |-> h1, usable |-> TRUE]}) })

MCDevice == [app : {a}, client : 0..2, holds : {Old, Mixed}]
===============================================================================
