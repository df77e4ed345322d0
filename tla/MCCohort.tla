------------------------------- MODULE MCCohort -------------------------------
(***************************************************************************)
(* Values for model checking Cohort.                                       *)
(***************************************************************************)
EXTENDS Cohort

\* Every residue of the multiplier's hash, and negative hashes for some.
EveryResidue == (0..996) \cup {-1, -2, -5, -996, -997, -998, -2147483647, 2147483647}

Bundles ==
  [hashes : EveryResidue \X {123} \cup {0, 5, -7} \X {0, 999, -1}, count : {1}, targets : {{}}]

\* The bundles whose count and targets are changed again and again.
Led == {0, 5, -7} \X {0, 999, -1}

SomeTargets ==
  {{}, {Custom("beta", FALSE)}, {Custom("beta", TRUE), Numeric(7, FALSE)}}
===============================================================================
