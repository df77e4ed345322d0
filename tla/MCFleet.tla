-------------------------------- MODULE MCFleet --------------------------------
(***************************************************************************)
(* A device whose native build lies between the published bundles.         *)
(***************************************************************************)
EXTENDS Fleet

CONSTANTS d1

\* One bundle older than the native build 2, one of its age, two newer.
SomeBundles == {1, 2, 3, 4}
Native == [d \in Device |-> 2]
===============================================================================
