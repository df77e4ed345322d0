------------------------------- MODULE Decision -------------------------------
(***************************************************************************)
(* decide_update of src/src/routes/check.rs: which bundle a device is told *)
(* to run.  Bundle ids are byte-ordered strings; here they are natural     *)
(* numbers in that order, with NIL_UUID, the least of them, as 0.          *)
(***************************************************************************)
EXTENDS Naturals, FiniteSets

CONSTANT LastId   \* the greatest string of 36 characters

ASSUME LastIdAssumption == LastId \in Nat

NIL == 0

\* `candidates` are the rows the query and the version or fingerprint filter
\* let through, `eligible` the bundles whose cohort test the device passes; the
\* first definition of each pair leaves a test out.
NewerOfAnyCohort(candidates, eligible, client) == { b \in candidates : b > client }
Newer(candidates, eligible, client) == { b \in candidates \cap eligible : b > client }

OlderOrSame(candidates, client) == { b \in candidates : b <= client }
Older(candidates, client) == { b \in candidates : b < client }

\* What the device runs needs no leaving: built-in code, or an eligible bundle.
Keeps(candidates, eligible, client) == client = NIL \/ client \in candidates \cap eligible

\* Both scans of the candidates keep the greatest id.
Greatest(ids) == CHOOSE b \in ids : \A c \in ids : c <= b

Update(b)   == [status |-> "UPDATE", id |-> b]
Rollback(b) == [status |-> "ROLLBACK", id |-> b]
NoUpdate    == [status |-> "UP_TO_DATE", id |-> NIL]

\* The decision without its last test, of the native floor.
NoFloor(candidates, eligible, client, min) ==
  LET newer == Newer(candidates, eligible, client)
      older == Older(candidates, client)
      keeps == Keeps(candidates, eligible, client)
  IN CASE newer # {}                            -> Update(Greatest(newer))
       [] newer = {} /\ keeps                   -> NoUpdate
       [] newer = {} /\ ~keeps /\ older # {}    -> Rollback(Greatest(older))
       [] newer = {} /\ ~keeps /\ older = {}    -> Rollback(NIL)

\* UPDATE to the greatest eligible id above the client's; else stay, if the
\* device runs the built-in code or a bundle it is still eligible for; else
\* ROLLBACK to the greatest candidate below, whatever its cohort; else stay,
\* if what it runs is no newer than the native build; else reset it.
decide_update(candidates, eligible, client, min) ==
  LET newer == Newer(candidates, eligible, client)
      older == Older(candidates, client)
      keeps == Keeps(candidates, eligible, client)
  IN CASE newer # {}                                           -> Update(Greatest(newer))
       [] newer = {} /\ keeps                                  -> NoUpdate
       [] newer = {} /\ ~keeps /\ older # {}                   -> Rollback(Greatest(older))
       [] newer = {} /\ ~keeps /\ older = {} /\ client <= min  -> NoUpdate
       [] newer = {} /\ ~keeps /\ older = {} /\ client > min   -> Rollback(NIL)

\* Where a device that asks again and again ends up on an unchanging catalog:
\* the greatest bundle it is eligible for, else no bundle above the floor.
Destination(candidates, eligible, min) ==
  LET open == candidates \cap eligible
  IN IF open # {} THEN {Greatest(open)} ELSE 0..min
===============================================================================
