-------------------------------- MODULE Cohort --------------------------------
(***************************************************************************)
(* Staged rollout (src/src/cohort.rs): which devices a bundle is open to,  *)
(* given the cohort a device reports, the bundle's explicit target cohorts *)
(* and its rollout count out of 1000.  Operators lead a bundle through its *)
(* rollout by patching count and targets.                                  *)
(*                                                                         *)
(* The two hashes of the bundle id enter as the i32 numbers they are.  A   *)
(* cohort, trimmed, is a number, a name or nothing; `plain` is FALSE when  *)
(* it is written with leading zeros or capitals.  hashes[1] is             *)
(* hash_string("<id>:multiplier") and hashes[2] hash_string("<id>:offset").*)
(***************************************************************************)
EXTENDS Integers, FiniteSets

CONSTANTS
  Published,        \* what bundles are published with: hashes, count, targets
  Patched,          \* the bundles (their hashes) whose rollout operators lead
  Count,            \* values of rollout_cohort_count
  Name,             \* custom cohorts
  Targeting         \* values of target_cohorts: sets of cohorts as written

NUMERIC_COHORT_SIZE == 1000

NoCohort == [kind |-> "none"]
Numeric(n, plain) == [kind |-> "numeric", value |-> n, plain |-> plain]
Custom(s, plain) == [kind |-> "custom", value |-> s, plain |-> plain]

ASSUME CohortAssumption ==
  /\ Published \subseteq [hashes : Int \X Int, count : Count, targets : Targeting]
  /\ Count \subseteq Int
  /\ \A targets \in Targeting : NoCohort \notin targets

-----------------------------------------------------------------------------
(* The shuffle of the 1000 cohorts that each bundle has of its own.        *)

\* % of the code keeps the sign of the dividend.
Rem(value, modulus) == IF value >= 0 THEN value % modulus ELSE -((-value) % modulus)
positive_mod(value, modulus) == Rem(Rem(value, modulus) + modulus, modulus)

\* The loops of gcd and of modular_inverse, each a function of its variables;
\* the second with the error the caller turns into 1.
gcd[p \in Nat \X Nat] == IF p[2] = 0 THEN p[1] ELSE gcd[<<p[2], p[1] % p[2]>>]

EuclidState == [t : Int, new_t : Int, r : Nat, new_r : Nat]
Euclid[s \in EuclidState] ==
  IF s.new_r # 0
  THEN LET quotient == s.r \div s.new_r
       IN  Euclid[[t |-> s.new_t, new_t |-> s.t - quotient * s.new_t,
                   r |-> s.new_r, new_r |-> s.r - quotient * s.new_r]]
  ELSE IF s.r > 1 THEN 1 ELSE positive_mod(s.t, NUMERIC_COHORT_SIZE)
modular_inverse(value) ==
  Euclid[[t |-> 0, new_t |-> 1, r |-> NUMERIC_COHORT_SIZE,
          new_r |-> positive_mod(value, NUMERIC_COHORT_SIZE)]]

\* The multiplier is moved up until it is coprime to 1000, and never 0.
OneForZero(m) == IF m = 0 THEN 1 ELSE m
Coprime[m \in Nat] ==
  IF gcd[<<m, NUMERIC_COHORT_SIZE>>] = 1 THEN m
  ELSE Coprime[OneForZero(positive_mod(m + 1, NUMERIC_COHORT_SIZE))]

\* The hash's own residue, whatever its divisors.
RawMultiplier(mhash, ohash) ==
  LET multiplier == OneForZero(positive_mod(mhash, 997))
  IN [multiplier |-> multiplier, offset |-> positive_mod(ohash, NUMERIC_COHORT_SIZE),
      inverse_multiplier |-> modular_inverse(multiplier)]

get_rollout_shuffle_parameters(mhash, ohash) ==
  LET multiplier == Coprime[OneForZero(positive_mod(mhash, 997))]
  IN [multiplier |-> multiplier, offset |-> positive_mod(ohash, NUMERIC_COHORT_SIZE),
      inverse_multiplier |-> modular_inverse(multiplier)]

\* get_numeric_cohort_rollout_position, for a cohort in range.
Position(shuffle, cohort) ==
  positive_mod(shuffle.inverse_multiplier * (cohort - 1 - shuffle.offset), NUMERIC_COHORT_SIZE)

-----------------------------------------------------------------------------
(* Eligibility.                                                            *)

\* normalize_cohort_value: a number out of range stays as it is written.
normalize(cohort) ==
  IF \/ cohort = NoCohort
     \/ cohort.kind = "numeric" /\ cohort.value \notin 1..NUMERIC_COHORT_SIZE
  THEN cohort ELSE [cohort EXCEPT !.plain = TRUE]

Targeted(cohort, list) ==
  cohort # NoCohort /\ normalize(cohort) \in { normalize(t) : t \in list }

\* normalize_rollout_cohort_count
Clamp(rollout) == IF rollout < 0 THEN 0 ELSE IF rollout > 1000 THEN 1000 ELSE rollout

\* The last test of InRollout off by one.
OneTooMany(cohort, rollout, shuffle) ==
  \/ cohort.kind = "none" /\ Clamp(rollout) >= NUMERIC_COHORT_SIZE
  \/ /\ cohort.kind = "numeric" /\ cohort.value \in 1..NUMERIC_COHORT_SIZE
     /\ Clamp(rollout) > 0
     /\ Clamp(rollout) >= 1000 \/ Position(shuffle, cohort.value) <= Clamp(rollout)

\* Without a cohort only a full rollout counts; a name, and a number that is
\* none of the 1000, never do.
InRollout(cohort, rollout, shuffle) ==
  \/ cohort.kind = "none" /\ Clamp(rollout) >= NUMERIC_COHORT_SIZE
  \/ /\ cohort.kind = "numeric" /\ cohort.value \in 1..NUMERIC_COHORT_SIZE
     /\ Clamp(rollout) > 0
     /\ Clamp(rollout) >= 1000 \/ Position(shuffle, cohort.value) < Clamp(rollout)

\* A target list that replaces the rollout instead of adding to it.
TargetsInstead(cohort, rollout, list, shuffle) ==
  IF list # {} THEN Targeted(cohort, list) ELSE InRollout(cohort, rollout, shuffle)

is_cohort_eligible_for_update(cohort, rollout, list, shuffle) ==
  Targeted(cohort, list) \/ InRollout(cohort, rollout, shuffle)

-----------------------------------------------------------------------------
(* A bundle and its rollout.                                               *)

VARIABLES
  hashes,     \* the two hashes of the bundle's id
  count,      \* rollout_cohort_count
  targets     \* target_cohorts, {} for an absent or empty list

vars == <<hashes, count, targets>>

Shuffle == get_rollout_shuffle_parameters(hashes[1], hashes[2])
Eligible(cohort) == is_cohort_eligible_for_update(cohort, count, targets, Shuffle)

Init ==
  \E bundle \in Published :
    hashes = bundle.hashes /\ count = bundle.count /\ targets = bundle.targets

\* PATCH rolloutCohortCount, targetCohorts.
Patch ==
  /\ hashes \in Patched
  /\ count' \in Count
  /\ targets' \in Targeting
  /\ UNCHANGED hashes

Spec == Init /\ [][Patch]_vars

\* The shuffle the positions undo: the cohort at each position.
CohortAt(position) ==
  1 + ((Shuffle.multiplier * position + Shuffle.offset) % NUMERIC_COHORT_SIZE)

Cohorts ==
  {NoCohort}
  \cup { Numeric(n, plain) : n \in 0..(NUMERIC_COHORT_SIZE + 1), plain \in BOOLEAN }
  \cup { Custom(s, plain) : s \in Name, plain \in BOOLEAN }

-----------------------------------------------------------------------------
(* Properties.                                                             *)

\* A rollout of n out of 1000 opens the bundle to exactly n of the numeric
\* cohorts, whatever the hashes of its id.
ExactShare ==
  targets = {} =>
    Cardinality({ n \in 1..NUMERIC_COHORT_SIZE : Eligible(Numeric(n, TRUE)) }) = Clamp(count)

\* Positions invert the shuffle: cohorts are let in in the order the bundle's
\* multiplier and offset put them.
PositionsInvertShuffle ==
  \A position \in 0..(NUMERIC_COHORT_SIZE - 1) : Position(Shuffle, CohortAt(position)) = position

\* Raising the count, or adding targets, takes the bundle from no device.
RolloutOnlyGrows ==
  [][count' >= count /\ targets \subseteq targets' =>
       \A cohort \in Cohorts : Eligible(cohort) => Eligible(cohort)']_vars
===============================================================================
