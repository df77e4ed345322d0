------------------------------- MODULE MCStorage -------------------------------
(***************************************************************************)
(* Applications, limits and a store for model checking Storage.            *)
(***************************************************************************)
EXTENDS Storage, TLC

CONSTANTS a1, a2, a3, r1, r2

At(endpoint, bucket) == [endpoint |-> endpoint, credentials |-> "keys", bucket |-> bucket]

\* a1 and a3 share a client; a1 and a2 have a bucket of the same name.
Buckets == a1 :> At("here", "m") @@ a2 :> At("there", "m") @@ a3 :> At("here", "n")
Manifests == {<<"here", "m">>}

Lim(connect, read, attempt, operation) ==
  [connect |-> connect, read |-> read, attempt |-> attempt, operation |-> operation]

Defaults == Lim(1, 1, 1, 1)
Configured == Lim(1, 2, 2, 2)

\* Accepted; refused for its apps, its nesting and, after the limits were
\* installed, its presign lifetime.
Environments ==
  { [apps |-> TRUE, timeouts |-> Configured, expiry |-> 2],
    [apps |-> FALSE, timeouts |-> Configured, expiry |-> 2],
    [apps |-> TRUE, timeouts |-> Lim(1, 3, 2, 2), expiry |-> 2],
    [apps |-> TRUE, timeouts |-> Defaults, expiry |-> 9] }
================================================================================
