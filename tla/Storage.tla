-------------------------------- MODULE Storage --------------------------------
(***************************************************************************)
(* The S3 client (src/src/storage.rs): the limits and the presign lifetime *)
(* in their process-wide cells, one client per storage configuration, and  *)
(* the manifest reads of update checks against a store that may answer     *)
(* late, break off or say nothing, up to a graceful shutdown               *)
(* (src/src/main.rs) that waits for them.                                  *)
(*                                                                         *)
(* The process is the server, or a program that uses the crate as a        *)
(* library, the tests among them: that one may read before Config::from_env *)
(* and call it more than once.  Time passes in ticks, and never past a     *)
(* limit that is due: the runtime's timers fire on time.                   *)
(***************************************************************************)
EXTENDS Naturals

CONSTANTS
  Request,       \* update checks that may be in flight at once
  App,
  AppStorage,    \* [App -> [endpoint, credentials, bucket]]
  Stored,        \* <<endpoint, bucket>> of the manifests that exist
  Uri,           \* what manifests' URIs name: buckets, or nothing parse_s3_uri takes
  Environment,   \* [apps, timeouts, expiry]: what from_env may find
  DefaultLimits, DefaultExpiry, MinExpiry, MaxExpiry,
  MaxAttempts,   \* attempts of the SDK's retry strategy
  Unset

Limits == [connect : Nat, read : Nat, attempt : Nat, operation : Nat]

\* StorageTimeoutConfig::from_env: nothing is zero, and no inner limit exceeds
\* the one around it.
Nested(l) ==
  /\ l.connect > 0 /\ l.read > 0
  /\ l.connect <= l.attempt /\ l.read <= l.attempt
  /\ l.attempt <= l.operation

\* The reads of one update check: the manifests of the new bundle and of the
\* current one.
ReadsPerCheck == 2

ASSUME StorageAssumption ==
  /\ MaxAttempts \in Nat \ {0}
  /\ DefaultLimits \in Limits /\ Nested(DefaultLimits)
  /\ MinExpiry \in Nat /\ MaxExpiry \in Nat /\ DefaultExpiry \in MinExpiry..MaxExpiry
  /\ \A e \in Environment : e.apps \in BOOLEAN /\ e.timeouts \in Limits /\ e.expiry \in Nat
  /\ Unset \notin Limits \cup Nat
  /\ Unset \notin [endpoint : { AppStorage[app].endpoint : app \in App }, limits : Limits]

VARIABLES
  process,     \* "library", "starting", "serving", "draining", "stopped"
  TIMEOUTS, PRESIGN,  \* the OnceLock cells
  CLIENTS,     \* client by key
  check,       \* what each request is doing
  asked        \* observed: the environment the server started with

vars == <<process, TIMEOUTS, PRESIGN, CLIENTS, check, asked>>
cells == <<TIMEOUTS, PRESIGN>>

-----------------------------------------------------------------------------
(* The cells and the clients.                                              *)

timeouts == IF TIMEOUTS = Unset THEN DefaultLimits ELSE TIMEOUTS
presign_config == IF PRESIGN = Unset THEN DefaultExpiry ELSE PRESIGN

\* A cell that takes every value it is given.
InstallOver(cell, value) == value

\* OnceLock::set: the first value stays.
Install(cell, value) == IF cell = Unset THEN value ELSE cell

\* The credentials alone.
KeyWithoutEndpoint(app) == AppStorage[app].credentials

\* Everything that makes the client, so not the bucket.
ClientKey(app) == <<AppStorage[app].endpoint, AppStorage[app].credentials>>
ClientKeys == { ClientKey(app) : app \in App }

build_client(app) == [endpoint |-> AppStorage[app].endpoint, limits |-> timeouts]

\* The cached client, or one built with the limits in the cell.
client_for(app) ==
  IF CLIENTS[ClientKey(app)] = Unset THEN build_client(app) ELSE CLIENTS[ClientKey(app)]

\* CLIENTS after a call of client_for; building reads TIMEOUTS, which fills it.
Cached(app) ==
  /\ CLIENTS' = [CLIENTS EXCEPT ![ClientKey(app)] = client_for(app)]
  /\ TIMEOUTS' = IF CLIENTS[ClientKey(app)] = Unset THEN timeouts ELSE TIMEOUTS

-----------------------------------------------------------------------------
(* Config::from_env, and main around it.                                   *)

\* Whether from_env gets as far as the timeouts, and as far as its end.
TimeoutsValid(e) == e.apps /\ Nested(e.timeouts)
Valid(e) == TimeoutsValid(e) /\ e.expiry \in MinExpiry..MaxExpiry

from_env(e) ==
  /\ TIMEOUTS' = IF TimeoutsValid(e) THEN Install(TIMEOUTS, e.timeouts) ELSE TIMEOUTS
  /\ PRESIGN' = IF Valid(e) THEN Install(PRESIGN, e.expiry) ELSE PRESIGN

\* main exits on an error; nothing is served before.
StartServer ==
  /\ process = "starting"
  /\ \E e \in Environment :
       /\ from_env(e)
       /\ process' = IF Valid(e) THEN "serving" ELSE "stopped"
       /\ asked' = e
  /\ UNCHANGED <<CLIENTS, check>>

\* A library user is told of the error and may go on.
ConfigureLibrary ==
  /\ process = "library"
  /\ \E e \in Environment : from_env(e)
  /\ UNCHANGED <<process, CLIENTS, check, asked>>

\* SIGTERM or SIGINT: no new request is taken, those there are go on.
shutdown_signal ==
  /\ process = "serving"
  /\ process' = "draining"
  /\ UNCHANGED <<cells, CLIENTS, check, asked>>

Idle == [pc |-> "idle"]

Stop ==
  /\ process = "draining"
  /\ \A r \in Request : check[r] = Idle
  /\ process' = "stopped"
  /\ UNCHANGED <<cells, CLIENTS, check, asked>>

-----------------------------------------------------------------------------
(* One read.                                                               *)

NoAnswer == [kind |-> "none yet"]
Text(client, bucket) == [kind |-> "text", from |-> <<client.endpoint, bucket>>]
Absent == [kind |-> "absent"]
Failed == [kind |-> "failed"]

Answer(r, answer) ==
  check' = [check EXCEPT ![r] = [@ EXCEPT !.pc = "answered", !.answer = answer,
                                          !.attempts = 0, !.tried = 0, !.spent = 0]]

\* resolve_key refuses another bucket's URI before there is a client; send()
\* starts the first attempt of a read that `left` more may follow.
Read(r, app, uri, left, spentBefore) ==
  LET State(pc, attempts, client, answer) ==
        [pc |-> pc, app |-> app, left |-> left, attempts |-> attempts, tried |-> 0,
         spent |-> 0, total |-> spentBefore, client |-> client, answer |-> answer]
  IN IF uri = AppStorage[app].bucket
     THEN /\ check' = [check EXCEPT ![r] = State("connecting", 1, client_for(app), NoAnswer)]
          /\ Cached(app)
     ELSE /\ check' = [check EXCEPT ![r] = State("answered", 0, Unset, Failed)]
          /\ UNCHANGED <<TIMEOUTS, CLIENTS>>

\* An update check reads its first manifest.
Begin(r) ==
  /\ process \in {"library", "serving"} /\ check[r] = Idle
  /\ \E app \in App, uri \in Uri : Read(r, app, uri, ReadsPerCheck - 1, 0)
  /\ UNCHANGED <<process, PRESIGN, asked>>

\* Only a manifest that is there leads to the other one's read.
ReadNext(r) ==
  LET c == check[r] IN
  /\ c.pc = "answered" /\ c.answer.kind = "text" /\ c.left > 0
  /\ \E uri \in Uri : Read(r, c.app, uri, c.left - 1, c.total)
  /\ UNCHANGED <<process, PRESIGN, asked>>

\* The answer goes out.
Respond(r) ==
  /\ check[r].pc = "answered"
  /\ check' = [check EXCEPT ![r] = Idle]
  /\ UNCHANGED <<process, cells, CLIENTS, asked>>

\* A check in flight, or a library user, signs a URL: that is local, but it
\* needs a client, and it fills the other cell.
get_presigned_url(app) ==
  /\ process = "library" \/ \E r \in Request : check[r] # Idle /\ check[r].app = app
  /\ Cached(app)
  /\ PRESIGN' = presign_config
  /\ UNCHANGED <<process, check, asked>>

-----------------------------------------------------------------------------
(* The store, which may also do nothing.                                   *)

Unconfigured == <<process, cells, CLIENTS, asked>>

Connect(r) ==
  /\ check[r].pc = "connecting"
  /\ check' = [check EXCEPT ![r] = [@ EXCEPT !.pc = "waiting"]]
  /\ UNCHANGED Unconfigured

\* An attempt that failed is retried while attempts are left.
Retry(r) ==
  IF check[r].attempts < MaxAttempts
  THEN check' = [check EXCEPT ![r] = [@ EXCEPT !.pc = "backoff", !.tried = 0]]
  ELSE Answer(r, Failed)

AttemptFails(r) ==
  /\ check[r].pc \in {"connecting", "waiting"}
  /\ Retry(r)
  /\ UNCHANGED Unconfigured

\* The attempt after the backoff.
NextAttempt(r) ==
  /\ check[r].pc = "backoff"
  /\ check' = [check EXCEPT ![r] = [@ EXCEPT !.pc = "connecting", !.attempts = check[r].attempts + 1]]
  /\ UNCHANGED Unconfigured

Exists(r) == <<check[r].client.endpoint, AppStorage[check[r].app].bucket>> \in Stored

\* send() returns with the headers: the body's wait starts from zero.
Headers(r) ==
  /\ check[r].pc = "waiting" /\ Exists(r)
  /\ check' = [check EXCEPT ![r] = [@ EXCEPT !.pc = "body", !.attempts = 0,
                                             !.tried = 0, !.spent = 0]]
  /\ UNCHANGED Unconfigured

\* NoSuchKey, the one error read_s3_file_optional makes an answer of.
NoSuchKey(r) ==
  /\ check[r].pc = "waiting" /\ ~Exists(r)
  /\ Answer(r, Absent)
  /\ UNCHANGED Unconfigured

\* Any other error the SDK does not retry, as a missing bucket.
Refused(r) ==
  /\ check[r].pc = "waiting"
  /\ Answer(r, Failed)
  /\ UNCHANGED Unconfigured

\* The whole body arrives, or it breaks off or is not UTF-8.
Body(r) ==
  /\ check[r].pc = "body"
  /\ \E answer \in {Text(check[r].client, AppStorage[check[r].app].bucket), Failed} :
       Answer(r, answer)
  /\ UNCHANGED Unconfigured

-----------------------------------------------------------------------------
(* Time.                                                                   *)

InFlight == { r \in Request : check[r].pc \in {"connecting", "waiting", "backoff", "body"} }

\* The SDK's timers: the attempt's, with its connect and read limits ...
AttemptDue(r) ==
  LET c == check[r] IN
  \/ c.pc = "connecting" /\ c.tried >= c.client.limits.connect
  \/ c.pc \in {"connecting", "waiting"} /\ c.tried >= c.client.limits.read
  \/ c.pc \in {"connecting", "waiting"} /\ c.tried >= c.client.limits.attempt

\* ... and the operation's, which ends with the headers.
NoSendLimit(r) == FALSE  \* the retries together have no limit
SendDue(r) == /\ check[r].pc \in {"connecting", "waiting", "backoff"}
              /\ check[r].spent >= check[r].client.limits.operation

\* tokio::time::timeout around the body.
NoBodyLimit(r) == FALSE  \* a body may trickle in for ever
BodyDue(r) == check[r].pc = "body" /\ check[r].spent >= timeouts.operation

Due(r) == AttemptDue(r) \/ SendDue(r) \/ BodyDue(r)

Expire(r) ==
  /\ IF SendDue(r) \/ BodyDue(r) THEN Answer(r, Failed)
     ELSE AttemptDue(r) /\ Retry(r)
  /\ UNCHANGED Unconfigured

\* `total` is an observation; it saturates past every limit.
Budget(l) == 2 * ReadsPerCheck * l.operation
UpTo(n, bound) == IF n < bound THEN n + 1 ELSE n

Tick ==
  /\ InFlight # {}
  /\ \A r \in InFlight : ~Due(r)
  /\ check' = [r \in Request |->
       IF r \notin InFlight THEN check[r]
       ELSE [check[r] EXCEPT
               !.tried = IF check[r].pc \in {"connecting", "waiting"}
                         THEN UpTo(@, check[r].client.limits.attempt) ELSE @,
               !.spent = UpTo(@, check[r].client.limits.operation),
               !.total = UpTo(@, Budget(check[r].client.limits) + 1)]]
  /\ UNCHANGED Unconfigured

-----------------------------------------------------------------------------

Init ==
  /\ process \in {"library", "starting"}
  /\ TIMEOUTS = Unset /\ PRESIGN = Unset
  /\ CLIENTS = [k \in ClientKeys |-> Unset]
  /\ check = [r \in Request |-> Idle]
  /\ asked = Unset

Next ==
  \/ StartServer \/ ConfigureLibrary \/ shutdown_signal \/ Stop \/ Tick
  \/ \E app \in App : get_presigned_url(app)
  \/ \E r \in Request :
       \/ Begin(r) \/ ReadNext(r) \/ Respond(r)
       \/ Connect(r) \/ AttemptFails(r) \/ NextAttempt(r)
       \/ Headers(r) \/ NoSuchKey(r) \/ Refused(r) \/ Body(r)
       \/ Expire(r)

\* Time passes, timers fire, and handlers go on; the store owes nothing.
Fairness ==
  /\ WF_vars(Tick) /\ WF_vars(Stop)
  /\ \A r \in Request : WF_vars(Expire(r)) /\ WF_vars(ReadNext(r) \/ Respond(r))

Spec == Init /\ [][Next]_vars /\ Fairness

-----------------------------------------------------------------------------
(* Properties.                                                             *)

\* Every limit in force is one and the same for the life of the process,
\* whoever read or set it first, and the server's is the operator's: a cached
\* client's limits are those the bodies are held to.
OneSetOfLimits ==
  /\ \A k \in ClientKeys : CLIENTS[k] # Unset => CLIENTS[k].limits = TIMEOUTS
  /\ Nested(timeouts)
  /\ process \in {"serving", "draining"} => TIMEOUTS = asked.timeouts /\ PRESIGN = asked.expiry

\* Two applications may share a client, and still each reads its own bucket at
\* its own endpoint: what it is told is there, or is not there, is so there.
AnswersAreOfOwnBucket ==
  \A r \in Request : check[r] # Idle =>
    LET own == <<AppStorage[check[r].app].endpoint, AppStorage[check[r].app].bucket>>
        answer == check[r].answer
    IN /\ answer.kind = "text" => answer.from = own
       /\ answer.kind = "absent" => own \notin Stored

\* However the store behaves, an update check spends at most two operation
\* limits on a read, one for the headers with all retries and one for the body.
ReadsKeepTheirBudget ==
  \A r \in Request : check[r] # Idle =>
    check[r].total <= 2 * (ReadsPerCheck - check[r].left) * timeouts.operation

\* The drain of a graceful shutdown has no limit of its own: it ends because
\* every read does.
ShutdownCompletes == process = "draining" ~> process = "stopped"
================================================================================
