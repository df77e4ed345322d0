----------------------------- MODULE StorageProofs -----------------------------
(***************************************************************************)
(* Proofs about Storage: one set of limits, answers of an application's    *)
(* own bucket, and the time a read may take, for any applications,         *)
(* environments, stores and numbers of checks in flight.                   *)
(***************************************************************************)
EXTENDS Storage, TLAPS

Endpoints == { AppStorage[app].endpoint : app \in App }
Buckets == { AppStorage[app].bucket : app \in App }

Client == [endpoint : Endpoints, limits : Limits]
Answers == {NoAnswer, Absent, Failed} \cup [kind : {"text"}, from : Endpoints \X Buckets]

Sending == {"connecting", "waiting", "backoff"}

ReadState ==
  [pc : Sending \cup {"body", "answered"}, app : App, left : 0..(ReadsPerCheck - 1),
   attempts : Nat, tried : Nat, spent : Nat, total : Nat,
   client : Client \cup {Unset}, answer : Answers]

\* What the reads before the current one may have taken, and the current one.
Earlier(c) == IF c.left = 0 THEN 2 * timeouts.operation ELSE 0
Present(c) == IF c.pc \in Sending THEN c.spent
              ELSE IF c.pc = "body" THEN timeouts.operation + c.spent
              ELSE 2 * timeouts.operation

Own(c) == <<AppStorage[c.app].endpoint, AppStorage[c.app].bucket>>

\* A read in progress uses the cached client of its application.
UsesClient(c) ==
  c.pc # "answered" => c.client = CLIENTS[ClientKey(c.app)] /\ c.client # Unset

KeepsBudget(c) ==
  /\ c.pc # "answered" => c.spent <= timeouts.operation
  /\ c.total <= Earlier(c) + Present(c)
  /\ TIMEOUTS = Unset => c.total = 0

TellsOfOwn(c) ==
  /\ c.answer.kind = "text" => c.answer.from = Own(c)
  /\ c.answer.kind = "absent" => Own(c) \notin Stored

Good(c) == c = Idle \/ (c \in ReadState /\ UsesClient(c) /\ KeepsBudget(c) /\ TellsOfOwn(c))

TypeInv ==
  /\ process \in {"library", "starting", "serving", "draining", "stopped"}
  /\ TIMEOUTS \in Limits \cup {Unset}
  /\ PRESIGN \in Nat \cup {Unset}
  /\ CLIENTS \in [ClientKeys -> Client \cup {Unset}]
  /\ check \in [Request -> ReadState \cup {Idle}]

\* What the cells hold nobody changes, and the clients were built with it.
CellInv ==
  /\ TIMEOUTS # Unset => Nested(TIMEOUTS)
  /\ \A k \in ClientKeys : CLIENTS[k] # Unset =>
       CLIENTS[k].endpoint = k[1] /\ CLIENTS[k].limits = TIMEOUTS
  /\ process = "starting" =>
       TIMEOUTS = Unset /\ PRESIGN = Unset /\ \A r \in Request : check[r] = Idle
  /\ process \in {"serving", "draining"} =>
       /\ TIMEOUTS # Unset /\ TIMEOUTS = asked.timeouts
       /\ PRESIGN # Unset /\ PRESIGN = asked.expiry

StorageInv == TypeInv /\ CellInv /\ \A r \in Request : Good(check[r])
-----------------------------------------------------------------------------

LEMMA LimitsInForce ==
  ASSUME TypeInv, CellInv
  PROVE  /\ timeouts \in Limits /\ Nested(timeouts)
         /\ timeouts.operation \in Nat
BY StorageAssumption DEF TypeInv, CellInv, timeouts, Limits

\* An idle check is no read in progress.
LEMMA NotIdle ==
  ASSUME NEW c \in ReadState \cup {Idle}, c.pc # "idle"
  PROVE  c \in ReadState
BY DEF Idle

LEMMA InitHolds ==
  Init => StorageInv
BY StorageAssumption DEF Init, StorageInv, TypeInv, CellInv, Good, Idle

\* A step of one check, or of all of them, while the cells stay as they are.
LEMMA ChecksStep ==
  ASSUME StorageInv, UNCHANGED Unconfigured, process # "starting",
         check' \in [Request -> ReadState \cup {Idle}],
         \A r \in Request : Good(check'[r])
  PROVE  StorageInv'
<1>1. timeouts' = timeouts
  BY DEF Unconfigured, cells, timeouts
<1>2. (\A r \in Request : Good(check[r]))'
  BY <1>1 DEF Unconfigured, cells, Good, UsesClient, KeepsBudget, TellsOfOwn, Earlier, Present, Own
<1>3. TypeInv' /\ CellInv'
  BY DEF StorageInv, TypeInv, CellInv, Unconfigured, cells
<1>4. QED
  BY <1>2, <1>3 DEF StorageInv

LEMMA OneCheckSteps ==
  ASSUME StorageInv, UNCHANGED Unconfigured, NEW r \in Request, check[r] # Idle,
         NEW d \in ReadState \cup {Idle}, Good(d), check' = [check EXCEPT ![r] = d]
  PROVE  StorageInv'
<1>1. process # "starting"
  BY DEF StorageInv, CellInv
<1>2. check' \in [Request -> ReadState \cup {Idle}]
  BY DEF StorageInv, TypeInv
<1>3. \A q \in Request : Good(check'[q])
  BY DEF StorageInv, TypeInv
<1>4. QED
  BY <1>1, <1>2, <1>3, ChecksStep

-----------------------------------------------------------------------------
(* The cells and the clients.                                              *)

\* A call of client_for leaves what is there, and fills the rest with the
\* limits in the cell.
LEMMA CachedStep ==
  ASSUME StorageInv, NEW app \in App, Cached(app),
         process' = process, asked' = asked,
         process # "starting", PRESIGN' \in Nat \cup {Unset},
         PRESIGN # Unset => PRESIGN' = PRESIGN
  PROVE  /\ timeouts' = timeouts
         /\ TIMEOUTS' \in Limits /\ TIMEOUTS' = timeouts
         /\ CLIENTS' \in [ClientKeys -> Client \cup {Unset}]
         /\ \A k \in ClientKeys : CLIENTS[k] # Unset => CLIENTS'[k] = CLIENTS[k]
         /\ CLIENTS'[ClientKey(app)] = client_for(app) /\ client_for(app) \in Client
         /\ CellInv'
<1> DEFINE K == ClientKey(app)
<1>1. K \in ClientKeys /\ K[1] = AppStorage[app].endpoint /\ K[1] \in Endpoints
  BY DEF ClientKeys, ClientKey, Endpoints
<1>2. timeouts \in Limits /\ Nested(timeouts)
  BY LimitsInForce DEF StorageInv
<1>3. build_client(app) \in Client /\ build_client(app) # Unset
      /\ build_client(app).endpoint = K[1] /\ build_client(app).limits = timeouts
  BY <1>1, <1>2, StorageAssumption DEF build_client, Client, Endpoints
<1>4. TIMEOUTS' = timeouts
  BY <1>1, StorageAssumption DEF Cached, StorageInv, TypeInv, CellInv, timeouts, Client
<1>5. TIMEOUTS' # Unset /\ timeouts' = timeouts
  BY <1>2, <1>4, StorageAssumption DEF timeouts
<1>6. client_for(app) \in Client
  BY <1>1, <1>3 DEF client_for, StorageInv, TypeInv
<1>7. CLIENTS' = [CLIENTS EXCEPT ![K] = client_for(app)]
  BY DEF Cached
<1>8. /\ CLIENTS' \in [ClientKeys -> Client \cup {Unset}]
      /\ \A k \in ClientKeys : CLIENTS[k] # Unset => CLIENTS'[k] = CLIENTS[k]
      /\ CLIENTS'[K] = client_for(app)
  BY <1>1, <1>6, <1>7 DEF client_for, StorageInv, TypeInv
<1>9. \A k \in ClientKeys : CLIENTS'[k] # Unset =>
         CLIENTS'[k].endpoint = k[1] /\ CLIENTS'[k].limits = TIMEOUTS'
  <2> SUFFICES ASSUME NEW k \in ClientKeys, CLIENTS'[k] # Unset
               PROVE  CLIENTS'[k].endpoint = k[1] /\ CLIENTS'[k].limits = timeouts
    BY <1>4
  <2>1. CASE CLIENTS[k] = Unset
    <3>1. k = K /\ CLIENTS'[k] = build_client(app)
      BY <1>1, <1>7, <2>1 DEF client_for, StorageInv, TypeInv
    <3>2. QED
      BY <1>3, <3>1
  <2>2. CASE CLIENTS[k] # Unset
    <3>1. CLIENTS[k].endpoint = k[1] /\ CLIENTS[k].limits = TIMEOUTS /\ CLIENTS[k] \in Client
      BY <2>2 DEF StorageInv, CellInv, TypeInv
    <3>2. TIMEOUTS # Unset
      BY <3>1, StorageAssumption DEF Client
    <3>3. QED
      BY <1>8, <2>2, <3>1, <3>2 DEF timeouts
  <2>3. QED
    BY <2>1, <2>2
<1>10. process \in {"serving", "draining"} =>
         TIMEOUTS' = asked.timeouts /\ PRESIGN' # Unset /\ PRESIGN' = asked.expiry
  BY <1>4 DEF StorageInv, CellInv, timeouts
<1>11. CellInv'
  BY <1>2, <1>4, <1>5, <1>9, <1>10 DEF CellInv
<1>12. QED
  BY <1>2, <1>4, <1>5, <1>6, <1>8, <1>11

\* A check whose cells have only been filled is as good as before.
LEMMA GoodStays ==
  ASSUME StorageInv, timeouts' = timeouts, TIMEOUTS' # Unset,
         \A k \in ClientKeys : CLIENTS[k] # Unset => CLIENTS'[k] = CLIENTS[k],
         NEW c \in ReadState \cup {Idle}, Good(c)
  PROVE  \/ c = Idle
         \/ /\ c \in ReadState /\ TellsOfOwn(c)
            /\ c.pc # "answered" => c.client = CLIENTS'[ClientKey(c.app)] /\ c.client # Unset
            /\ c.pc # "answered" => c.spent <= timeouts.operation
            /\ c.total <= Earlier(c) + Present(c)
<1>1. c \in ReadState => ClientKey(c.app) \in ClientKeys
  BY DEF ReadState, ClientKeys
<1>2. QED
  BY <1>1 DEF Good, UsesClient, KeepsBudget

LEMMA PresignStep ==
  ASSUME StorageInv, NEW app \in App, get_presigned_url(app)
  PROVE  StorageInv'
<1>1. process # "starting"
  BY DEF get_presigned_url, StorageInv, CellInv
<1>2. PRESIGN' \in Nat \cup {Unset} /\ (PRESIGN # Unset => PRESIGN' = PRESIGN)
  BY StorageAssumption DEF get_presigned_url, presign_config, StorageInv, TypeInv
<1>3. /\ timeouts' = timeouts /\ TIMEOUTS' \in Limits
      /\ CLIENTS' \in [ClientKeys -> Client \cup {Unset}]
      /\ \A k \in ClientKeys : CLIENTS[k] # Unset => CLIENTS'[k] = CLIENTS[k]
      /\ CellInv'
  BY <1>1, <1>2, CachedStep DEF get_presigned_url
<1>4. TIMEOUTS' # Unset
  BY <1>3, StorageAssumption
<1>5. \A r \in Request : Good(check[r])'
  <2> SUFFICES ASSUME NEW r \in Request PROVE Good(check[r])'
    OBVIOUS
  <2>1. check[r] \in ReadState \cup {Idle} /\ Good(check[r]) /\ check' = check
    BY DEF StorageInv, TypeInv, get_presigned_url
  <2>2. QED
    BY <1>3, <1>4, <2>1, GoodStays
    DEF Good, UsesClient, KeepsBudget, TellsOfOwn, Earlier, Present, Own
<1>6. TypeInv'
  BY <1>2, <1>3 DEF TypeInv, StorageInv, get_presigned_url
<1>7. QED
  BY <1>3, <1>5, <1>6 DEF StorageInv

\* from_env: whoever calls it, the cells that are filled stay, and after a
\* success in a fresh process they hold what the environment asked for.
LEMMA FromEnvStep ==
  ASSUME StorageInv, NEW e \in Environment, from_env(e)
  PROVE  /\ TIMEOUTS' \in Limits \cup {Unset} /\ PRESIGN' \in Nat \cup {Unset}
         /\ TIMEOUTS' # Unset => Nested(TIMEOUTS')
         /\ TIMEOUTS # Unset => TIMEOUTS' = TIMEOUTS
         /\ TIMEOUTS = Unset /\ PRESIGN = Unset /\ Valid(e) =>
              /\ TIMEOUTS' = e.timeouts /\ TIMEOUTS' # Unset
              /\ PRESIGN' = e.expiry /\ PRESIGN' # Unset
<1>1. e.timeouts \in Limits /\ e.timeouts # Unset /\ e.expiry \in Nat /\ e.expiry # Unset
  BY StorageAssumption
<1>2. QED
  BY <1>1 DEF from_env, Install, TimeoutsValid, Valid, StorageInv, TypeInv, CellInv

LEMMA StartServerStep ==
  ASSUME StorageInv, StartServer
  PROVE  StorageInv'
<1>1. PICK e \in Environment :
        /\ from_env(e) /\ asked' = e
        /\ process' = IF Valid(e) THEN "serving" ELSE "stopped"
  BY DEF StartServer
<1>2. /\ TIMEOUTS = Unset /\ PRESIGN = Unset
      /\ \A r \in Request : check[r] = Idle
      /\ UNCHANGED <<CLIENTS, check>>
  BY DEF StartServer, StorageInv, CellInv
<1>3. \A k \in ClientKeys : CLIENTS[k] = Unset
  BY <1>2, StorageAssumption DEF StorageInv, TypeInv, CellInv, Client
<1>4. TypeInv'
  BY <1>1, <1>2, FromEnvStep DEF StorageInv, TypeInv
<1>5. CellInv'
  BY <1>1, <1>2, <1>3, FromEnvStep DEF CellInv
<1>6. (\A r \in Request : Good(check[r]))'
  BY <1>2 DEF Good, Idle
<1>7. QED
  BY <1>4, <1>5, <1>6 DEF StorageInv

LEMMA ConfigureLibraryStep ==
  ASSUME StorageInv, ConfigureLibrary
  PROVE  StorageInv'
<1>1. PICK e \in Environment : from_env(e)
  BY DEF ConfigureLibrary
<1>2. UNCHANGED <<process, CLIENTS, check, asked>> /\ process = "library"
  BY DEF ConfigureLibrary
<1>3. TypeInv'
  BY <1>1, <1>2, FromEnvStep DEF StorageInv, TypeInv
<1>4. CellInv'
  <2>1. \A k \in ClientKeys : CLIENTS[k] # Unset => TIMEOUTS # Unset
    BY StorageAssumption DEF StorageInv, TypeInv, CellInv, Client
  <2>2. QED
    BY <1>1, <1>2, <2>1, FromEnvStep DEF StorageInv, CellInv
<1>5. (\A r \in Request : Good(check[r]))'
  <2> SUFFICES ASSUME NEW r \in Request PROVE Good(check[r])'
    OBVIOUS
  <2>1. check[r] \in ReadState \cup {Idle} /\ Good(check[r]) /\ check' = check /\ CLIENTS' = CLIENTS
    BY <1>2 DEF StorageInv, TypeInv
  <2>2. CASE check[r] = Idle
    BY <2>1, <2>2 DEF Good, Idle
  <2>3. CASE TIMEOUTS # Unset
    <3>1. timeouts' = timeouts /\ TIMEOUTS' = TIMEOUTS
      BY <1>1, <2>3, FromEnvStep DEF timeouts
    <3>2. QED
      BY <2>1, <3>1 DEF Good, UsesClient, KeepsBudget, TellsOfOwn, Earlier, Present, Own
  <2>4. CASE check[r] # Idle /\ TIMEOUTS = Unset
    <3>1. check[r] \in ReadState /\ ClientKey(check[r].app) \in ClientKeys
      BY <2>1, <2>4 DEF ReadState, ClientKeys
    <3>2. check[r].pc = "answered"
      BY <2>1, <2>4, <3>1, StorageAssumption DEF Good, UsesClient, StorageInv, TypeInv, CellInv, Client
    <3>3. check[r].total = 0
      BY <2>1, <2>4 DEF Good, KeepsBudget
    <3>4. timeouts'.operation \in Nat
      BY <1>3, <1>4, StorageAssumption DEF TypeInv, CellInv, timeouts, Limits
    <3>5. 0 <= Earlier(check[r])' + Present(check[r])'
      BY <2>1, <3>2, <3>4 DEF Earlier, Present, Sending
    <3>6. QED
      BY <2>1, <2>4, <3>1, <3>2, <3>3, <3>5 DEF Good, UsesClient, KeepsBudget, TellsOfOwn, Own
  <2>5. QED
    BY <2>2, <2>3, <2>4
<1>6. QED
  BY <1>3, <1>4, <1>5 DEF StorageInv

LEMMA ShutdownSteps ==
  ASSUME StorageInv, shutdown_signal \/ Stop
  PROVE  StorageInv'
<1>1. UNCHANGED <<cells, CLIENTS, check, asked>> /\ process' \in {"draining", "stopped"}
      /\ process \in {"serving", "draining"}
  BY DEF shutdown_signal, Stop
<1>2. timeouts' = timeouts
  BY <1>1 DEF cells, timeouts
<1>3. (\A r \in Request : Good(check[r]))'
  BY <1>1, <1>2 DEF StorageInv, cells, Good, UsesClient, KeepsBudget, TellsOfOwn, Earlier, Present, Own
<1>4. TypeInv' /\ CellInv'
  BY <1>1 DEF StorageInv, TypeInv, CellInv, cells
<1>5. QED
  BY <1>3, <1>4 DEF StorageInv

-----------------------------------------------------------------------------
(* The reads.                                                              *)

\* A read that starts: what the reads before it took is within their budget.
LEMMA ReadStep ==
  ASSUME StorageInv, process # "starting", UNCHANGED <<process, PRESIGN, asked>>,
         NEW r \in Request, NEW app \in App, NEW uri, NEW left \in 0..(ReadsPerCheck - 1),
         NEW before \in Nat, before <= IF left = 0 THEN 2 * timeouts.operation ELSE 0,
         TIMEOUTS = Unset => before = 0,
         Read(r, app, uri, left, before)
  PROVE  StorageInv'
<1> DEFINE state == [pc |-> "connecting", app |-> app, left |-> left, attempts |-> 1,
                     tried |-> 0, spent |-> 0, total |-> before,
                     client |-> client_for(app), answer |-> NoAnswer]
           refused == [pc |-> "answered", app |-> app, left |-> left, attempts |-> 0,
                       tried |-> 0, spent |-> 0, total |-> before,
                       client |-> Unset, answer |-> Failed]
<1>1. timeouts \in Limits /\ timeouts.operation \in Nat
  BY LimitsInForce DEF StorageInv
<1>2. CASE uri = AppStorage[app].bucket
  <2>1. check' = [check EXCEPT ![r] = state] /\ Cached(app)
    BY <1>2 DEF Read
  <2>2. PRESIGN' \in Nat \cup {Unset} /\ (PRESIGN # Unset => PRESIGN' = PRESIGN)
    BY DEF StorageInv, TypeInv
  <2>3. /\ timeouts' = timeouts /\ TIMEOUTS' \in Limits
        /\ CLIENTS' \in [ClientKeys -> Client \cup {Unset}]
        /\ \A k \in ClientKeys : CLIENTS[k] # Unset => CLIENTS'[k] = CLIENTS[k]
        /\ CLIENTS'[ClientKey(app)] = client_for(app) /\ client_for(app) \in Client
        /\ CellInv'
    BY <2>1, <2>2, CachedStep
  <2>4. TIMEOUTS' # Unset /\ client_for(app) # Unset
    BY <2>3, StorageAssumption DEF Client, Endpoints
  <2>5. state \in ReadState
    BY <2>3 DEF ReadState, Sending, Answers
  <2>6. TypeInv'
    BY <2>1, <2>3, <2>5 DEF TypeInv, StorageInv
  <2>7. \A q \in Request : Good(check[q])'
    <3> SUFFICES ASSUME NEW q \in Request PROVE Good(check[q])'
      OBVIOUS
    <3>1. CASE q = r
      <4>1. check'[q] = state
        BY <2>1, <3>1 DEF StorageInv, TypeInv
      <4>2. UsesClient(check[q])'
        BY <2>3, <2>4, <4>1 DEF UsesClient
      <4>3. KeepsBudget(check[q])'
        BY <1>1, <2>3, <2>4, <4>1 DEF KeepsBudget, Earlier, Present, Sending
      <4>4. TellsOfOwn(check[q])'
        <5>1. check'[q].answer = NoAnswer
          BY <4>1
        <5>2. NoAnswer.kind = "none yet"
          BY DEF NoAnswer
        <5>3. QED
          BY <5>1, <5>2 DEF TellsOfOwn
      <4>5. QED
        BY <2>5, <4>1, <4>2, <4>3, <4>4 DEF Good
    <3>2. CASE q # r
      <4>1. check[q] \in ReadState \cup {Idle} /\ Good(check[q]) /\ check'[q] = check[q]
        BY <2>1, <3>2 DEF StorageInv, TypeInv
      <4>2. QED
        BY <2>3, <2>4, <4>1, GoodStays
        DEF Good, UsesClient, KeepsBudget, TellsOfOwn, Earlier, Present, Own
    <3>3. QED
      BY <3>1, <3>2
  <2>8. QED
    BY <2>3, <2>6, <2>7 DEF StorageInv
<1>3. CASE uri # AppStorage[app].bucket
  <2>1. check' = [check EXCEPT ![r] = refused] /\ UNCHANGED <<TIMEOUTS, CLIENTS>>
    BY <1>3 DEF Read
  <2>3. refused \in ReadState
    BY DEF ReadState, Answers
  <2>4. Good(refused)
    BY <1>1, <2>3
    DEF Good, UsesClient, KeepsBudget, TellsOfOwn, Earlier, Present, Sending, Failed
  <2>5. check' \in [Request -> ReadState \cup {Idle}] /\ \A q \in Request : Good(check'[q])
    BY <2>1, <2>3, <2>4 DEF StorageInv, TypeInv
  <2>6. QED
    BY <2>1, <2>5, ChecksStep DEF Unconfigured, cells
<1>4. QED
  BY <1>2, <1>3

LEMMA BeginStep ==
  ASSUME StorageInv, NEW r \in Request, Begin(r)
  PROVE  StorageInv'
<1>1. PICK app \in App, uri \in Uri : Read(r, app, uri, ReadsPerCheck - 1, 0)
  BY DEF Begin
<1>2. ReadsPerCheck - 1 \in 0..(ReadsPerCheck - 1) /\ timeouts.operation \in Nat
  BY LimitsInForce DEF ReadsPerCheck, StorageInv
<1>3. process # "starting" /\ UNCHANGED <<process, PRESIGN, asked>>
  BY DEF Begin
<1>4. 0 <= IF ReadsPerCheck - 1 = 0 THEN 2 * timeouts.operation ELSE 0
  BY <1>2
<1>5. QED
  BY <1>1, <1>2, <1>3, <1>4, ReadStep

LEMMA ReadNextStep ==
  ASSUME StorageInv, NEW r \in Request, ReadNext(r)
  PROVE  StorageInv'
<1> DEFINE c == check[r]
<1>1. c \in ReadState /\ Good(c) /\ c # Idle /\ c.pc = "answered" /\ c.left > 0
  BY NotIdle DEF ReadNext, StorageInv, TypeInv, Idle
<1>2. PICK uri \in Uri : Read(r, c.app, uri, c.left - 1, c.total)
  BY DEF ReadNext
<1>3. c.app \in App /\ c.left = 1 /\ c.total \in Nat /\ timeouts.operation \in Nat
  BY <1>1, LimitsInForce DEF ReadState, ReadsPerCheck, StorageInv
<1>4. c.total <= 2 * timeouts.operation /\ (TIMEOUTS = Unset => c.total = 0)
  BY <1>1, <1>3 DEF Good, KeepsBudget, Earlier, Present, Sending
<1>5. c.left - 1 \in 0..(ReadsPerCheck - 1)
      /\ c.total <= IF c.left - 1 = 0 THEN 2 * timeouts.operation ELSE 0
  BY <1>3, <1>4 DEF ReadsPerCheck
<1>6. process # "starting" /\ UNCHANGED <<process, PRESIGN, asked>>
  BY <1>1 DEF ReadNext, StorageInv, CellInv
<1>7. QED
  BY <1>2, <1>3, <1>4, <1>5, <1>6, ReadStep

LEMMA RespondStep ==
  ASSUME StorageInv, NEW r \in Request, Respond(r)
  PROVE  StorageInv'
<1>1. check[r] # Idle /\ check' = [check EXCEPT ![r] = Idle] /\ UNCHANGED Unconfigured
  BY DEF Respond, Idle, Unconfigured
<1>2. QED
  BY <1>1, OneCheckSteps DEF Good

\* A read in progress: its client is the application's own.
LEMMA InProgress ==
  ASSUME StorageInv, NEW r \in Request, check[r].pc \in Sending \cup {"body"}
  PROVE  /\ check[r] \in ReadState /\ check[r] # Idle /\ Good(check[r])
         /\ check[r].client.endpoint = AppStorage[check[r].app].endpoint
         /\ check[r].client.limits = timeouts
         /\ check[r].spent <= timeouts.operation
         /\ timeouts.operation \in Nat /\ TIMEOUTS # Unset
<1>1. check[r] \in ReadState /\ Good(check[r]) /\ check[r] # Idle
  BY NotIdle DEF StorageInv, TypeInv, Sending, Idle
<1>2. ClientKey(check[r].app) \in ClientKeys
      /\ ClientKey(check[r].app)[1] = AppStorage[check[r].app].endpoint
  BY <1>1 DEF ReadState, ClientKeys, ClientKey
<1>3. check[r].pc # "answered"
  BY DEF Sending
<1>4. /\ check[r].client = CLIENTS[ClientKey(check[r].app)] /\ check[r].client # Unset
      /\ check[r].spent <= timeouts.operation
  BY <1>1, <1>3 DEF Good, UsesClient, KeepsBudget
<1>5. check[r].client \in Client
  BY <1>1, <1>4 DEF ReadState
<1>6. check[r].client.endpoint = ClientKey(check[r].app)[1] /\ check[r].client.limits = TIMEOUTS
  BY <1>2, <1>4 DEF StorageInv, CellInv
<1>7. TIMEOUTS # Unset
  BY <1>5, <1>6, StorageAssumption DEF Client
<1>8. QED
  BY <1>1, <1>2, <1>4, <1>6, <1>7, LimitsInForce DEF timeouts, StorageInv

\* A read that ends, with an answer of the application's own bucket.
LEMMA AnswerStep ==
  ASSUME StorageInv, UNCHANGED Unconfigured,
         NEW r \in Request, check[r].pc \in Sending \cup {"body"},
         NEW answer \in Answers,
         answer.kind = "text" => answer.from = Own(check[r]),
         answer.kind = "absent" => Own(check[r]) \notin Stored,
         Answer(r, answer)
  PROVE  StorageInv'
<1> DEFINE c == check[r]
           d == [c EXCEPT !.pc = "answered", !.answer = answer,
                          !.attempts = 0, !.tried = 0, !.spent = 0]
<1>1. c \in ReadState /\ c # Idle /\ Good(c) /\ c.spent <= timeouts.operation
      /\ timeouts.operation \in Nat /\ TIMEOUTS # Unset
  BY InProgress
<1>2. check' = [check EXCEPT ![r] = d]
  BY DEF Answer
<1>3. d \in ReadState
  BY <1>1 DEF ReadState
<1>4. KeepsBudget(d)
  BY <1>1 DEF Good, KeepsBudget, Earlier, Present, ReadState, Sending
<1>5. Good(d)
  BY <1>3, <1>4 DEF Good, UsesClient, TellsOfOwn, Own
<1>6. QED
  BY <1>1, <1>2, <1>3, <1>5, OneCheckSteps


\* A send that goes on, or ends with the headers: the body's time starts from
\* zero.
LEMMA ProceedStep ==
  ASSUME StorageInv, UNCHANGED Unconfigured,
         NEW r \in Request, check[r].pc \in Sending,
         NEW d \in ReadState, check' = [check EXCEPT ![r] = d],
         d.app = check[r].app, d.left = check[r].left, d.client = check[r].client,
         d.answer = check[r].answer, d.total = check[r].total,
         \/ d.pc \in Sending /\ d.spent = check[r].spent
         \/ d.pc = "body" /\ d.spent = 0
  PROVE  StorageInv'
<1> DEFINE c == check[r]
<1>1. c \in ReadState /\ c # Idle /\ Good(c) /\ c.spent <= timeouts.operation
      /\ timeouts.operation \in Nat /\ TIMEOUTS # Unset
  BY InProgress
<1>2. c.pc # "answered" /\ d.pc # "answered"
  BY DEF Sending
<1>3. UsesClient(d)
  BY <1>1, <1>2 DEF Good, UsesClient
<1>4. TellsOfOwn(d)
  BY <1>1 DEF Good, TellsOfOwn, Own
<1>5. c.total <= Earlier(c) + c.spent /\ Earlier(d) = Earlier(c) /\ Earlier(c) \in Nat
  BY <1>1 DEF Good, KeepsBudget, Earlier, Present
<1>6. d.spent <= timeouts.operation /\ c.spent <= Present(d) /\ Present(d) \in Nat
  BY <1>1 DEF Present, Sending, ReadState
<1>7. c.total \in Nat /\ c.spent \in Nat
  BY <1>1 DEF ReadState
<1>8. d.total <= Earlier(d) + Present(d)
  BY <1>5, <1>6, <1>7
<1>9. Good(d)
  BY <1>1, <1>3, <1>4, <1>6, <1>8 DEF Good, KeepsBudget
<1>10. QED
  BY <1>1, <1>9, OneCheckSteps

LEMMA ConnectStep ==
  ASSUME StorageInv, NEW r \in Request, Connect(r)
  PROVE  StorageInv'
<1> DEFINE d == [check[r] EXCEPT !.pc = "waiting"]
<1>1. check[r].pc \in Sending /\ check' = [check EXCEPT ![r] = d] /\ UNCHANGED Unconfigured
  BY DEF Connect, Sending
<1>2. check[r] \in ReadState
  BY <1>1, InProgress
<1>3. d \in ReadState /\ d.pc \in Sending
  BY <1>2 DEF ReadState, Sending
<1>4. d.app = check[r].app /\ d.left = check[r].left /\ d.client = check[r].client
      /\ d.answer = check[r].answer /\ d.total = check[r].total /\ d.spent = check[r].spent
  BY <1>2 DEF ReadState
<1>5. QED
  BY <1>1, <1>3, <1>4, ProceedStep

LEMMA RetryStep ==
  ASSUME StorageInv, UNCHANGED Unconfigured,
         NEW r \in Request, check[r].pc \in Sending, Retry(r)
  PROVE  StorageInv'
<1> DEFINE d == [check[r] EXCEPT !.pc = "backoff", !.tried = 0]
<1>1. check[r] \in ReadState
  BY InProgress
<1>2. CASE check[r].attempts < MaxAttempts
  <2>1. check' = [check EXCEPT ![r] = d]
    BY <1>2 DEF Retry
  <2>2. d \in ReadState /\ d.pc \in Sending
    BY <1>1 DEF ReadState, Sending
  <2>3. d.app = check[r].app /\ d.left = check[r].left /\ d.client = check[r].client
        /\ d.answer = check[r].answer /\ d.total = check[r].total /\ d.spent = check[r].spent
    BY <1>1 DEF ReadState
  <2>4. QED
    BY <2>1, <2>2, <2>3, ProceedStep
<1>3. CASE ~(check[r].attempts < MaxAttempts)
  <2>1. Answer(r, Failed)
    BY <1>3 DEF Retry
  <2>2. Failed \in Answers /\ Failed.kind = "failed"
    BY DEF Answers, Failed
  <2>3. QED
    BY <2>1, <2>2, AnswerStep
<1>4. QED
  BY <1>2, <1>3

LEMMA NextAttemptStep ==
  ASSUME StorageInv, NEW r \in Request, NextAttempt(r)
  PROVE  StorageInv'
<1> DEFINE d == [check[r] EXCEPT !.pc = "connecting", !.attempts = check[r].attempts + 1]
<1>1. check[r].pc \in Sending /\ check' = [check EXCEPT ![r] = d] /\ UNCHANGED Unconfigured
  BY DEF NextAttempt, Sending
<1>2. check[r] \in ReadState
  BY <1>1, InProgress
<1>3. d \in ReadState /\ d.pc \in Sending
  <2>1. check[r].attempts + 1 \in Nat
    BY <1>2 DEF ReadState
  <2>2. QED
    BY <1>2, <2>1 DEF ReadState, Sending
<1>4. d.app = check[r].app /\ d.left = check[r].left /\ d.client = check[r].client
      /\ d.answer = check[r].answer /\ d.total = check[r].total /\ d.spent = check[r].spent
  BY <1>2 DEF ReadState
<1>5. QED
  BY <1>1, <1>3, <1>4, ProceedStep

LEMMA HeadersStep ==
  ASSUME StorageInv, NEW r \in Request, Headers(r)
  PROVE  StorageInv'
<1> DEFINE d == [check[r] EXCEPT !.pc = "body", !.attempts = 0, !.tried = 0, !.spent = 0]
<1>1. check[r].pc \in Sending /\ check' = [check EXCEPT ![r] = d] /\ UNCHANGED Unconfigured
  BY DEF Headers, Sending
<1>2. check[r] \in ReadState
  BY <1>1, InProgress
<1>3. d \in ReadState
  BY <1>2 DEF ReadState
<1>4. d.app = check[r].app /\ d.left = check[r].left /\ d.client = check[r].client
      /\ d.answer = check[r].answer /\ d.total = check[r].total
      /\ d.pc = "body" /\ d.spent = 0
  BY <1>2 DEF ReadState
<1>5. QED
  BY <1>1, <1>3, <1>4, ProceedStep

\* What the store says of a manifest, it says of the application's own bucket
\* at the endpoint its client was built for.
LEMMA StoreAnswersStep ==
  ASSUME StorageInv, NEW r \in Request, NoSuchKey(r) \/ Refused(r) \/ Body(r)
  PROVE  StorageInv'
<1> DEFINE c == check[r]
<1>1. c.pc \in Sending \cup {"body"} /\ UNCHANGED Unconfigured
  BY DEF NoSuchKey, Refused, Body, Sending
<1>2. c \in ReadState /\ c.client.endpoint = AppStorage[c.app].endpoint
  BY <1>1, InProgress
<1>3. CASE NoSuchKey(r)
  <2>1. Answer(r, Absent) /\ Own(c) \notin Stored
    BY <1>2, <1>3 DEF NoSuchKey, Exists, Own
  <2>2. Absent \in Answers /\ Absent.kind = "absent"
    BY DEF Answers, Absent
  <2>3. QED
    BY <1>1, <2>1, <2>2, AnswerStep
<1>4. CASE Answer(r, Failed)
  <2>1. Failed \in Answers /\ Failed.kind = "failed"
    BY DEF Answers, Failed
  <2>2. QED
    BY <1>1, <1>4, <2>1, AnswerStep
<1>5. CASE Answer(r, Text(c.client, AppStorage[c.app].bucket))
  <2> DEFINE answer == Text(c.client, AppStorage[c.app].bucket)
  <2>1. answer.kind = "text" /\ answer.from = Own(c)
    BY <1>2 DEF Text, Own
  <2>2. answer \in Answers
    BY <1>2 DEF Text, Answers, Endpoints, Buckets, ReadState
  <2>3. QED
    BY <1>1, <1>5, <2>1, <2>2, AnswerStep
<1>6. QED
  BY <1>3, <1>4, <1>5 DEF Refused, Body

LEMMA ExpireStep ==
  ASSUME StorageInv, NEW r \in Request, Expire(r)
  PROVE  StorageInv'
<1>1. CASE SendDue(r) \/ BodyDue(r)
  <2>1. check[r].pc \in Sending \cup {"body"} /\ UNCHANGED Unconfigured /\ Answer(r, Failed)
    BY <1>1 DEF Expire, SendDue, BodyDue, Sending
  <2>2. Failed \in Answers /\ Failed.kind = "failed"
    BY DEF Answers, Failed
  <2>3. QED
    BY <2>1, <2>2, AnswerStep
<1>2. CASE ~(SendDue(r) \/ BodyDue(r))
  <2>1. check[r].pc \in Sending /\ UNCHANGED Unconfigured /\ Retry(r)
    BY <1>2 DEF Expire, AttemptDue, Sending
  <2>2. QED
    BY <2>1, RetryStep
<1>3. QED
  BY <1>1, <1>2

-----------------------------------------------------------------------------
(* Time.                                                                   *)

\* No limit is due when time passes, so no read gets past one.
LEMMA TickStep ==
  ASSUME StorageInv, Tick
  PROVE  StorageInv'
<1> DEFINE Tried(r) == IF check[r].pc \in {"connecting", "waiting"}
                       THEN UpTo(check[r].tried, check[r].client.limits.attempt)
                       ELSE check[r].tried
           Spent(r) == UpTo(check[r].spent, check[r].client.limits.operation)
           Total(r) == UpTo(check[r].total, Budget(check[r].client.limits) + 1)
           d(r) == [check[r] EXCEPT !.tried = Tried(r), !.spent = Spent(r), !.total = Total(r)]
<1>1. UNCHANGED Unconfigured /\ process # "starting"
  <2>1. PICK r \in Request : check[r].pc \in {"connecting", "waiting", "backoff", "body"}
    BY DEF Tick, InFlight
  <2>2. process # "starting"
    BY <2>1 DEF StorageInv, CellInv, Idle
  <2>3. QED
    BY <2>2 DEF Tick
<1>2. ASSUME NEW r \in InFlight
      PROVE  d(r) \in ReadState /\ Good(d(r))
  <2> DEFINE c == check[r]
  <2>1. r \in Request /\ c.pc \in Sending \cup {"body"} /\ c.pc # "answered"
    BY DEF InFlight, Sending
  <2>2. /\ c \in ReadState /\ c # Idle /\ Good(c) /\ c.client.limits = timeouts
        /\ c.spent <= timeouts.operation /\ timeouts.operation \in Nat /\ TIMEOUTS # Unset
    BY <2>1, InProgress
  <2>3. c.spent < timeouts.operation
    <3>1. ~SendDue(r) /\ ~BodyDue(r)
      BY DEF Tick, Due
    <3>2. c.spent \in Nat /\ ~(c.spent >= timeouts.operation)
      BY <2>1, <2>2, <3>1 DEF SendDue, BodyDue, Sending, ReadState
    <3>3. QED
      BY <2>2, <3>2
  <2>4. /\ Tried(r) \in Nat /\ Spent(r) = c.spent + 1 /\ Spent(r) \in Nat
        /\ Total(r) \in Nat /\ Total(r) <= c.total + 1
    <3>1. c.tried \in Nat /\ c.spent \in Nat /\ c.total \in Nat
      BY <2>2 DEF ReadState
    <3>2. QED
      BY <2>2, <2>3, <3>1 DEF UpTo
  <2> HIDE DEF Tried, Spent, Total
  <2>5. /\ d(r) \in ReadState
        /\ d(r).pc = c.pc /\ d(r).app = c.app /\ d(r).left = c.left
        /\ d(r).client = c.client /\ d(r).answer = c.answer
        /\ d(r).spent = c.spent + 1 /\ d(r).total <= c.total + 1
    BY <2>2, <2>4 DEF ReadState
  <2> HIDE DEF d
  <2>6. UsesClient(d(r)) /\ TellsOfOwn(d(r))
    BY <2>2, <2>5 DEF Good, UsesClient, TellsOfOwn, Own
  <2>7. c.total <= Earlier(c) + Present(c) /\ Earlier(d(r)) = Earlier(c) /\ Earlier(c) \in Nat
    BY <2>2, <2>5 DEF Good, KeepsBudget, Earlier
  <2>8. Present(d(r)) = Present(c) + 1 /\ Present(c) \in Nat
    BY <2>1, <2>2, <2>5 DEF Present, ReadState
  <2>9. KeepsBudget(d(r))
    <3>1. /\ c.total \in Nat /\ c.spent \in Nat /\ d(r).total \in Nat
      BY <2>2, <2>5 DEF ReadState
    <3>2. d(r).total <= Earlier(d(r)) + Present(d(r)) /\ d(r).spent <= timeouts.operation
      BY <2>2, <2>3, <2>5, <2>7, <2>8, <3>1
    <3>3. QED
      BY <2>2, <3>2 DEF KeepsBudget
  <2>10. QED
    BY <2>5, <2>6, <2>9 DEF Good
<1>3. check' = [r \in Request |-> IF r \notin InFlight THEN check[r] ELSE d(r)]
  BY DEF Tick
<1> HIDE DEF d
<1>4. check' \in [Request -> ReadState \cup {Idle}] /\ \A r \in Request : Good(check'[r])
  BY <1>2, <1>3 DEF StorageInv, TypeInv
<1>5. QED
  BY <1>1, <1>4, ChecksStep

-----------------------------------------------------------------------------
(* The theorems.                                                           *)

LEMMA NextStep ==
  StorageInv /\ [Next]_vars => StorageInv'
<1> SUFFICES ASSUME StorageInv, [Next]_vars PROVE StorageInv'
  OBVIOUS
<1>1. CASE StartServer
  BY <1>1, StartServerStep
<1>2. CASE ConfigureLibrary
  BY <1>2, ConfigureLibraryStep
<1>3. CASE shutdown_signal \/ Stop
  BY <1>3, ShutdownSteps
<1>4. CASE Tick
  BY <1>4, TickStep
<1>5. CASE \E app \in App : get_presigned_url(app)
  BY <1>5, PresignStep
<1>6. CASE \E r \in Request : Begin(r) \/ ReadNext(r) \/ Respond(r)
  BY <1>6, BeginStep, ReadNextStep, RespondStep
<1>7. CASE \E r \in Request : Connect(r) \/ AttemptFails(r) \/ NextAttempt(r) \/ Headers(r)
  <2>1. ASSUME NEW r \in Request, AttemptFails(r) PROVE StorageInv'
    BY <2>1, RetryStep DEF AttemptFails, Sending
  <2>2. QED
    BY <1>7, <2>1, ConnectStep, NextAttemptStep, HeadersStep
<1>8. CASE \E r \in Request : NoSuchKey(r) \/ Refused(r) \/ Body(r) \/ Expire(r)
  BY <1>8, StoreAnswersStep, ExpireStep
<1>9. CASE UNCHANGED vars
  <2>1. timeouts' = timeouts
    BY <1>9 DEF vars, timeouts
  <2>2. (\A r \in Request : Good(check[r]))'
    BY <1>9, <2>1
    DEF vars, StorageInv, Good, UsesClient, KeepsBudget, TellsOfOwn, Earlier, Present, Own
  <2>3. TypeInv' /\ CellInv'
    BY <1>9 DEF vars, StorageInv, TypeInv, CellInv
  <2>4. QED
    BY <2>2, <2>3 DEF StorageInv
<1>10. QED
  BY <1>1, <1>2, <1>3, <1>4, <1>5, <1>6, <1>7, <1>8, <1>9 DEF Next

\* Types, the cells and what every read relies on hold in every reachable
\* state: the inductive invariant of the three theorems below.
THEOREM StorageInvariance ==
  Spec => []StorageInv
<1>1. Init => StorageInv
  BY InitHolds
<1>2. StorageInv /\ [Next]_vars => StorageInv'
  BY NextStep
<1>3. QED
  BY <1>1, <1>2, PTL DEF Spec

\* OneSetOfLimits, whoever reads or sets a OnceLock first (storage.rs:21): the
\* limits in force are one set, every cached client was built with them, and
\* the server's are the operator's.
THEOREM LimitsAreOne ==
  Spec => []OneSetOfLimits
<1>1. StorageInv => OneSetOfLimits
  BY LimitsInForce DEF StorageInv, CellInv, OneSetOfLimits
<1>2. QED
  BY <1>1, StorageInvariance, PTL

\* AnswersAreOfOwnBucket, for clients shared by applications of the same
\* endpoint and credentials (storage.rs:146): what a check is told of a manifest
\* holds of the bucket and endpoint of its own application.
THEOREM OwnAnswers ==
  Spec => []AnswersAreOfOwnBucket
<1>1. StorageInv => AnswersAreOfOwnBucket
  BY DEF StorageInv, Good, TellsOfOwn, Own, AnswersAreOfOwnBucket
<1>2. QED
  BY <1>1, StorageInvariance, PTL

\* ReadsKeepTheirBudget, however late or little the store answers
\* (storage.rs:283): two operation limits for each read, whatever the attempts.
THEOREM BudgetKept ==
  Spec => []ReadsKeepTheirBudget
<1>1. StorageInv => ReadsKeepTheirBudget
  <2> SUFFICES ASSUME StorageInv, NEW r \in Request, check[r] # Idle
               PROVE  check[r].total <= 2 * (ReadsPerCheck - check[r].left) * timeouts.operation
    BY DEF ReadsKeepTheirBudget
  <2> DEFINE c == check[r]
             limit == timeouts.operation
  <2>1. c \in ReadState /\ KeepsBudget(c) /\ limit \in Nat
    BY LimitsInForce DEF StorageInv, Good
  <2>2. c.total \in Nat /\ c.left \in {0, 1} /\ c.spent \in Nat
    BY <2>1 DEF ReadState, ReadsPerCheck
  <2>3. Present(c) \in Nat /\ Present(c) <= 2 * limit
    BY <2>1, <2>2 DEF KeepsBudget, Present, Sending, ReadState
  <2>4. c.total <= Earlier(c) + Present(c)
    BY <2>1 DEF KeepsBudget
  <2>5. CASE c.left = 0
    BY <2>1, <2>2, <2>3, <2>4, <2>5 DEF Earlier, ReadsPerCheck
  <2>6. CASE c.left = 1
    BY <2>1, <2>2, <2>3, <2>4, <2>6 DEF Earlier, ReadsPerCheck
  <2>7. QED
    BY <2>2, <2>5, <2>6
<1>2. QED
  BY <1>1, StorageInvariance, PTL
================================================================================
