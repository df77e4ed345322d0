----------------------------- MODULE CliApiProofs -----------------------------
(***************************************************************************)
(* Proofs about the writing handlers of CliApi, for any number of          *)
(* applications, bundles, handlers and payloads: the inductive invariant   *)
(* and what follows from it, that the foreign keys refuse the handlers     *)
(* nothing but races, and that they keep what BundleCatalog promises.      *)
(***************************************************************************)
EXTENDS CliApi, TLAPS, FiniteSetTheorems, WellFoundedInduction

-----------------------------------------------------------------------------
(* The pure helpers.                                                       *)

\* get_bundle_patches yields rows of bundle_patches.
LEMMA PatchRowsType ==
  ASSUME NEW raw \in Seq(RawPatch) \cup {Absent}
  PROVE  PatchRows(raw) \in SUBSET PatchRow
<1>1. CASE raw = Absent
  BY <1>1 DEF PatchRows
<1>2. CASE raw # Absent
  <2> DEFINE first == { i \in DOMAIN raw : \A j \in 1..(i-1) : raw[j].base # raw[i].base }
             ord(i) == Cardinality({ j \in first : j < i })
  <2>1. raw \in Seq(RawPatch) /\ DOMAIN raw = 1..Len(raw) /\ Len(raw) \in Nat
    BY <1>2
  <2>2. \A i \in first : ord(i) \in Nat
    <3> SUFFICES ASSUME NEW i \in first PROVE ord(i) \in Nat
      OBVIOUS
    <3>1. IsFiniteSet(1..Len(raw))
      BY <2>1, FS_Interval
    <3>2. { j \in first : j < i } \subseteq 1..Len(raw)
      BY <2>1
    <3>3. QED
      BY <3>1, <3>2, FS_Subset, FS_CardinalityType
  <2>3. \A i \in first : raw[i] \in RawPatch
    BY <2>1
  <2>4. PatchRows(raw) = { [base |-> raw[i].base, ord |-> ord(i), file |-> raw[i].file] :
                           i \in first }
    BY <1>2 DEF PatchRows
  <2> HIDE DEF ord, first
  <2>5. QED
    BY <2>2, <2>3, <2>4 DEF RawPatch, PatchRow
<1>3. QED
  BY <1>1, <1>2

\* A SET clause applied to a row gives a row (build_update_query).
LEMMA OverwriteType ==
  ASSUME NEW row \in Row, NEW clause \in SetClause
  PROVE  Overwrite(row, clause) \in Row
BY DEF Overwrite, Row, SetClause, Metadata, NoMetadata

\* Merging metadata leaves a SET clause (merge_bundle_metadata).
LEMMA MergeType ==
  ASSUME NEW row \in Row, NEW clause \in SetClause
  PROVE  MergeMetadata(row, clause) \in SetClause
BY DEF MergeMetadata, Row, SetClause, Metadata

\* POST sends whole rows.
LEMMA WholeRowType ==
  ASSUME NEW clause \in SetClause, WholeRow(clause)
  PROVE  clause \in Row /\ HasColumns(clause)
BY DEF WholeRow, Row, SetClause, HasColumns

\* Deleting a bundle leaves patch lists, each no longer than it was.
LEMMA CascadeType ==
  ASSUME NEW ps \in [Key -> SUBSET PatchRow], NEW k \in Key
  PROVE  Cascade(ps, k) \in [Key -> SUBSET PatchRow]
BY DEF Cascade

-----------------------------------------------------------------------------
(* Steps shared by several handlers.                                       *)

\* A request in Request is well formed, its payload entries too.
LEMMA RequestFacts ==
  ASSUME NEW r \in Request
  PROVE  /\ r \in RequestType
         /\ r.items \in Seq(Item)
         /\ \A i \in DOMAIN r.items : /\ r.items[i] \in Item
                                      /\ r.verb = "POST" => /\ r.items[i].set \in Row
                                                            /\ HasColumns(r.items[i].set)
         /\ r.verb # "POST" => Len(r.items) = 1
         /\ r # NoRequest
<1>1. r \in RequestType /\ r.items \in Seq(Item)
  BY RequestAssumption DEF RequestType
<1>2. \A i \in DOMAIN r.items : r.items[i] \in Item /\ r.items[i].set \in SetClause
  <2>1. \A i \in DOMAIN r.items : r.items[i] \in Item
    BY <1>1
  <2>2. QED
    BY <2>1 DEF Item
<1>3. \A i \in DOMAIN r.items : r.verb = "POST" => WholeRow(r.items[i].set)
  BY RequestAssumption
<1>4. r.verb # "POST" => Len(r.items) = 1
  BY RequestAssumption
<1>5. \A i \in DOMAIN r.items : r.verb = "POST" => /\ r.items[i].set \in Row
                                                  /\ HasColumns(r.items[i].set)
  <2> SUFFICES ASSUME NEW i \in DOMAIN r.items, r.verb = "POST"
               PROVE  r.items[i].set \in Row /\ HasColumns(r.items[i].set)
    OBVIOUS
  <2>1. r.items[i].set \in SetClause /\ WholeRow(r.items[i].set)
    BY <1>2, <1>3
  <2>2. QED
    BY <2>1, WholeRowType
<1>6. r # NoRequest
  BY HandlerAssumption
<1>7. QED
  BY <1>1, <1>2, <1>4, <1>5, <1>6

\* A handler at work is at a bundle of its request and a key of its tables.
LEMMA ItemFacts ==
  ASSUME TypeOK, ControlInv, NEW w \in Handler, pc[w] \notin {"idle", "commit"}
  PROVE  /\ req[w] \in Request
         /\ req[w].app \in App
         /\ item[w] \in 1..Len(req[w].items)
         /\ This(w) \in Item
         /\ KeyOf(w) \in Key
         /\ KeyOf(w)[1] = req[w].app
<1>1. req[w] \in Request /\ req[w].app \in App /\ item[w] \in DOMAIN req[w].items
  BY DEF TypeOK, ControlInv, ControlOf
<1>2. /\ req[w].items \in Seq(Item)
      /\ DOMAIN req[w].items = 1..Len(req[w].items)
      /\ This(w) \in Item
  BY <1>1, RequestFacts DEF This
<1>3. QED
  BY <1>1, <1>2 DEF KeyOf, Key, Item

\* The patch a handler is at is a row of bundle_patches based in its application.
LEMMA PatchFacts ==
  ASSUME TypeOK, ControlInv, NEW w \in Handler, pc[w] \in {"own", "insert"}
  PROVE  /\ PatchAt(w) \in PatchRow
         /\ PatchAt(w).ord = next[w]
         /\ BaseKey(w, PatchAt(w)) \in Key
<1>1. This(w) \in Item /\ req[w].app \in App
  BY ItemFacts
<1>2. PatchRows(This(w).patches) \in SUBSET PatchRow
  BY <1>1, PatchRowsType DEF Item
<1>3. \E p \in PatchRows(This(w).patches) : p.ord = next[w]
  BY DEF ControlInv, ControlOf
<1>4. PatchAt(w) \in PatchRows(This(w).patches) /\ PatchAt(w).ord = next[w]
  BY <1>3 DEF PatchAt
<1>5. QED
  BY <1>1, <1>2, <1>4 DEF PatchRow, BaseKey, Key

\* Ending a transaction keeps the handler's own variables typed.
LEMMA FinishType ==
  ASSUME TypeOK, NEW w \in Handler,
         NEW status \in {200, 201, 400, 401, 404, 500}, NEW body \in {"json", "text"},
         Finish(w, status, body),
         bundles' \in [Key -> Row \cup {NoRow}], patches' \in [Key -> SUBSET PatchRow]
  PROVE  TypeOK'
<1>1. [status |-> status, body |-> body] \in Answer
  BY DEF Answer
<1>2. [k \in Key |-> Untouched] \in [Key -> Row \cup {NoRow, Untouched}]
  OBVIOUS
<1>3. [k \in Key |-> {}] \in [Key -> SUBSET PatchRow]
  OBVIOUS
<1>4. QED
  BY <1>1, <1>2, <1>3 DEF TypeOK, Finish

\* Ending a transaction leaves its handler idle and in nobody's way.
LEMMA FinishControl ==
  ASSUME TypeOK, ControlInv, NEW w \in Handler, NEW status, NEW body,
         Finish(w, status, body)
  PROVE  ControlInv'
<1> SUFFICES ASSUME NEW v \in Handler PROVE ControlOf(v)'
  BY DEF ControlInv
<1>1. QED
  BY DEF TypeOK, ControlInv, ControlOf, Finish, RowLocked, ListLocked, KeyOf, This

\* The locks of the others stand if no row they hold has changed.
LEMMA FinishLocks ==
  ASSUME TypeOK, LockInv, NEW w \in Handler, NEW status, NEW body,
         Finish(w, status, body),
         \A v \in Handler \ {w} : \A k \in Key :
            RowLocked(v, k) \/ ParentLocked(v, k) => bundles'[k] = bundles[k]
  PROVE  LockInv'
<1>1. \A k \in Key : ~RowLocked(w, k)' /\ ~ListLocked(w, k)' /\ ~ParentLocked(w, k)'
  BY DEF TypeOK, Finish, RowLocked, ListLocked, ParentLocked
<1>2. \A v \in Handler \ {w} : /\ rows'[v] = rows[v]
                               /\ cleared'[v] = cleared[v]
                               /\ lists'[v] = lists[v]
  BY DEF TypeOK, Finish
<1>3. \A v \in Handler \ {w} : \A k \in Key :
         /\ RowLocked(v, k)' = RowLocked(v, k)
         /\ ListLocked(v, k)' = ListLocked(v, k)
         /\ ParentLocked(v, k)' = ParentLocked(v, k)
  BY <1>2 DEF RowLocked, ListLocked, ParentLocked
<1> SUFFICES ASSUME NEW u \in Handler, NEW k \in Key
             PROVE  LocksOf(u, k)'
  BY DEF LockInv
<1>4. CASE u = w
  BY <1>1, <1>4, HandlerAssumption DEF RowLocked, LocksOf
<1>5. CASE u # w
  BY <1>1, <1>2, <1>3, <1>5, HandlerAssumption DEF LockInv, LocksOf, RowLocked, Current
<1>6. QED
  BY <1>4, <1>5

\* The foreign keys hold as long as the tables stay what they are.
LEMMA EndpointsUnchanged ==
  ASSUME PatchEndpointsExist, UNCHANGED <<bundles, patches>>
  PROVE  PatchEndpointsExist'
BY DEF PatchEndpointsExist, PatchEndpoints

\* A handler that ends without touching the tables.
LEMMA FinishStep ==
  ASSUME IInv, NEW w \in Handler,
         NEW status \in {200, 201, 400, 401, 404, 500}, NEW body \in {"json", "text"},
         Finish(w, status, body), UNCHANGED db
  PROVE  IInv'
<1>1. TypeOK'
  <2>1. bundles' \in [Key -> Row \cup {NoRow}] /\ patches' \in [Key -> SUBSET PatchRow]
    BY DEF IInv, TypeOK, db
  <2>2. QED
    BY <2>1, FinishType DEF IInv
<1>2. ControlInv'
  BY FinishControl DEF IInv
<1>3. LockInv'
  BY FinishLocks DEF IInv, db
<1>4. PatchEndpointsExist'
  BY EndpointsUnchanged DEF IInv, db
<1>5. QED
  BY <1>1, <1>2, <1>3, <1>4 DEF IInv

\* What is known of a handler depends on its own variables only.
LEMMA OtherControl ==
  ASSUME ControlInv, NEW v \in Handler,
         pc'[v] = pc[v], req'[v] = req[v], item'[v] = item[v], next'[v] = next[v],
         set'[v] = set[v], cleared'[v] = cleared[v], rows'[v] = rows[v]
  PROVE  ControlOf(v)'
BY DEF ControlInv, ControlOf, RowLocked, ListLocked, KeyOf, This

\* As long as the tables and the writes of all transactions stay what they
\* are, so do the locks and the foreign keys.
LEMMA LocksUnchanged ==
  ASSUME LockInv, PatchEndpointsExist, UNCHANGED <<bundles, patches, rows, cleared, lists>>
  PROVE  LockInv' /\ PatchEndpointsExist'
BY DEF LockInv, LocksOf, PatchEndpointsExist, PatchEndpoints, RowLocked, ListLocked,
       ParentLocked, Current

-----------------------------------------------------------------------------
(* One lemma per action: each preserves the inductive invariant.           *)

LEMMA InitStep ==
  Init => IInv
<1> SUFFICES ASSUME Init PROVE IInv
  OBVIOUS
<1>1. TypeOK
  BY DEF Init, TypeOK
<1>2. ControlInv
  BY DEF Init, ControlInv, ControlOf, RowLocked, ListLocked
<1>3. LockInv
  BY HandlerAssumption DEF Init, LockInv, LocksOf, RowLocked, ListLocked, ParentLocked
<1>4. PatchEndpointsExist
  BY DEF Init, PatchEndpointsExist, PatchEndpoints
<1>5. QED
  BY <1>1, <1>2, <1>3, <1>4 DEF IInv

LEMMA ReceiveStep ==
  ASSUME IInv, NEW w \in Handler, NEW r \in Request, Receive(w, r)
  PROVE  IInv'
<1>1. LockInv' /\ PatchEndpointsExist'
  BY LocksUnchanged DEF IInv, Receive, tx
<1>2. Refusal(r) \in {200, 400, 401, 404}
  BY DEF Refusal, Authorize
<1>3. /\ r.verb \in {"POST", "PATCH", "DELETE"}
      /\ r.items \in Seq(Item)
      /\ r.verb # "POST" => Len(r.items) = 1
      /\ r # NoRequest
  BY RequestFacts DEF RequestType
<1>4. Refusal(r) = 200 => r.app \in App /\ r.token = r.app
  BY DEF Refusal, Authorize
<1>5. FirstStatement(r) \in {"fetch", "write", "commit", "delete"}
  BY <1>3 DEF FirstStatement
<1>6. TypeOK'
  <2>1. [status |-> Refusal(r), body |-> "json"] \in Answer \/ Refusal(r) = 200
    BY <1>2 DEF Answer
  <2>2. CASE Refusal(r) = 200
    <3>1. /\ pc' = [pc EXCEPT ![w] = FirstStatement(r)]
          /\ req' = [req EXCEPT ![w] = r]
          /\ answer' = [answer EXCEPT ![w] = NoAnswer]
          /\ UNCHANGED <<bundles, patches, item, next, set, snapshot, rows, cleared, lists>>
      BY <2>2 DEF Receive, Goto, tx
    <3>2. QED
      BY <1>5, <3>1 DEF IInv, TypeOK
  <2>3. CASE Refusal(r) # 200
    BY <2>1, <2>3 DEF IInv, TypeOK, Receive, tx
  <2>4. QED
    BY <2>2, <2>3
<1>7. ControlInv'
  <2> SUFFICES ASSUME NEW v \in Handler PROVE ControlOf(v)'
    BY DEF ControlInv
  <2>1. pc[w] = "idle" /\ item[w] = 1 /\ cleared[w] = {} /\ rows[w] = [k \in Key |-> Untouched]
    BY DEF IInv, ControlInv, ControlOf, Receive
  <2>2. CASE v = w /\ Refusal(r) = 200
    <3>1. /\ pc'[w] = FirstStatement(r) /\ req'[w] = r
          /\ item'[w] = 1 /\ cleared'[w] = {} /\ rows'[w] = [k \in Key |-> Untouched]
      BY <2>1, <2>2 DEF IInv, TypeOK, Receive, Goto, tx
    <3>2. FirstStatement(r) # "commit" => 1 \in DOMAIN r.items
      BY <1>3 DEF FirstStatement
    <3>3. /\ FirstStatement(r) = "fetch" => r.verb = "PATCH"
          /\ FirstStatement(r) = "delete" => r.verb = "DELETE"
          /\ FirstStatement(r) \in {"write", "commit"} => r.verb = "POST"
      BY <1>3 DEF FirstStatement
    <3>4. QED
      BY <1>3, <1>4, <1>5, <2>2, <3>1, <3>2, <3>3 DEF ControlOf, RowLocked, ListLocked
  <2>3. CASE v # w \/ Refusal(r) # 200
    <3>1. /\ pc'[v] = pc[v] /\ req'[v] = req[v] /\ item'[v] = item[v]
          /\ next'[v] = next[v] /\ set'[v] = set[v]
          /\ cleared'[v] = cleared[v] /\ rows'[v] = rows[v]
      BY <2>3 DEF IInv, TypeOK, Receive, Goto, tx
    <3>2. QED
      BY <3>1, OtherControl DEF IInv
  <2>4. QED
    BY <2>2, <2>3
<1>8. QED
  BY <1>1, <1>6, <1>7 DEF IInv

LEMMA FetchStep ==
  ASSUME IInv, NEW w \in Handler, Fetch(w)
  PROVE  IInv'
<1> DEFINE merged == MergeMetadata(bundles[KeyOf(w)], This(w).set)
<1>1. CASE \E status \in {200, 400, 404} : Finish(w, status, "json")
  BY <1>1, FinishStep DEF Fetch
<1>2. CASE /\ bundles[KeyOf(w)] # NoRow
           /\ set' = [set EXCEPT ![w] = merged]
           /\ Goto(w, "write")
           /\ UNCHANGED <<req, item, next, snapshot, rows, cleared, lists, answer>>
  <2>1. /\ pc[w] = "fetch" /\ UNCHANGED db
        /\ This(w) \in Item /\ KeyOf(w) \in Key
    BY ItemFacts DEF IInv, Fetch
  <2>2. merged \in SetClause
    BY <1>2, <2>1, MergeType DEF IInv, TypeOK, Item
  <2> HIDE DEF merged
  <2>3. TypeOK'
    BY <1>2, <2>1, <2>2 DEF IInv, TypeOK, Goto, db
  <2>4. ControlInv'
    <3> SUFFICES ASSUME NEW v \in Handler PROVE ControlOf(v)'
      BY DEF ControlInv
    <3>1. CASE v # w
      BY <1>2, <3>1, OtherControl DEF IInv, TypeOK, Goto
    <3>2. CASE v = w
      <4>1. /\ pc'[w] = "write" /\ req'[w] = req[w] /\ item'[w] = item[w] /\ set'[w] = merged
            /\ cleared'[w] = cleared[w] /\ rows'[w] = rows[w]
        BY <1>2 DEF IInv, TypeOK, Goto
      <4>2. ControlOf(w) /\ pc[w] = "fetch"
        BY <2>1 DEF IInv, ControlInv
      <4>3. QED
        BY <2>2, <3>2, <4>1, <4>2 DEF ControlOf, RowLocked, ListLocked
    <3>3. QED
      BY <3>1, <3>2
  <2>5. LockInv' /\ PatchEndpointsExist'
    BY <1>2, <2>1, LocksUnchanged DEF IInv, db
  <2>6. QED
    BY <2>3, <2>4, <2>5 DEF IInv
<1>3. QED
  BY <1>1, <1>2 DEF Fetch

LEMMA WriteRowStep ==
  ASSUME IInv, NEW w \in Handler, WriteRow(w)
  PROVE  IInv'
<1>0. KeyOf(w) \in Key
  BY ItemFacts DEF IInv, WriteRow
<1> SUFFICES ASSUME NEW k \in Key, k = KeyOf(w)
             PROVE  IInv'
  BY <1>0
<1> DEFINE row == IF req[w].verb = "POST" THEN This(w).set
                  ELSE IF Current(w, k) = NoRow THEN NoRow
                  ELSE Overwrite(Current(w, k), set[w])
           after == IF req[w].verb = "PATCH" /\ This(w).patches = Absent
                    THEN "commit" ELSE "clear"
<1>1. /\ pc[w] = "write" /\ ~Blocked(w) /\ UNCHANGED db
      /\ req[w] \in Request /\ req[w].app \in App
      /\ item[w] \in DOMAIN req[w].items
      /\ This(w) \in Item /\ k \in Key /\ k[1] = req[w].app
  BY ItemFacts DEF IInv, WriteRow, ControlInv, ControlOf
<1>2. req[w].verb \in {"POST", "PATCH"}
  BY <1>1, RequestFacts DEF IInv, ControlInv, ControlOf, RequestType
<1>3. Current(w, k) \in Row \cup {NoRow}
  BY <1>1 DEF IInv, TypeOK, Current
<1>4. /\ row \in Row \cup {NoRow}
      /\ row = NoRow => req[w].verb = "PATCH" /\ Current(w, k) = NoRow
  <2>1. CASE req[w].verb = "POST"
    BY <1>1, <2>1, RequestFacts, ConstantsAssumption DEF This
  <2>2. CASE req[w].verb = "PATCH"
    <3>1. set[w] \in SetClause
      BY <1>1, <2>2 DEF IInv, ControlInv, ControlOf
    <3>2. Current(w, k) # NoRow => Overwrite(Current(w, k), set[w]) \in Row
      BY <1>3, <3>1, OverwriteType
    <3>3. QED
      BY <2>2, <3>2, ConstantsAssumption
  <2>3. QED
    BY <1>2, <2>1, <2>2
<1>5. CASE Finish(w, 500, "json")
  BY <1>1, <1>5, FinishStep
<1>6. CASE /\ Goto(w, after)
           /\ rows' = rows \/ (HasColumns(SetOf(w)) /\ rows' = [rows EXCEPT ![w][k] = row])
           /\ UNCHANGED <<req, item, next, set, snapshot, cleared, lists, answer>>
  <2> HIDE DEF row
  <2>1. after \in {"commit", "clear"}
    OBVIOUS
  <2> HIDE DEF after
  <2>2. TypeOK'
    <3>1. rows' \in [Handler -> [Key -> Row \cup {NoRow, Untouched}]]
      <4>1. rows \in [Handler -> [Key -> Row \cup {NoRow, Untouched}]]
        BY DEF IInv, TypeOK
      <4>2. [rows EXCEPT ![w][k] = row] \in [Handler -> [Key -> Row \cup {NoRow, Untouched}]]
        BY <1>4, <4>1
      <4>3. QED
        BY <1>6, <4>1, <4>2
    <3>2. /\ pc' = [pc EXCEPT ![w] = after]
          /\ UNCHANGED <<bundles, patches, req, item, next, set, snapshot, cleared, lists, answer>>
      BY <1>1, <1>6 DEF Goto, db
    <3>3. TypeOK
      BY DEF IInv
    <3>4. QED
      BY <2>1, <3>1, <3>2, <3>3 DEF TypeOK
  <2>3. ControlInv'
    <3> SUFFICES ASSUME NEW v \in Handler PROVE ControlOf(v)'
      BY DEF ControlInv
    <3>1. CASE v # w
      BY <1>6, <3>1, OtherControl DEF IInv, TypeOK, Goto
    <3>2. CASE v = w
      <4>1. /\ pc'[w] = after /\ req'[w] = req[w] /\ item'[w] = item[w]
            /\ cleared'[w] = cleared[w]
            /\ \A j \in Key : j # k => rows'[w][j] = rows[w][j]
        BY <1>6 DEF IInv, TypeOK, Goto
      <4>2. ControlOf(w)
        BY DEF IInv, ControlInv
      <4>3. \A j \in Key : (RowLocked(w, j) \/ ListLocked(w, j))' => j[1] = req[w].app
        BY <1>1, <4>1, <4>2 DEF ControlOf, RowLocked, ListLocked
      <4>4. QED
        BY <1>1, <1>2, <2>1, <3>2, <4>1, <4>2, <4>3 DEF ControlOf
    <3>3. QED
      BY <3>1, <3>2
  <2>4. CASE rows' = rows
    BY <1>1, <1>6, <2>2, <2>3, <2>4, LocksUnchanged DEF IInv, db
  <2>5. CASE HasColumns(SetOf(w)) /\ rows' = [rows EXCEPT ![w][k] = row]
    <3>1. \A v \in Handler \ {w} : ~RowLocked(v, k) /\ ~ParentLocked(v, k)
      BY <1>1, <2>5 DEF Blocked, Conflicts
    <3>2. /\ \A v \in Handler : \A j \in Key :
                rows'[v][j] = IF v = w /\ j = k THEN row ELSE rows[v][j]
          /\ bundles' = bundles
      BY <1>1, <2>5 DEF IInv, TypeOK, db
    <3>3. \A v \in Handler : \A j \in Key : /\ ParentLocked(v, j)' = ParentLocked(v, j)
                                           /\ ListLocked(v, j)' = ListLocked(v, j)
      BY <1>6 DEF ParentLocked, ListLocked
    <3>4. \A v \in Handler : \A j \in Key :
             RowLocked(v, j)' => RowLocked(v, j) \/ (v = w /\ j = k)
      BY <3>2 DEF RowLocked
    <3>5. row = NoRow => bundles[k] = NoRow /\ ~ParentLocked(w, k)
      BY <1>1, <1>4 DEF IInv, LockInv, LocksOf, Current
    <3>6. row # Untouched
      BY <1>4, HandlerAssumption
    <3>7. \A v \in Handler : \A j \in Key :
             ~(v = w /\ j = k) => Current(v, j)' = Current(v, j)
      BY <3>2 DEF Current
    <3>8. Current(w, k)' = row
      BY <1>1, <3>2, <3>6 DEF Current
    <3>9. LockInv'
      <4> SUFFICES ASSUME NEW u \in Handler, NEW j \in Key PROVE LocksOf(u, j)'
        BY DEF LockInv
      <4>1. LocksOf(u, j) /\ \A v \in Handler : LocksOf(v, j)
        BY DEF IInv, LockInv
      <4>2. RowLocked(u, j)' => \A v \in Handler \ {u} : ~RowLocked(v, j)'
        BY <3>1, <3>4, <4>1 DEF LocksOf
      <4>3. ListLocked(u, j)' => \A v \in Handler \ {u} : ~ListLocked(v, j)'
        BY <3>3, <4>1 DEF LocksOf
      <4>4. rows'[u][j] = NoRow => bundles'[j] = NoRow
        BY <3>2, <3>5, <4>1 DEF LocksOf
      <4>5. ParentLocked(u, j)' => Current(u, j)' # NoRow
        BY <3>3, <3>5, <3>7, <3>8, <4>1 DEF LocksOf
      <4>6. ParentLocked(u, j)' => \A v \in Handler \ {u} : ~RowLocked(v, j)'
        BY <3>1, <3>3, <3>4, <4>1 DEF LocksOf
      <4>7. QED
        BY <4>2, <4>3, <4>4, <4>5, <4>6 DEF LocksOf
    <3>10. PatchEndpointsExist'
      BY <1>1, EndpointsUnchanged DEF IInv, db
    <3>11. QED
      BY <2>2, <2>3, <3>9, <3>10 DEF IInv
  <2>6. QED
    BY <1>6, <2>4, <2>5
<1>7. QED
  BY <1>5, <1>6 DEF WriteRow

\* The end of a bundle or of a patch: the loop goes on within the payload.
LEMMA AdvanceStep ==
  ASSUME TypeOK, ControlInv, NEW w \in Handler, NEW n \in Nat,
         pc[w] \in {"clear", "insert"},
         AdvanceFrom(w, n), req' = req, set' = set,
         rows'[w] = rows[w], KeyOf(w) \in cleared'[w],
         \A k \in cleared'[w] : k \in cleared[w] \/ k = KeyOf(w)
  PROVE  /\ pc' \in [Handler -> {"idle", "fetch", "write", "clear", "own", "insert",
                                 "commit", "delete"}]
         /\ item' \in [Handler -> Nat \ {0}]
         /\ next' \in [Handler -> Nat]
         /\ ControlOf(w)'
         /\ \A v \in Handler \ {w} : pc'[v] = pc[v] /\ item'[v] = item[v] /\ next'[v] = next[v]
<1>1. /\ req[w] \in Request /\ item[w] \in 1..Len(req[w].items)
      /\ req[w].items \in Seq(Item) /\ KeyOf(w)[1] = req[w].app
  BY ItemFacts, RequestFacts
<1>2. ControlOf(w)
  BY DEF ControlInv
<1>3. \A k \in Key : (RowLocked(w, k) \/ ListLocked(w, k))' => k[1] = req[w].app
  BY <1>1, <1>2 DEF ControlOf, RowLocked, ListLocked
<1>4. req[w].verb = "PATCH" => Len(req[w].items) = 1
  BY <1>1, RequestFacts
<1>5. req[w].verb \in {"POST", "PATCH"}
  BY <1>1, <1>2, RequestFacts DEF ControlOf, RequestType
<1>6. CASE \E p \in PatchRows(This(w).patches) : p.ord = n
  <2>1. /\ pc' = [pc EXCEPT ![w] = "own"] /\ next' = [next EXCEPT ![w] = n] /\ item' = item
    BY <1>6 DEF AdvanceFrom, Goto
  <2>2. pc'[w] = "own" /\ next'[w] = n /\ item'[w] = item[w] /\ req'[w] = req[w]
    BY <2>1 DEF TypeOK
  <2>3. This(w)' = This(w) /\ KeyOf(w)' = KeyOf(w)
    BY <2>2 DEF This, KeyOf
  <2>4. ControlOf(w)'
    BY <1>1, <1>2, <1>3, <1>5, <1>6, <2>2, <2>3 DEF ControlOf
  <2>5. QED
    BY <2>1, <2>4 DEF TypeOK
<1>7. CASE /\ ~\E p \in PatchRows(This(w).patches) : p.ord = n
           /\ item[w] < Len(req[w].items)
  <2>1. /\ pc' = [pc EXCEPT ![w] = "write"] /\ next' = [next EXCEPT ![w] = 0]
        /\ item' = [item EXCEPT ![w] = @ + 1]
    BY <1>7 DEF AdvanceFrom, Goto
  <2>2. pc'[w] = "write" /\ item'[w] = item[w] + 1 /\ req'[w] = req[w]
    BY <2>1 DEF TypeOK
  <2>3. item'[w] \in DOMAIN req[w].items
    <3>1. /\ DOMAIN req[w].items = 1..Len(req[w].items) /\ Len(req[w].items) \in Nat
          /\ item[w] \in Nat
      BY <1>1 DEF TypeOK
    <3>2. QED
      BY <1>7, <2>2, <3>1
  <2>4. ControlOf(w)'
    <3>1. req[w].verb # "PATCH"
      <4>1. item[w] \in Nat /\ item[w] # 0 /\ item[w] < Len(req[w].items)
        BY <1>7 DEF TypeOK
      <4>2. Len(req[w].items) \in Nat /\ \A i, l \in Nat : i # 0 /\ i < l => l # 1
        BY <1>1
      <4>3. QED
        BY <1>4, <4>1, <4>2
    <3>2. QED
      BY <1>2, <1>3, <1>5, <2>2, <2>3, <3>1 DEF ControlOf
  <2>5. QED
    BY <2>1, <2>4 DEF TypeOK
<1>8. CASE /\ ~\E p \in PatchRows(This(w).patches) : p.ord = n
           /\ ~(item[w] < Len(req[w].items))
  <2>1. /\ pc' = [pc EXCEPT ![w] = "commit"] /\ next' = [next EXCEPT ![w] = 0] /\ item' = item
    BY <1>8 DEF AdvanceFrom, Goto
  <2>2. pc'[w] = "commit" /\ req'[w] = req[w]
    BY <2>1 DEF TypeOK
  <2>3. ControlOf(w)'
    BY <1>2, <1>3, <1>5, <2>2 DEF ControlOf
  <2>4. QED
    BY <2>1, <2>3 DEF TypeOK
<1>9. QED
  BY <1>6, <1>7, <1>8

\* Dropping patches from a transaction's lists drops locks, and adds none.
LEMMA ClearPatchesStep ==
  ASSUME IInv, NEW w \in Handler, ClearPatches(w)
  PROVE  IInv'
<1>0. KeyOf(w) \in Key
  BY ItemFacts DEF IInv, ClearPatches
<1> SUFFICES ASSUME NEW k \in Key, k = KeyOf(w)
             PROVE  IInv'
  BY <1>0
<1>1. /\ pc[w] = "clear" /\ ~Blocked(w)
      /\ AdvanceFrom(w, 0)
      /\ bundles' = bundles /\ patches' = patches /\ req' = req /\ set' = set
      /\ snapshot' = snapshot /\ rows' = rows /\ answer' = answer
  BY DEF ClearPatches
<1>2. /\ cleared' \in [Handler -> SUBSET Key]
      /\ cleared'[w] = cleared[w] \cup {k}
      /\ \A v \in Handler \ {w} : cleared'[v] = cleared[v]
  BY DEF IInv, TypeOK, ClearPatches
<1>3. /\ lists' \in [Handler -> [Key -> SUBSET PatchRow]]
      /\ lists'[w][k] = {}
      /\ \A j \in Key : j # k => lists'[w][j] = lists[w][j]
      /\ \A v \in Handler \ {w} : lists'[v] = lists[v]
  BY DEF IInv, TypeOK, ClearPatches
<1>4. /\ pc' \in [Handler -> {"idle", "fetch", "write", "clear", "own", "insert",
                              "commit", "delete"}]
      /\ item' \in [Handler -> Nat \ {0}]
      /\ next' \in [Handler -> Nat]
      /\ ControlOf(w)'
      /\ \A v \in Handler \ {w} : pc'[v] = pc[v] /\ item'[v] = item[v] /\ next'[v] = next[v]
  BY <1>1, <1>2, AdvanceStep DEF IInv
<1>5. TypeOK'
  <2>1. TypeOK
    BY DEF IInv
  <2>2. QED
    BY <1>1, <1>2, <1>3, <1>4, <2>1 DEF TypeOK
<1>6. ControlInv'
  <2> SUFFICES ASSUME NEW v \in Handler, v # w PROVE ControlOf(v)'
    BY <1>4 DEF ControlInv
  <2>1. QED
    BY <1>1, <1>2, <1>4, OtherControl DEF IInv
<1>7. LockInv'
  <2> SUFFICES ASSUME NEW u \in Handler, NEW j \in Key PROVE LocksOf(u, j)'
    BY DEF LockInv
  <2>1. \A v \in Handler : LocksOf(v, j)
    BY DEF IInv, LockInv
  <2>2. \A v \in Handler : RowLocked(v, j)' = RowLocked(v, j) /\ Current(v, j)' = Current(v, j)
    BY <1>1 DEF RowLocked, Current
  <2>3. \A v \in Handler \ {w} : ~ListLocked(v, k)
    BY <1>1 DEF Blocked, Conflicts
  <2>4. \A v \in Handler : ListLocked(v, j)' => ListLocked(v, j) \/ (v = w /\ j = k)
    BY <1>2 DEF ListLocked
  <2>5. ParentLocked(u, j)' => ParentLocked(u, j)
    <3>1. \A q \in cleared'[u] : lists'[u][q] # {} => q \in cleared[u] /\ lists'[u][q] = lists[u][q]
      BY <1>2, <1>3 DEF IInv, TypeOK
    <3>2. QED
      BY <3>1 DEF ParentLocked
  <2>6. QED
    BY <1>1, <2>1, <2>2, <2>3, <2>4, <2>5 DEF LocksOf
<1>8. PatchEndpointsExist'
  BY <1>1, EndpointsUnchanged DEF IInv
<1>9. QED
  BY <1>5, <1>6, <1>7, <1>8 DEF IInv

LEMMA CheckBaseStep ==
  ASSUME IInv, NEW w \in Handler, CheckBase(w)
  PROVE  IInv'
<1>1. pc[w] = "own" /\ UNCHANGED db
  BY DEF CheckBase
<1>2. CASE Finish(w, 400, IF req[w].verb = "POST" THEN "text" ELSE "json")
  <2>1. (IF req[w].verb = "POST" THEN "text" ELSE "json") \in {"json", "text"}
    OBVIOUS
  <2>2. QED
    BY <1>1, <1>2, <2>1, FinishStep
<1>3. CASE /\ snapshot' = [snapshot EXCEPT ![w] = Visible(w)]
           /\ Goto(w, "insert")
           /\ UNCHANGED <<req, item, next, set, rows, cleared, lists, answer>>
  <2>1. Visible(w) \in (SUBSET Key) \cup {NoSnapshot}
    BY DEF IInv, TypeOK, Visible
  <2>2. TypeOK'
    BY <1>1, <1>3, <2>1 DEF IInv, TypeOK, Goto, db
  <2>3. ControlInv'
    <3> SUFFICES ASSUME NEW v \in Handler PROVE ControlOf(v)'
      BY DEF ControlInv
    <3>1. CASE v # w
      BY <1>3, <3>1, OtherControl DEF IInv, TypeOK, Goto
    <3>2. CASE v = w
      <4>1. pc'[w] = "insert"
        BY <1>3 DEF IInv, TypeOK, Goto
      <4>2. ControlOf(w)
        BY DEF IInv, ControlInv
      <4>3. This(w)' = This(w) /\ KeyOf(w)' = KeyOf(w)
        BY <1>3 DEF This, KeyOf
      <4>4. QED
        BY <1>1, <1>3, <3>2, <4>1, <4>2, <4>3 DEF ControlOf, RowLocked, ListLocked
    <3>3. QED
      BY <3>1, <3>2
  <2>4. LockInv' /\ PatchEndpointsExist'
    BY <1>1, <1>3, LocksUnchanged DEF IInv, db
  <2>5. QED
    BY <2>2, <2>3, <2>4 DEF IInv
<1>4. QED
  BY <1>2, <1>3 DEF CheckBase

LEMMA InsertPatchStep ==
  ASSUME IInv, NEW w \in Handler, InsertPatch(w)
  PROVE  IInv'
<1>0. KeyOf(w) \in Key /\ PatchAt(w) \in PatchRow /\ BaseKey(w, PatchAt(w)) \in Key
  BY ItemFacts, PatchFacts DEF IInv, InsertPatch
<1> SUFFICES ASSUME NEW k \in Key, k = KeyOf(w),
                    NEW at \in PatchRow, at = PatchAt(w),
                    NEW base \in Key, base = BaseKey(w, at)
             PROVE  IInv'
  BY <1>0
<1>1. pc[w] = "insert" /\ ~Blocked(w) /\ UNCHANGED db /\ next[w] \in Nat
  BY DEF IInv, TypeOK, InsertPatch
<1>2. CASE Finish(w, 500, "json")
  BY <1>1, <1>2, FinishStep
<1>3. CASE /\ InsertAccepted(w)
           /\ lists' = [lists EXCEPT ![w][k] = @ \cup {at}]
           /\ AdvanceFrom(w, next[w] + 1)
           /\ UNCHANGED <<req, set, snapshot, rows, cleared, answer>>
  <2>1. /\ bundles' = bundles /\ patches' = patches /\ req' = req /\ set' = set
        /\ snapshot' = snapshot /\ rows' = rows /\ cleared' = cleared /\ answer' = answer
    BY <1>1, <1>3 DEF db
  <2>2. /\ lists' \in [Handler -> [Key -> SUBSET PatchRow]]
        /\ lists'[w][k] = lists[w][k] \cup {at}
        /\ \A j \in Key : j # k => lists'[w][j] = lists[w][j]
        /\ \A v \in Handler \ {w} : lists'[v] = lists[v]
    BY <1>3 DEF IInv, TypeOK
  <2>3. /\ pc' \in [Handler -> {"idle", "fetch", "write", "clear", "own", "insert",
                                "commit", "delete"}]
        /\ item' \in [Handler -> Nat \ {0}]
        /\ next' \in [Handler -> Nat]
        /\ ControlOf(w)'
        /\ \A v \in Handler \ {w} : pc'[v] = pc[v] /\ item'[v] = item[v] /\ next'[v] = next[v]
    <3>1. KeyOf(w) \in cleared'[w]
      BY <1>1, <2>1 DEF IInv, ControlInv, ControlOf
    <3>2. next[w] + 1 \in Nat
      BY <1>1
    <3>3. QED
      BY <1>1, <1>3, <2>1, <3>1, <3>2, AdvanceStep DEF IInv
  <2>4. TypeOK'
    <3>1. TypeOK
      BY DEF IInv
    <3>2. QED
      BY <2>1, <2>2, <2>3, <3>1 DEF TypeOK
  <2>5. ControlInv'
    <3> SUFFICES ASSUME NEW v \in Handler, v # w PROVE ControlOf(v)'
      BY <2>3 DEF ControlInv
    <3>1. QED
      BY <2>1, <2>3, OtherControl DEF IInv
  <2>6. LockInv'
    <3> SUFFICES ASSUME NEW u \in Handler, NEW j \in Key PROVE LocksOf(u, j)'
      BY DEF LockInv
    <3>1. LocksOf(u, j)
      BY DEF IInv, LockInv
    <3>2. \A v \in Handler : /\ RowLocked(v, j)' = RowLocked(v, j)
                             /\ ListLocked(v, j)' = ListLocked(v, j)
                             /\ Current(v, j)' = Current(v, j)
      BY <2>1 DEF RowLocked, ListLocked, Current
    <3>3. /\ k[1] = req[w].app /\ base = <<k[1], at.base>>
      BY DEF KeyOf, BaseKey
    <3>4. \A x \in {k, base} : /\ Current(w, x) # NoRow
                               /\ \A v \in Handler \ {w} : ~RowLocked(v, x)
      BY <1>1, <1>3 DEF InsertAccepted, Blocked, Conflicts
    <3>5. ParentLocked(u, j)' => ParentLocked(u, j) \/ (u = w /\ j \in {k, base})
      <4> SUFFICES ASSUME NEW q \in cleared'[u], NEW p \in lists'[u][q],
                          j \in {q, <<q[1], p.base>>}
                   PROVE  ParentLocked(u, j) \/ (u = w /\ j \in {k, base})
        BY DEF ParentLocked
      <4>1. q \in cleared[u] /\ q \in Key
        BY <2>1 DEF IInv, TypeOK
      <4>2. p \in lists[u][q] \/ (u = w /\ q = k /\ p = at)
        BY <2>2, <4>1
      <4>3. QED
        BY <3>3, <4>1, <4>2 DEF ParentLocked
    <3>6. QED
      BY <2>1, <3>1, <3>2, <3>4, <3>5 DEF LocksOf
  <2>7. PatchEndpointsExist'
    BY <2>1, EndpointsUnchanged DEF IInv
  <2>8. QED
    BY <2>4, <2>5, <2>6, <2>7 DEF IInv
<1>4. QED
  BY <1>2, <1>3 DEF InsertPatch

\* COMMIT: what the transaction wrote replaces what nobody else has locked,
\* and the parents of its patches are rows it wrote or rows it keeps.
LEMMA MergeStep ==
  ASSUME IInv, NEW w \in Handler, pc[w] = "commit", Merge(w),
         NEW status \in {200, 201, 500}, Finish(w, status, "json")
  PROVE  IInv'
<1>1. /\ bundles' = [k \in Key |-> IF rows[w][k] # Untouched THEN rows[w][k] ELSE bundles[k]]
      /\ patches' = [k \in Key |-> IF k \in cleared[w] THEN lists[w][k] ELSE patches[k]]
  BY DEF Merge
<1>2. bundles' \in [Key -> Row \cup {NoRow}] /\ patches' \in [Key -> SUBSET PatchRow]
  BY <1>1 DEF IInv, TypeOK
<1>3. TypeOK'
  BY <1>2, FinishType DEF IInv
<1>4. ControlInv'
  BY FinishControl DEF IInv
<1>5. LockInv'
  <2>1. \A v \in Handler \ {w} : \A k \in Key :
           RowLocked(v, k) \/ ParentLocked(v, k) => bundles'[k] = bundles[k]
    BY <1>1 DEF IInv, LockInv, LocksOf, RowLocked
  <2>2. QED
    BY <2>1, FinishLocks DEF IInv
<1>6. PatchEndpointsExist'
  <2> SUFFICES ASSUME NEW k \in Key, NEW p \in patches'[k]
               PROVE  bundles'[k] # NoRow /\ bundles'[<<k[1], p.base>>] # NoRow
    BY DEF PatchEndpointsExist, PatchEndpoints
  <2>1. p \in PatchRow /\ <<k[1], p.base>> \in Key
    BY <1>2 DEF PatchRow, Key
  <2>2. CASE k \in cleared[w]
    <3>1. p \in lists[w][k]
      BY <1>1, <2>2
    <3>2. ParentLocked(w, k) /\ ParentLocked(w, <<k[1], p.base>>)
      BY <2>2, <3>1 DEF ParentLocked
    <3>3. Current(w, k) # NoRow /\ Current(w, <<k[1], p.base>>) # NoRow
      BY <2>1, <3>2 DEF IInv, LockInv, LocksOf
    <3>4. QED
      BY <1>1, <2>1, <3>3 DEF Current
  <2>3. CASE k \notin cleared[w]
    <3>1. p \in patches[k]
      BY <1>1, <2>3
    <3>2. bundles[k] # NoRow /\ bundles[<<k[1], p.base>>] # NoRow
      BY <3>1 DEF IInv, PatchEndpointsExist, PatchEndpoints
    <3>3. rows[w][k] # NoRow /\ rows[w][<<k[1], p.base>>] # NoRow
      BY <2>1, <3>2 DEF IInv, LockInv, LocksOf
    <3>4. QED
      BY <1>1, <2>1, <3>2, <3>3
  <2>4. QED
    BY <2>2, <2>3
<1>7. QED
  BY <1>3, <1>4, <1>5, <1>6 DEF IInv

\* DELETE: nobody holds the row or one of the patches that go with it.
LEMMA RemoveStep ==
  ASSUME IInv, NEW w \in Handler, pc[w] = "delete", Remove(w),
         NEW status \in {200, 500}, Finish(w, status, "json")
  PROVE  IInv'
<1>0. KeyOf(w) \in Key
  BY ItemFacts DEF IInv
<1> SUFFICES ASSUME NEW k \in Key, k = KeyOf(w) PROVE IInv'
  BY <1>0
<1>1. /\ ~Blocked(w)
      /\ bundles' = [bundles EXCEPT ![k] = NoRow]
      /\ patches' = Cascade(patches, k)
  BY DEF Remove
<1>2. bundles' \in [Key -> Row \cup {NoRow}] /\ patches' \in [Key -> SUBSET PatchRow]
  BY <1>1, CascadeType DEF IInv, TypeOK
<1>3. TypeOK'
  BY <1>2, FinishType DEF IInv
<1>4. ControlInv'
  BY FinishControl DEF IInv
<1>5. LockInv'
  <2>1. \A v \in Handler \ {w} : ~RowLocked(v, k) /\ ~ParentLocked(v, k)
    BY <1>1 DEF Blocked, Conflicts
  <2>2. \A v \in Handler \ {w} : \A j \in Key :
           RowLocked(v, j) \/ ParentLocked(v, j) => bundles'[j] = bundles[j]
    BY <1>1, <2>1 DEF IInv, TypeOK
  <2>3. QED
    BY <2>2, FinishLocks DEF IInv
<1>6. PatchEndpointsExist'
  <2> SUFFICES ASSUME NEW q \in Key, NEW p \in patches'[q]
               PROVE  bundles'[q] # NoRow /\ bundles'[<<q[1], p.base>>] # NoRow
    BY DEF PatchEndpointsExist, PatchEndpoints
  <2>1. q # k /\ <<q[1], p.base>> # k /\ p \in patches[q]
    BY <1>1 DEF Cascade
  <2>2. p \in PatchRow /\ <<q[1], p.base>> \in Key
    BY <1>2 DEF PatchRow, Key
  <2>3. QED
    BY <1>1, <2>1, <2>2 DEF IInv, TypeOK, PatchEndpointsExist, PatchEndpoints
<1>7. QED
  BY <1>3, <1>4, <1>5, <1>6 DEF IInv

LEMMA CrashStep ==
  ASSUME IInv, Crash
  PROVE  IInv'
<1>1. TypeOK'
  BY DEF IInv, TypeOK, Crash
<1>2. ControlInv'
  BY DEF ControlInv, ControlOf, Crash, RowLocked, ListLocked
<1>3. LockInv'
  BY HandlerAssumption DEF LockInv, LocksOf, Crash, RowLocked, ListLocked, ParentLocked
<1>4. PatchEndpointsExist'
  BY EndpointsUnchanged DEF IInv, Crash
<1>5. QED
  BY <1>1, <1>2, <1>3, <1>4 DEF IInv

-----------------------------------------------------------------------------
(* The theorems.                                                           *)

LEMMA NextStep ==
  ASSUME IInv, [Next]_vars
  PROVE  IInv'
<1>1. ASSUME NEW w \in Handler, NEW r \in Request, Receive(w, r) PROVE IInv'
  BY <1>1, ReceiveStep
<1>2. ASSUME NEW w \in Handler, Fetch(w) PROVE IInv'
  BY <1>2, FetchStep
<1>3. ASSUME NEW w \in Handler, WriteRow(w) PROVE IInv'
  BY <1>3, WriteRowStep
<1>4. ASSUME NEW w \in Handler, ClearPatches(w) PROVE IInv'
  BY <1>4, ClearPatchesStep
<1>5. ASSUME NEW w \in Handler, CheckBase(w) PROVE IInv'
  BY <1>5, CheckBaseStep
<1>6. ASSUME NEW w \in Handler, InsertPatch(w) PROVE IInv'
  BY <1>6, InsertPatchStep
<1>7. ASSUME NEW w \in Handler, Commit(w) PROVE IInv'
  <2>1. (IF req[w].verb = "POST" THEN 201 ELSE 200) \in {200, 201, 500}
    OBVIOUS
  <2>2. QED
    BY <1>7, <2>1, MergeStep DEF Commit
<1>8. ASSUME NEW w \in Handler, DeleteBundle(w) PROVE IInv'
  BY <1>8, RemoveStep DEF DeleteBundle
<1>9. ASSUME NEW w \in Handler, Unacknowledged(w) PROVE IInv'
  BY <1>9, MergeStep, RemoveStep DEF Unacknowledged
<1>10. ASSUME NEW w \in Handler, WaitAborted(w) \/ StatementFails(w) PROVE IInv'
  BY <1>10, FinishStep DEF WaitAborted, StatementFails
<1>11. CASE UNCHANGED vars
  <2>1. TypeOK'
    BY <1>11 DEF IInv, TypeOK, vars
  <2>2. ControlInv'
    BY <1>11, OtherControl DEF IInv, ControlInv, vars
  <2>3. LockInv' /\ PatchEndpointsExist'
    BY <1>11, LocksUnchanged DEF IInv, vars
  <2>4. QED
    BY <2>1, <2>2, <2>3 DEF IInv
<1>12. QED
  BY <1>1, <1>2, <1>3, <1>4, <1>5, <1>6, <1>7, <1>8, <1>9, <1>10, <1>11, CrashStep
     DEF Next, Statement

\* The inductive invariant holds in every reachable state.
THEOREM Invariance ==
  Spec => []IInv
<1>1. Init => IInv
  BY InitStep
<1>2. IInv /\ [Next]_vars => IInv'
  BY NextStep
<1>3. QED
  BY <1>1, <1>2, PTL DEF Spec

\* Every variable of the handlers and both tables keep their type, whatever
\* the tenants, ids, payloads and number of tasks.
THEOREM TypeCorrect ==
  Spec => []TypeOK
<1>1. IInv => TypeOK
  BY DEF IInv
<1>2. QED
  BY <1>1, Invariance, PTL

\* However many publishes, patches and deletes interleave, a committed patch
\* has its bundle and its base bundle committed beside it.
THEOREM EndpointsExist ==
  Spec => []PatchEndpointsExist
<1>1. IInv => PatchEndpointsExist
  BY DEF IInv
<1>2. QED
  BY <1>1, Invariance, PTL

\* No request ever changes a row of an application whose token it does not
\* carry, not even through the cascade of a delete.
THEOREM Isolation ==
  Spec => TenantIsolation
<1> DEFINE Changed(k) == bundles'[k] # bundles[k] \/ patches'[k] # patches[k]
           Owned(k) == \E w \in Handler : /\ pc[w] \in {"commit", "delete"}
                                          /\ req[w].token = k[1]
<1>1. ASSUME IInv, NEW w \in Handler, pc[w] = "commit", Merge(w), NEW k \in Key, Changed(k)
      PROVE  Owned(k)
  <2>1. RowLocked(w, k) \/ ListLocked(w, k)
    BY <1>1 DEF Merge, RowLocked, ListLocked, IInv, TypeOK
  <2>2. k[1] = req[w].app /\ req[w].token = req[w].app
    BY <1>1, <2>1 DEF IInv, ControlInv, ControlOf
  <2>3. QED
    BY <1>1, <2>2
<1>2. ASSUME IInv, NEW w \in Handler, pc[w] = "delete", Remove(w), NEW k \in Key, Changed(k)
      PROVE  Owned(k)
  <2>1. KeyOf(w) \in Key /\ KeyOf(w)[1] = req[w].app /\ req[w].token = req[w].app
    BY <1>2, ItemFacts DEF IInv, ControlInv, ControlOf
  <2>2. /\ bundles' = [bundles EXCEPT ![KeyOf(w)] = NoRow]
        /\ patches' = Cascade(patches, KeyOf(w))
    BY <1>2 DEF Remove
  <2>3. k = KeyOf(w) \/ \E p \in patches[k] : <<k[1], p.base>> = KeyOf(w)
    BY <1>2, <2>1, <2>2 DEF Cascade, IInv, TypeOK
  <2>4. k[1] = KeyOf(w)[1]
    BY <2>3
  <2>5. QED
    BY <1>2, <2>1, <2>4
<1>3. ASSUME IInv, [Next]_vars, NEW k \in Key, Changed(k)
      PROVE  Owned(k)
  <2>1. ~(bundles' = bundles /\ patches' = patches)
    BY <1>3
  <2>2. \E w \in Handler : Commit(w) \/ DeleteBundle(w) \/ Unacknowledged(w)
    BY <1>3, <2>1 DEF Next, Statement, vars, Receive, Fetch, WriteRow, ClearPatches, CheckBase,
                      InsertPatch, WaitAborted, StatementFails, Crash, db
  <2>3. QED
    BY <1>1, <1>2, <1>3, <2>2 DEF Commit, DeleteBundle, Unacknowledged
<1>4. IInv /\ [Next]_vars => [\A k \in Key : Changed(k) => Owned(k)]_vars
  BY <1>3
<1>5. QED
  BY <1>4, Invariance, PTL DEF Spec, TenantIsolation

-----------------------------------------------------------------------------
(* What an open transaction has written so far.                            *)

\* The key of the i-th bundle of a request.
KeyAt(w, i) == <<req[w].app, req[w].items[i].id>>

\* A PATCH may leave the patch lists alone.
SendsLists(w) == req[w].verb = "PATCH" => req[w].items[1].patches # Absent

\* How many bundles of its batch a transaction is done with, and how many it
\* has written and cleared.
Done(w) == IF pc[w] = "commit" THEN Len(req[w].items) ELSE item[w] - 1
Written(w) == IF pc[w] \in {"clear", "own", "insert"} THEN item[w] ELSE Done(w)
Cleared(w) == IF ~SendsLists(w) THEN 0
              ELSE IF pc[w] \in {"own", "insert"} THEN item[w] ELSE Done(w)

\* The i-th of the first n bundles is the last of them with its key.
LastOf(w, i, n) == \A j \in (i+1)..n : KeyAt(w, j) # KeyAt(w, i)

InTransaction == {"write", "clear", "own", "insert", "commit"}

\* A batch has written, of each bundle, the last payload it came to.
BatchRows(w) ==
  /\ \A k \in Key : rows[w][k] # Untouched => \E i \in 1..Written(w) : KeyAt(w, i) = k
  /\ \A i \in 1..Written(w) : LastOf(w, i, Written(w)) =>
       rows[w][KeyAt(w, i)] = req[w].items[i].set

\* A PATCH has written its columns over the row as it is, if there is one.
PatchedRow(w) ==
  LET k == KeyAt(w, 1) IN
  /\ \E old \in Row : set[w] = MergeMetadata(old, req[w].items[1].set)
  /\ \A j \in Key : rows[w][j] # Untouched => j = k
  /\ pc[w] = "write" \/ ~HasColumns(set[w]) => rows[w][k] = Untouched
  /\ pc[w] # "write" /\ HasColumns(set[w]) =>
       rows[w][k] = IF bundles[k] = NoRow THEN NoRow ELSE Overwrite(bundles[k], set[w])

\* Of each bundle that was cleared, the lists hold the last payload's patches,
\* and those before `next` of the bundle in work.
ListsSoFar(w) ==
  /\ cleared[w] = { KeyAt(w, i) : i \in 1..Cleared(w) }
  /\ \A i \in 1..Cleared(w) : LastOf(w, i, Cleared(w)) =>
       lists[w][KeyAt(w, i)] =
         { p \in PatchRows(req[w].items[i].patches) : Done(w) < i => p.ord < next[w] }

\* What app_owns_bundle has found out.
BaseSeen(w) ==
  LET k == BaseKey(w, PatchAt(w)) IN k \in snapshot[w] \/ rows[w][k] \notin {NoRow, Untouched}

OverlayOf(w) ==
  /\ pc[w] \in InTransaction =>
       /\ req[w].verb = "POST" => BatchRows(w)
       /\ req[w].verb = "PATCH" => PatchedRow(w)
       /\ ListsSoFar(w)
  /\ pc[w] \in {"clear", "own", "insert"} => SendsLists(w)
  /\ pc[w] = "insert" => BaseSeen(w)

OverlayInv == \A w \in Handler : OverlayOf(w)

-----------------------------------------------------------------------------
(* The rows of a patch list.                                               *)

\* A set of natural numbers that is not empty has a least element.
LEMMA LeastOf ==
  ASSUME NEW S \in SUBSET Nat, S # {}
  PROVE  \E least \in S : \A n \in S : least <= n
<1>1. PICK least \in S : \A n \in S : <<n, least>> \notin OpToRel(<, Nat)
  BY NatLessThanWellFounded, WFMin
<1>2. \A n \in S : n \in Nat /\ least \in Nat /\ ~(n < least)
  BY <1>1 DEF OpToRel
<1>3. QED
  BY <1>2

\* A bounded one has a greatest element.
LEMMA GreatestOf ==
  ASSUME NEW S \in SUBSET Nat, S # {}, NEW bound \in Nat, \A n \in S : n <= bound
  PROVE  \E greatest \in S : \A n \in S : n <= greatest
<1> DEFINE Distances == { d \in Nat : bound - d \in S }
<1>1. Distances # {}
  <2>1. PICK n \in S : TRUE
    OBVIOUS
  <2>2. n \in Nat /\ bound - n \in Nat /\ bound - (bound - n) = n
    BY <2>1
  <2>3. QED
    BY <2>1, <2>2
<1>2. PICK d \in Distances : \A e \in Distances : d <= e
  <2>1. Distances \in SUBSET Nat
    OBVIOUS
  <2> HIDE DEF Distances
  <2>2. QED
    BY <1>1, <2>1, LeastOf
<1>3. bound - d \in S /\ d \in Nat
  OBVIOUS
<1>4. ASSUME NEW n \in S PROVE n <= bound - d
  <2>1. n \in Nat /\ n <= bound /\ bound - n \in Nat /\ bound - (bound - n) = n
    OBVIOUS
  <2>2. bound - n \in Distances
    BY <2>1
  <2>3. d <= bound - n
    BY <1>2, <2>2
  <2>4. QED
    BY <1>3, <2>1, <2>3
<1>5. QED
  BY <1>3, <1>4

\* The entries get_bundle_patches keeps of a payload, and the number of an entry.
Kept(raw) == { i \in DOMAIN raw : \A j \in 1..(i-1) : raw[j].base # raw[i].base }
Before(raw, i) == { j \in Kept(raw) : j < i }
Order(raw, i) == Cardinality(Before(raw, i))

LEMMA KeptFacts ==
  ASSUME NEW raw \in Seq(RawPatch)
  PROVE  /\ Kept(raw) \subseteq 1..Len(raw)
         /\ \A i \in 1..Len(raw) : IsFiniteSet(Before(raw, i)) /\ Order(raw, i) \in Nat
         /\ \A i, j \in Kept(raw) : raw[i].base = raw[j].base => i = j
<1>1. Kept(raw) \subseteq 1..Len(raw) /\ Len(raw) \in Nat
  BY DEF Kept
<1>2. ASSUME NEW i \in 1..Len(raw) PROVE IsFiniteSet(Before(raw, i)) /\ Order(raw, i) \in Nat
  <2>1. IsFiniteSet(1..Len(raw)) /\ Before(raw, i) \in SUBSET (1..Len(raw))
    BY <1>1, FS_Interval DEF Before
  <2>2. IsFiniteSet(Before(raw, i))
    BY <2>1, FS_Subset
  <2>3. QED
    BY <2>2, FS_CardinalityType DEF Order
<1>3. ASSUME NEW i \in Kept(raw), NEW j \in Kept(raw), raw[i].base = raw[j].base, i < j
      PROVE  FALSE
  <2>1. i \in 1..(j-1)
    BY <1>1, <1>3
  <2>2. QED
    BY <1>3, <2>1 DEF Kept
<1>4. ASSUME NEW i \in Kept(raw), NEW j \in Kept(raw), raw[i].base = raw[j].base
      PROVE  i = j
  <2>1. i \in Nat /\ j \in Nat
    BY <1>1
  <2>2. ~(i < j) /\ ~(j < i)
    BY <1>3, <1>4
  <2>3. QED
    BY <2>1, <2>2
<1>5. QED
  BY <1>1, <1>2, <1>4

\* Later entries have greater numbers.
LEMMA OrderGrows ==
  ASSUME NEW raw \in Seq(RawPatch), NEW i \in Kept(raw), NEW j \in Kept(raw), i < j
  PROVE  Order(raw, i) < Order(raw, j)
<1>1. /\ IsFiniteSet(Before(raw, i)) /\ Order(raw, i) \in Nat
      /\ IsFiniteSet(Before(raw, j)) /\ Order(raw, j) \in Nat
      /\ i \in Nat /\ j \in Nat /\ Kept(raw) \subseteq Nat
  BY KeptFacts
<1>2. Before(raw, i) \in SUBSET Before(raw, j)
  BY <1>1 DEF Before
<1>3. i \in Before(raw, j) /\ i \notin Before(raw, i)
  BY <1>1 DEF Before
<1>4. QED
  BY <1>1, <1>2, <1>3, FS_Subset DEF Order

\* The entry before one has the number before its.
LEMMA OrderSteps ==
  ASSUME NEW raw \in Seq(RawPatch), NEW i \in Kept(raw), Order(raw, i) # 0
  PROVE  \E j \in Kept(raw) : j < i /\ Order(raw, i) = Order(raw, j) + 1
<1>1. /\ Kept(raw) \subseteq Nat /\ i \in Nat
      /\ \A j \in Kept(raw) : IsFiniteSet(Before(raw, j)) /\ Order(raw, j) \in Nat
  BY KeptFacts
<1>2. Before(raw, i) # {}
  BY <1>1, FS_EmptySet DEF Order
<1>3. /\ Before(raw, i) \in SUBSET Nat
      /\ \A n \in Before(raw, i) : n <= i
  BY <1>1 DEF Before
<1>4. PICK j \in Before(raw, i) : \A n \in Before(raw, i) : n <= j
  BY <1>1, <1>2, <1>3, GreatestOf
<1>5. j \in Kept(raw) /\ j < i /\ j \in Nat
  BY <1>1, <1>4 DEF Before
<1>6. Before(raw, i) = Before(raw, j) \cup {j} /\ j \notin Before(raw, j)
  BY <1>1, <1>4, <1>5 DEF Before
<1>7. Order(raw, i) = Order(raw, j) + 1
  BY <1>1, <1>5, <1>6, FS_AddElement DEF Order
<1>8. QED
  BY <1>5, <1>7

\* A list is a function of the base and of the number, and numbers have no gaps.
LEMMA PatchRowsFacts ==
  ASSUME NEW raw \in Seq(RawPatch) \cup {Absent}
  PROVE  /\ \A p, q \in PatchRows(raw) : p.base = q.base => p = q
         /\ \A p, q \in PatchRows(raw) : p.ord = q.ord => p = q
         /\ \A p \in PatchRows(raw) : \A n \in Nat :
               n <= p.ord => \E q \in PatchRows(raw) : q.ord = n
<1>1. CASE raw = Absent
  BY <1>1 DEF PatchRows
<1>2. CASE raw # Absent
  <2>1. raw \in Seq(RawPatch)
    BY <1>2
  <2>2. PatchRows(raw) = { [base |-> raw[i].base, ord |-> Order(raw, i), file |-> raw[i].file] :
                             i \in Kept(raw) }
    BY <1>2 DEF PatchRows, Kept, Order, Before
  <2>3. /\ Kept(raw) \subseteq Nat
        /\ \A i \in Kept(raw) : Order(raw, i) \in Nat
        /\ \A i, j \in Kept(raw) : raw[i].base = raw[j].base => i = j
    BY <2>1, KeptFacts
  <2>4. ASSUME NEW i \in Kept(raw), NEW j \in Kept(raw), Order(raw, i) = Order(raw, j)
        PROVE  i = j
    <3>1. ~(i < j) /\ ~(j < i)
      BY <2>1, <2>3, <2>4, OrderGrows
    <3>2. QED
      BY <2>3, <3>1
  <2>5. ASSUME NEW i \in Kept(raw), NEW n \in Nat, n <= Order(raw, i),
               \A j \in Kept(raw) : Order(raw, j) # n
        PROVE  FALSE
    <3> DEFINE Above == { j \in Kept(raw) : n < Order(raw, j) }
    <3>1. i \in Above /\ Above \in SUBSET Nat
      BY <2>3, <2>5
    <3>2. PICK least \in Above : \A j \in Above : least <= j
      <4> HIDE DEF Above
      <4>1. QED
        BY <3>1, LeastOf
    <3>3. PICK j \in Kept(raw) : j < least /\ Order(raw, least) = Order(raw, j) + 1
      BY <2>1, <2>3, OrderSteps
    <3>4. j \in Above
      BY <2>3, <2>5, <3>3
    <3>5. QED
      BY <2>3, <3>2, <3>3, <3>4
  <2> DEFINE at(i) == [base |-> raw[i].base, ord |-> Order(raw, i), file |-> raw[i].file]
  <2>6. ASSUME NEW p \in PatchRows(raw)
        PROVE  \E i \in Kept(raw) : p = at(i) /\ p.base = raw[i].base /\ p.ord = Order(raw, i)
    BY <2>2
  <2>7. ASSUME NEW i \in Kept(raw) PROVE at(i) \in PatchRows(raw) /\ at(i).ord = Order(raw, i)
    BY <2>2
  <2> HIDE DEF at
  <2>8. \A p, q \in PatchRows(raw) : p.base = q.base => p = q
    BY <2>3, <2>6
  <2>9. \A p, q \in PatchRows(raw) : p.ord = q.ord => p = q
    BY <2>4, <2>6
  <2>10. \A p \in PatchRows(raw) : \A n \in Nat :
            n <= p.ord => \E q \in PatchRows(raw) : q.ord = n
    BY <2>5, <2>6, <2>7
  <2>11. QED
    BY <2>8, <2>9, <2>10
<1>3. QED
  BY <1>1, <1>2
-----------------------------------------------------------------------------
(* One lemma per kind of step: each preserves OverlayInv.                  *)

\* PATCH names one bundle, so it is always at its first.
LEMMA PatchNamesOne ==
  ASSUME IInv, NEW w \in Handler, pc[w] \notin {"idle", "commit"}, req[w].verb = "PATCH"
  PROVE  Len(req[w].items) = 1 /\ item[w] = 1
<1>1. Len(req[w].items) = 1 /\ item[w] \in 1..1
  BY ItemFacts, RequestFacts DEF IInv
<1>2. QED
  BY <1>1

\* What a transaction has in its overlay depends on its own variables and on
\* the rows it has locked.
LEMMA OverlayKept ==
  ASSUME IInv, NEW v \in Handler, OverlayOf(v),
         pc'[v] = pc[v], req'[v] = req[v], item'[v] = item[v], next'[v] = next[v],
         set'[v] = set[v], snapshot'[v] = snapshot[v],
         cleared'[v] = cleared[v], rows'[v] = rows[v], lists'[v] = lists[v],
         \A k \in Key : RowLocked(v, k) => bundles'[k] = bundles[k]
  PROVE  OverlayOf(v)'
<1>1. \A i : KeyAt(v, i)' = KeyAt(v, i)
  BY DEF KeyAt
<1>2. \A i, n : LastOf(v, i, n)' = LastOf(v, i, n)
  BY <1>1 DEF LastOf
<1>3. /\ Done(v)' = Done(v) /\ SendsLists(v)' = SendsLists(v)
      /\ Written(v)' = Written(v) /\ Cleared(v)' = Cleared(v)
  BY DEF Done, Written, Cleared, SendsLists
<1>4. BatchRows(v) => BatchRows(v)'
  BY <1>1, <1>2, <1>3 DEF BatchRows
<1>5. ListsSoFar(v) => ListsSoFar(v)'
  BY <1>1, <1>2, <1>3 DEF ListsSoFar
<1>6. ASSUME pc[v] \in InTransaction, req[v].verb = "PATCH", PatchedRow(v)
      PROVE  PatchedRow(v)'
  <2>1. KeyAt(v, 1) \in Key /\ set[v] \in SetClause
    <3>1. /\ req[v] \in Request /\ req[v].app \in App
      BY <1>6 DEF IInv, TypeOK, ControlInv, ControlOf, InTransaction
    <3>2. req[v].items[1] \in Item
      BY <1>6, <3>1, RequestFacts
    <3>3. KeyAt(v, 1) \in Key /\ req[v].items[1].set \in SetClause
      BY <3>1, <3>2 DEF KeyAt, Key, Item
    <3>4. QED
      BY <1>6, <3>3, MergeType DEF PatchedRow
  <2>2. ASSUME rows[v][KeyAt(v, 1)] = IF bundles[KeyAt(v, 1)] = NoRow THEN NoRow
                                      ELSE Overwrite(bundles[KeyAt(v, 1)], set[v])
        PROVE  bundles'[KeyAt(v, 1)] = bundles[KeyAt(v, 1)]
    <3>1. bundles[KeyAt(v, 1)] # NoRow => Overwrite(bundles[KeyAt(v, 1)], set[v]) \in Row
      BY <2>1, OverwriteType DEF IInv, TypeOK
    <3>2. rows[v][KeyAt(v, 1)] # Untouched
      BY <2>2, <3>1, HandlerAssumption
    <3>3. QED
      BY <2>1, <3>2 DEF RowLocked
  <2>3. QED
    BY <1>1, <1>6, <2>2 DEF PatchedRow
<1>7. ASSUME pc[v] = "insert", BaseSeen(v)
      PROVE  BaseSeen(v)'
  <2>1. This(v)' = This(v)
    BY DEF This
  <2>2. PatchAt(v)' = PatchAt(v)
    BY <2>1 DEF PatchAt
  <2>3. QED
    BY <1>7, <2>2 DEF BaseSeen, BaseKey
<1>8. QED
  BY <1>3, <1>4, <1>5, <1>6, <1>7 DEF OverlayOf

\* Ending a transaction forgets its overlay, and leaves the others theirs.
LEMMA FinishOverlay ==
  ASSUME IInv, OverlayInv, NEW w \in Handler, NEW status, NEW body,
         Finish(w, status, body),
         \A v \in Handler \ {w} : \A k \in Key : RowLocked(v, k) => bundles'[k] = bundles[k]
  PROVE  OverlayInv'
<1> SUFFICES ASSUME NEW v \in Handler PROVE OverlayOf(v)'
  BY DEF OverlayInv
<1>1. CASE v = w
  <2>1. pc'[w] = "idle"
    BY DEF Finish, IInv, TypeOK
  <2>2. QED
    BY <1>1, <2>1 DEF OverlayOf, InTransaction
<1>2. CASE v # w
  <2>1. /\ pc'[v] = pc[v] /\ req'[v] = req[v] /\ item'[v] = item[v] /\ next'[v] = next[v]
        /\ set'[v] = set[v] /\ snapshot'[v] = snapshot[v] /\ cleared'[v] = cleared[v]
        /\ rows'[v] = rows[v] /\ lists'[v] = lists[v]
    BY <1>2 DEF Finish, IInv, TypeOK
  <2>2. OverlayOf(v)
    BY DEF OverlayInv
  <2>3. QED
    BY <1>2, <2>1, <2>2, OverlayKept
<1>3. QED
  BY <1>1, <1>2

\* A request that arrives has written nothing.
LEMMA ReceiveOverlay ==
  ASSUME IInv, OverlayInv, NEW w \in Handler, NEW r \in Request, Receive(w, r)
  PROVE  OverlayInv'
<1> SUFFICES ASSUME NEW v \in Handler PROVE OverlayOf(v)'
  BY DEF OverlayInv
<1>1. /\ pc[w] = "idle" /\ item[w] = 1 /\ cleared[w] = {}
      /\ rows[w] = [k \in Key |-> Untouched]
  BY DEF IInv, ControlInv, ControlOf, Receive
<1>2. CASE v = w /\ Refusal(r) = 200
  <2>1. /\ pc'[w] = FirstStatement(r) /\ req'[w] = r
        /\ item'[w] = 1 /\ cleared'[w] = {} /\ rows'[w] = [k \in Key |-> Untouched]
    BY <1>1, <1>2 DEF IInv, TypeOK, Receive, Goto, tx
  <2>2. /\ r.verb \in {"POST", "PATCH", "DELETE"} /\ r.items \in Seq(Item)
    BY RequestFacts DEF RequestType
  <2>3. /\ pc'[w] \in InTransaction \cup {"fetch", "delete"}
        /\ pc'[w] \notin {"clear", "own", "insert"}
        /\ pc'[w] \in InTransaction => r.verb = "POST"
        /\ pc'[w] = "commit" => Len(r.items) = 0
    BY <2>1, <2>2 DEF FirstStatement, InTransaction
  <2>4. pc'[w] \in InTransaction => Done(w)' = 0 /\ Written(w)' = 0 /\ Cleared(w)' = 0
    BY <2>1, <2>3 DEF Done, Written, Cleared, InTransaction
  <2>5. pc'[w] \in InTransaction => BatchRows(w)'
    BY <2>1, <2>4 DEF BatchRows
  <2>6. pc'[w] \in InTransaction => ListsSoFar(w)'
    BY <2>1, <2>4 DEF ListsSoFar
  <2>7. QED
    BY <1>2, <2>1, <2>3, <2>5, <2>6 DEF OverlayOf
<1>3. CASE v # w \/ Refusal(r) # 200
  <2>1. /\ pc'[v] = pc[v] /\ req'[v] = req[v] /\ item'[v] = item[v] /\ next'[v] = next[v]
        /\ set'[v] = set[v] /\ snapshot'[v] = snapshot[v] /\ cleared'[v] = cleared[v]
        /\ rows'[v] = rows[v] /\ lists'[v] = lists[v] /\ bundles' = bundles
    BY <1>3 DEF IInv, TypeOK, Receive, Goto, tx
  <2>2. QED
    BY <2>1, OverlayKept DEF OverlayInv
<1>4. QED
  BY <1>2, <1>3
\* The others, when a handler's statement leaves the tables alone.
LEMMA OthersKept ==
  ASSUME IInv, OverlayInv, NEW w \in Handler, bundles' = bundles, OverlayOf(w)',
         \A v \in Handler \ {w} :
            /\ pc'[v] = pc[v] /\ req'[v] = req[v] /\ item'[v] = item[v] /\ next'[v] = next[v]
            /\ set'[v] = set[v] /\ snapshot'[v] = snapshot[v] /\ cleared'[v] = cleared[v]
            /\ rows'[v] = rows[v] /\ lists'[v] = lists[v]
  PROVE  OverlayInv'
<1> SUFFICES ASSUME NEW v \in Handler, v # w PROVE OverlayOf(v)'
  BY DEF OverlayInv
<1>1. OverlayOf(v)
  BY DEF OverlayInv
<1>2. QED
  BY <1>1, OverlayKept

\* What update_bundle writes is the payload merged with the row it read.
LEMMA FetchOverlay ==
  ASSUME IInv, OverlayInv, NEW w \in Handler, Fetch(w)
  PROVE  OverlayInv'
<1> DEFINE merged == MergeMetadata(bundles[KeyOf(w)], This(w).set)
<1>1. pc[w] = "fetch" /\ bundles' = bundles /\ req[w].verb = "PATCH"
  BY DEF IInv, ControlInv, ControlOf, Fetch, db
<1>2. CASE \E status \in {200, 400, 404} : Finish(w, status, "json")
  BY <1>1, <1>2, FinishOverlay
<1>3. CASE /\ bundles[KeyOf(w)] # NoRow
           /\ set' = [set EXCEPT ![w] = merged]
           /\ Goto(w, "write")
           /\ UNCHANGED <<req, item, next, snapshot, rows, cleared, lists, answer>>
  <2>1. /\ KeyOf(w) \in Key /\ item[w] = 1
        /\ cleared[w] = {} /\ rows[w] = [k \in Key |-> Untouched]
    BY <1>1, ItemFacts, PatchNamesOne DEF IInv, ControlInv, ControlOf
  <2>2. bundles[KeyOf(w)] \in Row /\ KeyAt(w, 1) \in Key
    BY <1>3, <2>1 DEF IInv, TypeOK, KeyOf, KeyAt, This
  <2>3. \E old \in Row : merged = MergeMetadata(old, req[w].items[1].set)
    BY <2>1, <2>2 DEF This
  <2> HIDE DEF merged
  <2>4. /\ pc'[w] = "write" /\ set'[w] = merged
        /\ UNCHANGED <<req, item, next, snapshot, rows, cleared, lists>>
    BY <1>3 DEF IInv, TypeOK, Goto
  <2>5. PatchedRow(w)'
    BY <2>1, <2>2, <2>3, <2>4 DEF PatchedRow, KeyAt
  <2>6. ListsSoFar(w)'
    <3>1. Done(w)' = 0 /\ Cleared(w)' = 0
      BY <2>1, <2>4 DEF Done, Cleared
    <3>2. QED
      BY <2>1, <2>4, <3>1 DEF ListsSoFar
  <2>7. OverlayOf(w)'
    BY <1>1, <2>4, <2>5, <2>6 DEF OverlayOf
  <2>8. QED
    BY <1>1, <1>3, <2>4, <2>7, OthersKept DEF IInv, TypeOK, Goto
<1>4. QED
  BY <1>2, <1>3 DEF Fetch

\* Writing a row: the last payload of its bundle so far.
LEMMA WriteRowOverlay ==
  ASSUME IInv, OverlayInv, NEW w \in Handler, WriteRow(w)
  PROVE  OverlayInv'
<1>0. /\ KeyOf(w) \in Key /\ req[w] \in Request /\ This(w) \in Item
      /\ item[w] \in 1..Len(req[w].items) /\ req[w].items \in Seq(Item)
  BY ItemFacts, RequestFacts DEF IInv, WriteRow
<1> SUFFICES ASSUME NEW k \in Key, k = KeyOf(w)
             PROVE  OverlayInv'
  BY <1>0
<1> DEFINE row == IF req[w].verb = "POST" THEN This(w).set
                  ELSE IF Current(w, k) = NoRow THEN NoRow
                  ELSE Overwrite(Current(w, k), set[w])
           after == IF req[w].verb = "PATCH" /\ This(w).patches = Absent
                    THEN "commit" ELSE "clear"
<1>1. /\ pc[w] = "write" /\ bundles' = bundles /\ OverlayOf(w)
      /\ k = KeyAt(w, item[w]) /\ item[w] \in Nat
      /\ req[w].verb \in {"POST", "PATCH"}
  <2>1. req[w].verb \in {"POST", "PATCH"}
    BY <1>0, RequestFacts DEF WriteRow, IInv, ControlInv, ControlOf, RequestType
  <2>2. QED
    BY <1>0, <2>1 DEF WriteRow, db, OverlayInv, KeyOf, KeyAt, This
<1>2. CASE Finish(w, 500, "json")
  BY <1>1, <1>2, FinishOverlay
<1>3. CASE /\ Goto(w, after)
           /\ \/ HasColumns(SetOf(w)) /\ rows' = [rows EXCEPT ![w][k] = row]
              \/ ~HasColumns(SetOf(w)) /\ rows' = rows
           /\ UNCHANGED <<req, item, next, set, snapshot, cleared, lists, answer>>
  <2>1. /\ pc'[w] = after
        /\ \A j \in Key : rows'[w][j] = IF HasColumns(SetOf(w)) /\ j = k THEN row ELSE rows[w][j]
        /\ UNCHANGED <<req, item, next, set, snapshot, cleared, lists>>
    BY <1>3 DEF IInv, TypeOK, Goto
  <2>2. \A i : KeyAt(w, i)' = KeyAt(w, i)
    BY <2>1 DEF KeyAt
  <2>3. \A i, n : LastOf(w, i, n)' = LastOf(w, i, n)
    BY <2>2 DEF LastOf
  <2>4. SendsLists(w)' = SendsLists(w)
    BY <2>1 DEF SendsLists
  <2>5. /\ Written(w) = item[w] - 1 /\ Done(w) = item[w] - 1
        /\ Cleared(w) = IF SendsLists(w) THEN item[w] - 1 ELSE 0
    BY <1>1 DEF Written, Done, Cleared
  <2>6. req[w].verb = "PATCH" => item[w] = 1 /\ Len(req[w].items) = 1
    BY <1>1, PatchNamesOne
  <2>7. (pc'[w] = "clear" /\ SendsLists(w)) \/ (pc'[w] = "commit" /\ ~SendsLists(w))
    BY <1>1, <2>1, <2>6 DEF SendsLists, This
  <2>8. req[w].verb = "POST" => BatchRows(w)'
    <3> SUFFICES ASSUME req[w].verb = "POST" PROVE BatchRows(w)'
      OBVIOUS
    <3>1. pc'[w] = "clear" /\ Written(w)' = item[w]
      BY <2>1, <2>7 DEF SendsLists, Written
    <3>2. HasColumns(SetOf(w)) /\ row = req[w].items[item[w]].set
      BY <1>0, RequestFacts DEF SetOf, This
    <3>3. BatchRows(w)
      BY <1>1 DEF OverlayOf, InTransaction
    <3>4. \A j \in Key : rows'[w][j] # Untouched => \E i \in 1..item[w] : KeyAt(w, i) = j
      <4>1. ASSUME NEW j \in Key, rows[w][j] # Untouched
            PROVE  \E i \in 1..item[w] : KeyAt(w, i) = j
        <5>1. PICK i \in 1..(item[w]-1) : KeyAt(w, i) = j
          BY <2>5, <3>3, <4>1 DEF BatchRows
        <5>2. i \in 1..item[w]
          BY <1>1
        <5>3. QED
          BY <5>1, <5>2
      <4>2. item[w] \in 1..item[w]
        BY <1>0
      <4>3. QED
        BY <1>1, <2>1, <4>1, <4>2
    <3>5. \A i \in 1..item[w] : LastOf(w, i, item[w]) =>
             rows'[w][KeyAt(w, i)] = req[w].items[i].set
      <4> SUFFICES ASSUME NEW i \in 1..item[w], LastOf(w, i, item[w])
                   PROVE  rows'[w][KeyAt(w, i)] = req[w].items[i].set
        OBVIOUS
      <4>1. CASE i = item[w]
        BY <1>1, <2>1, <3>2, <4>1
      <4>2. CASE i # item[w]
        <5>1. /\ i \in 1..(item[w] - 1) /\ item[w] \in (i+1)..item[w]
              /\ (i+1)..(item[w]-1) \subseteq (i+1)..item[w]
          BY <1>1, <4>2
        <5>2. LastOf(w, i, item[w] - 1) /\ KeyAt(w, i) # k
          BY <1>1, <5>1 DEF LastOf
        <5>3. KeyAt(w, i) \in Key
          <6>1. req[w].items[i] \in Item /\ req[w].app \in App
            BY <1>0, <1>1, ItemFacts, RequestFacts DEF IInv
          <6>2. QED
            BY <6>1 DEF KeyAt, Key, Item
        <5>4. QED
          BY <2>1, <2>5, <3>3, <5>1, <5>2, <5>3 DEF BatchRows
      <4>3. QED
        BY <4>1, <4>2
    <3>6. QED
      BY <2>1, <2>2, <2>3, <3>1, <3>4, <3>5 DEF BatchRows
  <2>9. req[w].verb = "PATCH" => PatchedRow(w)'
    <3> SUFFICES ASSUME req[w].verb = "PATCH" PROVE PatchedRow(w)'
      OBVIOUS
    <3>1. PatchedRow(w) /\ k = KeyAt(w, 1) /\ SetOf(w) = set[w]
      BY <1>1, <2>6 DEF OverlayOf, InTransaction, SetOf
    <3>2. rows[w][k] = Untouched /\ Current(w, k) = bundles[k]
      BY <1>1, <3>1 DEF PatchedRow, Current
    <3>3. row = IF bundles[k] = NoRow THEN NoRow ELSE Overwrite(bundles[k], set[w])
      BY <3>2
    <3> HIDE DEF row
    <3>4. pc'[w] # "write"
      BY <2>7
    <3>5. QED
      BY <1>1, <2>1, <2>2, <3>1, <3>2, <3>3, <3>4 DEF PatchedRow
  <2>10. ListsSoFar(w)'
    <3>1. ListsSoFar(w)
      BY <1>1 DEF OverlayOf, InTransaction
    <3>2. Cleared(w)' = Cleared(w)
      BY <2>1, <2>4, <2>5, <2>7 DEF Cleared, Done
    <3>3. \A i \in 1..Cleared(w) : SendsLists(w) /\ i <= item[w] - 1 /\ i \in Nat
      BY <1>1, <2>5
    <3>4. SendsLists(w) => Done(w)' = Done(w)
      BY <2>1, <2>5, <2>7 DEF Done
    <3>5. QED
      BY <2>1, <2>2, <2>3, <3>1, <3>2, <3>3, <3>4 DEF ListsSoFar
  <2>11. OverlayOf(w)'
    BY <2>1, <2>4, <2>7, <2>8, <2>9, <2>10 DEF OverlayOf
  <2>12. QED
    BY <1>1, <1>3, <2>11, OthersKept DEF IInv, TypeOK, Goto
<1>4. QED
  BY <1>2, <1>3 DEF WriteRow
\* The end of a bundle or of a patch: the lists have the patches before the
\* next, and all of them once there is no next.
LEMMA AdvanceOverlay ==
  ASSUME IInv, NEW w \in Handler, OverlayOf(w), NEW n \in Nat, pc[w] \in {"clear", "insert"},
         AdvanceFrom(w, n), UNCHANGED <<bundles, req, set, rows>>,
         cleared'[w] = cleared[w] \cup {KeyOf(w)},
         lists'[w][KeyOf(w)] = { p \in PatchRows(This(w).patches) : p.ord < n },
         \A j \in Key : j # KeyOf(w) => lists'[w][j] = lists[w][j]
  PROVE  OverlayOf(w)'
<1> DEFINE k == KeyOf(w)
           rest == PatchRows(This(w).patches)
<1>1. /\ k \in Key /\ k = KeyAt(w, item[w]) /\ req[w] \in Request /\ req[w].app \in App
      /\ item[w] \in Nat /\ item[w] \in 1..Len(req[w].items) /\ req[w].items \in Seq(Item)
      /\ This(w) \in Item /\ This(w) = req[w].items[item[w]]
  <2>1. /\ k \in Key /\ req[w] \in Request /\ req[w].app \in App
        /\ item[w] \in 1..Len(req[w].items) /\ This(w) \in Item
    BY ItemFacts DEF IInv
  <2>2. req[w].items \in Seq(Item)
    BY <2>1, RequestFacts
  <2>3. k = KeyAt(w, item[w]) /\ This(w) = req[w].items[item[w]]
    BY DEF KeyOf, KeyAt, This
  <2>4. item[w] \in Nat
    BY <2>1
  <2>5. QED
    BY <2>1, <2>2, <2>3, <2>4
<1>2. SendsLists(w) /\ ListsSoFar(w) /\ (req[w].verb = "POST" => BatchRows(w))
      /\ (req[w].verb = "PATCH" => PatchedRow(w))
  BY DEF OverlayOf, InTransaction
<1>3. rest \in SUBSET PatchRow
  BY <1>1, PatchRowsType DEF Item
<1>4. \/ /\ pc'[w] = "own" /\ next'[w] = n /\ item'[w] = item[w]
      \/ /\ pc'[w] = "write" /\ item'[w] = item[w] + 1 /\ item[w] < Len(req[w].items)
         /\ \A p \in rest : p.ord # n
      \/ /\ pc'[w] = "commit" /\ Len(req[w].items) = item[w] /\ \A p \in rest : p.ord # n
  <2>1. Len(req[w].items) \in Nat /\ (~(item[w] < Len(req[w].items)) => Len(req[w].items) = item[w])
    BY <1>1
  <2> HIDE DEF rest
  <2>2. (\E p \in rest : p.ord = n) \/ (\A p \in rest : p.ord # n)
    OBVIOUS
  <2>3. QED
    BY <2>1, <2>2 DEF AdvanceFrom, Goto, IInv, TypeOK, rest
<1>5. (\A p \in rest : p.ord # n) => lists'[w][k] = rest
  <2>1. \A p \in rest : n <= p.ord => \E q \in rest : q.ord = n
    BY <1>1, PatchRowsFacts DEF Item
  <2>2. \A p \in rest : p.ord \in Nat
    BY <1>3 DEF PatchRow
  <2> HIDE DEF rest
  <2>3. lists'[w][k] = { p \in rest : p.ord < n }
    BY DEF rest
  <2>4. (\A p \in rest : p.ord # n) => \A p \in rest : p.ord < n
    BY <2>1, <2>2
  <2>5. QED
    BY <2>3, <2>4
<1>6. \A i : KeyAt(w, i)' = KeyAt(w, i)
  BY DEF KeyAt
<1>7. \A i, m : LastOf(w, i, m)' = LastOf(w, i, m)
  BY <1>6 DEF LastOf
<1>8. SendsLists(w)' = SendsLists(w)
  BY DEF SendsLists
<1>9. /\ Written(w) = item[w] /\ Written(w)' = item[w] /\ Cleared(w)' = item[w]
      /\ Cleared(w) = IF pc[w] = "clear" THEN item[w] - 1 ELSE item[w]
      /\ Done(w) = item[w] - 1
      /\ pc'[w] = "own" => Done(w)' = item[w] - 1
      /\ pc'[w] # "own" => Done(w)' = item[w]
  BY <1>1, <1>2, <1>4, <1>8 DEF Written, Cleared, Done
<1>10. req[w].verb = "POST" => BatchRows(w)'
  BY <1>2, <1>6, <1>7, <1>9 DEF BatchRows
<1>11. req[w].verb = "PATCH" => PatchedRow(w)'
  <2>1. req[w].verb = "PATCH" => pc'[w] # "write"
    <3>1. req[w].verb = "PATCH" => Len(req[w].items) = 1 /\ item[w] = 1
      BY PatchNamesOne
    <3>2. ~(1 < 1)
      OBVIOUS
    <3> HIDE DEF rest
    <3>3. QED
      BY <1>4, <3>1, <3>2
  <2>2. QED
    BY <1>2, <1>6, <2>1 DEF PatchedRow
<1>12. ListsSoFar(w)'
  <2>1. cleared'[w] = { KeyAt(w, i) : i \in 1..item[w] }
    <3>1. cleared[w] = { KeyAt(w, i) : i \in 1..Cleared(w) }
      BY <1>2 DEF ListsSoFar
    <3>2. 1..item[w] = 1..Cleared(w) \cup {item[w]}
      BY <1>1, <1>9
    <3>3. QED
      BY <1>1, <3>1, <3>2
  <2>2. ASSUME NEW i \in 1..item[w], LastOf(w, i, item[w])
        PROVE  lists'[w][KeyAt(w, i)] =
                 { p \in PatchRows(req[w].items[i].patches) : Done(w)' < i => p.ord < next'[w] }
    <3>1. CASE i = item[w]
      <4>1. CASE pc'[w] = "own"
        <5>1. next'[w] = n /\ (Done(w)' < i)
          BY <1>1, <1>4, <1>9, <3>1, <4>1
        <5>2. QED
          BY <1>1, <3>1, <5>1
      <4>2. CASE pc'[w] # "own"
        <5>1. lists'[w][k] = rest /\ ~(Done(w)' < i)
          BY <1>1, <1>4, <1>5, <1>9, <3>1, <4>2
        <5>2. QED
          BY <1>1, <3>1, <5>1
      <4>3. QED
        BY <4>1, <4>2
    <3>2. CASE i # item[w]
      <4>1. /\ i \in 1..(item[w] - 1) /\ i \in 1..Cleared(w)
            /\ item[w] \in (i+1)..item[w]
            /\ (i+1)..Cleared(w) \subseteq (i+1)..item[w]
            /\ ~(Done(w) < i) /\ ~(Done(w)' < i)
        BY <1>1, <1>9, <3>2
      <4>2. LastOf(w, i, Cleared(w)) /\ KeyAt(w, i) # k
        BY <1>1, <2>2, <4>1 DEF LastOf
      <4>3. KeyAt(w, i) \in Key
        <5>1. req[w].items[i] \in Item
          BY <1>1, <4>1
        <5>2. QED
          BY <1>1, <5>1 DEF KeyAt, Key, Item
      <4>4. lists[w][KeyAt(w, i)] = PatchRows(req[w].items[i].patches)
        BY <1>2, <4>1, <4>2 DEF ListsSoFar
      <4>5. QED
        BY <4>1, <4>2, <4>3, <4>4
    <3>3. QED
      BY <3>1, <3>2
  <2>3. QED
    BY <1>6, <1>7, <1>9, <2>1, <2>2 DEF ListsSoFar
<1>13. QED
  BY <1>2, <1>4, <1>8, <1>10, <1>11, <1>12 DEF OverlayOf

\* Clearing a bundle's patches starts its list anew.
LEMMA ClearPatchesOverlay ==
  ASSUME IInv, OverlayInv, NEW w \in Handler, ClearPatches(w)
  PROVE  OverlayInv'
<1>1. /\ KeyOf(w) \in Key /\ This(w) \in Item
  BY ItemFacts DEF IInv, ClearPatches
<1>2. /\ pc[w] = "clear" /\ AdvanceFrom(w, 0) /\ OverlayOf(w)
      /\ UNCHANGED <<bundles, req, set, rows, snapshot>>
      /\ cleared'[w] = cleared[w] \cup {KeyOf(w)}
      /\ lists'[w][KeyOf(w)] = {}
      /\ \A j \in Key : j # KeyOf(w) => lists'[w][j] = lists[w][j]
  BY <1>1 DEF ClearPatches, OverlayInv, IInv, TypeOK
<1>3. lists'[w][KeyOf(w)] = { p \in PatchRows(This(w).patches) : p.ord < 0 }
  <2>1. \A p \in PatchRows(This(w).patches) : p.ord \in Nat
    BY <1>1, PatchRowsType DEF Item, PatchRow
  <2>2. QED
    BY <1>2, <2>1
<1>4. OverlayOf(w)'
  BY <1>2, <1>3, AdvanceOverlay
<1>5. \A v \in Handler \ {w} :
            /\ pc'[v] = pc[v] /\ req'[v] = req[v] /\ item'[v] = item[v] /\ next'[v] = next[v]
            /\ set'[v] = set[v] /\ snapshot'[v] = snapshot[v] /\ cleared'[v] = cleared[v]
            /\ rows'[v] = rows[v] /\ lists'[v] = lists[v]
  BY <1>2 DEF ClearPatches, AdvanceFrom, Goto, IInv, TypeOK
<1>6. QED
  BY <1>2, <1>4, <1>5, OthersKept

\* app_owns_bundle has found the base, or the request was refused.
LEMMA CheckBaseOverlay ==
  ASSUME IInv, OverlayInv, NEW w \in Handler, CheckBase(w)
  PROVE  OverlayInv'
<1>1. pc[w] = "own" /\ bundles' = bundles /\ OverlayOf(w)
  BY DEF CheckBase, db, OverlayInv
<1>2. CASE Finish(w, 400, IF req[w].verb = "POST" THEN "text" ELSE "json")
  BY <1>1, <1>2, FinishOverlay
<1>3. CASE /\ OwnsBase(w)
           /\ snapshot' = [snapshot EXCEPT ![w] = Visible(w)]
           /\ Goto(w, "insert")
           /\ UNCHANGED <<req, item, next, set, rows, cleared, lists, answer>>
  <2>1. /\ pc'[w] = "insert" /\ snapshot'[w] = Visible(w)
        /\ UNCHANGED <<req, item, next, set, rows, cleared, lists, answer>>
    BY <1>3 DEF IInv, TypeOK, Goto
  <2>2. \A i : KeyAt(w, i)' = KeyAt(w, i)
    BY <2>1 DEF KeyAt
  <2>3. \A i, n : LastOf(w, i, n)' = LastOf(w, i, n)
    BY <2>2 DEF LastOf
  <2>4. /\ SendsLists(w)' = SendsLists(w) /\ Written(w)' = Written(w)
        /\ Done(w)' = Done(w) /\ Cleared(w)' = Cleared(w)
    BY <1>1, <2>1 DEF SendsLists, Done, Written, Cleared
  <2>5. BatchRows(w) => BatchRows(w)'
    BY <2>1, <2>2, <2>3, <2>4 DEF BatchRows
  <2>6. PatchedRow(w) => PatchedRow(w)'
    BY <1>1, <2>1, <2>2 DEF PatchedRow
  <2>7. ListsSoFar(w) => ListsSoFar(w)'
    BY <2>1, <2>2, <2>3, <2>4 DEF ListsSoFar
  <2>8. BaseSeen(w)'
    <3>1. This(w)' = This(w)
      BY <2>1 DEF This
    <3>2. PatchAt(w)' = PatchAt(w)
      BY <2>1, <3>1 DEF PatchAt
    <3>3. QED
      BY <1>3, <2>1, <3>2 DEF BaseSeen, OwnsBase, BaseKey
  <2>9. OverlayOf(w)'
    BY <1>1, <2>1, <2>4, <2>5, <2>6, <2>7, <2>8 DEF OverlayOf, InTransaction
  <2>10. QED
    BY <1>1, <1>3, <2>1, <2>9, OthersKept DEF IInv, TypeOK, Goto
<1>4. QED
  BY <1>2, <1>3 DEF CheckBase

\* Inserting a patch adds the one with the next number.
LEMMA InsertPatchOverlay ==
  ASSUME IInv, OverlayInv, NEW w \in Handler, InsertPatch(w)
  PROVE  OverlayInv'
<1>1. /\ KeyOf(w) \in Key /\ This(w) \in Item /\ next[w] \in Nat
      /\ KeyOf(w) = KeyAt(w, item[w]) /\ item[w] \in Nat /\ item[w] \in 1..Len(req[w].items)
      /\ This(w) = req[w].items[item[w]]
  BY ItemFacts DEF IInv, TypeOK, InsertPatch, KeyOf, KeyAt, This
<1>2. pc[w] = "insert" /\ bundles' = bundles /\ OverlayOf(w)
  BY DEF InsertPatch, OverlayInv, db
<1>3. CASE Finish(w, 500, "json")
  BY <1>2, <1>3, FinishOverlay
<1>4. CASE /\ lists' = [lists EXCEPT ![w][KeyOf(w)] = @ \cup {PatchAt(w)}]
           /\ AdvanceFrom(w, next[w] + 1)
           /\ UNCHANGED <<req, set, snapshot, rows, cleared, answer>>
  <2>1. lists'[w][KeyOf(w)] = lists[w][KeyOf(w)] \cup {PatchAt(w)}
    BY <1>1, <1>4 DEF IInv, TypeOK
  <2>2. lists[w][KeyOf(w)] = { p \in PatchRows(This(w).patches) : p.ord < next[w] }
    <3>1. Cleared(w) = item[w] /\ Done(w) = item[w] - 1 /\ LastOf(w, item[w], item[w])
      BY <1>1, <1>2 DEF Cleared, Done, LastOf, OverlayOf
    <3>2. item[w] \in 1..Cleared(w) /\ Done(w) < item[w] /\ ListsSoFar(w)
      BY <1>1, <1>2, <3>1 DEF OverlayOf, InTransaction
    <3>3. QED
      BY <1>1, <3>1, <3>2 DEF ListsSoFar
  <2>3. /\ PatchAt(w) \in PatchRows(This(w).patches) /\ PatchAt(w).ord = next[w]
        /\ \A p \in PatchRows(This(w).patches) : p.ord \in Nat
        /\ \A p \in PatchRows(This(w).patches) : p.ord = next[w] => p = PatchAt(w)
    <3>1. \E p \in PatchRows(This(w).patches) : p.ord = next[w]
      BY <1>2 DEF IInv, ControlInv, ControlOf
    <3>2. PatchAt(w) \in PatchRows(This(w).patches) /\ PatchAt(w).ord = next[w]
      BY <3>1 DEF PatchAt
    <3>3. This(w).patches \in Seq(RawPatch) \cup {Absent}
      BY <1>1 DEF Item
    <3>4. QED
      BY <3>2, <3>3, PatchRowsType, PatchRowsFacts DEF PatchRow
  <2>4. lists'[w][KeyOf(w)] = { p \in PatchRows(This(w).patches) : p.ord < next[w] + 1 }
    BY <1>1, <2>1, <2>2, <2>3
  <2>5. cleared'[w] = cleared[w] \cup {KeyOf(w)}
    BY <1>2, <1>4 DEF IInv, ControlInv, ControlOf
  <2>6. \A j \in Key : j # KeyOf(w) => lists'[w][j] = lists[w][j]
    BY <1>4 DEF IInv, TypeOK
  <2>7. OverlayOf(w)'
    <3>1. next[w] + 1 \in Nat
      BY <1>1
    <3>2. QED
      BY <1>2, <1>4, <2>4, <2>5, <2>6, <3>1, AdvanceOverlay
  <2>8. \A v \in Handler \ {w} :
            /\ pc'[v] = pc[v] /\ req'[v] = req[v] /\ item'[v] = item[v] /\ next'[v] = next[v]
            /\ set'[v] = set[v] /\ snapshot'[v] = snapshot[v] /\ cleared'[v] = cleared[v]
            /\ rows'[v] = rows[v] /\ lists'[v] = lists[v]
    BY <1>4 DEF AdvanceFrom, Goto, IInv, TypeOK
  <2>9. QED
    BY <1>2, <2>7, <2>8, OthersKept
<1>5. QED
  BY <1>3, <1>4 DEF InsertPatch
\* A crash leaves no overlay.
LEMMA CrashOverlay ==
  ASSUME IInv, Crash
  PROVE  OverlayInv'
BY DEF Crash, OverlayInv, OverlayOf, InTransaction

LEMMA NextOverlay ==
  ASSUME IInv, OverlayInv, [Next]_vars
  PROVE  OverlayInv'
<1>1. ASSUME NEW w \in Handler, pc[w] = "commit", Merge(w), NEW status, NEW body,
             Finish(w, status, body)
      PROVE  OverlayInv'
  <2>1. \A v \in Handler \ {w} : \A k \in Key : RowLocked(v, k) => bundles'[k] = bundles[k]
    BY <1>1 DEF Merge, IInv, LockInv, LocksOf, RowLocked
  <2>2. QED
    BY <1>1, <2>1, FinishOverlay
<1>2. ASSUME NEW w \in Handler, pc[w] = "delete", Remove(w), NEW status, NEW body,
             Finish(w, status, body)
      PROVE  OverlayInv'
  <2>1. \A v \in Handler \ {w} : ~RowLocked(v, KeyOf(w))
    BY <1>2 DEF Remove, Blocked, Conflicts
  <2>2. \A v \in Handler \ {w} : \A k \in Key : RowLocked(v, k) => bundles'[k] = bundles[k]
    BY <1>2, <2>1 DEF Remove, IInv, TypeOK
  <2>3. QED
    BY <1>2, <2>2, FinishOverlay
<1>3. ASSUME NEW w \in Handler, WaitAborted(w) \/ StatementFails(w) PROVE OverlayInv'
  BY <1>3, FinishOverlay DEF WaitAborted, StatementFails, db
<1>4. CASE UNCHANGED vars
  BY <1>4, OverlayKept DEF OverlayInv, vars
<1>5. ASSUME NEW w \in Handler, Statement(w) \/ Unacknowledged(w) PROVE OverlayInv'
  BY <1>1, <1>2, <1>3, <1>5, FetchOverlay, WriteRowOverlay, ClearPatchesOverlay,
     CheckBaseOverlay, InsertPatchOverlay
     DEF Statement, Unacknowledged, Commit, DeleteBundle
<1>6. QED
  BY <1>3, <1>4, <1>5, ReceiveOverlay, CrashOverlay DEF Next

\* In every reachable state each open transaction holds exactly what the part
\* of its payload it has worked through asks for.
THEOREM OverlayInvariance ==
  Spec => []OverlayInv
<1>1. Init => OverlayInv
  BY DEF Init, OverlayInv, OverlayOf, InTransaction
<1>2. IInv /\ OverlayInv /\ [Next]_vars => OverlayInv'
  BY NextOverlay
<1>3. QED
  BY <1>1, <1>2, Invariance, PTL DEF Spec

-----------------------------------------------------------------------------
(* The foreign keys.                                                       *)

\* In one state: a batch has written the bundle itself, and no base occurs
\* twice in a list.
LEMMA ForeignKeyErrorsStep ==
  ASSUME IInv, OverlayInv
  PROVE  ForeignKeyErrorsAreRaces
<1> SUFFICES ASSUME NEW w \in Handler, pc[w] = "insert", ~InsertAccepted(w)
             PROVE  \/ /\ BaseKey(w, PatchAt(w)) \in snapshot[w]
                       /\ bundles[BaseKey(w, PatchAt(w))] = NoRow
                    \/ req[w].verb = "PATCH" /\ bundles[KeyOf(w)] = NoRow
  BY DEF ForeignKeyErrorsAreRaces
<1> DEFINE k == KeyOf(w)
           base == BaseKey(w, PatchAt(w))
<1>1. /\ k \in Key /\ base \in Key /\ req[w] \in Request /\ This(w) \in Item
      /\ req[w].items \in Seq(Item)
      /\ item[w] \in Nat /\ item[w] \in 1..Len(req[w].items)
      /\ k = KeyAt(w, item[w]) /\ This(w) = req[w].items[item[w]]
  <2>1. /\ k \in Key /\ req[w] \in Request /\ This(w) \in Item
        /\ item[w] \in 1..Len(req[w].items)
    BY ItemFacts DEF IInv
  <2>2. base \in Key
    BY PatchFacts DEF IInv
  <2>3. req[w].items \in Seq(Item)
    BY <2>1, RequestFacts
  <2>4. k = KeyAt(w, item[w]) /\ This(w) = req[w].items[item[w]]
    BY DEF KeyOf, KeyAt, This
  <2>5. QED
    BY <2>1, <2>2, <2>3, <2>4
<1>2. OverlayOf(w)
  BY DEF OverlayInv
<1>3. req[w].verb \in {"POST", "PATCH"}
  BY <1>1, RequestFacts DEF IInv, ControlInv, ControlOf, RequestType
<1>4. CASE Current(w, k) = NoRow
  <2>1. CASE req[w].verb = "POST"
    <3>1. Written(w) = item[w] /\ LastOf(w, item[w], item[w]) /\ item[w] \in 1..item[w]
      BY <1>1 DEF Written, LastOf
    <3>2. rows[w][k] = This(w).set
      BY <1>1, <1>2, <2>1, <3>1 DEF OverlayOf, InTransaction, BatchRows
    <3>3. This(w).set \in Row
      BY <1>1, <2>1, RequestFacts
    <3>4. QED
      BY <1>4, <3>2, <3>3, ConstantsAssumption, HandlerAssumption DEF Current
  <2>2. CASE req[w].verb = "PATCH"
    <3>1. bundles[k] = NoRow
      BY <1>1, <1>4 DEF Current, IInv, LockInv, LocksOf
    <3>2. QED
      BY <2>2, <3>1
  <2>3. QED
    BY <1>3, <2>1, <2>2
<1>5. CASE Current(w, base) = NoRow
  <2>1. base \in snapshot[w]
    BY <1>2, <1>5 DEF OverlayOf, BaseSeen, Current
  <2>2. bundles[base] = NoRow
    BY <1>1, <1>5 DEF Current, IInv, LockInv, LocksOf
  <2>3. QED
    BY <2>1, <2>2
<1>6. \A p \in lists[w][k] : p.base # PatchAt(w).base
  <2>1. Cleared(w) = item[w] /\ Done(w) = item[w] - 1 /\ LastOf(w, item[w], item[w])
    BY <1>1, <1>2 DEF Cleared, Done, LastOf, OverlayOf
  <2>2. item[w] \in 1..Cleared(w) /\ Done(w) < item[w] /\ ListsSoFar(w)
    BY <1>1, <1>2, <2>1 DEF OverlayOf, InTransaction
  <2>3. lists[w][k] = { p \in PatchRows(This(w).patches) : p.ord < next[w] }
    BY <1>1, <2>1, <2>2 DEF ListsSoFar
  <2>4. PatchAt(w) \in PatchRows(This(w).patches) /\ PatchAt(w).ord = next[w]
    <3>1. \E p \in PatchRows(This(w).patches) : p.ord = next[w]
      BY DEF IInv, ControlInv, ControlOf
    <3>2. QED
      BY <3>1 DEF PatchAt
  <2>5. This(w).patches \in Seq(RawPatch) \cup {Absent} /\ next[w] \in Nat
    BY <1>1 DEF Item, IInv, TypeOK
  <2>6. \A p \in lists[w][k] : p # PatchAt(w)
    BY <2>3, <2>4, <2>5
  <2>7. QED
    BY <2>3, <2>4, <2>5, <2>6, PatchRowsFacts
<1>7. QED
  BY <1>4, <1>5, <1>6 DEF InsertAccepted

\* The INSERT of a patch whose base app_owns_bundle has found fails only
\* because a row the request had seen was deleted since.
THEOREM ForeignKeyErrors ==
  Spec => []ForeignKeyErrorsAreRaces
<1>1. IInv /\ OverlayInv => ForeignKeyErrorsAreRaces
  BY ForeignKeyErrorsStep
<1>2. QED
  BY <1>1, Invariance, OverlayInvariance, PTL
-----------------------------------------------------------------------------
(* The refinement of BundleCatalog.                                        *)

\* The catalog's own copies of the shared helpers.
LEMMA SharedHelpers ==
  /\ Catalog!Key = Key
  /\ Catalog!Metadata = Metadata
  /\ \A raw : Catalog!PatchRows(raw) = PatchRows(raw)
  /\ \A r : Catalog!Authorize(r) = Authorize(r)
  /\ \A row, clause : Catalog!Overwrite(row, clause) = Overwrite(row, clause)
  /\ \A clause : Catalog!HasColumns(clause) = HasColumns(clause)
  /\ \A row, clause, m :
        Catalog!MetadataPromised(row, clause, m) = MetadataPromised(row, clause, m)
  /\ \A of, k : Catalog!Cascade(of, k) = Cascade(of, k)
<1>1. Catalog!Key = Key
  BY DEF Catalog!Key, Key
<1>2. \A raw : Catalog!PatchRows(raw) = PatchRows(raw)
  <2>1. \A S : Catalog!Cardinality(S) = Cardinality(S)
    BY DEF Catalog!Cardinality, Cardinality
  <2>2. QED
    BY <2>1 DEF Catalog!PatchRows, PatchRows
<1>3. \A r : Catalog!Authorize(r) = Authorize(r)
  BY DEF Catalog!Authorize, Authorize
<1>4. \A row, clause : Catalog!Overwrite(row, clause) = Overwrite(row, clause)
  BY DEF Catalog!Overwrite, Overwrite, Catalog!NoMetadata, NoMetadata
<1>5. \A clause : Catalog!HasColumns(clause) = HasColumns(clause)
  BY DEF Catalog!HasColumns, HasColumns
<1>6. \A of, k : Catalog!Cascade(of, k) = Cascade(of, k)
  BY <1>1 DEF Catalog!Cascade, Cascade
<1>7. Catalog!Metadata = Metadata
  BY DEF Catalog!Metadata, Metadata
<1>8. \A row, clause, m :
        Catalog!MetadataPromised(row, clause, m) = MetadataPromised(row, clause, m)
  BY <1>4 DEF Catalog!MetadataPromised, MetadataPromised
<1>9. QED
  BY <1>1, <1>2, <1>3, <1>4, <1>5, <1>6, <1>7, <1>8

\* Rows are equal if their columns are.
LEMMA RowsEqual ==
  ASSUME NEW r \in Row, NEW s \in Row,
         r.target = s.target, r.fingerprint = s.fingerprint,
         r.metadata = s.metadata, r.file = s.file
  PROVE  r = s
BY DEF Row

\* What a merged clause writes is what the payload asks for, but for metadata,
\* which is what PATCH promises of it.
LEMMA MergedOverwrite ==
  ASSUME NEW row \in Row, NEW old \in Row, NEW sent \in SetClause
  PROVE  /\ HasColumns(MergeMetadata(old, sent)) <=> HasColumns(sent)
         /\ \E m \in Metadata :
              /\ MetadataPromised(row, sent, m)
              /\ Overwrite(row, MergeMetadata(old, sent)) =
                   [Overwrite(row, sent) EXCEPT !.metadata = m]
         /\ ~HasColumns(sent) => Overwrite(row, MergeMetadata(old, sent)) = row
<1> DEFINE clause == MergeMetadata(old, sent)
<1>1. clause \in SetClause
  BY MergeType
<1>2. /\ clause.target = sent.target /\ clause.fingerprint = sent.fingerprint
      /\ clause.file = sent.file
      /\ clause.metadata =
           IF sent.metadata \in {Absent, Null} \/ ~sent.metadata.object THEN sent.metadata
           ELSE [object |-> TRUE, keys |-> old.metadata.keys \cup sent.metadata.keys]
  BY DEF MergeMetadata, SetClause
<1> HIDE DEF clause
<1>3. sent.metadata \notin {Absent, Null} =>
        clause.metadata \in Metadata /\ clause.metadata \notin {Absent, Null}
  <2> SUFFICES ASSUME sent.metadata \notin {Absent, Null} PROVE clause.metadata \in Metadata
    BY ConstantsAssumption
  <2>1. sent.metadata \in Metadata /\ old.metadata \in Metadata
    BY DEF SetClause, Row
  <2>2. [object |-> TRUE, keys |-> old.metadata.keys \cup sent.metadata.keys] \in Metadata
    BY <2>1 DEF Metadata
  <2>3. QED
    BY <1>2, <2>1, <2>2
<1>4. HasColumns(clause) <=> HasColumns(sent)
  BY <1>2, <1>3 DEF HasColumns
<1>5. /\ Overwrite(row, clause) \in Row /\ Overwrite(row, sent) \in Row
  BY <1>1, OverwriteType
<1>6. PICK m \in Metadata : m = Overwrite(row, clause).metadata
  BY <1>5 DEF Row
<1>7. /\ Overwrite(row, clause).target = Overwrite(row, sent).target
      /\ Overwrite(row, clause).fingerprint = Overwrite(row, sent).fingerprint
      /\ Overwrite(row, clause).file = Overwrite(row, sent).file
  BY <1>2 DEF Overwrite
<1>8. MetadataPromised(row, sent, m)
  <2>1. CASE sent.metadata \in {Absent, Null}
    BY <1>2, <1>6, <2>1 DEF Overwrite, MetadataPromised
  <2>2. CASE sent.metadata \notin {Absent, Null}
    <3>1. m = clause.metadata
      BY <1>3, <1>6, <2>2 DEF Overwrite
    <3>2. QED
      BY <1>2, <2>2, <3>1 DEF MetadataPromised
  <2>3. QED
    BY <2>1, <2>2
<1>9. Overwrite(row, clause) = [Overwrite(row, sent) EXCEPT !.metadata = m]
  <2>1. ASSUME NEW r \in Row PROVE /\ [r EXCEPT !.metadata = m] \in Row
                                   /\ [r EXCEPT !.metadata = m].target = r.target
                                   /\ [r EXCEPT !.metadata = m].fingerprint = r.fingerprint
                                   /\ [r EXCEPT !.metadata = m].metadata = m
                                   /\ [r EXCEPT !.metadata = m].file = r.file
    BY DEF Row
  <2> DEFINE asked == Overwrite(row, sent)
             written == Overwrite(row, clause)
             new == [asked EXCEPT !.metadata = m]
  <2>2. asked \in Row /\ written \in Row
    BY <1>5
  <2>3. /\ new \in Row /\ new.target = asked.target /\ new.fingerprint = asked.fingerprint
        /\ new.metadata = m /\ new.file = asked.file
    BY <2>1, <2>2
  <2>4. /\ written.target = new.target /\ written.fingerprint = new.fingerprint
        /\ written.metadata = new.metadata /\ written.file = new.file
    BY <1>6, <1>7, <2>3
  <2> HIDE DEF asked, written, new
  <2>5. written = new
    BY <2>2, <2>3, <2>4, RowsEqual
  <2>6. QED
    BY <2>5 DEF asked, written, new
<1>10. ~HasColumns(sent) => Overwrite(row, clause) = row
  <2> SUFFICES ASSUME ~HasColumns(clause) PROVE Overwrite(row, clause) = row
    BY <1>4
  <2>1. /\ Overwrite(row, clause).target = row.target
        /\ Overwrite(row, clause).fingerprint = row.fingerprint
        /\ Overwrite(row, clause).metadata = row.metadata
        /\ Overwrite(row, clause).file = row.file
    BY DEF Overwrite, HasColumns
  <2>2. QED
    BY <1>5, <2>1, RowsEqual
<1>11. QED
  BY <1>4, <1>6, <1>8, <1>9, <1>10 DEF clause
\* A handler that ends has answered, in the catalog's terms.
LEMMA FinishAnswers ==
  ASSUME IInv, NEW w \in Handler,
         NEW status \in {200, 201, 400, 401, 404, 500}, NEW body \in {"json", "text"},
         Finish(w, status, body), NEW statuses, status \in statuses
  PROVE  Catalog!Answered(w, statuses)
<1>1. [status |-> status, body |-> body] \in Answer
  BY DEF Answer
<1>2. answer'[w] = [status |-> status, body |-> body]
  BY DEF Finish, IInv, TypeOK
<1>3. answer'[w] # NoAnswer /\ answer'[w].status = status
  BY <1>1, <1>2, HandlerAssumption
<1>4. \A v \in Handler \ {w} : answer'[v] = answer[v]
  BY DEF Finish, IInv, TypeOK
<1>5. req' = [req EXCEPT ![w] = NoRequest]
  BY DEF Finish
<1>6. QED
  BY <1>3, <1>4, <1>5 DEF Catalog!Answered

\* A request that arrives is taken on or turned away.
LEMMA ReceiveMaps ==
  ASSUME IInv, NEW w \in Handler, NEW r \in Request, Receive(w, r)
  PROVE  Catalog!Accept(w, r) \/ Catalog!TurnAway(w)
<1>1. req[w] = NoRequest /\ UNCHANGED <<bundles, patches>>
  BY DEF IInv, ControlInv, ControlOf, Receive
<1>2. CASE Refusal(r) = 200
  <2>1. /\ req' = [req EXCEPT ![w] = r] /\ answer' = [answer EXCEPT ![w] = NoAnswer]
    BY <1>2 DEF Receive
  <2>2. Catalog!Authorize(r) = 200
    BY <1>2, SharedHelpers DEF Refusal
  <2>3. QED
    BY <1>1, <2>1, <2>2 DEF Catalog!Accept
<1>3. CASE Refusal(r) # 200
  <2>1. Refusal(r) \in {400, 401, 404} /\ Refusal(r) \in Catalog!Refused
    BY <1>3 DEF Refusal, Authorize, Catalog!Refused
  <2>2. [status |-> Refusal(r), body |-> "json"] \in Answer
    BY <2>1 DEF Answer
  <2>3. /\ answer'[w] = [status |-> Refusal(r), body |-> "json"]
        /\ \A v \in Handler \ {w} : answer'[v] = answer[v]
        /\ req' = req
    BY <1>3 DEF Receive, IInv, TypeOK
  <2>4. answer'[w] # NoAnswer /\ answer'[w].status = Refusal(r)
    BY <2>2, <2>3, HandlerAssumption
  <2>5. req' = [req EXCEPT ![w] = NoRequest]
    BY <1>1, <2>3 DEF IInv, TypeOK
  <2>6. QED
    BY <1>1, <2>1, <2>3, <2>4, <2>5 DEF Catalog!TurnAway, Catalog!Answered
<1>4. QED
  BY <1>2, <1>3

\* A handler that ends without touching the tables has refused or failed.
LEMMA DeclineMaps ==
  ASSUME IInv, NEW w \in Handler, pc[w] # "idle", UNCHANGED <<bundles, patches>>,
         NEW status \in {400, 404, 500}, NEW body \in {"json", "text"},
         Finish(w, status, body)
  PROVE  Catalog!Decline(w)
<1>1. req[w] # NoRequest
  BY DEF IInv, ControlInv, ControlOf
<1>2. status \in Catalog!Refused \cup {Catalog!Failed}
  BY DEF Catalog!Refused, Catalog!Failed
<1>3. \A others : Catalog!Answered(w, Catalog!Refused \cup {Catalog!Failed} \cup others)
  BY <1>2, FinishAnswers
<1>4. QED
  BY <1>1, <1>3 DEF Catalog!Decline

\* update_bundle's answer to a payload that changes nothing.
LEMMA FetchMaps ==
  ASSUME IInv, NEW w \in Handler, Fetch(w)
  PROVE  Catalog!Decline(w) \/ UNCHANGED <<bundles, patches, req, answer>>
<1> DEFINE row == bundles[KeyOf(w)]
           merged == MergeMetadata(row, This(w).set)
<1>1. /\ pc[w] = "fetch" /\ UNCHANGED <<bundles, patches>>
      /\ req[w].verb = "PATCH" /\ req[w] # NoRequest
  BY DEF Fetch, db, IInv, ControlInv, ControlOf
<1>2. CASE \E status \in {400, 404} : Finish(w, status, "json")
  BY <1>1, <1>2, DeclineMaps
<1>3. CASE /\ row # NoRow /\ ~HasColumns(merged) /\ This(w).patches = Absent
           /\ Finish(w, 200, "json")
  <2>1. /\ KeyOf(w) \in Key /\ This(w) \in Item /\ This(w) = req[w].items[1]
    BY <1>1, ItemFacts, PatchNamesOne DEF IInv, This
  <2>2. row \in Row /\ This(w).set \in SetClause
    BY <1>3, <2>1 DEF IInv, TypeOK, Item
  <2>3. ~HasColumns(This(w).set)
    BY <1>3, <2>2, MergedOverwrite
  <2>4. /\ req[w].verb = "PATCH" /\ ~Catalog!HasColumns(req[w].items[1].set)
        /\ req[w].items[1].patches = Absent
    BY <1>1, <1>3, <2>1, <2>3, SharedHelpers
  <2>5. Catalog!Answered(w, Catalog!Refused \cup {Catalog!Failed} \cup {200})
    BY <1>3, FinishAnswers
  <2>6. QED
    BY <1>1, <2>4, <2>5 DEF Catalog!Decline
<1>4. CASE UNCHANGED <<req, item, next, snapshot, rows, cleared, lists, answer>>
  BY <1>1, <1>4
<1>5. QED
  BY <1>2, <1>3, <1>4 DEF Fetch

\* A bundle a batch names has a last payload in it.
LEMMA LastPayload ==
  ASSUME NEW w \in Handler, NEW k, NEW size \in Nat, DOMAIN req[w].items = 1..size,
         \E i \in 1..size : KeyAt(w, i) = k
  PROVE  \E i \in 1..size : /\ KeyAt(w, i) = k /\ LastOf(w, i, size)
                            /\ Catalog!LastFor(req[w], k) = req[w].items[i]
<1> DEFINE Named == { i \in 1..size : KeyAt(w, i) = k }
<1>1. Named # {} /\ Named \in SUBSET Nat /\ \A i \in Named : i <= size
  OBVIOUS
<1>2. PICK i \in Named : \A j \in Named : j <= i
  <2> HIDE DEF Named
  <2>1. QED
    BY <1>1, GreatestOf
<1>3. i \in 1..size /\ KeyAt(w, i) = k /\ \A j \in 1..size : KeyAt(w, j) = k => j <= i
  BY <1>2
<1> DEFINE IsLast(l) == /\ <<req[w].app, req[w].items[l].id>> = k
                        /\ \A j \in DOMAIN req[w].items :
                             <<req[w].app, req[w].items[j].id>> = k => j <= l
<1>4. i \in DOMAIN req[w].items /\ IsLast(i) /\ \A l \in DOMAIN req[w].items : IsLast(l) => l = i
  <2>1. i \in DOMAIN req[w].items /\ IsLast(i)
    BY <1>3 DEF KeyAt
  <2>2. ASSUME NEW l \in DOMAIN req[w].items, IsLast(l) PROVE l = i
    <3>1. i <= l
      BY <2>1, <2>2
    <3>2. l <= i
      BY <2>1, <2>2
    <3>3. QED
      BY <1>3, <2>2, <3>1, <3>2
  <2>3. QED
    BY <2>1, <2>2
<1>5. Catalog!LastFor(req[w], k) = req[w].items[i]
  <2>1. Catalog!LastFor(req[w], k) = req[w].items[CHOOSE l \in DOMAIN req[w].items : IsLast(l)]
    BY DEF Catalog!LastFor
  <2> HIDE DEF IsLast
  <2>2. (CHOOSE l \in DOMAIN req[w].items : IsLast(l)) = i
    BY <1>4
  <2>3. QED
    BY <2>1, <2>2
<1>6. LastOf(w, i, size)
  BY <1>3 DEF LastOf
<1>7. QED
  BY <1>3, <1>5, <1>6

\* COMMIT of a batch publishes it: every bundle as its last payload has it.
LEMMA PublishMaps ==
  ASSUME IInv, OverlayInv, NEW w \in Handler, pc[w] = "commit", req[w].verb = "POST",
         Merge(w), NEW status \in {201, 500}, Finish(w, status, "json")
  PROVE  Catalog!Publish(w)
<1> DEFINE size == Len(req[w].items)
<1>1. req[w] \in Request /\ req[w] # NoRequest /\ req[w].app \in App
  BY DEF IInv, TypeOK, ControlInv, ControlOf
<1>2. /\ DOMAIN req[w].items = 1..size /\ size \in Nat
      /\ \A i \in 1..size : req[w].items[i] \in Item /\ req[w].items[i].set \in Row
  BY <1>1, RequestFacts
<1>3. Done(w) = size /\ Written(w) = size /\ Cleared(w) = size
  BY DEF Done, Written, Cleared, SendsLists
<1>4. BatchRows(w) /\ ListsSoFar(w)
  BY DEF OverlayInv, OverlayOf, InTransaction
<1>5. \A k \in Key : k \in Catalog!Written(req[w]) <=> \E i \in 1..size : KeyAt(w, i) = k
  BY <1>2 DEF Catalog!Written, KeyAt
<1>6. ASSUME NEW k \in Key, k \in Catalog!Written(req[w])
      PROVE  \E i \in 1..size : /\ KeyAt(w, i) = k /\ LastOf(w, i, size)
                                /\ Catalog!LastFor(req[w], k) = req[w].items[i]
  <2>1. size \in Nat /\ DOMAIN req[w].items = 1..size /\ \E i \in 1..size : KeyAt(w, i) = k
    BY <1>2, <1>5, <1>6
  <2> HIDE DEF size
  <2>2. QED
    BY <2>1, LastPayload
<1>7. ASSUME NEW k \in Key
      PROVE  /\ bundles'[k] = IF k \in Catalog!Written(req[w])
                              THEN Catalog!LastFor(req[w], k).set ELSE bundles[k]
             /\ patches'[k] = IF k \in Catalog!Written(req[w])
                              THEN PatchRows(Catalog!LastFor(req[w], k).patches)
                              ELSE patches[k]
  <2>1. CASE k \in Catalog!Written(req[w])
    <3>1. PICK i \in 1..size : /\ KeyAt(w, i) = k /\ LastOf(w, i, size)
                            /\ Catalog!LastFor(req[w], k) = req[w].items[i]
      BY <1>6, <2>1
    <3>2. rows[w][k] = req[w].items[i].set /\ rows[w][k] # Untouched
      BY <1>2, <1>3, <1>4, <3>1, HandlerAssumption DEF BatchRows
    <3>3. k \in cleared[w] /\ lists[w][k] = PatchRows(req[w].items[i].patches)
      <4>1. ~(Done(w) < i)
        BY <1>2, <1>3, <3>1
      <4>2. lists[w][KeyAt(w, i)] = { p \in PatchRows(req[w].items[i].patches) :
                                       Done(w) < i => p.ord < next[w] }
        BY <1>3, <1>4, <3>1 DEF ListsSoFar
      <4>3. k \in cleared[w]
        BY <1>3, <1>4, <3>1 DEF ListsSoFar
      <4>4. QED
        BY <3>1, <4>1, <4>2, <4>3
    <3>4. QED
      BY <2>1, <3>1, <3>2, <3>3 DEF Merge
  <2>2. CASE k \notin Catalog!Written(req[w])
    <3>1. rows[w][k] = Untouched /\ k \notin cleared[w]
      BY <1>3, <1>4, <1>5, <2>2 DEF BatchRows, ListsSoFar
    <3>2. QED
      BY <2>2, <3>1 DEF Merge
  <2>3. QED
    BY <2>1, <2>2
<1>8. bundles' = [k \in Key |-> bundles'[k]] /\ patches' = [k \in Key |-> patches'[k]]
  BY DEF Merge
<1>9. /\ bundles' = [k \in Catalog!Key |-> IF k \in Catalog!Written(req[w])
                                           THEN Catalog!LastFor(req[w], k).set ELSE bundles[k]]
      /\ patches' = [k \in Catalog!Key |->
                       IF k \in Catalog!Written(req[w])
                       THEN Catalog!PatchRows(Catalog!LastFor(req[w], k).patches)
                       ELSE patches[k]]
  BY <1>7, <1>8, SharedHelpers
<1>10. Catalog!Answered(w, {201, Catalog!Failed})
  BY FinishAnswers DEF Catalog!Failed
<1>11. QED
  BY <1>1, <1>9, <1>10 DEF Catalog!Publish
\* COMMIT of a PATCH: the columns it names over the row as it is, if any.
LEMMA PatchMaps ==
  ASSUME IInv, OverlayInv, NEW w \in Handler, pc[w] = "commit", req[w].verb = "PATCH",
         Merge(w), NEW status \in {200, 500}, Finish(w, status, "json")
  PROVE  Catalog!Patch(w)
<1> DEFINE k == KeyAt(w, 1)
           sent == req[w].items[1].set
           list == req[w].items[1].patches
<1>1. req[w] \in Request /\ req[w] # NoRequest /\ req[w].app \in App
  BY DEF IInv, TypeOK, ControlInv, ControlOf
<1>2. /\ Len(req[w].items) = 1 /\ req[w].items[1] \in Item
      /\ sent \in SetClause /\ k \in Key
  <2>1. Len(req[w].items) = 1 /\ req[w].items[1] \in Item
    BY <1>1, RequestFacts
  <2>2. QED
    BY <1>1, <2>1 DEF Item, KeyAt, Key
<1>3. PatchedRow(w) /\ ListsSoFar(w)
  BY DEF OverlayInv, OverlayOf, InTransaction
<1>4. PICK old \in Row : set[w] = MergeMetadata(old, sent)
  BY <1>3 DEF PatchedRow
<1>5. bundles \in [Key -> Row \cup {NoRow}] /\ patches \in [Key -> SUBSET PatchRow]
  BY DEF IInv, TypeOK
<1>6. bundles' = [bundles EXCEPT ![k] = IF rows[w][k] # Untouched THEN rows[w][k] ELSE bundles[k]]
  <2>1. \A j \in Key : j # k => rows[w][j] = Untouched
    BY <1>3 DEF PatchedRow
  <2>2. bundles' = [j \in Key |-> IF rows[w][j] # Untouched THEN rows[w][j] ELSE bundles[j]]
    BY DEF Merge
  <2> DEFINE written == IF rows[w][k] # Untouched THEN rows[w][k] ELSE bundles[k]
  <2>3. bundles' = [j \in Key |-> IF j = k THEN written ELSE bundles[j]]
    BY <2>1, <2>2
  <2> HIDE DEF k, written
  <2>4. bundles' = [bundles EXCEPT ![k] = written]
    BY <1>2, <1>5, <2>3
  <2>5. QED
    BY <2>4 DEF written
<1>7. IF bundles[k] = NoRow THEN UNCHANGED bundles
      ELSE \E m \in Metadata :
             /\ MetadataPromised(bundles[k], sent, m)
             /\ bundles' = [bundles EXCEPT
                              ![k] = [Overwrite(bundles[k], sent) EXCEPT !.metadata = m]]
  <2>1. CASE bundles[k] = NoRow
    <3>1. rows[w][k] \in {NoRow, Untouched}
      BY <1>3, <2>1 DEF PatchedRow
    <3>2. bundles' = bundles
      BY <1>5, <1>6, <2>1, <3>1
    <3>3. QED
      BY <2>1, <3>2
  <2>2. CASE bundles[k] # NoRow
    <3>1. bundles[k] \in Row /\ set[w] \in SetClause
      BY <1>2, <1>4, <1>5, <2>2, MergeType
    <3>2. PICK m \in Metadata :
             /\ MetadataPromised(bundles[k], sent, m)
             /\ Overwrite(bundles[k], MergeMetadata(old, sent)) =
                  [Overwrite(bundles[k], sent) EXCEPT !.metadata = m]
      <4> DEFINE row == bundles[k]
      <4>1. row \in Row /\ sent \in SetClause
        BY <1>2, <3>1
      <4> HIDE DEF row, sent
      <4>2. \E m \in Metadata :
              /\ MetadataPromised(row, sent, m)
              /\ Overwrite(row, MergeMetadata(old, sent)) =
                   [Overwrite(row, sent) EXCEPT !.metadata = m]
        BY <4>1, MergedOverwrite
      <4> USE DEF row
      <4>3. QED
        BY <4>2
    <3>3. bundles'[k] = Overwrite(bundles[k], set[w])
      <4>1. CASE HasColumns(set[w])
        <5>1. rows[w][k] = Overwrite(bundles[k], set[w])
          BY <1>3, <2>2, <4>1 DEF PatchedRow
        <5>2. rows[w][k] # Untouched
          BY <3>1, <5>1, OverwriteType, HandlerAssumption
        <5>3. QED
          BY <1>2, <1>5, <1>6, <5>1, <5>2
      <4>2. CASE ~HasColumns(set[w])
        <5>1. rows[w][k] = Untouched
          BY <1>3, <4>2 DEF PatchedRow
        <5>2. Overwrite(bundles[k], set[w]) = bundles[k]
          BY <1>2, <1>4, <3>1, <4>2, MergedOverwrite
        <5>3. QED
          BY <1>2, <1>5, <1>6, <5>1, <5>2
      <4>3. QED
        BY <4>1, <4>2
    <3>4. bundles' = [bundles EXCEPT ![k] = Overwrite(bundles[k], set[w])]
      BY <1>2, <1>5, <1>6, <3>3
    <3>5. Overwrite(bundles[k], set[w]) = [Overwrite(bundles[k], sent) EXCEPT !.metadata = m]
      BY <1>4, <3>2
    <3>6. bundles' = [bundles EXCEPT
                        ![k] = [Overwrite(bundles[k], sent) EXCEPT !.metadata = m]]
      BY <3>4, <3>5
    <3> HIDE DEF k, sent
    <3>7. QED
      BY <2>2, <3>2, <3>6
  <2>3. QED
    BY <2>1, <2>2
<1>8. patches' = IF list = Absent THEN patches ELSE [patches EXCEPT ![k] = PatchRows(list)]
  <2>1. CASE list = Absent
    <3>1. Cleared(w) = 0
      BY <2>1 DEF Cleared, SendsLists
    <3>2. cleared[w] = {}
      BY <1>3, <3>1 DEF ListsSoFar
    <3>3. QED
      BY <1>5, <2>1, <3>2 DEF Merge
  <2>2. CASE list # Absent
    <3>1. Cleared(w) = 1 /\ Done(w) = 1 /\ LastOf(w, 1, 1)
      BY <1>2, <2>2 DEF Cleared, SendsLists, Done, LastOf
    <3>2. cleared[w] = {k}
      BY <1>3, <3>1 DEF ListsSoFar
    <3>3. lists[w][k] = PatchRows(list)
      <4>1. lists[w][KeyAt(w, 1)] = { p \in PatchRows(req[w].items[1].patches) :
                                       Done(w) < 1 => p.ord < next[w] }
        BY <1>3, <3>1 DEF ListsSoFar
      <4>2. ~(Done(w) < 1)
        BY <3>1
      <4>3. QED
        BY <4>1, <4>2
    <3>4. patches' = [j \in Key |-> IF j = k THEN PatchRows(list) ELSE patches[j]]
      BY <3>2, <3>3 DEF Merge
    <3> HIDE DEF k, list
    <3>5. QED
      BY <1>2, <1>5, <2>2, <3>4
  <2>3. QED
    BY <2>1, <2>2
<1>9. Catalog!Answered(w, {200, Catalog!Failed})
  BY FinishAnswers DEF Catalog!Failed
<1>10. k = <<req[w].app, req[w].items[1].id>>
  BY DEF KeyAt
<1> HIDE DEF k
<1>11. QED
  BY <1>1, <1>7, <1>8, <1>9, <1>10, SharedHelpers DEF Catalog!Patch

\* DELETE removes the row with its patches and those based on it.
LEMMA DeleteMaps ==
  ASSUME IInv, NEW w \in Handler, pc[w] = "delete", Remove(w),
         NEW status \in {200, 500}, Finish(w, status, "json")
  PROVE  Catalog!Delete(w)
<1>1. req[w] \in Request /\ req[w] # NoRequest /\ req[w].verb = "DELETE"
  BY DEF IInv, TypeOK, ControlInv, ControlOf
<1>2. KeyOf(w) = <<req[w].app, req[w].items[1].id>>
  <2>1. item[w] \in 1..Len(req[w].items) /\ Len(req[w].items) = 1
    BY <1>1, ItemFacts, RequestFacts DEF IInv
  <2>2. item[w] = 1
    BY <2>1
  <2>3. QED
    BY <2>2 DEF KeyOf, This
<1>3. Catalog!Answered(w, {200, Catalog!Failed})
  BY FinishAnswers DEF Catalog!Failed
<1>4. QED
  BY <1>1, <1>2, <1>3, SharedHelpers DEF Remove, Catalog!Delete

\* Every step of the handlers is a step of the catalog, or none.
LEMMA StepMaps ==
  ASSUME IInv, OverlayInv, [Next]_vars
  PROVE  Catalog!Next \/ UNCHANGED Catalog!vars
<1>1. ASSUME NEW w \in Handler, NEW r \in Request, Receive(w, r)
      PROVE  Catalog!Next
  BY <1>1, ReceiveMaps DEF Catalog!Next
<1>2. ASSUME NEW w \in Handler, Fetch(w)
      PROVE  Catalog!Next \/ UNCHANGED Catalog!vars
  BY <1>2, FetchMaps DEF Catalog!Next, Catalog!vars
<1>3. ASSUME NEW w \in Handler, pc[w] # "idle", UNCHANGED db,
             NEW status \in {400, 404, 500}, NEW body \in {"json", "text"},
             Finish(w, status, body)
      PROVE  Catalog!Next
  BY <1>3, DeclineMaps DEF Catalog!Next, db
<1>4. ASSUME NEW w \in Handler, pc[w] = "commit", Merge(w),
             NEW status \in {200, 201, 500}, Finish(w, status, "json"),
             status # 500 => status = IF req[w].verb = "POST" THEN 201 ELSE 200
      PROVE  Catalog!Next
  <2>1. req[w].verb \in {"POST", "PATCH"}
    <3>1. req[w] \in Request /\ req[w].verb # "DELETE"
      BY <1>4 DEF IInv, TypeOK, ControlInv, ControlOf
    <3>2. req[w].verb \in {"POST", "PATCH", "DELETE"}
      BY <3>1, RequestFacts DEF RequestType
    <3>3. QED
      BY <3>1, <3>2
  <2>2. CASE req[w].verb = "POST"
    BY <1>4, <2>2, PublishMaps DEF Catalog!Next
  <2>3. CASE req[w].verb = "PATCH"
    BY <1>4, <2>3, PatchMaps DEF Catalog!Next
  <2>4. QED
    BY <2>1, <2>2, <2>3
<1>5. ASSUME NEW w \in Handler, pc[w] = "delete", Remove(w),
             NEW status \in {200, 500}, Finish(w, status, "json")
      PROVE  Catalog!Next
  BY <1>5, DeleteMaps DEF Catalog!Next
<1>6. ASSUME NEW w \in Handler, WriteRow(w) \/ ClearPatches(w) \/ CheckBase(w) \/ InsertPatch(w)
      PROVE  Catalog!Next \/ UNCHANGED Catalog!vars
  <2>1. /\ UNCHANGED db
        /\ \/ UNCHANGED <<req, answer>>
           \/ \E status \in {400, 500}, body \in {"json", "text"} : Finish(w, status, body)
    BY <1>6 DEF WriteRow, ClearPatches, CheckBase, InsertPatch, db
  <2>2. pc[w] # "idle"
    BY <1>6 DEF WriteRow, ClearPatches, CheckBase, InsertPatch
  <2>3. QED
    BY <1>3, <2>1, <2>2 DEF Catalog!vars, db
<1>7. ASSUME NEW w \in Handler, WaitAborted(w) \/ StatementFails(w)
      PROVE  Catalog!Next
  <2>1. pc[w] # "idle"
    BY <1>7 DEF WaitAborted, StatementFails, Blocked, Conflicts
  <2>2. QED
    BY <1>3, <1>7, <2>1 DEF WaitAborted, StatementFails
<1>8. ASSUME NEW w \in Handler, Commit(w) \/ DeleteBundle(w) \/ Unacknowledged(w)
      PROVE  Catalog!Next
  BY <1>4, <1>5, <1>8 DEF Commit, DeleteBundle, Unacknowledged
<1>9. CASE Crash
  BY <1>9 DEF Crash, Catalog!Next, Catalog!Forget
<1>10. CASE UNCHANGED vars
  BY <1>10 DEF vars, Catalog!vars
<1>11. QED
  BY <1>1, <1>2, <1>6, <1>7, <1>8, <1>9, <1>10 DEF Next, Statement

\* The statement-by-statement handlers, with their locks, snapshots, failures
\* and crashes, implement the atomic catalog: a request takes effect as a
\* whole or not at all, in the one step its COMMIT or DELETE is, and the
\* answer tells the truth about it.
THEOREM Refinement ==
  Spec => ImplementsCatalog
<1>1. Init => Catalog!Init
  BY SharedHelpers DEF Init, Catalog!Init
<1>2. IInv /\ OverlayInv /\ [Next]_vars => [Catalog!Next]_(Catalog!vars)
  BY StepMaps
<1>3. QED
  BY <1>1, <1>2, Invariance, OverlayInvariance, PTL DEF Spec, ImplementsCatalog, Catalog!Spec

-----------------------------------------------------------------------------
(* PATCHes that nobody interferes with.                                    *)

\* While a PATCH is at work no other request names its bundle.  A server with
\* one handler is always so; clients that wait for one another make it so.
PatchesUndisturbed ==
  \A v, w \in Handler :
     v # w /\ pc[v] # "idle" /\ pc[w] # "idle" /\ req[w].verb = "PATCH"
     => \A i \in DOMAIN req[v].items : KeyAt(v, i) # KeyAt(w, 1)

\* What validation found out is still so: of a batch because it speaks of the
\* payload alone, of a PATCH if its bundle has not changed since it was read.
ValidOf(w) ==
  pc[w] \in InTransaction =>
    /\ req[w].verb = "POST" =>
         \A i \in DOMAIN req[w].items : Persistable(req[w].items[i].set)
    /\ req[w].verb = "PATCH" =>
         LET row == bundles[KeyAt(w, 1)] IN
         /\ item[w] = 1
         /\ row # NoRow
         /\ set[w] = MergeMetadata(row, req[w].items[1].set)
         /\ Persistable(Overwrite(row, set[w]))

ValidInv == CommittedRowsPersistable /\ \A w \in Handler : ValidOf(w)

LEMMA ValidKept ==
  ASSUME NEW v \in Handler, ValidOf(v),
         pc'[v] \in InTransaction =>
            /\ pc[v] \in InTransaction
            /\ req'[v] = req[v] /\ set'[v] = set[v]
            /\ req[v].verb = "PATCH" => /\ item'[v] = item[v]
                                        /\ bundles'[KeyAt(v, 1)] = bundles[KeyAt(v, 1)]
  PROVE  ValidOf(v)'
BY DEF ValidOf, KeyAt

\* A transaction writes only bundles its request names.
LEMMA WritesNamed ==
  ASSUME IInv, OverlayInv, NEW w \in Handler, pc[w] = "commit", NEW k \in Key, rows[w][k] # Untouched
  PROVE  \E i \in DOMAIN req[w].items : KeyAt(w, i) = k
<1>1. req[w] \in Request /\ OverlayOf(w)
  BY DEF IInv, TypeOK, ControlInv, ControlOf, OverlayInv
<1>2. /\ req[w].verb \in {"POST", "PATCH"}
      /\ DOMAIN req[w].items = 1..Len(req[w].items)
      /\ req[w].verb = "PATCH" => Len(req[w].items) = 1
  BY <1>1, RequestFacts DEF RequestType, IInv, ControlInv, ControlOf
<1>3. CASE req[w].verb = "POST"
  BY <1>1, <1>2, <1>3 DEF OverlayOf, InTransaction, BatchRows, Written, Done
<1>4. CASE req[w].verb = "PATCH"
  <2>1. k = KeyAt(w, 1) /\ 1 \in DOMAIN req[w].items
    BY <1>1, <1>2, <1>4 DEF OverlayOf, InTransaction, PatchedRow
  <2>2. QED
    BY <2>1
<1>5. QED
  BY <1>2, <1>3, <1>4

\* The other handlers, when w ends having changed only bundles it names.
LEMMA OthersValid ==
  ASSUME IInv, ValidInv, PatchesUndisturbed, NEW w \in Handler, pc[w] # "idle",
         NEW status, NEW body, Finish(w, status, body),
         \A k \in Key : bundles'[k] # bundles[k] => \E i \in DOMAIN req[w].items : KeyAt(w, i) = k
  PROVE  \A v \in Handler : ValidOf(v)'
<1> SUFFICES ASSUME NEW v \in Handler PROVE ValidOf(v)'
  OBVIOUS
<1>1. CASE v = w
  <2>1. pc'[w] = "idle"
    BY DEF Finish, IInv, TypeOK
  <2>2. QED
    BY <1>1, <2>1 DEF ValidOf, InTransaction
<1>2. CASE v # w
  <2>1. pc'[v] = pc[v] /\ req'[v] = req[v] /\ set'[v] = set[v] /\ item'[v] = item[v]
    BY <1>2 DEF Finish, IInv, TypeOK
  <2>2. ASSUME pc[v] \in InTransaction, req[v].verb = "PATCH"
        PROVE  bundles'[KeyAt(v, 1)] = bundles[KeyAt(v, 1)]
    <3>1. req[v] \in Request /\ req[v].app \in App
      BY <2>2 DEF IInv, TypeOK, ControlInv, ControlOf, InTransaction
    <3>2. KeyAt(v, 1) \in Key
      <4>1. req[v].items[1] \in Item
        BY <2>2, <3>1, RequestFacts
      <4>2. QED
        BY <3>1, <4>1 DEF KeyAt, Key, Item
    <3>3. \A i \in DOMAIN req[w].items : KeyAt(w, i) # KeyAt(v, 1)
      BY <1>2, <2>2 DEF PatchesUndisturbed, InTransaction
    <3>4. QED
      BY <3>2, <3>3
  <2>3. QED
    BY <2>1, <2>2, ValidKept DEF ValidInv
<1>3. QED
  BY <1>1, <1>2

\* A request that arrives: a batch has had its rows validated.
LEMMA ReceiveValid ==
  ASSUME IInv, ValidInv, NEW w \in Handler, NEW r \in Request, Receive(w, r)
  PROVE  ValidInv'
<1>1. bundles' = bundles /\ set' = set /\ item' = item /\ pc[w] = "idle"
  BY DEF Receive, tx
<1>2. CommittedRowsPersistable'
  BY <1>1 DEF ValidInv, CommittedRowsPersistable
<1>3. ASSUME NEW v \in Handler PROVE ValidOf(v)'
  <2>1. CASE v = w /\ Refusal(r) = 200
    <3>1. pc'[w] = FirstStatement(r) /\ req'[w] = r
      BY <2>1 DEF Receive, Goto, IInv, TypeOK
    <3>2. r.verb \in {"POST", "PATCH", "DELETE"}
      BY RequestFacts DEF RequestType
    <3>3. r.verb # "POST" => pc'[w] \notin InTransaction
      BY <3>1, <3>2 DEF FirstStatement, InTransaction
    <3>4. r.verb = "POST" => \A i \in DOMAIN r.items : Persistable(r.items[i].set)
      BY <2>1 DEF Refusal
    <3>5. QED
      BY <2>1, <3>1, <3>2, <3>3, <3>4 DEF ValidOf
  <2>2. CASE v # w \/ Refusal(r) # 200
    <3>1. pc'[v] = pc[v] /\ req'[v] = req[v]
      BY <2>2 DEF Receive, Goto, IInv, TypeOK
    <3>2. QED
      BY <1>1, <3>1, ValidKept DEF ValidInv
  <2>3. QED
    BY <2>1, <2>2
<1>4. QED
  BY <1>2, <1>3 DEF ValidInv

\* A PATCH that goes on has had the row it read validated, as it will be.
LEMMA FetchValid ==
  ASSUME IInv, ValidInv, PatchesUndisturbed, NEW w \in Handler, Fetch(w)
  PROVE  ValidInv'
<1> DEFINE merged == MergeMetadata(bundles[KeyOf(w)], This(w).set)
<1>1. pc[w] = "fetch" /\ bundles' = bundles /\ req[w].verb = "PATCH"
  BY DEF IInv, ControlInv, ControlOf, Fetch, db
<1>2. CommittedRowsPersistable'
  BY <1>1 DEF ValidInv, CommittedRowsPersistable
<1>3. CASE \E status \in {200, 400, 404} : Finish(w, status, "json")
  <2>1. \A v \in Handler : ValidOf(v)'
    BY <1>1, <1>3, OthersValid
  <2>2. QED
    BY <1>2, <2>1 DEF ValidInv
<1>4. CASE /\ bundles[KeyOf(w)] # NoRow
           /\ Persistable(Overwrite(bundles[KeyOf(w)], merged))
           /\ set' = [set EXCEPT ![w] = merged]
           /\ Goto(w, "write")
           /\ UNCHANGED <<req, item, next, snapshot, rows, cleared, lists, answer>>
  <2>1. item[w] = 1 /\ KeyOf(w) = KeyAt(w, 1) /\ This(w) = req[w].items[1]
    BY <1>1, PatchNamesOne DEF KeyOf, KeyAt, This
  <2>2. set'[w] = merged
    BY <1>4 DEF IInv, TypeOK
  <2>3. merged = MergeMetadata(bundles[KeyAt(w, 1)], req[w].items[1].set)
    BY <2>1
  <2> HIDE DEF merged
  <2>4. ValidOf(w)'
    BY <1>1, <1>4, <2>1, <2>2, <2>3 DEF ValidOf, KeyAt
  <2>5. ASSUME NEW v \in Handler, v # w PROVE ValidOf(v)'
    <3>1. pc'[v] = pc[v] /\ set'[v] = set[v]
      BY <1>4, <2>5 DEF IInv, TypeOK, Goto
    <3>2. QED
      BY <1>1, <1>4, <3>1, ValidKept DEF ValidInv
  <2>6. QED
    BY <1>2, <2>4, <2>5 DEF ValidInv
<1>5. QED
  BY <1>3, <1>4 DEF Fetch

\* The statements of a transaction neither commit nor change what it will.
LEMMA StatementValid ==
  ASSUME IInv, ValidInv, PatchesUndisturbed, NEW w \in Handler,
         WriteRow(w) \/ ClearPatches(w) \/ CheckBase(w) \/ InsertPatch(w)
           \/ WaitAborted(w) \/ StatementFails(w)
  PROVE  ValidInv'
<1>1. bundles' = bundles
  BY DEF WriteRow, ClearPatches, CheckBase, InsertPatch, WaitAborted, StatementFails, db
<1>2. CommittedRowsPersistable'
  BY <1>1 DEF ValidInv, CommittedRowsPersistable
<1>3. pc[w] # "idle"
  BY DEF WriteRow, ClearPatches, CheckBase, InsertPatch, WaitAborted, StatementFails, Blocked,
         Conflicts
<1>4. CASE \E status \in {400, 500}, body \in {"json", "text"} : Finish(w, status, body)
  <2>1. \A v \in Handler : ValidOf(v)'
    BY <1>1, <1>3, <1>4, OthersValid
  <2>2. QED
    BY <1>2, <2>1 DEF ValidInv
<1>5. CASE /\ pc[w] \in InTransaction /\ req' = req /\ set' = set
           /\ \A v \in Handler : v # w => pc'[v] = pc[v] /\ item'[v] = item[v]
           /\ req[w].verb = "PATCH" => item'[w] = item[w]
  <2>1. ASSUME NEW v \in Handler PROVE ValidOf(v)'
    BY <1>1, <1>5, ValidKept DEF ValidInv
  <2>2. QED
    BY <1>2, <2>1 DEF ValidInv
<1>6. ASSUME NEW n, AdvanceFrom(w, n), pc[w] \in {"clear", "insert"}
      PROVE  /\ \A v \in Handler : v # w => pc'[v] = pc[v] /\ item'[v] = item[v]
             /\ req[w].verb = "PATCH" => item'[w] = item[w]
  <2>1. ASSUME req[w].verb = "PATCH" PROVE ~(item[w] < Len(req[w].items))
    <3>1. Len(req[w].items) = 1 /\ item[w] = 1
      BY <1>6, <2>1, PatchNamesOne
    <3>2. QED
      BY <3>1
  <2>2. QED
    BY <1>6, <2>1 DEF AdvanceFrom, Goto, IInv, TypeOK
<1>7. CASE WriteRow(w)
  BY <1>4, <1>5, <1>7 DEF WriteRow, Goto, InTransaction, IInv, TypeOK
<1>8. CASE ClearPatches(w)
  BY <1>5, <1>6, <1>8 DEF ClearPatches, InTransaction
<1>9. CASE CheckBase(w)
  BY <1>4, <1>5, <1>9 DEF CheckBase, Goto, InTransaction, IInv, TypeOK
<1>10. CASE InsertPatch(w)
  BY <1>4, <1>5, <1>6, <1>10 DEF InsertPatch, InTransaction
<1>11. QED
  BY <1>4, <1>7, <1>8, <1>9, <1>10 DEF WaitAborted, StatementFails

\* COMMIT: every row it writes is one that was found valid.
LEMMA CommitValid ==
  ASSUME IInv, OverlayInv, ValidInv, PatchesUndisturbed, NEW w \in Handler, pc[w] = "commit",
         Merge(w), NEW status, NEW body, Finish(w, status, body)
  PROVE  ValidInv'
<1>1. \A k \in Key : bundles'[k] # bundles[k] => \E i \in DOMAIN req[w].items : KeyAt(w, i) = k
  BY WritesNamed DEF Merge
<1>2. \A v \in Handler : ValidOf(v)'
  BY <1>1, OthersValid
<1>3. ASSUME NEW k \in Key, rows[w][k] \notin {Untouched, NoRow}
      PROVE  Persistable(rows[w][k])
  <2>1. /\ req[w] \in Request /\ req[w].verb \in {"POST", "PATCH"}
        /\ DOMAIN req[w].items = 1..Len(req[w].items) /\ Len(req[w].items) \in Nat
    <3>1. req[w] \in Request
      BY DEF IInv, TypeOK, ControlInv, ControlOf
    <3>2. QED
      BY <3>1, RequestFacts DEF RequestType, IInv, ControlInv, ControlOf
  <2>2. CASE req[w].verb = "POST"
    <3>1. PICK i \in 1..Len(req[w].items) : KeyAt(w, i) = k /\ LastOf(w, i, Len(req[w].items))
      <4>1. \E i \in 1..Len(req[w].items) : KeyAt(w, i) = k
        BY <1>3, <2>1, WritesNamed
      <4>2. QED
        BY <2>1, <4>1, LastPayload
    <3>2. rows[w][k] = req[w].items[i].set
      BY <2>2, <3>1 DEF OverlayInv, OverlayOf, InTransaction, BatchRows, Written, Done
    <3>3. QED
      BY <2>1, <2>2, <3>1, <3>2 DEF ValidInv, ValidOf, InTransaction
  <2>3. CASE req[w].verb = "PATCH"
    <3>1. /\ PatchedRow(w) /\ bundles[KeyAt(w, 1)] # NoRow
          /\ Persistable(Overwrite(bundles[KeyAt(w, 1)], set[w]))
      BY <2>3 DEF OverlayInv, OverlayOf, ValidInv, ValidOf, InTransaction
    <3>2. rows[w][k] = Overwrite(bundles[KeyAt(w, 1)], set[w])
      BY <1>3, <3>1 DEF PatchedRow
    <3>3. QED
      BY <3>1, <3>2
  <2>4. QED
    BY <2>1, <2>2, <2>3
<1>4. CommittedRowsPersistable'
  BY <1>3 DEF CommittedRowsPersistable, Merge, ValidInv
<1>5. QED
  BY <1>2, <1>4 DEF ValidInv

\* A deletion takes away the bundle it names and no other.
LEMMA DeleteValid ==
  ASSUME IInv, ValidInv, PatchesUndisturbed, NEW w \in Handler, pc[w] = "delete",
         Remove(w), NEW status, NEW body, Finish(w, status, body)
  PROVE  ValidInv'
<1>1. /\ KeyOf(w) \in Key /\ item[w] \in DOMAIN req[w].items /\ KeyOf(w) = KeyAt(w, item[w])
  BY ItemFacts DEF IInv, ControlInv, ControlOf, KeyOf, KeyAt, This
<1>2. \A k \in Key : bundles'[k] = IF k = KeyOf(w) THEN NoRow ELSE bundles[k]
  BY <1>1 DEF Remove, IInv, TypeOK
<1>3. \A v \in Handler : ValidOf(v)'
  BY <1>1, <1>2, OthersValid
<1>4. CommittedRowsPersistable'
  BY <1>2 DEF CommittedRowsPersistable, ValidInv
<1>5. QED
  BY <1>3, <1>4 DEF ValidInv

LEMMA NextValid ==
  ASSUME IInv, OverlayInv, ValidInv, PatchesUndisturbed, [Next]_vars
  PROVE  ValidInv'
<1>1. CASE UNCHANGED vars
  <2>1. \A v \in Handler : ValidOf(v)'
    BY <1>1, ValidKept DEF ValidInv, vars
  <2>2. QED
    BY <1>1, <2>1 DEF ValidInv, CommittedRowsPersistable, vars
<1>2. CASE Crash
  BY <1>2 DEF Crash, ValidInv, ValidOf, CommittedRowsPersistable, InTransaction
<1>3. ASSUME NEW w \in Handler, Statement(w) \/ Unacknowledged(w) \/ StatementFails(w)
      PROVE  ValidInv'
  BY <1>3, FetchValid, StatementValid, CommitValid, DeleteValid
     DEF Statement, Unacknowledged, Commit, DeleteBundle
<1>4. QED
  BY <1>1, <1>2, <1>3, ReceiveValid DEF Next

\* As long as nobody else is at work on a bundle that is being patched, no
\* committed row has both the version and the fingerprint blank.
THEOREM UndisturbedRowsPersistable ==
  Spec /\ []PatchesUndisturbed => []CommittedRowsPersistable
<1>1. Init => ValidInv
  BY DEF Init, ValidInv, ValidOf, CommittedRowsPersistable, InTransaction
<1>2. IInv /\ OverlayInv /\ ValidInv /\ PatchesUndisturbed /\ [Next]_vars => ValidInv'
  BY NextValid
<1>3. ValidInv => CommittedRowsPersistable
  BY DEF ValidInv
<1>4. QED
  BY <1>1, <1>2, <1>3, Invariance, OverlayInvariance, PTL DEF Spec

\* What a merged object leaves in the row it was merged with.
LEMMA MergeAddsKeys ==
  ASSUME NEW row \in Row, NEW sent \in SetClause,
         sent.metadata \notin {Null, Absent}, sent.metadata.object
  PROVE  /\ HasColumns(MergeMetadata(row, sent))
         /\ Overwrite(row, MergeMetadata(row, sent)).metadata =
              [object |-> TRUE, keys |-> row.metadata.keys \cup sent.metadata.keys]
<1> DEFINE clause == MergeMetadata(row, sent)
           merged == [object |-> TRUE, keys |-> row.metadata.keys \cup sent.metadata.keys]
<1>1. clause.metadata = merged
  BY DEF MergeMetadata, SetClause
<1>2. merged \in Metadata
  BY DEF SetClause, Row, Metadata
<1> HIDE DEF clause, merged
<1>3. clause.metadata \notin {Null, Absent}
  BY <1>1, <1>2, ConstantsAssumption
<1>4. Overwrite(row, clause).metadata = merged
  BY <1>1, <1>3 DEF Overwrite
<1>5. HasColumns(clause)
  BY <1>3 DEF HasColumns
<1>6. QED
  BY <1>4, <1>5 DEF clause, merged

\* As long as nobody else is at work on a bundle that is being patched, a
\* PATCH that sends an object leaves the keys the row had and those it sent.
THEOREM UndisturbedMerge ==
  Spec /\ []PatchesUndisturbed => MetadataIsMerged
<1>1. ASSUME IInv, OverlayInv, ValidInv, NEW w \in Handler, Patching(w), Commit(w),
             Sent(w) \notin {Null, Absent}, Sent(w).object
      PROVE  bundles'[KeyOf(w)].metadata =
               [object |-> TRUE, keys |-> bundles[KeyOf(w)].metadata.keys \cup Sent(w).keys]
  <2> DEFINE k == KeyOf(w)
             sent == req[w].items[1].set
  <2>1. k = KeyAt(w, 1) /\ set[w] = MergeMetadata(bundles[k], sent)
    BY <1>1 DEF ValidInv, ValidOf, InTransaction, KeyOf, KeyAt, This, Patching
  <2>2. req[w] \in Request /\ req[w].app \in App
    BY <1>1 DEF IInv, TypeOK, ControlInv, ControlOf, Patching
  <2>3. req[w].items[1] \in Item
    BY <1>1, <2>2, RequestFacts DEF Patching
  <2>4. k \in Key /\ sent \in SetClause
    BY <2>1, <2>2, <2>3 DEF KeyAt, Key, Item
  <2>5. bundles[k] \in Row
    BY <1>1, <2>4 DEF IInv, TypeOK, Patching
  <2>6. HasColumns(set[w])
    BY <1>1, <2>1, <2>4, <2>5, MergeAddsKeys DEF Sent
  <2>7. PatchedRow(w)
    BY <1>1 DEF OverlayInv, OverlayOf, InTransaction, Patching
  <2>8. rows[w][k] = Overwrite(bundles[k], set[w])
    BY <1>1, <2>1, <2>6, <2>7 DEF PatchedRow, Patching
  <2>9. rows[w][k] \in Row
    BY <2>1, <2>4, <2>5, <2>8, MergeType, OverwriteType
  <2>10. bundles'[k] = rows[w][k]
    BY <1>1, <2>4, <2>9, HandlerAssumption DEF Commit, Merge
  <2> HIDE DEF k
  <2>11. bundles'[k].metadata = [object |-> TRUE,
                                 keys |-> bundles[k].metadata.keys \cup sent.metadata.keys]
    BY <1>1, <2>1, <2>4, <2>5, <2>8, <2>10, MergeAddsKeys DEF Sent
  <2>12. QED
    BY <2>11 DEF k, Sent
<1>2. Init => ValidInv
  BY DEF Init, ValidInv, ValidOf, CommittedRowsPersistable, InTransaction
<1>3. IInv /\ OverlayInv /\ ValidInv /\ PatchesUndisturbed /\ [Next]_vars => ValidInv'
  BY NextValid
<1>4. IInv /\ OverlayInv /\ ValidInv /\ [Next]_vars
        => [\A w \in Handler :
              Patching(w) /\ Commit(w) /\ Sent(w) \notin {Null, Absent} /\ Sent(w).object
              => bundles'[KeyOf(w)].metadata =
                   [object |-> TRUE,
                    keys |-> bundles[KeyOf(w)].metadata.keys \cup Sent(w).keys]]_vars
  BY <1>1
<1>5. QED
  BY <1>2, <1>3, <1>4, Invariance, OverlayInvariance, PTL DEF Spec, MetadataIsMerged
===============================================================================
