------------------------------- MODULE ReadApi -------------------------------
(***************************************************************************)
(* The reading handlers of the CLI API (list_bundles, get_bundle and       *)
(* list_channels of src/src/routes/api.rs) and the client that pages       *)
(* through a catalog with them.  A handler reads outside any transaction:  *)
(* it counts, selects a page, counts again and selects the patches in four *)
(* statements, each of which sees whatever the writers have committed by   *)
(* then.  The writers are CliApi's, reduced to what a reader can see of    *)
(* them: one commit.                                                       *)
(*                                                                         *)
(* Readers change nothing and hold no lock, so one of them is enough.      *)
(* Bundle ids are naturals in the order of their column; a page is the set *)
(* of its rows, which the handler always returns with the greatest first.  *)
(***************************************************************************)
EXTENDS BundleSchema, Integers

CONSTANTS
  Query,            \* the requests clients may start with
  Edit,             \* the rows and patch lists writers may commit
  Catalog,          \* what the tables may hold at the start
  DefaultPageSize,  \* DEFAULT_PAGE_SIZE
  MaxPageSize,      \* MAX_PAGE_SIZE
  I64Max,           \* i64::MAX
  Blank,            \* the empty string
  NotANumber,       \* a string js_number makes no integer of
  NoQuery

Parameter == Int \cup {Absent, NotANumber}
Cursor == Id \cup {Absent, Blank}

\* `malformed` stands for the parameters that are only checked: platform, the
\* two booleans, the length of the lists and the removed `offset`.
QueryType ==
  [verb : {"list", "get", "channels"}, app : App \cup {NoApp}, token : App \cup {NoApp},
   malformed : BOOLEAN, id : Id, channel : File \cup {Absent, Blank},
   target : Text \cup {Null, Absent}, idIn : (SUBSET Id) \cup {Absent},
   limit : Parameter, page : Parameter, after : Cursor, before : Cursor]

ASSUME ReadAssumption ==
  /\ Id \subseteq Nat /\ IsFiniteSet(Id)
  /\ {Absent, Blank} \cap Id = {}
  /\ Query \subseteq QueryType /\ NoQuery \notin QueryType
  /\ Edit \subseteq [key : Key, row : Row \cup {NoRow}, list : SUBSET PatchRow]
  /\ Catalog \subseteq [bundles : [Key -> Row \cup {NoRow}], patches : [Key -> SUBSET PatchRow]]
  /\ {DefaultPageSize, MaxPageSize, I64Max} \subseteq Nat \ {0}
  /\ {Absent, NotANumber} \cap Int = {} /\ Absent # NotANumber

\* COUNT(*) is a bigint.
ASSUME CountAssumption == Cardinality(Id) <= I64Max

VARIABLES
  bundles,    \* committed rows of `bundles`
  patches,    \* committed rows of `bundle_patches`, by bundle
  pc,         \* the statement the handler executes next
  req,        \* the request it serves
  total,      \* list_bundles: the rows that pass the filters
  page,       \* the rows it has read, by id
  start,      \* list_bundles: the index of the page's first row
  answer,     \* the response to it, once it is answered
  \* What the client does with the cursors of the answers.
  walk,       \* "forward", "backward" or "none"
  \* Observed for the properties only.
  seen,       \* the ids the walk's answers have listed
  stayed,     \* the ids ahead of the walk that matched all along
  late,       \* a row came to match between the first count and the last
  touched     \* the ids whose row or patches changed since the request

vars == <<bundles, patches, pc, req, total, page, start, answer,
          walk, seen, stayed, late, touched>>

-----------------------------------------------------------------------------
(* Parameters.                                                             *)

\* JavaScript's truthiness: an empty string is no cursor and no filter.
Truthy(text) == text \notin {Absent, Blank}

\* parse_positive_integer_param and parse_page_param.
BadLimit(q) == q.limit # Absent /\ q.limit \notin 1..MaxPageSize
BadPage(q) == q.page = NotANumber \/ (q.page # Absent /\ q.page <= 0)
Limit(q) == IF q.limit = Absent THEN DefaultPageSize ELSE q.limit

\* saturating arithmetic of i64, for results that are not negative.
Saturated(n) == IF n > I64Max THEN I64Max ELSE n

\* i64 arithmetic that wraps instead.
Wrapped(n) == n % (I64Max + 1)

\* build_cursor_page_query: a page number rules cursors out, `after` wins.
HasCursor(q) == q.page = Absent /\ (Truthy(q.after) \/ Truthy(q.before))
Reversed(q) == HasCursor(q) /\ ~Truthy(q.after)

\* `id <= cursor` in the place of `id < cursor`.
FromCursor(q, id) ==
  HasCursor(q) => IF Truthy(q.after) THEN id <= q.after ELSE id >= q.before

PastCursor(q, id) ==
  HasCursor(q) => IF Truthy(q.after) THEN id < q.after ELSE id > q.before

\* apply_filters: an empty channel filters nothing, an empty version does.
Passes(q, id, row) ==
  /\ row # NoRow
  /\ Truthy(q.channel) => row.file = q.channel
  /\ q.target # Absent => row.target = q.target
  /\ q.idIn # Absent => id \in q.idIn

Matching(q, table) == { id \in Id : q.app \in App /\ Passes(q, id, table[<<q.app, id>>]) }

\* ORDER BY id LIMIT limit OFFSET offset
PageOf(ids, descending, limit, offset) ==
  { id \in ids :
      LET ahead == Cardinality({ x \in ids : IF descending THEN x > id ELSE x < id })
      IN  offset <= ahead /\ ahead < offset + limit }

Pages(count, limit) == count \div limit + (IF count % limit = 0 THEN 0 ELSE 1)

\* The last page even of no pages at all.
OffsetOfLastPage(q, count) ==
  IF q.page = Absent THEN 0
  ELSE LET last == (Pages(count, Limit(q)) - 1) * Limit(q)
           asked == Saturated((Saturated(q.page) - 1) * Limit(q))
       IN  IF asked < last THEN asked ELSE last

\* The product leaves i64 and wraps.
OffsetWrapped(q, count) ==
  IF q.page = Absent THEN 0
  ELSE LET pages == Pages(count, Limit(q))
           last == IF pages = 0 THEN 0 ELSE Wrapped((pages - 1) * Limit(q))
           asked == Wrapped((Saturated(q.page) - 1) * Limit(q))
       IN  IF asked < last THEN asked ELSE last

\* A page past the last one is clamped to it.
Offset(q, count) ==
  IF q.page = Absent THEN 0
  ELSE LET pages == Pages(count, Limit(q))
           last == IF pages = 0 THEN 0 ELSE Saturated((pages - 1) * Limit(q))
           asked == Saturated((Saturated(q.page) - 1) * Limit(q))
       IN  IF asked < last THEN asked ELSE last

Highest(ids) == CHOOSE x \in ids : \A y \in ids : y <= x
Lowest(ids) == CHOOSE x \in ids : \A y \in ids : x <= y

\* derive_cursor_keys: the cursors the answer carries, and its flags as
\* calculate_pagination has them.
EchoedBack(q, count, first, ids) ==
  [next     |-> IF ids = {} THEN IF HasCursor(q) /\ Truthy(q.after) THEN q.after ELSE Absent
                ELSE IF Saturated(first + Cardinality(ids)) < count THEN Lowest(ids) ELSE Absent,
   previous |-> IF first > 0 /\ ids # {} THEN Highest(ids) ELSE Absent]

Cursors(q, count, first, ids) ==
  [next     |-> IF ids = {} THEN IF HasCursor(q) /\ Truthy(q.before) THEN q.before ELSE Absent
                ELSE IF Saturated(first + Cardinality(ids)) < count THEN Lowest(ids) ELSE Absent,
   previous |-> IF ids = {} THEN IF HasCursor(q) /\ Truthy(q.after) THEN q.after ELSE Absent
                ELSE IF first > 0 THEN Highest(ids) ELSE Absent]

Pagination(q, count, first) ==
  IF count = 0
  THEN [hasNextPage |-> FALSE, hasPreviousPage |-> FALSE, currentPage |-> 1, totalPages |-> 0]
  ELSE [hasNextPage     |-> Saturated(first + Limit(q)) < count,
        hasPreviousPage |-> first > 0,
        currentPage     |-> first \div Limit(q) + 1,
        totalPages      |-> Pages(count, Limit(q))]

-----------------------------------------------------------------------------
(* The handlers.                                                           *)

Rows(ids) == [id \in ids |-> bundles[<<req.app, id>>]]

\* The SELECT on bundle_patches by bundle id alone.
PatchesOfAnyApp(id) == UNION { patches[<<a, id>>] : a \in App }

\* By application and bundle id.
PatchesOfPage(id) == patches[<<req.app, id>>]

NoRows == [id \in {} |-> NoRow]

Error(status) == [status |-> status]
NoAnswer == Error(0)

Reply(response) ==
  /\ answer' = response
  /\ pc' = "answered"
  /\ seen' = seen \cup (IF response.status = 200 /\ walk # "none"
                        THEN DOMAIN response.data ELSE {})

ListAnswer(count, first, data) ==
  [status |-> 200, data |-> data, total |-> count,
   cursors |-> Cursors(req, count, first, DOMAIN data),
   meta |-> Pagination(req, count, first)]

\* What the answer to q leaves to do: check the caller, then the parameters.
Refusal(q) ==
  CASE Authorize(q) # 200 -> Authorize(q)
    [] q.verb = "list" /\ (q.malformed \/ BadLimit(q) \/ BadPage(q)) -> 400
    [] OTHER -> 200

FirstRead == [list |-> "total", get |-> "row", channels |-> "channels"]

Serve(q) ==
  /\ req' = q
  /\ touched' = {}
  /\ total' = 0 /\ start' = 0 /\ page' = NoRows
  /\ IF Refusal(q) # 200
     THEN answer' = Error(Refusal(q)) /\ pc' = "answered"
     ELSE answer' = NoAnswer /\ pc' = FirstRead[q.verb]

\* The client may go on from the answer it has: `after` its last row or
\* `before` its first one.
NextCursor ==
  IF pc # "answered" \/ walk = "none" \/ answer.status # 200 THEN Absent
  ELSE IF walk = "forward" THEN answer.cursors.next ELSE answer.cursors.previous

\* A list request without a page number is the start of a walk.
WalkFrom(q) == IF q.verb # "list" \/ q.page # Absent THEN "none"
               ELSE IF Reversed(q) THEN "backward" ELSE "forward"

Receive(q) ==
  /\ pc \in {"idle", "answered"}
  /\ ~Truthy(NextCursor)
  /\ Serve(q)
  /\ walk' = WalkFrom(q)
  /\ seen' = {}
  /\ stayed' = { id \in Matching(q, bundles) : PastCursor(q, id) }
  /\ late' = FALSE
  /\ UNCHANGED <<bundles, patches>>

Follow ==
  /\ Truthy(NextCursor)
  /\ Serve([req EXCEPT !.after  = IF walk = "forward" THEN NextCursor ELSE Absent,
                       !.before = IF walk = "forward" THEN Absent ELSE NextCursor])
  /\ UNCHANGED <<bundles, patches, walk, seen, stayed, late>>

tables == <<bundles, patches>>
observed == <<stayed, late, touched>>

\* The cursor's predicate counted too.
TotalPastCursor ==
  /\ pc = "total"
  /\ total' = Cardinality({ id \in Matching(req, bundles) : PastCursor(req, id) })
  /\ pc' = "page"
  /\ UNCHANGED <<tables, req, page, start, answer, walk, seen, observed>>

ReadTotal ==
  /\ pc = "total"
  /\ total' = Cardinality(Matching(req, bundles))
  /\ pc' = "page"
  /\ UNCHANGED <<tables, req, page, start, answer, walk, seen, observed>>

\* An empty page needs neither the index of its first row nor any patches.
ReadPage ==
  /\ pc = "page"
  /\ LET ahead == { id \in Matching(req, bundles) : PastCursor(req, id) }
         ids == PageOf(ahead, ~Reversed(req), Limit(req), Offset(req, total))
         first == IF ~HasCursor(req) THEN Offset(req, total)
                  ELSE IF ids = {} /\ Truthy(req.after) THEN total ELSE 0
     IN
     /\ page' = Rows(ids)
     /\ start' = first
     /\ IF ids = {} THEN Reply(ListAnswer(total, first, NoRows))
        ELSE /\ pc' = IF HasCursor(req) THEN "start" ELSE "patches"
             /\ UNCHANGED <<answer, seen>>
  /\ UNCHANGED <<tables, req, total, walk, observed>>

ReadStart ==
  /\ pc = "start"
  /\ start' = Cardinality({ id \in Matching(req, bundles) : id > Highest(DOMAIN page) })
  /\ pc' = "patches"
  /\ UNCHANGED <<tables, req, total, page, answer, walk, seen, observed>>

ReadRow ==
  /\ pc = "row"
  /\ IF bundles[<<req.app, req.id>>] = NoRow
     THEN Reply(Error(404)) /\ UNCHANGED page
     ELSE /\ page' = Rows({req.id})
          /\ pc' = "patches"
          /\ UNCHANGED <<answer, seen>>
  /\ UNCHANGED <<tables, req, total, start, walk, observed>>

ReadPatches ==
  /\ pc = "patches"
  /\ LET data == [id \in DOMAIN page |-> [row |-> page[id], list |-> PatchesOfPage(id)]]
     IN  Reply(IF req.verb = "list" THEN ListAnswer(total, start, data)
               ELSE [status |-> 200, data |-> data])
  /\ UNCHANGED <<tables, req, total, page, start, walk, observed>>

\* SELECT DISTINCT channel
ReadChannels ==
  /\ pc = "channels"
  /\ Reply([status |-> 200,
            channels |-> { bundles[<<req.app, id>>].file :
                           id \in { i \in Id : bundles[<<req.app, i>>] # NoRow } }])
  /\ UNCHANGED <<tables, req, total, page, start, walk, observed>>

\* A statement fails, or the wait for a connection does; the client gives up.
Fail ==
  /\ pc \in {"total", "page", "start", "row", "patches", "channels"}
  /\ Reply(Error(500))
  /\ UNCHANGED <<tables, req, total, page, start, walk, observed>>

Read == ReadTotal \/ ReadPage \/ ReadStart \/ ReadRow \/ ReadPatches \/ ReadChannels

-----------------------------------------------------------------------------
(* The writers.                                                            *)

\* What a commit changes of the request in progress and of its walk.
Observe ==
  IF req = NoQuery THEN UNCHANGED observed
  ELSE /\ touched' = touched \cup { k[2] : k \in { k \in Key : /\ k[1] = req.app
                                                            /\ \/ bundles'[k] # bundles[k]
                                                               \/ patches'[k] # patches[k] } }
       /\ stayed' = stayed \cap Matching(req, bundles')
       /\ late' = (late \/ /\ pc \in {"page", "start"}
                           /\ ~(Matching(req, bundles') \subseteq Matching(req, bundles)))

\* A request of CliApi commits: a row with its patch list, or a deletion.
Commit(e) ==
  /\ bundles' = [bundles EXCEPT ![e.key] = e.row]
  /\ patches' = IF e.row = NoRow THEN Cascade(patches, e.key)
                ELSE [patches EXCEPT ![e.key] = e.list]
  /\ PatchEndpoints(bundles', patches')
  /\ Observe
  /\ UNCHANGED <<pc, req, total, page, start, answer, walk, seen>>

-----------------------------------------------------------------------------

Init ==
  /\ \E c \in Catalog : bundles = c.bundles /\ patches = c.patches
  /\ pc = "idle" /\ req = NoQuery
  /\ total = 0 /\ page = NoRows /\ start = 0
  /\ answer = NoAnswer
  /\ walk = "none" /\ seen = {} /\ stayed = {} /\ late = FALSE /\ touched = {}

Next ==
  \/ \E q \in Query : Receive(q)
  \/ Follow
  \/ Read
  \/ Fail
  \/ \E e \in Edit : Commit(e)

\* tokio runs the handler's task and every statement ends; a client that
\* walks goes on while it has a cursor.
Fairness == WF_vars(Read) /\ WF_vars(Follow)

Spec == Init /\ [][Next]_vars /\ Fairness

-----------------------------------------------------------------------------
(* Properties.                                                             *)

\* The counts and indices are naturals (no page of an empty catalog has a
\* negative offset), a handler past its first read serves a request it may
\* serve, and it asks for patches only when it holds a row.
TypeOK ==
  /\ bundles \in [Key -> Row \cup {NoRow}]
  /\ patches \in [Key -> SUBSET PatchRow]
  /\ pc \in {"idle", "total", "page", "start", "row", "patches", "channels", "answered"}
  /\ req \in QueryType \cup {NoQuery}
  /\ pc = "idle" <=> req = NoQuery
  /\ pc \notin {"idle", "answered"} => Refusal(req) = 200
  /\ pc \in {"total", "page", "start"} => req.verb = "list"
  /\ pc \in {"start", "patches"} => DOMAIN page # {}
  /\ total \in Nat /\ start \in Nat
  /\ DOMAIN page \subseteq Id /\ \A id \in DOMAIN page : page[id] \in Row
  /\ walk \in {"forward", "backward", "none"}
  /\ seen \subseteq Id /\ stayed \subseteq Id /\ touched \subseteq Id
  /\ late \in BOOLEAN

Listed == pc = "answered" /\ req.verb = "list" /\ answer.status = 200

\* What an answer to q must be over a catalog that does not change: the rows
\* nearest to the cursor, or the page of that number, the last one if there
\* are not as many; and a cursor on exactly the sides where rows remain.
IsExact(q, a) ==
  LET all == Matching(q, bundles)
      ahead == { id \in all : PastCursor(q, id) }
      ids == DOMAIN a.data
      Place(id) == Cardinality({ x \in all : x >= id })
      number == a.meta.currentPage
  IN
  /\ a.total = Cardinality(all)
  /\ a.meta.totalPages \in Nat
  /\ Limit(q) * a.meta.totalPages \in Cardinality(all)..(Cardinality(all) + Limit(q) - 1)
  /\ IF q.page # Absent
     THEN /\ number = q.page \/ (number < q.page /\ number = (IF all = {} THEN 1 ELSE a.meta.totalPages))
          /\ ids = { id \in all : Place(id) \in ((number - 1) * Limit(q) + 1)..(number * Limit(q)) }
     ELSE /\ ids \subseteq ahead
          /\ \A x \in ahead \ ids :
                /\ Cardinality(ids) = Limit(q)
                /\ \A y \in ids : IF Reversed(q) THEN y < x ELSE y > x
  /\ ids # {} => /\ a.cursors.next = IF \E x \in all : \A y \in ids : x < y
                                     THEN Lowest(ids) ELSE Absent
                 /\ a.cursors.previous = IF \E x \in all : \A y \in ids : x > y
                                         THEN Highest(ids) ELSE Absent
                 /\ a.meta.hasPreviousPage = (a.cursors.previous # Absent)

\* list_bundles: when nothing of the application changes between the request
\* and its answer the four statements agree, also where the page number times
\* the limit leaves i64, the limit does not divide the total, the cursor is
\* at either end, and other applications hold the same ids.
QuietAnswerIsExact ==
  Listed /\ touched = {} => IsExact(req, answer)

\* list_bundles: a client that follows nextCursor to the end has been shown
\* every row that passed its filters all the way, whatever was published and
\* deleted meanwhile, unless a row was added between the counts of one
\* request; one that follows previousCursor has without exception.
WalkMeetsStayingRows ==
  Listed /\ ~Truthy(NextCursor) /\ (walk = "backward" \/ (walk = "forward" /\ ~late))
    => stayed \subseteq seen

\* list_bundles: no walk is shown a bundle twice, although bundles are
\* published, hidden and deleted between its pages.
RowsAreListedOnce ==
  [][ ~Listed /\ Listed' => DOMAIN answer'.data \cap seen = {} ]_vars

\* get_bundle and list_bundles read a row and its patches in two statements:
\* of a bundle that is not republished meanwhile the answer shows the row and
\* the patches of its own application, as they are.
ShownTogether ==
  pc = "answered" /\ answer.status = 200 /\ req.verb # "channels" =>
    \A id \in DOMAIN answer.data \ touched :
       answer.data[id] = [row |-> bundles[<<req.app, id>>], list |-> patches[<<req.app, id>>]]

Going == pc \notin {"idle", "answered"} \/ Truthy(NextCursor)

\* Every request is answered and every walk comes to an answer without a
\* cursor, even while bundles are published and deleted all the time.
EveryWalkEnds == Going ~> ~Going
===============================================================================
