----------------------------- MODULE BundleCatalog -----------------------------
(***************************************************************************)
(* What the bundle write API promises its callers: a request takes effect  *)
(* as a whole or not at all, in one step somewhere between its arrival and *)
(* its answer; an answer below 400 means it did, a 4xx that it did not,    *)
(* and a 500 leaves the caller not knowing; whatever a request does stays  *)
(* within the application whose token it carries.                          *)
(*                                                                         *)
(* PATCH promises less of `metadata` than of the other columns: the keys   *)
(* of an object it sends are in the row afterwards, whatever row it was    *)
(* merged with; any other value is the row's.                              *)
(***************************************************************************)
EXTENDS BundleData

CONSTANTS Handler, NoRequest, NoAnswer

VARIABLES
  bundles,    \* the rows of `bundles`
  patches,    \* the rows of `bundle_patches`, by bundle
  req,        \* the request each handler serves
  answer      \* the last response each handler sent

vars == <<bundles, patches, req, answer>>

Succeeded == {200, 201}
Refused == {400, 401, 404}
Failed == 500

-----------------------------------------------------------------------------

Init ==
  /\ bundles = [k \in Key |-> NoRow]
  /\ patches = [k \in Key |-> {}]
  /\ req = [w \in Handler |-> NoRequest]
  /\ answer = [w \in Handler |-> NoAnswer]

\* A request an application may make is taken on; any other is turned away.
Accept(w, r) ==
  /\ req[w] = NoRequest
  /\ Authorize(r) = 200
  /\ req' = [req EXCEPT ![w] = r]
  /\ answer' = [answer EXCEPT ![w] = NoAnswer]
  /\ UNCHANGED <<bundles, patches>>

Answered(w, statuses) ==
  /\ \E s \in statuses : answer'[w] # NoAnswer /\ answer'[w].status = s
  /\ \A v \in Handler \ {w} : answer'[v] = answer[v]
  /\ req' = [req EXCEPT ![w] = NoRequest]

TurnAway(w) ==
  /\ req[w] = NoRequest
  /\ Answered(w, Refused)
  /\ UNCHANGED <<bundles, patches>>

\* The keys a batch writes, and the last payload it has for each.
Written(r) == { <<r.app, r.items[i].id>> : i \in DOMAIN r.items }
LastFor(r, k) ==
  r.items[CHOOSE i \in DOMAIN r.items :
            /\ <<r.app, r.items[i].id>> = k
            /\ \A j \in DOMAIN r.items : <<r.app, r.items[j].id>> = k => j <= i]

\* POST: every row of the batch and its whole patch list.
Publish(w) ==
  LET r == req[w] IN
  /\ r # NoRequest /\ r.verb = "POST"
  /\ bundles' = [k \in Key |-> IF k \in Written(r) THEN LastFor(r, k).set ELSE bundles[k]]
  /\ patches' = [k \in Key |-> IF k \in Written(r) THEN PatchRows(LastFor(r, k).patches)
                               ELSE patches[k]]
  /\ Answered(w, {201, Failed})

\* PATCH: the columns it names and, if it sends one, its whole patch list.  A
\* row deleted in the meantime stays deleted.
Patch(w) ==
  LET r == req[w]
      k == <<r.app, r.items[1].id>>
      sent == r.items[1].set
  IN
  /\ r # NoRequest /\ r.verb = "PATCH"
  /\ IF bundles[k] = NoRow THEN UNCHANGED bundles
     ELSE \E m \in Metadata :
            /\ MetadataPromised(bundles[k], sent, m)
            /\ bundles' = [bundles EXCEPT
                             ![k] = [Overwrite(bundles[k], sent) EXCEPT !.metadata = m]]
  /\ patches' = IF r.items[1].patches = Absent THEN patches
                ELSE [patches EXCEPT ![k] = PatchRows(r.items[1].patches)]
  /\ Answered(w, {200, Failed})

\* DELETE: the row, its patches and the patches based on it.
Delete(w) ==
  LET r == req[w]
      k == <<r.app, r.items[1].id>>
  IN
  /\ r # NoRequest /\ r.verb = "DELETE"
  /\ bundles' = [bundles EXCEPT ![k] = NoRow]
  /\ patches' = Cascade(patches, k)
  /\ Answered(w, {200, Failed})

\* Refused or failed: nothing happened.  A PATCH that names no column and no
\* patches succeeds the same way.
Decline(w) ==
  /\ req[w] # NoRequest
  /\ Answered(w, Refused \cup {Failed}
                 \cup IF /\ req[w].verb = "PATCH"
                         /\ ~HasColumns(req[w].items[1].set)
                         /\ req[w].items[1].patches = Absent
                      THEN {200} ELSE {})
  /\ UNCHANGED <<bundles, patches>>

\* The server goes down: no request in progress has any effect or answer.
Forget ==
  /\ req' = [w \in Handler |-> NoRequest]
  /\ UNCHANGED <<bundles, patches, answer>>

Next ==
  \/ \E w \in Handler : \/ \E r \in Request : Accept(w, r)
                        \/ TurnAway(w)
                        \/ Publish(w) \/ Patch(w) \/ Delete(w) \/ Decline(w)
  \/ Forget

Spec == Init /\ [][Next]_vars
===============================================================================
