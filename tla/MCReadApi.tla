------------------------------- MODULE MCReadApi ------------------------------
(***************************************************************************)
(* Requests, catalogs and edits for model checking ReadApi.                *)
(***************************************************************************)
EXTENDS ReadApi

CONSTANTS a1, a2, f1, f2

Published(file) == [target |-> "text", fingerprint |-> Null, metadata |-> NoMetadata, file |-> file]
From(base) == { [base |-> base, ord |-> 0, file |-> f1] }

\* The second application holds every id, each patched from the least one.
Held(own, list) ==
  [bundles |-> [k \in Key |-> IF k[1] = a2 THEN Published(f1)
                              ELSE IF k[2] \in own THEN Published(f1) ELSE NoRow],
   patches |-> [k \in Key |-> IF k[1] = a2 THEN From(1)
                              ELSE IF k = <<a1, 2>> THEN list ELSE {}]]

Catalogs == { Held({}, {}), Held({1, 3}, {}), Held({1, 2, 3}, From(1)) }

\* Every bundle is published on the channel that is asked for and deleted;
\* bundle 2 with a patch or without one, bundle 3 on another channel too.
Edits ==
  { [key |-> <<a1, id>>, row |-> Published(f1), list |-> {}] : id \in Id }
  \cup { [key |-> <<a1, id>>, row |-> NoRow, list |-> {}] : id \in Id }
  \cup { [key |-> <<a1, 2>>, row |-> Published(f1), list |-> From(1)],
         [key |-> <<a1, 3>>, row |-> Published(f2), list |-> {}] }

List == [verb |-> "list", app |-> a1, token |-> a1, malformed |-> FALSE, id |-> 1,
         channel |-> Absent, target |-> Absent, idIn |-> Absent,
         limit |-> Absent, page |-> Absent, after |-> Absent, before |-> Absent]

Queries ==
  { List,
    [List EXCEPT !.channel = f1, !.limit = 1, !.after = Blank],
    [List EXCEPT !.channel = Blank, !.target = "text", !.before = 1],
    [List EXCEPT !.limit = 1, !.before = 1],
    [List EXCEPT !.after = 3, !.before = 1, !.idIn = {1, 2}],
    [List EXCEPT !.page = 1, !.target = Null],
    [List EXCEPT !.page = 2, !.before = 1],
    [List EXCEPT !.page = I64Max + 2],
    [List EXCEPT !.page = 3, !.limit = 1],
    [List EXCEPT !.page = 0], [List EXCEPT !.limit = NotANumber],
    [List EXCEPT !.limit = MaxPageSize + 1], [List EXCEPT !.malformed = TRUE],
    [List EXCEPT !.token = a2], [List EXCEPT !.app = NoApp],
    [List EXCEPT !.verb = "get", !.id = 2], [List EXCEPT !.verb = "channels"] }
===============================================================================
