----------------------------- MODULE Pagination -----------------------------
(***************************************************************************)
(* Walks over one list of the server, several at a time, while the list    *)
(* changes: paginate() and collectAll() of src/src/pagination.ts, paged()  *)
(* of src/src/client.ts, and the response metadata that customFetch()      *)
(* attaches to a payload (src/src/mutator.ts).                             *)
(*                                                                         *)
(* The items of the list are its keys.  Of the server it is assumed that a *)
(* cursor is a position in the list, sorted by key: a page holds what      *)
(* there is between its cursor and the next.  Pages may be of any length.  *)
(* 0 stands for no cursor.                                                 *)
(***************************************************************************)
EXTENDS Naturals

CONSTANTS
  Keys,     \* the keys an item may have
  Walkers   \* the walks

ASSUME KeysAssumption == Keys \subseteq Nat \ {0}

VARIABLES
  list,      \* the keys of the items there are
  pc,        \* of a walk: "idle", "fetching" a page, "answered" (the payload is
             \* there, paged() still awaits it), "yielded" (the consumer has the
             \* page), "done", "stopped" by an error or the consumer
  cursor,    \* of the page to fetch
  page,      \* the items paged() takes from the payload
  meta,      \* the paging attached to the payload
  paging,    \* what paged() found there
  latest,    \* history: the greatest item given to the consumer before
  missing    \* history: the items that were there all the time since the start
             \* and have not been given; none once an answer said nothing of
             \* the page to follow, or had no array for a payload

vars == <<list, pc, cursor, page, meta, paging, latest, missing>>

----------------------------------------------------------------------------
Cursors == Keys \cup {0}

Pagings == [more : BOOLEAN, next : Cursors]

\* Without meta.paging, and on a payload that is null, paged() finds nothing:
\* there is no more.
NoPaging == [more |-> FALSE, next |-> 0]

Init ==
  /\ list \in SUBSET Keys
  /\ pc = [w \in Walkers |-> "idle"]
  /\ cursor = [w \in Walkers |-> 0]
  /\ page = [w \in Walkers |-> {}]
  /\ meta = [w \in Walkers |-> NoPaging]
  /\ paging = [w \in Walkers |-> NoPaging]
  /\ latest = [w \in Walkers |-> 0]
  /\ missing = [w \in Walkers |-> {}]

----------------------------------------------------------------------------
(* A walk *)

\* The first next(): the first page is fetched without a cursor.
Start(w) ==
  /\ pc[w] = "idle"
  /\ pc' = [pc EXCEPT ![w] = "fetching"]
  /\ missing' = [missing EXCEPT ![w] = list]
  /\ UNCHANGED <<list, cursor, page, meta, paging, latest>>

\* What an ended walk had in its hands is gone.
Drop(w) ==
  /\ cursor' = [cursor EXCEPT ![w] = 0]
  /\ page' = [page EXCEPT ![w] = {}]
  /\ meta' = [meta EXCEPT ![w] = NoPaging]
  /\ paging' = [paging EXCEPT ![w] = NoPaging]
  /\ latest' = [latest EXCEPT ![w] = 0]

Stop(w) ==
  /\ Drop(w)
  /\ pc' = [pc EXCEPT ![w] = "stopped"]
  /\ missing' = [missing EXCEPT ![w] = {}]
  /\ UNCHANGED list

\* The fetch ends with an error, which ends the walk.
Fail(w) == pc[w] = "fetching" /\ Stop(w)

\* paged() goes on behind its await, paginate() yields the items.
Receive(w) ==
  /\ pc[w] = "answered"
  /\ pc' = [pc EXCEPT ![w] = "yielded"]
  /\ paging' = [paging EXCEPT ![w] = meta[w]]
  /\ UNCHANGED <<list, cursor, page, meta, latest, missing>>

\* Mutant of Continues: no guard against a missing cursor.
ContinuesWithoutCursor(p) == p.more

\* hasMore, and a cursor to go on from.
Continues(p) == p.more /\ p.next # 0

\* next() again, by for await or collectAll(): on to the next page, or the end.
GoOn(w) ==
  /\ pc[w] = "yielded" /\ Continues(paging[w])
  /\ pc' = [pc EXCEPT ![w] = "fetching"]
  /\ cursor' = [cursor EXCEPT ![w] = paging[w].next]
  /\ page' = [page EXCEPT ![w] = {}]
  /\ meta' = [meta EXCEPT ![w] = NoPaging]
  /\ paging' = [paging EXCEPT ![w] = NoPaging]
  /\ \E k \in page[w] \cup {latest[w]} :
       /\ \A j \in page[w] \cup {latest[w]} : j <= k
       /\ latest' = [latest EXCEPT ![w] = k]
  /\ missing' = [missing EXCEPT ![w] = @ \ page[w]]
  /\ UNCHANGED <<list>>

End(w) ==
  /\ pc[w] = "yielded" /\ ~Continues(paging[w])
  /\ pc' = [pc EXCEPT ![w] = "done"]
  /\ Drop(w)
  /\ missing' = [missing EXCEPT ![w] = @ \ page[w]]
  /\ UNCHANGED <<list>>

\* The consumer breaks out of its loop.
Leave(w) == pc[w] = "yielded" /\ Stop(w)

----------------------------------------------------------------------------
(* An answer, and the list *)

\* Mutant of Attached: the metadata of the last response, in one place.
AttachedToAll(w, p) == [v \in Walkers |-> IF v = w \/ pc[v] = "answered" THEN p ELSE meta[v]]

\* customFetch() puts the metadata on the walk's own payload.
Attached(w, p) == [meta EXCEPT ![w] = p]

PageItems(w, last) == {k \in list : cursor[w] < k /\ k <= last}

PagingAfter(last) ==
  LET more == \E k \in list : k > last IN [more |-> more, next |-> IF more THEN last ELSE 0]

\* The page of the cursor, up to some key.
Serve(w) ==
  /\ pc[w] = "fetching"
  /\ \E last \in {k \in Keys : k > cursor[w]} :
       /\ page' = [page EXCEPT ![w] = PageItems(w, last)]
       /\ meta' = Attached(w, PagingAfter(last))
  /\ pc' = [pc EXCEPT ![w] = "answered"]
  /\ UNCHANGED <<list, cursor, paging, latest, missing>>

\* The same without the cursor of the next page, or without metadata.
ServeCut(w) ==
  /\ pc[w] = "fetching"
  /\ \E last \in {k \in Keys : k > cursor[w]}, more \in BOOLEAN :
       /\ page' = [page EXCEPT ![w] = PageItems(w, last)]
       /\ meta' = Attached(w, [more |-> more, next |-> 0])
  /\ missing' = [missing EXCEPT ![w] = {}]
  /\ pc' = [pc EXCEPT ![w] = "answered"]
  /\ UNCHANGED <<list, cursor, paging, latest>>

\* A payload that is no array: paged() has no items of it and keeps its paging.
ServeOther(w) ==
  /\ pc[w] = "fetching"
  /\ \E last \in {k \in Keys : k > cursor[w]} : meta' = Attached(w, PagingAfter(last))
  /\ page' = [page EXCEPT ![w] = {}]
  /\ missing' = [missing EXCEPT ![w] = {}]
  /\ pc' = [pc EXCEPT ![w] = "answered"]
  /\ UNCHANGED <<list, cursor, paging, latest>>

Insert ==
  /\ \E k \in Keys \ list : list' = list \cup {k}
  /\ UNCHANGED <<pc, cursor, page, meta, paging, latest, missing>>

Remove ==
  /\ \E k \in list :
       /\ list' = list \ {k}
       /\ missing' = [w \in Walkers |-> missing[w] \ {k}]
  /\ UNCHANGED <<pc, cursor, page, meta, paging, latest>>

----------------------------------------------------------------------------
Walk(w) == Start(w) \/ Fail(w) \/ Receive(w) \/ GoOn(w) \/ End(w) \/ Leave(w)

Answer(w) == Serve(w) \/ ServeCut(w) \/ ServeOther(w)

Next == (\E w \in Walkers : Walk(w) \/ Answer(w)) \/ Insert \/ Remove

\* A fetch settles: it has a deadline.  A consumer that does not leave goes on.
Spec ==
  /\ Init /\ [][Next]_vars
  /\ \A w \in Walkers :
       WF_vars(Answer(w)) /\ WF_vars(Receive(w)) /\ WF_vars(GoOn(w) \/ End(w))

----------------------------------------------------------------------------
(* Properties *)

\* The types; only the first page is fetched without a cursor.
TypeOK ==
  /\ list \subseteq Keys
  /\ pc \in [Walkers -> {"idle", "fetching", "answered", "yielded", "done", "stopped"}]
  /\ cursor \in [Walkers -> Cursors]
  /\ page \in [Walkers -> SUBSET Keys]
  /\ meta \in [Walkers -> Pagings]
  /\ paging \in [Walkers -> Pagings]
  /\ latest \in [Walkers -> Cursors]
  /\ missing \in [Walkers -> SUBSET Keys]
  /\ \A w \in Walkers : pc[w] = "fetching" /\ latest[w] # 0 => cursor[w] # 0

\* A walk goes forward only: no item comes twice or behind a later one, and one
\* that came to its end has every item that was there all the time, unless the
\* server cut it or sent no array; other walks and changes of the list make no difference
\* (client.ts:427 "concurrent paged calls remain isolated").
WalkIsFaithful ==
  \A w \in Walkers :
    /\ \A k \in page[w] : latest[w] < k
    /\ pc[w] = "done" => missing[w] = {}

\* "stop to avoid an infinite loop" (pagination.ts:33): a walk whose consumer goes
\* on comes to an end, also when cursors are missing.
WalkEnds ==
  \A w \in Walkers :
    pc[w] = "fetching" ~> pc[w] \in {"done", "stopped"}
=============================================================================
