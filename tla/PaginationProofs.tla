-------------------------- MODULE PaginationProofs --------------------------
(***************************************************************************)
(* The walks of Pagination are well typed and faithful, for every set of   *)
(* keys, every number of walks at a time and pages of every length.        *)
(***************************************************************************)
EXTENDS Pagination, TLAPS

----------------------------------------------------------------------------
(* The inductive invariant *)

Phases == {"idle", "fetching", "answered", "yielded", "done", "stopped"}

Types ==
  /\ list \subseteq Keys
  /\ pc \in [Walkers -> Phases]
  /\ cursor \in [Walkers -> Cursors]
  /\ page \in [Walkers -> SUBSET Keys]
  /\ meta \in [Walkers -> Pagings]
  /\ paging \in [Walkers -> Pagings]
  /\ latest \in [Walkers -> Cursors]
  /\ missing \in [Walkers -> SUBSET Keys]

\* Everything given lies up to the cursor, everything else behind it.
Place(w) ==
  /\ missing[w] \subseteq list
  /\ \A k \in missing[w] : cursor[w] < k
  /\ \A k \in page[w] : cursor[w] < k
  /\ latest[w] <= cursor[w]

\* What the metadata says of a payload at hand: it has what is missing up to
\* the next page, or all of it.
Covers(w) ==
  /\ Continues(meta[w]) =>
       /\ cursor[w] < meta[w].next
       /\ \A k \in page[w] : k <= meta[w].next
       /\ \A k \in missing[w] : k <= meta[w].next => k \in page[w]
  /\ ~Continues(meta[w]) => missing[w] \subseteq page[w]

WalkInv(w) ==
  /\ Place(w)
  /\ pc[w] \in {"answered", "yielded"} => Covers(w)
  /\ pc[w] = "yielded" => paging[w] = meta[w]
  /\ pc[w] \in {"idle", "done", "stopped"} => missing[w] = {} /\ cursor[w] = 0

IInv == Types /\ \A w \in Walkers : WalkInv(w)

----------------------------------------------------------------------------
\* A walk that a step leaves alone, on a list that it does not change.
LEMMA LeftAlone ==
  ASSUME NEW v, WalkInv(v), list' = list,
         pc'[v] = pc[v], cursor'[v] = cursor[v], page'[v] = page[v],
         meta'[v] = meta[v], paging'[v] = paging[v], latest'[v] = latest[v],
         missing'[v] = missing[v]
  PROVE  WalkInv(v)'
BY DEF WalkInv, Place, Covers, Continues


\* What the types say of the numbers of a walk.
LEMMA Numbers ==
  ASSUME Types, NEW w \in Walkers
  PROVE  /\ Keys \subseteq Nat /\ 0 \notin Keys
         /\ cursor[w] \in Nat /\ latest[w] \in Nat
         /\ meta[w].next \in Nat /\ paging[w].next \in Nat
         /\ page[w] \subseteq Keys /\ missing[w] \subseteq Keys
<1>1. Keys \subseteq Nat /\ 0 \notin Keys
  BY KeysAssumption
<1>2. cursor[w] \in Cursors /\ latest[w] \in Cursors
  BY DEF Types
<1>3. meta[w] \in Pagings /\ paging[w] \in Pagings
  BY DEF Types
<1>4. page[w] \subseteq Keys /\ missing[w] \subseteq Keys
  BY DEF Types
<1>5. \A c \in Cursors : c \in Nat
  BY <1>1 DEF Cursors
<1>6. meta[w].next \in Cursors /\ paging[w].next \in Cursors
  BY <1>3 DEF Pagings
<1> QED
  BY <1>1, <1>2, <1>4, <1>5, <1>6

\* The invariant shows the properties.
LEMMA InvariantSuffices ==
  ASSUME IInv
  PROVE  TypeOK /\ WalkIsFaithful
<1>0. Types
  BY DEF IInv
<1>1. TypeOK
  <2>1. ASSUME NEW w \in Walkers, latest[w] # 0
        PROVE  cursor[w] # 0
    <3>1. latest[w] <= cursor[w]
      BY DEF IInv, WalkInv, Place
    <3> QED
      BY <1>0, <2>1, <3>1, Numbers
  <2> QED
    BY <1>0, <2>1 DEF Types, Phases, TypeOK
<1>2. WalkIsFaithful
  <2>1. ASSUME NEW w \in Walkers, NEW k \in page[w]
        PROVE  latest[w] < k
    <3>1. latest[w] <= cursor[w] /\ cursor[w] < k
      BY DEF IInv, WalkInv, Place
    <3>2. k \in Nat /\ latest[w] \in Nat /\ cursor[w] \in Nat
      BY <1>0, Numbers
    <3> QED
      BY <3>1, <3>2
  <2>2. ASSUME NEW w \in Walkers, pc[w] = "done"
        PROVE  missing[w] = {}
    BY <2>2 DEF IInv, WalkInv
  <2> QED
    BY <2>1, <2>2 DEF WalkIsFaithful
<1> QED
  BY <1>1, <1>2

LEMMA Initially == Init => IInv
<1> SUFFICES ASSUME Init PROVE IInv
  OBVIOUS
<1>1. Types
  BY DEF Init, Types, Phases, Cursors, Pagings, NoPaging
<1>2. ASSUME NEW w \in Walkers
      PROVE  WalkInv(w)
  <2>1. pc[w] = "idle" /\ cursor[w] = 0 /\ latest[w] = 0 /\ page[w] = {} /\ missing[w] = {}
    BY DEF Init
  <2> QED
    BY <2>1 DEF WalkInv, Place
<1> QED
  BY <1>1, <1>2 DEF IInv

----------------------------------------------------------------------------
(* The steps of a walk *)

\* The walk starts with everything missing, from in front of the list.
LEMMA StartKeeps ==
  ASSUME IInv, NEW w \in Walkers, Start(w)
  PROVE  IInv'
<1>0. Types /\ WalkInv(w)
  BY DEF IInv
<1>1. Types'
  BY <1>0 DEF Types, Phases, Start
<1>2. ASSUME NEW v \in Walkers, v # w
      PROVE  WalkInv(v)'
  BY <1>0, <1>2, LeftAlone DEF IInv, Types, Start
<1>3. WalkInv(w)'
  <2>1. /\ pc'[w] = "fetching" /\ missing'[w] = list /\ list' = list
        /\ cursor'[w] = cursor[w] /\ page'[w] = page[w] /\ latest'[w] = latest[w]
    BY <1>0 DEF Start, Types
  <2>2. cursor[w] = 0
    BY <1>0 DEF Start, WalkInv
  <2>3. \A k \in list : 0 < k
    BY <1>0, Numbers DEF Types
  <2>4. Place(w)'
    BY <1>0, <2>1, <2>2, <2>3 DEF WalkInv, Place
  <2> QED
    BY <2>1, <2>4 DEF WalkInv
<1> QED
  BY <1>1, <1>2, <1>3 DEF IInv

\* A walk that ends with nothing missing.
LEMMA EndedIsEmpty ==
  ASSUME NEW w, NEW q \in {"done", "stopped"}, pc'[w] = q,
         cursor'[w] = 0, latest'[w] = 0, page'[w] = {}, missing'[w] = {}
  PROVE  WalkInv(w)'
<1>1. Place(w)'
  BY DEF Place
<1> QED
  BY <1>1 DEF WalkInv

LEMMA StopKeeps ==
  ASSUME IInv, NEW w \in Walkers, Stop(w)
  PROVE  IInv'
<1>0. Types /\ WalkInv(w)
  BY DEF IInv
<1>1. Types'
  BY <1>0 DEF Types, Phases, Stop, Drop, Cursors, Pagings, NoPaging
<1>2. ASSUME NEW v \in Walkers, v # w
      PROVE  WalkInv(v)'
  BY <1>0, <1>2, LeftAlone DEF IInv, Types, Stop, Drop
<1>3. WalkInv(w)'
  <2>1. /\ pc'[w] = "stopped" /\ missing'[w] = {}
        /\ cursor'[w] = 0 /\ page'[w] = {} /\ latest'[w] = 0
    BY <1>0 DEF Stop, Drop, Types
  <2> QED
    BY <2>1, EndedIsEmpty
<1> QED
  BY <1>1, <1>2, <1>3 DEF IInv

LEMMA ReceiveKeeps ==
  ASSUME IInv, NEW w \in Walkers, Receive(w)
  PROVE  IInv'
<1>0. Types /\ WalkInv(w)
  BY DEF IInv
<1>1. Types'
  BY <1>0 DEF Types, Phases, Receive
<1>2. ASSUME NEW v \in Walkers, v # w
      PROVE  WalkInv(v)'
  BY <1>0, <1>2, LeftAlone DEF IInv, Types, Receive
<1>3. WalkInv(w)'
  <2>1. /\ pc'[w] = "yielded" /\ paging'[w] = meta[w] /\ list' = list
        /\ cursor'[w] = cursor[w] /\ page'[w] = page[w] /\ latest'[w] = latest[w]
        /\ meta'[w] = meta[w] /\ missing'[w] = missing[w]
    BY <1>0 DEF Receive, Types
  <2>2. Place(w) /\ Covers(w)
    BY <1>0 DEF Receive, WalkInv
  <2>3. Place(w)' /\ Covers(w)'
    BY <2>1, <2>2 DEF Place, Covers, Continues
  <2> QED
    BY <2>1, <2>3 DEF WalkInv
<1> QED
  BY <1>1, <1>2, <1>3 DEF IInv

\* The cursor moves on to the next page; what was given is up to there, what
\* is missing behind.
LEMMA GoOnKeeps ==
  ASSUME IInv, NEW w \in Walkers, GoOn(w)
  PROVE  IInv'
<1>0. Types /\ WalkInv(w)
  BY DEF IInv
<1>a. PICK k \in page[w] \cup {latest[w]} : latest' = [latest EXCEPT ![w] = k]
  BY DEF GoOn
<1>b. k \in Cursors
  BY <1>0, <1>a DEF Types, Cursors
<1>c. paging[w] = meta[w] /\ Place(w) /\ Covers(w) /\ Continues(meta[w])
  BY <1>0 DEF GoOn, WalkInv
<1>d. meta[w] \in Pagings
  BY <1>0 DEF Types
<1>1. Types'
  <2>1. cursor' \in [Walkers -> Cursors]
    BY <1>0, <1>c, <1>d DEF GoOn, Types, Pagings
  <2>2. latest' \in [Walkers -> Cursors]
    BY <1>0, <1>a, <1>b DEF Types
  <2>3. missing' \in [Walkers -> SUBSET Keys]
    BY <1>0 DEF GoOn, Types
  <2> QED
    BY <1>0, <2>1, <2>2, <2>3 DEF Types, Phases, GoOn, Pagings, NoPaging, Cursors
<1>2. ASSUME NEW v \in Walkers, v # w
      PROVE  WalkInv(v)'
  BY <1>0, <1>2, <1>a, LeftAlone DEF IInv, Types, GoOn
<1>3. WalkInv(w)'
  <2>1. /\ pc'[w] = "fetching" /\ cursor'[w] = meta[w].next /\ list' = list
        /\ page'[w] = {} /\ latest'[w] = k /\ missing'[w] = missing[w] \ page[w]
    BY <1>0, <1>a, <1>c DEF GoOn, Types
  <2>2. /\ cursor[w] < meta[w].next
        /\ \A j \in page[w] : j <= meta[w].next
        /\ \A j \in missing[w] : j <= meta[w].next => j \in page[w]
    BY <1>c DEF Covers
  <2>3. /\ Keys \subseteq Nat /\ cursor[w] \in Nat /\ latest[w] \in Nat
        /\ meta[w].next \in Nat /\ missing[w] \subseteq Keys
    BY <1>0, Numbers
  <2>4. k <= meta[w].next
    <3>1. CASE k \in page[w]
      BY <2>2, <3>1
    <3>2. CASE k = latest[w]
      <4>1. latest[w] <= cursor[w]
        BY <1>c DEF Place
      <4> QED
        BY <2>2, <2>3, <3>2, <4>1
    <3> QED
      BY <3>1, <3>2
  <2>5. ASSUME NEW j \in missing[w] \ page[w]
        PROVE  meta[w].next < j
    <3>1. ~(j <= meta[w].next)
      BY <2>2
    <3>2. j \in Nat /\ meta[w].next \in Nat
      BY <2>3
    <3> QED
      BY <3>1, <3>2
  <2>6. missing[w] \subseteq list
    BY <1>c DEF Place
  <2>7. Place(w)'
    BY <2>1, <2>4, <2>5, <2>6 DEF Place
  <2> QED
    BY <2>1, <2>7 DEF WalkInv
<1> QED
  BY <1>1, <1>2, <1>3 DEF IInv

\* No page follows: this one had all that was missing.
LEMMA EndKeeps ==
  ASSUME IInv, NEW w \in Walkers, End(w)
  PROVE  IInv'
<1>0. Types /\ WalkInv(w)
  BY DEF IInv
<1>1. Types'
  <2>1. missing' \in [Walkers -> SUBSET Keys]
    BY <1>0 DEF End, Types
  <2> QED
    BY <1>0, <2>1 DEF Types, Phases, End, Drop, Pagings, NoPaging, Cursors
<1>2. ASSUME NEW v \in Walkers, v # w
      PROVE  WalkInv(v)'
  BY <1>0, <1>2, LeftAlone DEF IInv, Types, End, Drop
<1>3. WalkInv(w)'
  <2>1. /\ pc'[w] = "done" /\ missing'[w] = missing[w] \ page[w]
        /\ cursor'[w] = 0 /\ page'[w] = {} /\ latest'[w] = 0
    BY <1>0 DEF End, Drop, Types
  <2>2. paging[w] = meta[w] /\ Covers(w) /\ ~Continues(meta[w])
    BY <1>0 DEF End, WalkInv
  <2>3. missing'[w] = {}
    BY <2>1, <2>2 DEF Covers
  <2> QED
    BY <2>1, <2>3, EndedIsEmpty
<1> QED
  BY <1>1, <1>2, <1>3 DEF IInv

----------------------------------------------------------------------------
(* The steps of the server *)

\* A walk whose answer has arrived is where it was, with a page that covers it.
LEMMA Answered ==
  ASSUME NEW w, WalkInv(w), list' = list, pc'[w] = "answered", cursor'[w] = cursor[w],
         latest'[w] = latest[w], missing'[w] \subseteq missing[w],
         \A k \in page'[w] : cursor[w] < k, Covers(w)'
  PROVE  WalkInv(w)'
<1>1. Place(w)'
  BY DEF WalkInv, Place
<1> QED
  BY <1>1 DEF WalkInv

LEMMA ServeKeeps ==
  ASSUME IInv, NEW w \in Walkers, Serve(w)
  PROVE  IInv'
<1>0. Types /\ WalkInv(w)
  BY DEF IInv
<1> DEFINE more(l) == \E k \in list : k > l
           next(l) == IF more(l) THEN l ELSE 0
<1>a. PICK l \in {k \in Keys : k > cursor[w]} :
        /\ page' = [page EXCEPT ![w] = PageItems(w, l)]
        /\ meta' = [meta EXCEPT ![w] = [more |-> more(l), next |-> next(l)]]
  BY DEF Serve, Attached, PagingAfter
<1>b. /\ Keys \subseteq Nat /\ 0 \notin Keys /\ cursor[w] \in Nat /\ l \in Nat /\ l # 0
      /\ cursor[w] < l
  BY <1>0, <1>a, Numbers
<1>c. list \subseteq Nat /\ missing[w] \subseteq list /\ \A k \in missing[w] : cursor[w] < k
  BY <1>0, <1>b DEF Types, WalkInv, Place
<1>1. Types'
  <2>1. PageItems(w, l) \subseteq Keys
    BY <1>0 DEF Types, PageItems
  <2>2. [more |-> more(l), next |-> next(l)] \in Pagings
    BY <1>a DEF Pagings, Cursors
  <2>3. page' \in [Walkers -> SUBSET Keys] /\ meta' \in [Walkers -> Pagings]
    BY <1>0, <1>a, <2>1, <2>2 DEF Types
  <2> QED
    BY <1>0, <2>3 DEF Types, Phases, Serve
<1>2. ASSUME NEW v \in Walkers, v # w
      PROVE  WalkInv(v)'
  BY <1>0, <1>2, <1>a, LeftAlone DEF IInv, Types, Serve
<1>3. WalkInv(w)'
  <2>1. /\ pc'[w] = "answered" /\ page'[w] = PageItems(w, l) /\ list' = list
        /\ meta'[w] = [more |-> more(l), next |-> next(l)]
        /\ cursor'[w] = cursor[w] /\ latest'[w] = latest[w] /\ missing'[w] = missing[w]
    BY <1>0, <1>a DEF Serve, Types
  <2>2. \A k \in PageItems(w, l) : cursor[w] < k /\ k <= l
    BY DEF PageItems
  <2>3. \A k \in missing[w] : k <= l => k \in PageItems(w, l)
    BY <1>c DEF PageItems
  <2>4. ASSUME ~more(l)
        PROVE  missing[w] \subseteq PageItems(w, l)
    <3>1. \A k \in list : k <= l
      BY <1>b, <1>c, <2>4
    <3> QED
      BY <1>c, <2>3, <3>1
  <2>5. CASE more(l)
    <3>1. Continues(meta[w])' /\ meta'[w].next = l
      BY <1>b, <2>1, <2>5 DEF Continues
    <3>2. Covers(w)'
      BY <1>b, <2>1, <2>2, <2>3, <3>1 DEF Covers
    <3> QED
      BY <1>0, <2>1, <2>2, <3>2, Answered
  <2>6. CASE ~more(l)
    <3>1. ~Continues(meta[w])'
      BY <2>1, <2>6 DEF Continues
    <3>2. Covers(w)'
      BY <2>1, <2>4, <2>6, <3>1 DEF Covers
    <3> QED
      BY <1>0, <2>1, <2>2, <3>2, Answered
  <2> QED
    BY <2>5, <2>6
<1> QED
  BY <1>1, <1>2, <1>3 DEF IInv

LEMMA ServeCutKeeps ==
  ASSUME IInv, NEW w \in Walkers, ServeCut(w)
  PROVE  IInv'
<1>0. Types /\ WalkInv(w)
  BY DEF IInv
<1>a. PICK l \in {k \in Keys : k > cursor[w]}, more \in BOOLEAN :
        /\ page' = [page EXCEPT ![w] = PageItems(w, l)]
        /\ meta' = [meta EXCEPT ![w] = [more |-> more, next |-> 0]]
  BY DEF ServeCut, Attached
<1>1. Types'
  <2>1. PageItems(w, l) \subseteq Keys
    BY <1>0 DEF Types, PageItems
  <2>2. [more |-> more, next |-> 0] \in Pagings
    BY <1>a DEF Pagings, Cursors
  <2>3. page' \in [Walkers -> SUBSET Keys] /\ meta' \in [Walkers -> Pagings]
    BY <1>0, <1>a, <2>1, <2>2 DEF Types
  <2> QED
    BY <1>0, <2>3 DEF Types, Phases, ServeCut
<1>2. ASSUME NEW v \in Walkers, v # w
      PROVE  WalkInv(v)'
  BY <1>0, <1>2, <1>a, LeftAlone DEF IInv, Types, ServeCut
<1>3. WalkInv(w)'
  <2>1. /\ pc'[w] = "answered" /\ page'[w] = PageItems(w, l) /\ list' = list
        /\ meta'[w] = [more |-> more, next |-> 0]
        /\ cursor'[w] = cursor[w] /\ latest'[w] = latest[w] /\ missing'[w] = {}
    BY <1>0, <1>a DEF ServeCut, Types
  <2>2. \A k \in PageItems(w, l) : cursor[w] < k
    BY DEF PageItems
  <2>3. ~Continues(meta[w])'
    BY <2>1 DEF Continues
  <2>4. Covers(w)'
    BY <2>1, <2>3 DEF Covers
  <2> QED
    BY <1>0, <2>1, <2>2, <2>4, Answered
<1> QED
  BY <1>1, <1>2, <1>3 DEF IInv

LEMMA ServeOtherKeeps ==
  ASSUME IInv, NEW w \in Walkers, ServeOther(w)
  PROVE  IInv'
<1>0. Types /\ WalkInv(w)
  BY DEF IInv
<1> DEFINE more(l) == \E k \in list : k > l
           next(l) == IF more(l) THEN l ELSE 0
<1>a. PICK l \in {k \in Keys : k > cursor[w]} :
        meta' = [meta EXCEPT ![w] = [more |-> more(l), next |-> next(l)]]
  BY DEF ServeOther, Attached, PagingAfter
<1>b. page' = [page EXCEPT ![w] = {}] /\ missing' = [missing EXCEPT ![w] = {}]
  BY DEF ServeOther
<1>1. Types'
  <2>1. [more |-> more(l), next |-> next(l)] \in Pagings
    BY <1>a DEF Pagings, Cursors
  <2>2. /\ page' \in [Walkers -> SUBSET Keys] /\ meta' \in [Walkers -> Pagings]
        /\ missing' \in [Walkers -> SUBSET Keys]
    BY <1>0, <1>a, <1>b, <2>1 DEF Types
  <2> QED
    BY <1>0, <2>2 DEF Types, Phases, ServeOther
<1>2. ASSUME NEW v \in Walkers, v # w
      PROVE  WalkInv(v)'
  BY <1>0, <1>2, <1>a, <1>b, LeftAlone DEF IInv, Types, ServeOther
<1>3. WalkInv(w)'
  <2>1. /\ pc'[w] = "answered" /\ page'[w] = {} /\ list' = list
        /\ meta'[w] = [more |-> more(l), next |-> next(l)]
        /\ cursor'[w] = cursor[w] /\ latest'[w] = latest[w] /\ missing'[w] = {}
    BY <1>0, <1>a, <1>b DEF ServeOther, Types
  <2>2. Continues(meta[w])' => cursor'[w] < meta'[w].next
    BY <1>a, <2>1 DEF Continues
  <2>3. Covers(w)'
    BY <2>1, <2>2 DEF Covers
  <2> QED
    BY <1>0, <2>1, <2>3, Answered
<1> QED
  BY <1>1, <1>2, <1>3 DEF IInv

\* A new item is not one that was there all the time.
LEMMA InsertKeeps ==
  ASSUME IInv, Insert
  PROVE  IInv'
<1>1. Types'
  BY DEF IInv, Types, Phases, Insert
<1>2. ASSUME NEW v \in Walkers
      PROVE  WalkInv(v)'
  <2>1. WalkInv(v)
    BY DEF IInv
  <2> QED
    BY <2>1 DEF Insert, WalkInv, Place, Covers, Continues
<1> QED
  BY <1>1, <1>2 DEF IInv

LEMMA RemoveKeeps ==
  ASSUME IInv, Remove
  PROVE  IInv'
<1>a. PICK k \in list : /\ list' = list \ {k}
                        /\ missing' = [w \in Walkers |-> missing[w] \ {k}]
  BY DEF Remove
<1>1. Types'
  BY <1>a DEF IInv, Types, Phases, Remove
<1>2. ASSUME NEW v \in Walkers
      PROVE  WalkInv(v)'
  <2>1. WalkInv(v)
    BY DEF IInv
  <2>2. missing'[v] = missing[v] \ {k}
    BY <1>a
  <2> QED
    BY <1>a, <2>1, <2>2 DEF Remove, WalkInv, Place, Covers, Continues
<1> QED
  BY <1>1, <1>2 DEF IInv

----------------------------------------------------------------------------
\* Every step keeps the invariant.
LEMMA StepsKeep == IInv /\ [Next]_vars => IInv'
<1> SUFFICES ASSUME IInv, [Next]_vars PROVE IInv'
  OBVIOUS
<1>1. ASSUME NEW w \in Walkers, Walk(w)
      PROVE  IInv'
  BY <1>1, StartKeeps, StopKeeps, ReceiveKeeps, GoOnKeeps, EndKeeps DEF Walk, Fail, Leave
<1>2. ASSUME NEW w \in Walkers, Answer(w)
      PROVE  IInv'
  BY <1>2, ServeKeeps, ServeCutKeeps, ServeOtherKeeps DEF Answer
<1>3. ASSUME UNCHANGED vars
      PROVE  IInv'
  BY <1>3 DEF vars, IInv, Types, WalkInv, Place, Covers, Continues
<1> QED
  BY <1>1, <1>2, <1>3, InsertKeeps, RemoveKeeps DEF Next

LEMMA PaginationInvariant == Spec => []IInv
BY Initially, StepsKeep, PTL DEF Spec

\* The types, and that only the first page of a walk is fetched without a
\* cursor: no walk starts again from the front.
THEOREM PaginationTypes == Spec => []TypeOK
<1>1. IInv => TypeOK
  BY InvariantSuffices
<1> QED
  BY <1>1, PaginationInvariant, PTL

\* No item comes twice or out of order, and a walk that came to its end, on a
\* server that always names the next page, has every item that was there all
\* the time, whatever other walks and changes of the list came in between.
THEOREM WalksAreFaithful == Spec => []WalkIsFaithful
<1>1. IInv => WalkIsFaithful
  BY InvariantSuffices
<1> QED
  BY <1>1, PaginationInvariant, PTL
=============================================================================
