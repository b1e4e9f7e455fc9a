----------------------------- MODULE HubClient -----------------------------
(***************************************************************************)
(* The lifecycle of MT4V2SignalRClient in src/src/signalr.ts (the MT5      *)
(* client has the same code): start(), stop() and the registration of      *)
(* callbacks, over the HubConnections it builds.  start() awaits the       *)
(* import of @microsoft/signalr and then conn.start(); stop() awaits       *)
(* conn.stop() and only then forgets the connection.  Everything between   *)
(* two awaits is one action.                                               *)
(*                                                                         *)
(* HubConnection is external: start() opens it or fails, stop() closes it  *)
(* in whatever state it is, or rejects, and makes a start() under way      *)
(* fail, and a connection that drops reconnects by itself if it was built  *)
(* to.                                                                     *)
(***************************************************************************)
EXTENDS Naturals, Sequences

CONSTANTS
  Handlers,    \* callbacks the application registers
  Reconnect,   \* opts.reconnect # false: withAutomaticReconnect
  Overlap,     \* calls that need not have settled when another one is made
  MaxStarts,   \* bound: start() calls
  MaxStops     \* bound: stop() calls

ASSUME HubAssumption ==
  /\ Reconnect \in BOOLEAN /\ Overlap \subseteq {"start", "stop"}
  /\ MaxStarts \in Nat /\ MaxStops \in Nat

VARIABLES
  conns,            \* the HubConnections built so far, oldest first
  connection,       \* the one this.connection refers to, 0 for null
  pendingHandlers,  \* callbacks registered while connection was null
  registered,       \* history: all callbacks registered
  starts,           \* each start() call: where it stands, on which connection
  stops,            \* each stop() call, likewise
  orderly           \* history: the application has made its calls one at a time, and
                    \* start() never during a reconnect

vars == <<conns, connection, pendingHandlers, registered, starts, stops, orderly>>

----------------------------------------------------------------------------
States == {"Disconnected", "Connecting", "Connected", "Reconnecting", "Disconnecting"}

\* Well-typed states; a queued callback is on no connection yet, or the next
\* start() would attach it a second time.
TypeOK ==
  /\ conns \in Seq([state : States, on : SUBSET Handlers])
  /\ connection \in 0..Len(conns)
  /\ pendingHandlers \subseteq Handlers \ UNION {conns[k].on : k \in DOMAIN conns}
  /\ registered \subseteq Handlers
  /\ starts \in Seq([pc : {"import", "opening", "done", "failed"}, conn : Nat])
  /\ stops \in Seq([pc : {"closing", "done", "failed"}, conn : Nat])
  /\ orderly \in BOOLEAN

Init ==
  /\ conns = << >> /\ connection = 0
  /\ pendingHandlers = {} /\ registered = {}
  /\ starts = << >> /\ stops = << >> /\ orderly = TRUE

StartsSettled == \A i \in DOMAIN starts : starts[i].pc \in {"done", "failed"}
StopsSettled == \A j \in DOMAIN stops : stops[j].pc \in {"done", "failed"}

\* A call may be made: earlier ones have settled, or may overlap.
MayCall == /\ StartsSettled \/ "start" \in Overlap
           /\ StopsSettled \/ "stop" \in Overlap

----------------------------------------------------------------------------
(* Callbacks *)

\* Mutant of Register: a callback is applied only if the connection is open.
RegisterIfConnected(h) ==
  /\ h \notin registered
  /\ registered' = registered \cup {h}
  /\ IF connection # 0 /\ conns[connection].state = "Connected"
     THEN conns' = [conns EXCEPT ![connection].on = @ \cup {h}] /\ UNCHANGED pendingHandlers
     ELSE pendingHandlers' = pendingHandlers \cup {h} /\ UNCHANGED conns
  /\ UNCHANGED <<connection, starts, stops, orderly>>

\* register(): apply the callback to the connection, or queue it for start().
Register(h) ==
  /\ h \notin registered
  /\ registered' = registered \cup {h}
  /\ IF connection # 0
     THEN conns' = [conns EXCEPT ![connection].on = @ \cup {h}] /\ UNCHANGED pendingHandlers
     ELSE pendingHandlers' = pendingHandlers \cup {h} /\ UNCHANGED conns
  /\ UNCHANGED <<connection, starts, stops, orderly>>

----------------------------------------------------------------------------
(* start() *)

\* Mutant of AlreadyStarted: any start() goes on to build a connection.
NeverStarted == FALSE

\* The early return of start().
AlreadyStarted == connection # 0 /\ conns[connection].state = "Connected"

\* The client's connection has dropped and is reconnecting by itself.
Reconnecting == connection # 0 /\ conns[connection].state = "Reconnecting"

\* start() up to the import.
CallStart ==
  /\ MayCall /\ Len(starts) < MaxStarts
  /\ starts' = Append(starts, [pc |-> IF AlreadyStarted THEN "done" ELSE "import",
                               conn |-> connection])
  /\ orderly' = (orderly /\ StartsSettled /\ StopsSettled /\ ~Reconnecting)
  /\ UNCHANGED <<conns, connection, pendingHandlers, registered, stops>>

\* The optional dependency cannot be loaded.
ImportFails(i) ==
  /\ starts[i].pc = "import"
  /\ starts' = [starts EXCEPT ![i].pc = "failed"]
  /\ UNCHANGED <<conns, connection, pendingHandlers, registered, stops, orderly>>

\* The connection start() is about to build.
NewConn == Len(conns) + 1

\* Mutant of Build: the queue is drained before the connection takes it over.
BuildDropsQueue(i) ==
  /\ starts[i].pc = "import"
  /\ conns' = Append(conns, [state |-> "Connecting", on |-> {}])
  /\ connection' = NewConn
  /\ pendingHandlers' = {}
  /\ starts' = [starts EXCEPT ![i] = [pc |-> "opening", conn |-> NewConn]]
  /\ UNCHANGED <<registered, stops, orderly>>

\* Mutant of Build: the queue is not emptied.
BuildKeepsQueue(i) ==
  /\ starts[i].pc = "import"
  /\ conns' = Append(conns, [state |-> "Connecting", on |-> pendingHandlers])
  /\ connection' = NewConn
  /\ starts' = [starts EXCEPT ![i] = [pc |-> "opening", conn |-> NewConn]]
  /\ UNCHANGED <<pendingHandlers, registered, stops, orderly>>

\* start() after the import: build a connection, attach the queued callbacks
\* and start it.
Build(i) ==
  /\ starts[i].pc = "import"
  /\ conns' = Append(conns, [state |-> "Connecting", on |-> pendingHandlers])
  /\ connection' = NewConn
  /\ pendingHandlers' = {}
  /\ starts' = [starts EXCEPT ![i] = [pc |-> "opening", conn |-> NewConn]]
  /\ UNCHANGED <<registered, stops, orderly>>

\* conn.start() resolves or rejects, and start() with it.
ConnStarted(i, outcome, state) ==
  /\ starts[i].pc = "opening" /\ conns[starts[i].conn].state = "Connecting"
  /\ starts' = [starts EXCEPT ![i].pc = outcome]
  /\ conns' = [conns EXCEPT ![starts[i].conn].state = state]
  /\ UNCHANGED <<connection, pendingHandlers, registered, stops, orderly>>

Opened(i) == ConnStarted(i, "done", "Connected")
OpenFails(i) == ConnStarted(i, "failed", "Disconnected")

----------------------------------------------------------------------------
(* stop() *)

\* stop() up to the await: ask the connection to close.
CallStop ==
  /\ MayCall /\ Len(stops) < MaxStops
  /\ IF connection = 0
     THEN stops' = Append(stops, [pc |-> "done", conn |-> 0]) /\ UNCHANGED conns
     ELSE /\ stops' = Append(stops, [pc |-> "closing", conn |-> connection])
          /\ conns' = [conns EXCEPT ![connection].state =
                         IF @ = "Disconnected" THEN @ ELSE "Disconnecting"]
  /\ orderly' = (orderly /\ StartsSettled /\ StopsSettled)
  /\ UNCHANGED <<connection, pendingHandlers, registered, starts>>

\* conn.stop() settles.  A start() of that connection still under way rejects.
StopEnds(j, outcome, state) ==
  /\ stops[j].pc = "closing"
  /\ stops' = [stops EXCEPT ![j].pc = outcome]
  /\ conns' = [conns EXCEPT ![stops[j].conn].state =
                  IF @ = "Disconnected" THEN @ ELSE state]
  /\ starts' = [i \in DOMAIN starts |->
                  IF starts[i].pc = "opening" /\ starts[i].conn = stops[j].conn
                  THEN [starts[i] EXCEPT !.pc = "failed"] ELSE starts[i]]
  /\ UNCHANGED <<pendingHandlers, registered, orderly>>

\* It resolves: this.connection becomes null, whatever it refers to by now.
StopDone(j) == StopEnds(j, "done", "Disconnected") /\ connection' = 0

\* It rejects, and stop() with it: this.connection stays, closed or half closed.
StopFails(j) ==
  /\ \E state \in {"Disconnecting", "Disconnected"} : StopEnds(j, "failed", state)
  /\ UNCHANGED connection

----------------------------------------------------------------------------
(* HubConnection and the network *)

Becomes(k, from, to) ==
  /\ conns[k].state = from
  /\ conns' = [conns EXCEPT ![k].state = to]
  /\ UNCHANGED <<connection, pendingHandlers, registered, starts, stops, orderly>>

\* The connection is lost.
Drop(k) == Becomes(k, "Connected", IF Reconnect THEN "Reconnecting" ELSE "Disconnected")

Reconnected(k) == Becomes(k, "Reconnecting", "Connected")
GiveUp(k) == Becomes(k, "Reconnecting", "Disconnected")

Next ==
  \/ \E h \in Handlers : Register(h)
  \/ CallStart \/ CallStop
  \/ \E i \in DOMAIN starts : ImportFails(i) \/ Build(i) \/ Opened(i) \/ OpenFails(i)
  \/ \E j \in DOMAIN stops : StopDone(j) \/ StopFails(j)
  \/ \E k \in DOMAIN conns : Drop(k) \/ Reconnected(k) \/ GiveUp(k)

Spec == Init /\ [][Next]_vars

----------------------------------------------------------------------------
(* Properties *)

\* The connection is open, or will be: nobody has asked it to close.
Live(k) == conns[k].state \in {"Connecting", "Connected", "Reconnecting"}

\* A callback is never lost between the queue and a connection: it is attached to
\* one, or it waits in the queue, and then there is no connection it should
\* already be on (signalr.ts:246-257, 312-319).
NoCallbackInLimbo ==
  /\ registered = pendingHandlers \cup UNION {conns[k].on : k \in DOMAIN conns}
  /\ pendingHandlers # {} => connection = 0

\* While the first connection is the client's connection, it has every callback
\* there is, so it has them all before it opens (signalr.ts:180-182).
FirstConnectionHasAll ==
  connection = 1 => registered = conns[1].on

\* "Holds a single `HubConnection`" (signalr.ts:170): at most one connection is
\* alive, and it is the one that stop() and the helpers reach.
SingleConnection == \A k \in DOMAIN conns : Live(k) => k = connection

\* The same of an application that awaits every start() and stop() before the
\* next one and calls no start() while its connection is reconnecting, whatever
\* drops, is given up or fails to open or to close (signalr.ts:288, 310-311, 334-336).
OrderlyIsSingle == orderly => SingleConnection

\* "All callbacks queued before `start()` are attached to the `HubConnection`
\* before the socket opens" (signalr.ts:180-182): an open connection that the
\* client uses has every callback registered so far.
OpenConnectionHasAll ==
  connection # 0 /\ conns[connection].state = "Connected" =>
    registered \subseteq conns[connection].on
=============================================================================
