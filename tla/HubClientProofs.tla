--------------------------- MODULE HubClientProofs ---------------------------
(***************************************************************************)
(* Proofs about HubClient, for every set of callbacks and every number of  *)
(* start() and stop() calls.                                               *)
(***************************************************************************)
EXTENDS HubClient, SequenceTheorems, TLAPS

----------------------------------------------------------------------------
(* Connections *)

Conn == [state : States, on : SUBSET Handlers]
StartCall == [pc : {"import", "opening", "done", "failed"}, conn : Nat]
StopCall == [pc : {"closing", "done", "failed"}, conn : Nat]

\* A call under way is about a connection that was built.
CallsFit ==
  /\ \A i \in 1..Len(starts) : starts[i].pc = "opening" => starts[i].conn \in 1..Len(conns)
  /\ \A j \in 1..Len(stops) : stops[j].pc = "closing" => stops[j].conn \in 1..Len(conns)

\* A callback on a connection is registered and not queued; so is a queued one.
Apart ==
  /\ pendingHandlers \subseteq registered
  /\ \A k \in 1..Len(conns) : /\ conns[k].on \subseteq registered
                              /\ conns[k].on \cap pendingHandlers = {}

TInv == TypeOK /\ CallsFit /\ Apart

LEMMA Lengths ==
  ASSUME TypeOK
  PROVE  /\ conns \in Seq(Conn) /\ starts \in Seq(StartCall) /\ stops \in Seq(StopCall)
         /\ Len(conns) \in Nat /\ Len(starts) \in Nat /\ Len(stops) \in Nat
         /\ DOMAIN conns = 1..Len(conns) /\ DOMAIN starts = 1..Len(starts)
         /\ DOMAIN stops = 1..Len(stops)
  BY LenProperties DEF TypeOK, Conn, StartCall, StopCall

\* The parts of the type invariant, and what they make together.
BaseTypes ==
  /\ conns \in Seq(Conn) /\ starts \in Seq(StartCall) /\ stops \in Seq(StopCall)
  /\ connection \in 0..Len(conns) /\ pendingHandlers \subseteq Handlers
  /\ registered \subseteq Handlers /\ orderly \in BOOLEAN

LEMMA TypeParts ==
  ASSUME BaseTypes, Apart
  PROVE  TypeOK
<1>1. DOMAIN conns = 1..Len(conns)
  BY LenProperties DEF BaseTypes
<1>2. ASSUME NEW h \in pendingHandlers
      PROVE  h \in Handlers \ UNION {conns[k].on : k \in DOMAIN conns}
  BY <1>1, <1>2 DEF BaseTypes, Apart
<1> QED BY <1>2 DEF BaseTypes, TypeOK, Conn, StartCall, StopCall

\* The ways a stop() ends.
StopOver(j) == StopDone(j) \/ StopFails(j)

\* A connection changes its state: nothing else does.
SetState(k, state) ==
  /\ conns' \in Seq(Conn) /\ Len(conns') = Len(conns)
  /\ \A m \in 1..Len(conns) : /\ conns'[m].on = conns[m].on
                              /\ conns'[m].state = IF m = k THEN state ELSE conns[m].state

LEMMA StateSet ==
  ASSUME conns \in Seq(Conn), NEW k \in 1..Len(conns), NEW state \in States,
         conns' = [conns EXCEPT ![k].state = state]
  PROVE  SetState(k, state)
<1> DEFINE new == [conns[k] EXCEPT !.state = state]
<1>1. conns[k] \in Conn
  BY ElementOfSeq
<1>2. new \in Conn /\ new.state = state /\ new.on = conns[k].on
  BY <1>1 DEF Conn
<1>3. conns' = [conns EXCEPT ![k] = new]
  OBVIOUS
<1> HIDE DEF new
<1>4. /\ conns' \in Seq(Conn) /\ Len(conns') = Len(conns)
      /\ \A m \in 1..Len(conns) : conns'[m] = IF m = k THEN new ELSE conns[m]
  BY <1>2, <1>3, ExceptSeq
<1> QED BY <1>2, <1>4 DEF SetState

\* The steps that only change the state of one connection.
LEMMA StateSteps ==
  ASSUME TInv
  PROVE  /\ \A i \in 1..Len(starts) :
              /\ Opened(i) => SetState(starts[i].conn, "Connected")
              /\ OpenFails(i) => SetState(starts[i].conn, "Disconnected")
         /\ CallStop /\ connection # 0 =>
              SetState(connection, IF conns[connection].state = "Disconnected"
                                   THEN "Disconnected" ELSE "Disconnecting")
         /\ \A j \in 1..Len(stops) : StopOver(j) =>
              \E state \in {"Disconnecting", "Disconnected"} : SetState(stops[j].conn, state)
         /\ \A k \in 1..Len(conns) :
              /\ Drop(k) => SetState(k, IF Reconnect THEN "Reconnecting" ELSE "Disconnected")
              /\ Reconnected(k) => SetState(k, "Connected")
              /\ GiveUp(k) => SetState(k, "Disconnected")
<1>1. conns \in Seq(Conn) /\ Len(conns) \in Nat
  BY Lengths DEF TInv
<1>2. ASSUME NEW i \in 1..Len(starts)
      PROVE  /\ Opened(i) => SetState(starts[i].conn, "Connected")
             /\ OpenFails(i) => SetState(starts[i].conn, "Disconnected")
  <2>1. ASSUME NEW outcome, NEW state \in States, ConnStarted(i, outcome, state)
        PROVE  SetState(starts[i].conn, state)
    <3>1. starts[i].conn \in 1..Len(conns)
      BY <2>1 DEF ConnStarted, TInv, CallsFit
    <3>2. conns' = [conns EXCEPT ![starts[i].conn].state = state]
      BY <2>1 DEF ConnStarted
    <3> QED BY <1>1, <3>1, <3>2, StateSet
  <2> QED BY <2>1 DEF Opened, OpenFails, States
<1>3. ASSUME CallStop, connection # 0
      PROVE  SetState(connection, IF conns[connection].state = "Disconnected"
                                  THEN "Disconnected" ELSE "Disconnecting")
  <2> DEFINE state == IF conns[connection].state = "Disconnected"
                      THEN "Disconnected" ELSE "Disconnecting"
  <2>1. connection \in 1..Len(conns) /\ state \in States
    BY <1>1, <1>3 DEF TInv, TypeOK, States
  <2>2. conns' = [conns EXCEPT ![connection].state = state]
    BY <1>3 DEF CallStop
  <2> HIDE DEF state
  <2>3. SetState(connection, state)
    BY <1>1, <2>1, <2>2, StateSet
  <2> QED BY <2>3 DEF state
<1>4. ASSUME NEW j \in 1..Len(stops), StopOver(j)
      PROVE  \E state \in {"Disconnecting", "Disconnected"} : SetState(stops[j].conn, state)
  <2>1. PICK s \in {"Disconnecting", "Disconnected"}, outcome \in {"done", "failed"} :
          StopEnds(j, outcome, s)
    BY <1>4 DEF StopOver, StopDone, StopFails
  <2>2. stops[j].conn \in 1..Len(conns)
    BY <2>1 DEF StopEnds, TInv, CallsFit
  <2> DEFINE state == IF conns[stops[j].conn].state = "Disconnected" THEN "Disconnected" ELSE s
  <2>3. conns' = [conns EXCEPT ![stops[j].conn].state = state]
    BY <2>1 DEF StopEnds
  <2>4. state \in {"Disconnecting", "Disconnected"}
    OBVIOUS
  <2> HIDE DEF state
  <2>5. SetState(stops[j].conn, state)
    BY <1>1, <2>2, <2>3, <2>4, StateSet DEF States
  <2> QED BY <2>4, <2>5
<1>5. ASSUME NEW k \in 1..Len(conns), NEW from, NEW to \in States, Becomes(k, from, to)
      PROVE  SetState(k, to)
  BY <1>1, <1>5, StateSet DEF Becomes
<1>6. ASSUME NEW k \in 1..Len(conns)
      PROVE  /\ Drop(k) => SetState(k, IF Reconnect THEN "Reconnecting" ELSE "Disconnected")
             /\ Reconnected(k) => SetState(k, "Connected")
             /\ GiveUp(k) => SetState(k, "Disconnected")
  <2> DEFINE to == IF Reconnect THEN "Reconnecting" ELSE "Disconnected"
  <2>1. to \in States
    BY DEF States
  <2> HIDE DEF to
  <2>2. Becomes(k, "Connected", to) => SetState(k, to)
    BY <1>5, <2>1
  <2>3. Drop(k) => SetState(k, IF Reconnect THEN "Reconnecting" ELSE "Disconnected")
    BY <2>2 DEF Drop, to
  <2> QED BY <1>5, <2>3 DEF Reconnected, GiveUp, States
<1> QED BY <1>2, <1>3, <1>4, <1>6

----------------------------------------------------------------------------
(* What each step does to the rest, in the form the proofs use *)

\* A callback reaches the client's connection, or the queue.
LEMMA Registers ==
  ASSUME TypeOK, NEW h \in Handlers, Register(h)
  PROVE  /\ registered' = registered \cup {h} /\ h \notin registered
         /\ UNCHANGED <<connection, starts, stops, orderly>>
         /\ conns' \in Seq(Conn) /\ Len(conns') = Len(conns)
         /\ \A m \in 1..Len(conns) :
              /\ conns'[m].state = conns[m].state
              /\ conns'[m].on = IF m = connection THEN conns[m].on \cup {h} ELSE conns[m].on
         /\ pendingHandlers' = IF connection = 0 THEN pendingHandlers \cup {h}
                               ELSE pendingHandlers
<1>1. conns \in Seq(Conn) /\ Len(conns) \in Nat /\ connection \in 0..Len(conns)
  BY Lengths DEF TypeOK
<1>2. /\ registered' = registered \cup {h} /\ h \notin registered
      /\ UNCHANGED <<connection, starts, stops, orderly>>
  BY DEF Register
<1>3. CASE connection = 0
  <2>1. conns' = conns /\ pendingHandlers' = pendingHandlers \cup {h}
    BY <1>3 DEF Register
  <2> QED BY <1>1, <1>2, <1>3, <2>1
<1>4. CASE connection # 0
  <2> DEFINE new == [conns[connection] EXCEPT !.on = @ \cup {h}]
  <2>1. connection \in 1..Len(conns) /\ conns[connection] \in Conn
    BY <1>1, <1>4, ElementOfSeq
  <2>2. /\ new \in Conn /\ new.state = conns[connection].state
        /\ new.on = conns[connection].on \cup {h}
    BY <2>1 DEF Conn
  <2>3. conns' = [conns EXCEPT ![connection] = new] /\ pendingHandlers' = pendingHandlers
    BY <1>4 DEF Register
  <2> HIDE DEF new
  <2>4. /\ conns' \in Seq(Conn) /\ Len(conns') = Len(conns)
        /\ \A m \in 1..Len(conns) : conns'[m] = IF m = connection THEN new ELSE conns[m]
    BY <1>1, <2>1, <2>2, <2>3, ExceptSeq
  <2>5. ASSUME NEW m \in 1..Len(conns)
        PROVE  /\ conns'[m].state = conns[m].state
               /\ conns'[m].on = IF m = connection THEN conns[m].on \cup {h} ELSE conns[m].on
    <3>1. CASE m = connection
      BY <2>2, <2>4, <3>1
    <3>2. CASE m # connection
      BY <2>4, <3>2
    <3> QED BY <3>1, <3>2
  <2> QED BY <1>2, <1>4, <2>3, <2>4, <2>5
<1> QED BY <1>3, <1>4

\* A start() that got the import builds the next connection with the queue on it.
LEMMA Builds ==
  ASSUME TypeOK, NEW i \in 1..Len(starts), Build(i)
  PROVE  /\ conns' \in Seq(Conn) /\ Len(conns') = Len(conns) + 1
         /\ \A m \in 1..Len(conns) : conns'[m] = conns[m]
         /\ conns'[Len(conns) + 1] = [state |-> "Connecting", on |-> pendingHandlers]
         /\ connection' = Len(conns) + 1 /\ pendingHandlers' = {}
         /\ starts' \in Seq(StartCall) /\ Len(starts') = Len(starts)
         /\ starts'[i] = [pc |-> "opening", conn |-> Len(conns) + 1]
         /\ \A m \in 1..Len(starts) \ {i} : starts'[m] = starts[m]
         /\ UNCHANGED <<registered, stops, orderly>>
<1> DEFINE c == [state |-> "Connecting", on |-> pendingHandlers]
           s == [pc |-> "opening", conn |-> Len(conns) + 1]
<1>1. /\ conns \in Seq(Conn) /\ Len(conns) \in Nat /\ starts \in Seq(StartCall)
      /\ c \in Conn /\ s \in StartCall
  <2>1. conns \in Seq(Conn) /\ Len(conns) \in Nat /\ starts \in Seq(StartCall)
    BY Lengths
  <2>2. c \in Conn
    BY DEF TypeOK, Conn, States
  <2>3. s \in StartCall
    BY <2>1 DEF StartCall
  <2> QED BY <2>1, <2>2, <2>3
<1>2. /\ conns' = Append(conns, c) /\ starts' = [starts EXCEPT ![i] = s]
      /\ connection' = Len(conns) + 1 /\ pendingHandlers' = {}
      /\ UNCHANGED <<registered, stops, orderly>>
  BY DEF Build, NewConn
<1> HIDE DEF c, s
<1>3. /\ conns' \in Seq(Conn) /\ Len(conns') = Len(conns) + 1
      /\ \A m \in 1..Len(conns) : conns'[m] = conns[m]
      /\ conns'[Len(conns) + 1] = c
  BY <1>1, <1>2, AppendProperties
<1>4. /\ starts' \in Seq(StartCall) /\ Len(starts') = Len(starts)
      /\ \A m \in 1..Len(starts) : starts'[m] = IF m = i THEN s ELSE starts[m]
  BY <1>1, <1>2, ExceptSeq
<1> QED BY <1>2, <1>3, <1>4 DEF c, s

\* The other steps of start(): it is called, or it ends.
LEMMA Calls ==
  ASSUME TypeOK, CallStart
  PROVE  /\ starts' \in Seq(StartCall) /\ Len(starts') = Len(starts) + 1
         /\ \A m \in 1..Len(starts) : starts'[m] = starts[m]
         /\ starts'[Len(starts) + 1].pc = IF AlreadyStarted THEN "done" ELSE "import"
         /\ orderly' = (orderly /\ StartsSettled /\ StopsSettled /\ ~Reconnecting)
         /\ UNCHANGED <<conns, connection, pendingHandlers, registered, stops>>
<1> DEFINE s == [pc |-> IF AlreadyStarted THEN "done" ELSE "import", conn |-> connection]
<1>1. starts \in Seq(StartCall) /\ s \in StartCall
  BY Lengths DEF TypeOK, StartCall
<1>2. /\ starts' = Append(starts, s)
      /\ orderly' = (orderly /\ StartsSettled /\ StopsSettled /\ ~Reconnecting)
      /\ UNCHANGED <<conns, connection, pendingHandlers, registered, stops>>
  BY DEF CallStart
<1>3. s.pc = IF AlreadyStarted THEN "done" ELSE "import"
  OBVIOUS
<1> HIDE DEF s
<1>4. /\ starts' \in Seq(StartCall) /\ Len(starts') = Len(starts) + 1
      /\ \A m \in 1..Len(starts) : starts'[m] = starts[m]
      /\ starts'[Len(starts) + 1] = s
  BY <1>1, <1>2, AppendProperties
<1> QED BY <1>2, <1>3, <1>4

LEMMA StartEnds ==
  ASSUME TypeOK, NEW i \in 1..Len(starts), NEW outcome \in {"done", "failed"},
         starts' = [starts EXCEPT ![i].pc = outcome]
  PROVE  /\ starts' \in Seq(StartCall) /\ Len(starts') = Len(starts)
         /\ starts'[i].pc = outcome
         /\ \A m \in 1..Len(starts) \ {i} : starts'[m] = starts[m]
<1> DEFINE s == [starts[i] EXCEPT !.pc = outcome]
<1>1. starts \in Seq(StartCall) /\ starts[i] \in StartCall
  BY Lengths, ElementOfSeq
<1>2. s \in StartCall /\ s.pc = outcome /\ starts' = [starts EXCEPT ![i] = s]
  BY <1>1 DEF StartCall
<1> HIDE DEF s
<1>3. /\ starts' \in Seq(StartCall) /\ Len(starts') = Len(starts)
      /\ \A m \in 1..Len(starts) : starts'[m] = IF m = i THEN s ELSE starts[m]
  BY <1>1, <1>2, ExceptSeq
<1> QED BY <1>2, <1>3

\* stop() is called.
LEMMA StopCalls ==
  ASSUME TypeOK, CallStop
  PROVE  /\ stops' \in Seq(StopCall) /\ Len(stops') = Len(stops) + 1
         /\ \A m \in 1..Len(stops) : stops'[m] = stops[m]
         /\ stops'[Len(stops) + 1] =
              [pc |-> IF connection = 0 THEN "done" ELSE "closing", conn |-> connection]
         /\ connection = 0 => conns' = conns
         /\ orderly' = (orderly /\ StartsSettled /\ StopsSettled)
         /\ UNCHANGED <<connection, pendingHandlers, registered, starts>>
<1> DEFINE s == [pc |-> IF connection = 0 THEN "done" ELSE "closing", conn |-> connection]
<1>1. stops \in Seq(StopCall) /\ s \in StopCall
  BY Lengths DEF TypeOK, StopCall
<1>2. /\ stops' = Append(stops, s) /\ (connection = 0 => conns' = conns)
      /\ orderly' = (orderly /\ StartsSettled /\ StopsSettled)
      /\ UNCHANGED <<connection, pendingHandlers, registered, starts>>
  BY DEF CallStop
<1> HIDE DEF s
<1>3. /\ stops' \in Seq(StopCall) /\ Len(stops') = Len(stops) + 1
      /\ \A m \in 1..Len(stops) : stops'[m] = stops[m]
      /\ stops'[Len(stops) + 1] = s
  BY <1>1, <1>2, AppendProperties
<1> QED BY <1>2, <1>3 DEF s

\* conn.stop() settles: that call is over, and so is a start() of its connection.
LEMMA StopOverIs ==
  ASSUME TypeOK, NEW j \in 1..Len(stops), StopOver(j)
  PROVE  /\ stops' \in Seq(StopCall) /\ Len(stops') = Len(stops)
         /\ stops[j].pc = "closing" /\ stops'[j].pc \in {"done", "failed"}
         /\ \A m \in 1..Len(stops) \ {j} : stops'[m] = stops[m]
         /\ starts' \in Seq(StartCall) /\ Len(starts') = Len(starts)
         /\ \A m \in 1..Len(starts) :
              \/ starts'[m] = starts[m]
                 /\ ~(starts[m].pc = "opening" /\ starts[m].conn = stops[j].conn)
              \/ starts'[m].pc = "failed"
         /\ connection' \in {connection, 0}
         /\ stops'[j].pc = "done" => connection' = 0
         /\ UNCHANGED <<pendingHandlers, registered, orderly>>
<1>0. PICK outcome \in {"done", "failed"}, state \in {"Disconnecting", "Disconnected"} :
        /\ StopEnds(j, outcome, state) /\ connection' \in {connection, 0}
        /\ outcome = "done" => connection' = 0
  BY DEF StopOver, StopDone, StopFails
<1> DEFINE s == [stops[j] EXCEPT !.pc = outcome]
<1>1. /\ stops \in Seq(StopCall) /\ stops[j] \in StopCall
      /\ starts \in Seq(StartCall) /\ DOMAIN starts = 1..Len(starts) /\ Len(starts) \in Nat
  BY Lengths, ElementOfSeq
<1>2. /\ s \in StopCall /\ s.pc = outcome /\ stops' = [stops EXCEPT ![j] = s]
      /\ stops[j].pc = "closing"
  BY <1>0, <1>1 DEF StopCall, StopEnds
<1> HIDE DEF s
<1>3. /\ stops' \in Seq(StopCall) /\ Len(stops') = Len(stops)
      /\ \A m \in 1..Len(stops) : stops'[m] = IF m = j THEN s ELSE stops[m]
  BY <1>1, <1>2, ExceptSeq
<1>4. /\ starts' = [m \in 1..Len(starts) |->
                      IF starts[m].pc = "opening" /\ starts[m].conn = stops[j].conn
                      THEN [starts[m] EXCEPT !.pc = "failed"] ELSE starts[m]]
      /\ UNCHANGED <<pendingHandlers, registered, orderly>>
  BY <1>0, <1>1 DEF StopEnds
<1>5. ASSUME NEW m \in 1..Len(starts)
      PROVE  /\ starts'[m] \in StartCall
             /\ \/ starts'[m] = starts[m]
                   /\ ~(starts[m].pc = "opening" /\ starts[m].conn = stops[j].conn)
                \/ starts'[m].pc = "failed"
  <2>1. starts[m] \in StartCall
    BY <1>1, ElementOfSeq
  <2> QED BY <1>4, <2>1 DEF StartCall
<1>6. starts' \in Seq(StartCall) /\ Len(starts') = Len(starts)
  <2>1. starts' \in [1..Len(starts) -> StartCall]
    BY <1>4, <1>5
  <2> QED BY <1>1, <2>1, LenProperties
<1> QED BY <1>0, <1>2, <1>3, <1>4, <1>5, <1>6

----------------------------------------------------------------------------
(* Types *)

\* The steps of the connections themselves.
Network == \E k \in 1..Len(conns) : Drop(k) \/ Reconnected(k) \/ GiveUp(k)

\* The steps in which a start() ends.
StartOver(i) == ImportFails(i) \/ Opened(i) \/ OpenFails(i)

LEMMA NextCases ==
  ASSUME TypeOK, [Next]_vars
  PROVE  \/ \E h \in Handlers : Register(h)
         \/ CallStart \/ CallStop
         \/ \E i \in 1..Len(starts) : StartOver(i) \/ Build(i)
         \/ \E j \in 1..Len(stops) : StopOver(j)
         \/ Network
         \/ UNCHANGED vars
  BY Lengths DEF Next, Network, StartOver, StopOver

LEMMA StartOverIs ==
  ASSUME TInv, NEW i \in 1..Len(starts), StartOver(i)
  PROVE  /\ starts' \in Seq(StartCall) /\ Len(starts') = Len(starts)
         /\ starts[i].pc \in {"import", "opening"} /\ starts'[i].pc \in {"done", "failed"}
         /\ \A m \in 1..Len(starts) \ {i} : starts'[m] = starts[m]
         /\ \/ conns' = conns /\ starts[i].pc = "import"
            \/ /\ starts[i].pc = "opening"
               /\ \E state \in {"Connected", "Disconnected"} : SetState(starts[i].conn, state)
         /\ UNCHANGED <<connection, pendingHandlers, registered, stops, orderly>>
<1>1. CASE ImportFails(i)
  <2>1. /\ starts' = [starts EXCEPT ![i].pc = "failed"] /\ starts[i].pc = "import"
        /\ UNCHANGED <<conns, connection, pendingHandlers, registered, stops, orderly>>
    BY <1>1 DEF ImportFails
  <2> QED BY <2>1, StartEnds DEF TInv
<1>2. CASE Opened(i)
  <2>1. /\ starts' = [starts EXCEPT ![i].pc = "done"] /\ starts[i].pc = "opening"
        /\ UNCHANGED <<connection, pendingHandlers, registered, stops, orderly>>
    BY <1>2 DEF Opened, ConnStarted
  <2>2. SetState(starts[i].conn, "Connected")
    BY <1>2, StateSteps
  <2> QED BY <2>1, <2>2, StartEnds DEF TInv
<1>3. CASE OpenFails(i)
  <2>1. /\ starts' = [starts EXCEPT ![i].pc = "failed"] /\ starts[i].pc = "opening"
        /\ UNCHANGED <<connection, pendingHandlers, registered, stops, orderly>>
    BY <1>3 DEF OpenFails, ConnStarted
  <2>2. SetState(starts[i].conn, "Disconnected")
    BY <1>3, StateSteps
  <2> QED BY <2>1, <2>2, StartEnds DEF TInv
<1> QED BY <1>1, <1>2, <1>3 DEF StartOver

LEMMA NetworkIs ==
  ASSUME TInv, Network
  PROVE  /\ \E k \in 1..Len(conns) : \E state \in States : SetState(k, state)
         /\ UNCHANGED <<connection, pendingHandlers, registered, starts, stops, orderly>>
<1>1. PICK k \in 1..Len(conns) : Drop(k) \/ Reconnected(k) \/ GiveUp(k)
  BY DEF Network
<1>2. UNCHANGED <<connection, pendingHandlers, registered, starts, stops, orderly>>
  BY <1>1 DEF Drop, Reconnected, GiveUp, Becomes
<1>3. \E state \in States : SetState(k, state)
  BY <1>1, StateSteps DEF States
<1> QED BY <1>2, <1>3

LEMMA TypeStep ==
  ASSUME TInv, [Next]_vars
  PROVE  TInv'
<1> DEFINE Goal == BaseTypes' /\ CallsFit' /\ Apart'
<1>0. /\ TypeOK /\ CallsFit /\ Apart /\ orderly \in BOOLEAN
      /\ conns \in Seq(Conn) /\ starts \in Seq(StartCall) /\ stops \in Seq(StopCall)
      /\ Len(conns) \in Nat /\ Len(starts) \in Nat /\ Len(stops) \in Nat
      /\ connection \in 0..Len(conns) /\ pendingHandlers \subseteq Handlers
      /\ registered \subseteq Handlers
  BY Lengths DEF TInv, TypeOK
<1>a. ASSUME conns' \in Seq(Conn), starts' \in Seq(StartCall), stops' \in Seq(StopCall),
             connection' \in 0..Len(conns'), pendingHandlers' \subseteq Handlers,
             registered' \subseteq Handlers, orderly' \in BOOLEAN
      PROVE  BaseTypes'
  BY <1>a DEF BaseTypes
\* A step that leaves the callbacks alone keeps them apart.
<1>b. ASSUME Len(conns') = Len(conns), UNCHANGED <<pendingHandlers, registered>>,
             \A m \in 1..Len(conns) : conns'[m].on = conns[m].on
      PROVE  Apart'
  BY <1>0, <1>b DEF Apart
<1>1. ASSUME NEW h \in Handlers, Register(h)
      PROVE  Goal
  <2>1. /\ UNCHANGED <<connection, starts, stops, orderly>> /\ h \notin registered
        /\ registered' = registered \cup {h}
        /\ conns' \in Seq(Conn) /\ Len(conns') = Len(conns)
        /\ pendingHandlers' = IF connection = 0 THEN pendingHandlers \cup {h}
                              ELSE pendingHandlers
        /\ \A m \in 1..Len(conns) :
             conns'[m].on = IF m = connection THEN conns[m].on \cup {h} ELSE conns[m].on
    BY <1>0, <1>1, Registers
  <2>2. BaseTypes'
    BY <1>0, <1>a, <2>1
  <2>3. CallsFit'
    BY <1>0, <2>1 DEF CallsFit
  <2>4. ASSUME NEW k \in 1..Len(conns)
        PROVE  conns'[k].on \subseteq registered' /\ conns'[k].on \cap pendingHandlers' = {}
    <3>1. /\ conns[k].on \subseteq registered /\ conns[k].on \cap pendingHandlers = {}
          /\ pendingHandlers \subseteq registered
      BY <1>0 DEF Apart
    <3>2. CASE k = connection
      <4>1. conns'[k].on = conns[k].on \cup {h} /\ pendingHandlers' = pendingHandlers
        <5>1. connection # 0
          BY <3>2
        <5> QED BY <2>1, <3>2, <5>1
      <4> QED BY <2>1, <3>1, <4>1
    <3>3. CASE k # connection
      <4>1. conns'[k].on = conns[k].on /\ pendingHandlers' \subseteq pendingHandlers \cup {h}
        BY <2>1, <3>3
      <4> QED BY <2>1, <3>1, <4>1
    <3> QED BY <3>2, <3>3
  <2>5. pendingHandlers' \subseteq registered'
    BY <1>0, <2>1 DEF Apart
  <2>6. Apart'
    BY <2>1, <2>4, <2>5 DEF Apart
  <2> QED BY <2>2, <2>3, <2>6
<1>2. ASSUME CallStart
      PROVE  Goal
  <2>1. /\ starts' \in Seq(StartCall) /\ Len(starts') = Len(starts) + 1
        /\ \A m \in 1..Len(starts) : starts'[m] = starts[m]
        /\ starts'[Len(starts) + 1].pc # "opening" /\ orderly' \in BOOLEAN
        /\ UNCHANGED <<conns, connection, pendingHandlers, registered, stops>>
    BY <1>0, <1>2, Calls
  <2>2. BaseTypes' /\ Apart'
    BY <1>0, <1>a, <1>b, <2>1
  <2>3. ASSUME NEW m \in 1..Len(starts'), starts'[m].pc = "opening"
        PROVE  starts'[m].conn \in 1..Len(conns)
    <3>1. m \in 1..Len(starts)
      BY <1>0, <2>1, <2>3
    <3> QED BY <1>0, <2>1, <2>3, <3>1 DEF CallsFit
  <2>4. CallsFit'
    BY <1>0, <2>1, <2>3 DEF CallsFit
  <2> QED BY <2>2, <2>4
<1>3. ASSUME CallStop
      PROVE  Goal
  <2>1. /\ stops' \in Seq(StopCall) /\ Len(stops') = Len(stops) + 1
        /\ \A m \in 1..Len(stops) : stops'[m] = stops[m]
        /\ stops'[Len(stops) + 1] =
             [pc |-> IF connection = 0 THEN "done" ELSE "closing", conn |-> connection]
        /\ connection = 0 => conns' = conns
        /\ orderly' \in BOOLEAN
        /\ UNCHANGED <<connection, pendingHandlers, registered, starts>>
    BY <1>0, <1>3, StopCalls
  <2>2. /\ conns' \in Seq(Conn) /\ Len(conns') = Len(conns)
        /\ \A m \in 1..Len(conns) : conns'[m].on = conns[m].on
    BY <1>0, <1>3, <2>1, StateSteps DEF SetState
  <2>3. BaseTypes' /\ Apart'
    BY <1>0, <1>a, <1>b, <2>1, <2>2
  <2>4. connection # 0 => connection \in 1..Len(conns)
    BY <1>0
  <2>5. LET s == stops'[Len(stops) + 1]
        IN  s.pc = "closing" => s.conn \in 1..Len(conns')
    BY <2>1, <2>2, <2>4
  <2>6. ASSUME NEW m \in 1..Len(stops'), stops'[m].pc = "closing"
        PROVE  stops'[m].conn \in 1..Len(conns')
    <3>1. CASE m = Len(stops) + 1
      BY <2>5, <2>6, <3>1
    <3>2. CASE m \in 1..Len(stops)
      BY <1>0, <2>1, <2>2, <2>6, <3>2 DEF CallsFit
    <3> QED BY <1>0, <2>1, <3>1, <3>2
  <2>7. CallsFit'
    BY <1>0, <2>1, <2>2, <2>6 DEF CallsFit
  <2> QED BY <2>3, <2>7
<1>4. ASSUME NEW i \in 1..Len(starts), StartOver(i)
      PROVE  Goal
  <2>1. /\ starts' \in Seq(StartCall) /\ Len(starts') = Len(starts)
        /\ starts'[i].pc \in {"done", "failed"}
        /\ \A m \in 1..Len(starts) \ {i} : starts'[m] = starts[m]
        /\ conns' \in Seq(Conn) /\ Len(conns') = Len(conns)
        /\ \A m \in 1..Len(conns) : conns'[m].on = conns[m].on
        /\ UNCHANGED <<connection, pendingHandlers, registered, stops, orderly>>
    BY <1>0, <1>4, StartOverIs DEF SetState
  <2>2. BaseTypes' /\ Apart'
    BY <1>0, <1>a, <1>b, <2>1
  <2>3. CallsFit'
    BY <1>0, <2>1 DEF CallsFit
  <2> QED BY <2>2, <2>3
<1>5. ASSUME NEW i \in 1..Len(starts), Build(i)
      PROVE  Goal
  <2>1. /\ conns' \in Seq(Conn) /\ Len(conns') = Len(conns) + 1
        /\ \A m \in 1..Len(conns) : conns'[m] = conns[m]
        /\ conns'[Len(conns) + 1].on = pendingHandlers
        /\ connection' = Len(conns) + 1 /\ pendingHandlers' = {}
        /\ starts' \in Seq(StartCall) /\ Len(starts') = Len(starts)
        /\ starts'[i].conn = Len(conns) + 1
        /\ \A m \in 1..Len(starts) \ {i} : starts'[m] = starts[m]
        /\ UNCHANGED <<registered, stops, orderly>>
    BY <1>0, <1>5, Builds
  <2>2. BaseTypes'
    BY <1>0, <1>a, <2>1
  <2>3. ASSUME NEW m \in 1..Len(starts'), starts'[m].pc = "opening"
        PROVE  starts'[m].conn \in 1..Len(conns')
    <3>1. CASE m = i
      BY <1>0, <2>1, <3>1
    <3>2. CASE m # i
      BY <1>0, <2>1, <2>3, <3>2 DEF CallsFit
    <3> QED BY <3>1, <3>2
  <2>4. CallsFit'
    BY <1>0, <2>1, <2>3 DEF CallsFit
  <2>5. ASSUME NEW k \in 1..Len(conns')
        PROVE  conns'[k].on \subseteq registered'
    <3>1. k \in 1..Len(conns) \/ k = Len(conns) + 1
      BY <1>0, <2>1
    <3> QED BY <1>0, <2>1, <3>1 DEF Apart
  <2>6. Apart'
    BY <2>1, <2>5 DEF Apart
  <2> QED BY <2>2, <2>4, <2>6
<1>6. ASSUME NEW j \in 1..Len(stops), StopOver(j)
      PROVE  Goal
  <2>1. /\ stops' \in Seq(StopCall) /\ Len(stops') = Len(stops)
        /\ stops'[j].pc # "closing"
        /\ \A m \in 1..Len(stops) \ {j} : stops'[m] = stops[m]
        /\ starts' \in Seq(StartCall) /\ Len(starts') = Len(starts)
        /\ \A m \in 1..Len(starts) : starts'[m] = starts[m] \/ starts'[m].pc = "failed"
        /\ connection' \in {connection, 0}
        /\ UNCHANGED <<pendingHandlers, registered, orderly>>
    BY <1>0, <1>6, StopOverIs
  <2>2. /\ conns' \in Seq(Conn) /\ Len(conns') = Len(conns)
        /\ \A m \in 1..Len(conns) : conns'[m].on = conns[m].on
    BY <1>0, <1>6, StateSteps DEF SetState, TInv
  <2>3. BaseTypes' /\ Apart'
    BY <1>0, <1>a, <1>b, <2>1, <2>2
  <2>4. CallsFit'
    BY <1>0, <2>1, <2>2 DEF CallsFit
  <2> QED BY <2>3, <2>4
<1>7. ASSUME Network
      PROVE  Goal
  <2>1. /\ conns' \in Seq(Conn) /\ Len(conns') = Len(conns)
        /\ \A m \in 1..Len(conns) : conns'[m].on = conns[m].on
        /\ UNCHANGED <<connection, pendingHandlers, registered, starts, stops, orderly>>
    BY <1>0, <1>7, NetworkIs DEF SetState
  <2> QED BY <1>0, <1>a, <1>b, <2>1 DEF CallsFit
<1>8. ASSUME UNCHANGED vars
      PROVE  Goal
  BY <1>0, <1>8 DEF vars, BaseTypes, Apart, CallsFit
<1>9. Goal
  BY <1>0, <1>1, <1>2, <1>3, <1>4, <1>5, <1>6, <1>7, <1>8, NextCases
<1>10. TypeOK'
  <2>1. (BaseTypes /\ Apart => TypeOK)'
    BY TypeParts, PTL
  <2> QED BY <1>9, <2>1
<1> QED BY <1>9, <1>10 DEF TInv

LEMMA TypeInvariant == Spec => []TInv
<1>1. Init => TInv
  <2> SUFFICES ASSUME Init PROVE TInv
    OBVIOUS
  <2>1. /\ conns = << >> /\ starts = << >> /\ stops = << >> /\ connection = 0
        /\ Len(conns) = 0 /\ Len(starts) = 0 /\ Len(stops) = 0
    BY DEF Init
  <2>2. TypeOK
    BY <2>1, EmptySeq DEF Init, TypeOK
  <2> QED BY <2>1, <2>2 DEF Init, TInv, CallsFit, Apart
<1>2. TInv /\ [Next]_vars => TInv'
  BY TypeStep
<1> QED BY <1>1, <1>2, PTL DEF Spec

\* Every state of the hub client is well-typed.
THEOREM TypeCorrect == Spec => []TypeOK
<1>1. TInv => TypeOK
  BY DEF TInv
<1> QED BY TypeInvariant, <1>1, PTL

----------------------------------------------------------------------------
(* Callbacks *)

\* Where the callbacks are: NoCallbackInLimbo, callback by callback.
Placed ==
  /\ \A h \in Handlers : h \in registered <=>
       h \in pendingHandlers \/ \E k \in 1..Len(conns) : h \in conns[k].on
  /\ pendingHandlers # {} => connection = 0

LEMMA PlacedIsNoLimbo ==
  ASSUME TypeOK
  PROVE  Placed <=> NoCallbackInLimbo
<1>1. DOMAIN conns = 1..Len(conns) /\ \A k \in 1..Len(conns) : conns[k].on \subseteq Handlers
  <2>1. \A k \in 1..Len(conns) : conns[k] \in Conn
    BY Lengths, ElementOfSeq
  <2> QED BY <2>1, Lengths DEF Conn
<1>2. pendingHandlers \subseteq Handlers /\ registered \subseteq Handlers
  BY DEF TypeOK
<1> DEFINE Attached == UNION {conns[k].on : k \in 1..Len(conns)}
<1>3. \A h : h \in Attached <=> \E k \in 1..Len(conns) : h \in conns[k].on
  OBVIOUS
<1>4. Attached \subseteq Handlers
  BY <1>1, <1>3
<1>5. NoCallbackInLimbo <=> /\ registered = pendingHandlers \cup Attached
                            /\ pendingHandlers # {} => connection = 0
  BY <1>1 DEF NoCallbackInLimbo
<1> HIDE DEF Attached
<1>6. registered = pendingHandlers \cup Attached <=>
        \A h \in Handlers : h \in registered <=> h \in pendingHandlers \/ h \in Attached
  BY <1>2, <1>4
<1> QED BY <1>3, <1>5, <1>6 DEF Placed

\* While the first connection is the client's, nothing registered is missing on it.
HInv == TInv /\ Placed /\ FirstConnectionHasAll

\* A step that leaves the callbacks alone, and at most forgets the connection.
LEMMA PlacedKept ==
  ASSUME HInv, Len(conns') = Len(conns), connection' \in {connection, 0},
         \A m \in 1..Len(conns) : conns'[m].on = conns[m].on,
         UNCHANGED <<pendingHandlers, registered>>
  PROVE  Placed' /\ FirstConnectionHasAll'
<1>1. Len(conns) \in Nat /\ connection \in 0..Len(conns)
  BY Lengths DEF HInv, TInv, TypeOK
<1>2. Placed'
  BY DEF HInv, Placed
<1>3. connection' = 1 => 1 \in 1..Len(conns) /\ connection = 1
  BY <1>1
<1>4. FirstConnectionHasAll'
  BY <1>3 DEF HInv, FirstConnectionHasAll
<1> QED BY <1>2, <1>4

LEMMA PlacedStep ==
  ASSUME HInv, [Next]_vars
  PROVE  HInv'
<1>0. /\ TInv /\ TypeOK /\ Placed /\ FirstConnectionHasAll /\ TInv'
      /\ Len(conns) \in Nat /\ connection \in 0..Len(conns)
      /\ pendingHandlers \subseteq Handlers /\ registered \subseteq Handlers
  BY TypeStep, Lengths DEF HInv, TInv, TypeOK
<1>1. ASSUME NEW h \in Handlers, Register(h)
      PROVE  Placed' /\ FirstConnectionHasAll'
  <2>1. /\ registered' = registered \cup {h} /\ connection' = connection
        /\ Len(conns') = Len(conns)
        /\ \A m \in 1..Len(conns) :
             conns'[m].on = IF m = connection THEN conns[m].on \cup {h} ELSE conns[m].on
        /\ pendingHandlers' = IF connection = 0 THEN pendingHandlers \cup {h}
                              ELSE pendingHandlers
    BY <1>0, <1>1, Registers
  <2>2. connection # 0 => connection \in 1..Len(conns)
    BY <1>0
  <2>3. ASSUME NEW g \in Handlers
        PROVE  g \in registered' <=>
                 g \in pendingHandlers' \/ \E k \in 1..Len(conns') : g \in conns'[k].on
    <3>1. g \in registered <=> g \in pendingHandlers \/ \E k \in 1..Len(conns) : g \in conns[k].on
      BY <1>0 DEF Placed
    <3>2. CASE connection = 0
      <4>1. \A m \in 1..Len(conns) : conns'[m].on = conns[m].on
        <5>1. \A m \in 1..Len(conns) : m # connection
          BY <1>0, <3>2
        <5> QED BY <2>1, <5>1
      <4>2. g \in pendingHandlers' <=> g \in pendingHandlers \/ g = h
        BY <2>1, <3>2
      <4>3. g \in registered' <=> g \in registered \/ g = h
        BY <2>1
      <4> QED BY <2>1, <3>1, <4>1, <4>2, <4>3
    <3>3. CASE connection # 0
      <4>1. pendingHandlers' = pendingHandlers /\ connection \in 1..Len(conns)
        BY <2>1, <2>2, <3>3
      <4>2. \A m \in 1..Len(conns) :
              g \in conns'[m].on <=> g \in conns[m].on \/ (m = connection /\ g = h)
        BY <2>1
      <4>3. g \in registered' <=> g \in registered \/ g = h
        BY <2>1
      <4> QED BY <2>1, <3>1, <4>1, <4>2, <4>3
    <3> QED BY <3>2, <3>3
  <2>4. Placed'
    BY <1>0, <2>1, <2>3 DEF Placed
  <2>5. FirstConnectionHasAll'
    BY <1>0, <2>1, <2>2 DEF FirstConnectionHasAll
  <2> QED BY <2>4, <2>5
<1>2. ASSUME NEW i \in 1..Len(starts), Build(i)
      PROVE  Placed' /\ FirstConnectionHasAll'
  <2>1. /\ Len(conns') = Len(conns) + 1
        /\ \A m \in 1..Len(conns) : conns'[m] = conns[m]
        /\ conns'[Len(conns) + 1].on = pendingHandlers
        /\ connection' = Len(conns) + 1 /\ pendingHandlers' = {} /\ registered' = registered
    BY <1>0, <1>2, Builds
  <2>2. ASSUME NEW g \in Handlers
        PROVE  g \in registered' <=>
                 g \in pendingHandlers' \/ \E k \in 1..Len(conns') : g \in conns'[k].on
    <3>1. g \in registered <=> g \in pendingHandlers \/ \E k \in 1..Len(conns) : g \in conns[k].on
      BY <1>0 DEF Placed
    <3>2. 1..Len(conns') = (1..Len(conns)) \cup {Len(conns) + 1}
      BY <1>0, <2>1
    <3> QED BY <2>1, <3>1, <3>2
  <2>3. Placed'
    BY <2>1, <2>2 DEF Placed
  <2>4. connection' = 1 => registered = pendingHandlers
    <3> SUFFICES ASSUME connection' = 1 PROVE registered = pendingHandlers
      OBVIOUS
    <3>1. Len(conns) = 0
      BY <1>0, <2>1
    <3>2. \A h \in Handlers : h \in registered <=> h \in pendingHandlers
      BY <1>0, <3>1 DEF Placed
    <3> QED BY <1>0, <3>2
  <2>5. FirstConnectionHasAll'
    BY <2>1, <2>4 DEF FirstConnectionHasAll
  <2> QED BY <2>3, <2>5
<1>3. ASSUME CallStart \/ CallStop \/ (\E i \in 1..Len(starts) : StartOver(i))
             \/ (\E j \in 1..Len(stops) : StopOver(j)) \/ Network \/ UNCHANGED vars
      PROVE  Placed' /\ FirstConnectionHasAll'
  <2> DEFINE Kept == /\ Len(conns') = Len(conns) /\ connection' \in {connection, 0}
                     /\ \A m \in 1..Len(conns) : conns'[m].on = conns[m].on
                     /\ UNCHANGED <<pendingHandlers, registered>>
  <2>1. ASSUME NEW i \in 1..Len(starts), StartOver(i)
        PROVE  Kept
    BY <1>0, <2>1, StartOverIs DEF SetState
  <2>2. ASSUME NEW j \in 1..Len(stops), StopOver(j)
        PROVE  Kept
    BY <1>0, <2>2, StopOverIs, StateSteps DEF SetState
  <2>3. Kept
    <3>1. CASE CallStart
      BY <1>0, <3>1, Calls
    <3>2. CASE CallStop
      BY <1>0, <3>2, StopCalls, StateSteps DEF SetState
    <3>3. CASE Network
      BY <1>0, <3>3, NetworkIs DEF SetState
    <3>4. CASE UNCHANGED vars
      BY <3>4 DEF vars
    <3> QED BY <1>3, <2>1, <2>2, <3>1, <3>2, <3>3, <3>4
  <2> QED BY <2>3, PlacedKept
<1>4. Placed' /\ FirstConnectionHasAll'
  BY <1>0, <1>1, <1>2, <1>3, NextCases
<1> QED BY <1>0, <1>4 DEF HInv

LEMMA CallbackInvariant == Spec => []HInv
<1>1. Init /\ TInv => HInv
  BY DEF Init, HInv, Placed, FirstConnectionHasAll
<1>2. HInv /\ [Next]_vars => HInv'
  BY PlacedStep
<1> QED BY <1>1, <1>2, TypeInvariant, PTL DEF Spec

\* A callback is always on a connection or in the queue, and the queue is empty while
\* there is a connection, however start() and stop() overlap (signalr.ts:246-257, 312-319).
THEOREM NoneInLimbo == Spec => []NoCallbackInLimbo
<1>1. HInv => NoCallbackInLimbo
  BY PlacedIsNoLimbo DEF HInv, TInv
<1> QED BY CallbackInvariant, <1>1, PTL

\* The client's first connection has every callback from before it opens
\* (signalr.ts:180-182).
THEOREM FirstHasAll == Spec => []FirstConnectionHasAll
<1>1. HInv => FirstConnectionHasAll
  BY DEF HInv
<1> QED BY CallbackInvariant, <1>1, PTL

----------------------------------------------------------------------------
(* A single connection, of an application that makes its calls one at a time and *)
(* does not start() during a reconnect                                           *)

StartBusy(i) == starts[i].pc \in {"import", "opening"}
StopBusy(j) == stops[j].pc = "closing"

\* At most one start() or stop() is under way.
OneCall ==
  /\ \A i, m \in 1..Len(starts) : StartBusy(i) /\ StartBusy(m) => i = m
  /\ \A j, m \in 1..Len(stops) : StopBusy(j) /\ StopBusy(m) => j = m
  /\ \A i \in 1..Len(starts), j \in 1..Len(stops) : ~(StartBusy(i) /\ StopBusy(j))

\* Nothing but the client's connection is alive, it is on its way only while a start()
\* is under way on it, no start() that is about to build another one finds it alive, and
\* the call under way is about it.
Alone ==
  /\ \A k \in 1..Len(conns) : Live(k) => k = connection
  /\ \A k \in 1..Len(conns) : conns[k].state = "Connecting" =>
       \E i \in 1..Len(starts) : starts[i].pc = "opening" /\ starts[i].conn = k
  /\ \A i \in 1..Len(starts) : starts[i].pc = "import" => \A k \in 1..Len(conns) : ~Live(k)
  /\ \A i \in 1..Len(starts) : starts[i].pc = "opening" => starts[i].conn = connection
  /\ \A j \in 1..Len(stops) : StopBusy(j) => stops[j].conn = connection

SInv == TInv /\ (orderly => OneCall /\ Alone)

\* No call is under way.
Idle == (\A i \in 1..Len(starts) : ~StartBusy(i)) /\ (\A j \in 1..Len(stops) : ~StopBusy(j))

LEMMA AloneStep ==
  ASSUME SInv, [Next]_vars
  PROVE  SInv'
<1> DEFINE Goal == orderly' => OneCall' /\ Alone'
<1>0. /\ TInv /\ TypeOK /\ CallsFit /\ TInv'
      /\ Len(conns) \in Nat /\ Len(starts) \in Nat /\ Len(stops) \in Nat
      /\ connection \in 0..Len(conns)
      /\ DOMAIN starts = 1..Len(starts) /\ DOMAIN stops = 1..Len(stops)
  BY TypeStep, Lengths DEF SInv, TInv, TypeOK
<1>a. ASSUME orderly
      PROVE  OneCall /\ Alone
  BY <1>a DEF SInv
<1>b. ASSUME StartsSettled, StopsSettled, orderly
      PROVE  Idle /\ \A k \in 1..Len(conns) : conns[k].state # "Connecting"
  <2>1. Idle
    BY <1>0, <1>b DEF StartsSettled, StopsSettled, StartBusy, StopBusy, Idle
  <2> QED BY <1>a, <1>b, <2>1 DEF Alone, StartBusy, Idle
<1>1. ASSUME NEW h \in Handlers, Register(h), orderly'
      PROVE  OneCall' /\ Alone'
  <2>1. /\ UNCHANGED <<connection, starts, stops, orderly>> /\ Len(conns') = Len(conns)
        /\ \A m \in 1..Len(conns) : conns'[m].state = conns[m].state
    BY <1>0, <1>1, Registers
  <2>2. OneCall /\ Alone
    BY <1>a, <1>1, <2>1
  <2>3. \A m \in 1..Len(conns) : Live(m)' <=> Live(m)
    BY <2>1 DEF Live
  <2>4. OneCall'
    BY <2>1, <2>2 DEF OneCall, StartBusy, StopBusy
  <2>5. Alone'
    <3>1. \A j : StopBusy(j)' <=> StopBusy(j)
      BY <2>1 DEF StopBusy
    <3> QED BY <2>1, <2>2, <2>3, <3>1 DEF Alone
  <2> QED BY <2>4, <2>5
<1>2. ASSUME CallStart, orderly'
      PROVE  OneCall' /\ Alone'
  <2>1. /\ Len(starts') = Len(starts) + 1
        /\ \A m \in 1..Len(starts) : starts'[m] = starts[m]
        /\ starts'[Len(starts) + 1].pc = IF AlreadyStarted THEN "done" ELSE "import"
        /\ orderly /\ StartsSettled /\ StopsSettled /\ ~Reconnecting
        /\ UNCHANGED <<conns, connection, pendingHandlers, registered, stops>>
    BY <1>0, <1>2, Calls
  <2>2. Alone /\ Idle /\ \A k \in 1..Len(conns) : conns[k].state # "Connecting"
    BY <1>a, <1>b, <2>1
  <2>3. ~AlreadyStarted => \A k \in 1..Len(conns) : ~Live(k)
    <3> SUFFICES ASSUME ~AlreadyStarted, NEW k \in 1..Len(conns), Live(k) PROVE FALSE
      OBVIOUS
    <3>1. k = connection /\ connection # 0
      BY <1>0, <2>2 DEF Alone
    <3>2. conns[k].state \in {"Connected", "Reconnecting"}
      BY <2>2 DEF Live
    <3> QED BY <2>1, <3>1, <3>2 DEF AlreadyStarted, Reconnecting
  <2>4. \A i \in 1..Len(starts') : StartBusy(i)' =>
          i = Len(starts) + 1 /\ starts'[i].pc = "import" /\ ~AlreadyStarted
    <3> SUFFICES ASSUME NEW i \in 1..Len(starts'), StartBusy(i)'
                 PROVE  i = Len(starts) + 1 /\ starts'[i].pc = "import" /\ ~AlreadyStarted
      OBVIOUS
    <3>1. i \in 1..Len(starts) \/ i = Len(starts) + 1
      BY <1>0, <2>1
    <3> QED BY <2>1, <2>2, <3>1 DEF StartBusy, Idle
  <2>5. \A j \in 1..Len(stops) : ~StopBusy(j)'
    BY <2>1, <2>2 DEF StopBusy, Idle
  <2>6. OneCall'
    BY <2>1, <2>4, <2>5 DEF OneCall
  <2>7. Alone'
    BY <1>0, <2>1, <2>2, <2>3, <2>4, <2>5 DEF Alone, Live, StartBusy
  <2> QED BY <2>6, <2>7
<1>3. ASSUME CallStop, orderly'
      PROVE  OneCall' /\ Alone'
  <2>1. /\ Len(stops') = Len(stops) + 1
        /\ \A m \in 1..Len(stops) : stops'[m] = stops[m]
        /\ stops'[Len(stops) + 1] =
             [pc |-> IF connection = 0 THEN "done" ELSE "closing", conn |-> connection]
        /\ connection = 0 => conns' = conns
        /\ orderly /\ StartsSettled /\ StopsSettled
        /\ UNCHANGED <<connection, pendingHandlers, registered, starts>>
    BY <1>0, <1>3, StopCalls
  <2>2. Alone /\ Idle /\ \A k \in 1..Len(conns) : conns[k].state # "Connecting"
    BY <1>a, <1>b, <2>1
  <2>3. \A j \in 1..Len(stops') : StopBusy(j)' =>
          j = Len(stops) + 1 /\ stops'[j].conn = connection
    <3> SUFFICES ASSUME NEW j \in 1..Len(stops'), StopBusy(j)'
                 PROVE  j = Len(stops) + 1 /\ stops'[j].conn = connection
      OBVIOUS
    <3>1. j \in 1..Len(stops) \/ j = Len(stops) + 1
      BY <1>0, <2>1
    <3> QED BY <2>1, <2>2, <3>1 DEF StopBusy, Idle
  <2>4. \A i \in 1..Len(starts) : ~StartBusy(i)'
    BY <2>1, <2>2 DEF StartBusy, Idle
  <2>5. OneCall'
    BY <2>1, <2>3, <2>4 DEF OneCall
  <2>6. /\ Len(conns') = Len(conns)
        /\ \A m \in 1..Len(conns) : /\ Live(m)' => Live(m)
                                    /\ conns'[m].state # "Connecting"
    <3>1. CASE connection = 0
      BY <2>1, <2>2, <3>1 DEF Live
    <3>2. CASE connection # 0
      <4>1. PICK state \in {"Disconnected", "Disconnecting"} : SetState(connection, state)
        BY <1>0, <1>3, <3>2, StateSteps
      <4>2. Len(conns') = Len(conns)
        BY <4>1 DEF SetState
      <4>3. \A m \in 1..Len(conns) : conns'[m].state \in {conns[m].state, state}
        BY <4>1 DEF SetState
      <4> QED BY <2>2, <4>2, <4>3 DEF Live
    <3> QED BY <3>1, <3>2
  <2>7. Alone'
    BY <2>1, <2>2, <2>3, <2>4, <2>6 DEF Alone, StartBusy
  <2> QED BY <2>5, <2>7
<1>4. ASSUME NEW i \in 1..Len(starts), StartOver(i), orderly'
      PROVE  OneCall' /\ Alone'
  <2>1. /\ Len(starts') = Len(starts) /\ StartBusy(i) /\ ~StartBusy(i)'
        /\ \A m \in 1..Len(starts) \ {i} : starts'[m] = starts[m]
        /\ \/ conns' = conns /\ starts[i].pc = "import"
           \/ /\ starts[i].pc = "opening"
              /\ \E state \in {"Connected", "Disconnected"} : SetState(starts[i].conn, state)
        /\ UNCHANGED <<connection, pendingHandlers, registered, stops, orderly>>
    BY <1>0, <1>4, StartOverIs DEF StartBusy
  <2>2. OneCall /\ Alone
    BY <1>4, <1>a, <2>1
  <2>3. /\ \A m \in 1..Len(starts) : ~StartBusy(m)'
        /\ \A j \in 1..Len(stops) : ~StopBusy(j) /\ ~StopBusy(j)'
    BY <2>1, <2>2 DEF OneCall, StartBusy, StopBusy
  <2>4. OneCall'
    BY <2>1, <2>3 DEF OneCall
  <2>5. CASE conns' = conns /\ starts[i].pc = "import"
    <3>1. \A k \in 1..Len(conns) : ~Live(k)
      BY <2>2, <2>5 DEF Alone
    <3>2. Alone'
      BY <2>1, <2>3, <2>5, <3>1 DEF Alone, Live, StartBusy
    <3> QED BY <2>4, <3>2
  <2>6. ASSUME NEW state \in {"Connected", "Disconnected"}, SetState(starts[i].conn, state),
               starts[i].pc = "opening"
        PROVE  Alone'
    <3>1. starts[i].conn = connection
      BY <2>2, <2>6 DEF Alone
    <3>2. /\ Len(conns') = Len(conns)
          /\ \A m \in 1..Len(conns) : conns'[m].state = IF m = connection THEN state
                                                        ELSE conns[m].state
      BY <2>6, <3>1 DEF SetState
    <3>3. \A m \in 1..Len(conns) : /\ Live(m)' => m = connection
                                   /\ conns'[m].state # "Connecting"
      <4> SUFFICES ASSUME NEW m \in 1..Len(conns)
                   PROVE  (Live(m)' => m = connection) /\ conns'[m].state # "Connecting"
        OBVIOUS
      <4>1. CASE m = connection
        BY <3>2, <4>1
      <4>2. CASE m # connection
        <5>1. conns'[m].state = conns[m].state /\ ~Live(m)
          BY <2>2, <3>2, <4>2 DEF Alone
        <5> QED BY <5>1 DEF Live
      <4> QED BY <4>1, <4>2
    <3> QED BY <2>1, <2>3, <3>2, <3>3 DEF Alone, StartBusy
  <2> QED BY <2>1, <2>4, <2>5, <2>6
<1>5. ASSUME NEW i \in 1..Len(starts), Build(i), orderly'
      PROVE  OneCall' /\ Alone'
  <2>1. /\ Len(conns') = Len(conns) + 1
        /\ \A m \in 1..Len(conns) : conns'[m] = conns[m]
        /\ conns'[Len(conns) + 1].state = "Connecting"
        /\ connection' = Len(conns) + 1
        /\ Len(starts') = Len(starts)
        /\ starts'[i].pc = "opening" /\ starts'[i].conn = Len(conns) + 1
        /\ \A m \in 1..Len(starts) \ {i} : starts'[m] = starts[m]
        /\ stops' = stops /\ starts[i].pc = "import" /\ orderly' = orderly
    <3>1. starts[i].pc = "import"
      BY <1>5 DEF Build
    <3>2. /\ conns'[Len(conns) + 1] = [state |-> "Connecting", on |-> pendingHandlers]
          /\ starts'[i] = [pc |-> "opening", conn |-> Len(conns) + 1]
      BY <1>0, <1>5, Builds
    <3>3. conns'[Len(conns) + 1].state = "Connecting"
      BY <3>2
    <3>4. starts'[i].pc = "opening" /\ starts'[i].conn = Len(conns) + 1
      BY <3>2
    <3>5. /\ Len(conns') = Len(conns) + 1
          /\ \A m \in 1..Len(conns) : conns'[m] = conns[m]
          /\ connection' = Len(conns) + 1 /\ Len(starts') = Len(starts)
          /\ \A m \in 1..Len(starts) \ {i} : starts'[m] = starts[m]
          /\ stops' = stops /\ orderly' = orderly
      BY <1>0, <1>5, Builds
    <3> QED BY <3>1, <3>3, <3>4, <3>5
  <2>2. OneCall /\ Alone
    BY <1>5, <1>a, <2>1
  <2>3. /\ \A m \in 1..Len(starts) : StartBusy(m)' => m = i
        /\ \A j \in 1..Len(stops) : ~StopBusy(j)'
    BY <2>1, <2>2 DEF OneCall, StartBusy, StopBusy
  <2>4. OneCall'
    BY <2>1, <2>3 DEF OneCall
  <2>5. \A m \in 1..Len(conns') : m = Len(conns) + 1 \/ ~Live(m)'
    <3> SUFFICES ASSUME NEW m \in 1..Len(conns'), m # Len(conns) + 1 PROVE ~Live(m)'
      OBVIOUS
    <3>1. m \in 1..Len(conns)
      BY <1>0, <2>1
    <3>2. ~Live(m) /\ conns'[m] = conns[m]
      BY <2>1, <2>2, <3>1 DEF Alone
    <3> QED BY <3>2 DEF Live
  <2>6. \A m \in 1..Len(conns') : conns'[m].state = "Connecting" => m = Len(conns) + 1
    BY <2>5 DEF Live
  <2>7. Alone'
    BY <1>0, <2>1, <2>3, <2>5, <2>6 DEF Alone, StartBusy
  <2> QED BY <2>4, <2>7
<1>6. ASSUME NEW j \in 1..Len(stops), StopOver(j), orderly'
      PROVE  OneCall' /\ Alone'
  <2>1. /\ Len(stops') = Len(stops) /\ StopBusy(j) /\ ~StopBusy(j)'
        /\ \A m \in 1..Len(stops) \ {j} : stops'[m] = stops[m]
        /\ Len(starts') = Len(starts)
        /\ \A m \in 1..Len(starts) : starts'[m] = starts[m] \/ starts'[m].pc = "failed"
        /\ orderly' = orderly
    BY <1>0, <1>6, StopOverIs DEF StopBusy
  <2>2. OneCall /\ Alone
    BY <1>6, <1>a, <2>1
  <2>3. stops[j].conn = connection
    BY <2>1, <2>2 DEF Alone
  <2>4. PICK state \in {"Disconnecting", "Disconnected"} : SetState(connection, state)
    BY <1>0, <1>6, <2>3, StateSteps
  <2>5. Len(conns') = Len(conns) /\ \A m \in 1..Len(conns) : ~Live(m)'
    <3> SUFFICES ASSUME NEW m \in 1..Len(conns) PROVE ~Live(m)'
      BY <2>4 DEF SetState
    <3>1. CASE m = connection
      BY <2>4, <3>1 DEF SetState, Live
    <3>2. CASE m # connection
      BY <2>2, <2>4, <3>2 DEF SetState, Live, Alone
    <3> QED BY <3>1, <3>2
  <2>6. /\ \A m \in 1..Len(starts) : ~StartBusy(m)'
        /\ \A m \in 1..Len(stops) : ~StopBusy(m)'
    BY <2>1, <2>2 DEF OneCall, StartBusy, StopBusy
  <2>7. OneCall'
    BY <2>1, <2>6 DEF OneCall
  <2>8. \A m \in 1..Len(conns) : conns'[m].state # "Connecting"
    BY <2>5 DEF Live
  <2>9. Alone'
    BY <2>1, <2>5, <2>6, <2>8 DEF Alone, StartBusy
  <2> QED BY <2>7, <2>9
<1>7. ASSUME Network, orderly'
      PROVE  OneCall' /\ Alone'
  <2>1. PICK k \in 1..Len(conns) : Drop(k) \/ Reconnected(k) \/ GiveUp(k)
    BY <1>7 DEF Network
  <2>2. Live(k) /\ UNCHANGED <<connection, starts, stops, orderly>>
    BY <2>1 DEF Drop, Reconnected, GiveUp, Becomes, Live
  <2>3. PICK state \in {"Disconnected", "Reconnecting", "Connected"} : SetState(k, state)
    BY <1>0, <2>1, StateSteps
  <2>4. OneCall /\ Alone
    BY <1>7, <1>a, <2>2
  <2>5. /\ Len(conns') = Len(conns)
        /\ \A m \in 1..Len(conns) :
             /\ Live(m)' => Live(m)
             /\ conns'[m].state = "Connecting" => conns[m].state = "Connecting"
    <3>1. \A m \in 1..Len(conns) : conns'[m].state = IF m = k THEN state ELSE conns[m].state
      BY <2>3 DEF SetState
    <3> QED BY <2>2, <2>3, <3>1 DEF SetState, Live
  <2>6. OneCall'
    BY <2>2, <2>4 DEF OneCall, StartBusy, StopBusy
  <2>7. Alone'
    <3>1. \A j : StopBusy(j)' <=> StopBusy(j)
      BY <2>2 DEF StopBusy
    <3> QED BY <2>2, <2>4, <2>5, <3>1 DEF Alone
  <2> QED BY <2>6, <2>7
<1>8. ASSUME UNCHANGED vars, orderly'
      PROVE  OneCall' /\ Alone'
  BY <1>8, <1>a DEF vars, OneCall, Alone, Live, StartBusy, StopBusy
<1>9. Goal
  BY <1>0, <1>1, <1>2, <1>3, <1>4, <1>5, <1>6, <1>7, <1>8, NextCases
<1> QED BY <1>0, <1>9 DEF SInv

\* An application that awaits every start() and stop() and calls no start() during a
\* reconnect never has a second connection alive, and the client refers to the one it has,
\* whatever drops, reconnects, is given up, or fails to open or to close (signalr.ts:170,
\* 288, 310-311, 334-336).
THEOREM OnlyOneConnection == Spec => []OrderlyIsSingle
<1>1. Init /\ TInv => SInv
  <2> SUFFICES ASSUME Init, TInv PROVE SInv
    OBVIOUS
  <2>1. Len(conns) = 0 /\ Len(starts) = 0 /\ Len(stops) = 0
    BY DEF Init
  <2> QED BY <2>1 DEF SInv, OneCall, Alone
<1>2. SInv /\ [Next]_vars => SInv'
  BY AloneStep
<1>3. SInv => OrderlyIsSingle
  <2> SUFFICES ASSUME SInv, orderly PROVE SingleConnection
    BY DEF OrderlyIsSingle
  <2>1. DOMAIN conns = 1..Len(conns)
    BY Lengths DEF SInv, TInv
  <2> QED BY <2>1 DEF SInv, Alone, SingleConnection
<1> QED BY <1>1, <1>2, <1>3, TypeInvariant, PTL DEF Spec
=============================================================================
