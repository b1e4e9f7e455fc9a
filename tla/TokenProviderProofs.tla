------------------------ MODULE TokenProviderProofs ------------------------
(***************************************************************************)
(* Proofs about TokenProvider, for every set of callers, every skew, every *)
(* timeout, every set of lifetimes and every number of calls.              *)
(***************************************************************************)
EXTENDS TokenProvider, SequenceTheorems, TLAPS

----------------------------------------------------------------------------
(* Lemmas about the operators the model is built from *)

\* A function over the positions of a sequence is a sequence of that length:
\* what the steps that touch several acquisitions at once rely on.
LEMMA MappedSeq ==
  ASSUME NEW R, NEW S, NEW s \in Seq(R), NEW t,
         t = [a \in DOMAIN s |-> t[a]],
         \A a \in DOMAIN s : t[a] \in S
  PROVE  /\ t \in Seq(S)
         /\ Len(t) = Len(s)
         /\ DOMAIN t = DOMAIN s
<1>1. DOMAIN s = 1..Len(s) /\ Len(s) \in Nat
  BY LenProperties
<1>2. t \in [1..Len(s) -> S]
  BY <1>1
<1>3. t \in Seq(S)
  BY <1>1, <1>2, SeqDef
<1>4. DOMAIN t = 1..Len(t) /\ Len(t) \in Nat
  BY <1>3, LenProperties
<1>5. Len(t) = Len(s)
  BY <1>1, <1>2, <1>4
<1> QED BY <1>1, <1>3, <1>4, <1>5

\* Appending an element leaves the earlier ones where they are.
LEMMA AppendedSeq ==
  ASSUME NEW S, NEW s \in Seq(S), NEW e \in S
  PROVE  /\ Append(s, e) \in Seq(S)
         /\ DOMAIN Append(s, e) = DOMAIN s \cup {Len(s) + 1}
         /\ Len(Append(s, e)) = Len(s) + 1
         /\ Append(s, e)[Len(s) + 1] = e
         /\ \A a \in DOMAIN s : Append(s, e)[a] = s[a]
<1>1. DOMAIN s = 1..Len(s) /\ Len(s) \in Nat
  BY LenProperties
<1>2. /\ Append(s, e) \in Seq(S)
      /\ Len(Append(s, e)) = Len(s) + 1
      /\ Append(s, e)[Len(s) + 1] = e
      /\ \A a \in 1..Len(s) : Append(s, e)[a] = s[a]
  BY AppendProperties
<1>3. DOMAIN Append(s, e) = 1..(Len(s) + 1)
  BY <1>2, LenProperties
<1> QED BY <1>1, <1>2, <1>3

\* A remaining time stays in its range as time passes.
LEMMA DecType == \A n \in Nat : Dec(n) \in Nat /\ Dec(n) <= n
  BY DEF Dec

\* An acquisition stays well-typed when its phase and its deadline change.
LEMMA AcquisitionPhase ==
  ASSUME NEW r \in Acquisition, NEW p \in Phases, NEW l \in 0..Timeout
  PROVE  [r EXCEPT !.phase = p, !.left = l] \in Acquisition
<1> DEFINE T == 0..Timeout
<1>1. r \in [phase : Phases, left : T, life : Nat, valid : Nat]
  BY DEF Acquisition
<1>2. l \in T
  OBVIOUS
<1> HIDE DEF T
<1>3. [r EXCEPT !.phase = p, !.left = l] \in [phase : Phases, left : T, life : Nat, valid : Nat]
  BY <1>1, <1>2
<1> QED BY <1>3 DEF Acquisition, T

\* ... and when time passes.
LEMMA AcquisitionAges ==
  ASSUME NEW r \in Acquisition, NEW l \in 0..Timeout, NEW v \in Nat
  PROVE  [r EXCEPT !.left = l, !.valid = v] \in Acquisition
<1> DEFINE T == 0..Timeout
<1>1. r \in [phase : Phases, left : T, life : Nat, valid : Nat]
  BY DEF Acquisition
<1>2. l \in T
  OBVIOUS
<1> HIDE DEF T
<1>3. [r EXCEPT !.left = l, !.valid = v] \in [phase : Phases, left : T, life : Nat, valid : Nat]
  BY <1>1, <1>2
<1> QED BY <1>3 DEF Acquisition, T

\* Waking the callers of settled flights keeps the calls well-typed.
LEMMA WakeType ==
  ASSUME call \in [Callers -> Call], NEW settled,
         NEW st \in {"got", "failed", "timedout"},
         Wake(settled, st)
  PROVE  call' \in [Callers -> Call]
<1>1. ASSUME NEW c \in Callers
      PROVE  [call[c] EXCEPT !.st = st,
                             !.tok = IF st = "got" THEN call[c].flight ELSE 0] \in Call
  BY DEF Call
<1> QED BY <1>1 DEF Wake

----------------------------------------------------------------------------
(* Type correctness *)

LEMMA FlightsDef ==
  ASSUME acqs \in Seq(Acquisition)
  PROVE  Flights = 1..Len(acqs) /\ Len(acqs) \in Nat /\ \A a \in Flights : acqs[a] \in Acquisition
  BY LenProperties, ElementOfSeq DEF Flights

\* No acquisition meets a discovery promise that has rejected: it has a network
\* request ahead of it, ...
LEMMA Acquires ==
  ASSUME TypeOK, Acquire
  PROVE  /\ refreshPromise' = Len(acqs) + 1
         /\ acqs' = Append(acqs, [phase |-> IF discovery = "known" THEN "requesting"
                                                                  ELSE "discovering",
                                  left |-> IF discovery = "known" THEN Timeout ELSE 0,
                                  life |-> 0, valid |-> 0])
         /\ discovery = "none" => discovery' = "pending" /\ discoveryLeft' = Timeout
         /\ discovery # "none" => UNCHANGED <<discovery, discoveryLeft>>
<1>1. ~Rejected
  BY DEF Rejected, TypeOK
<1> QED BY <1>1 DEF Acquire, FirstPhase

\* ... and its caller waits.
LEMMA Arrives ==
  ASSUME TypeOK, NEW force \in BOOLEAN, NEW aborted \in BOOLEAN
  PROVE  Arrival(force, aborted) = IF aborted THEN "aborted" ELSE "waiting"
  BY DEF Arrival, Rejected, TypeOK

\* Every step keeps the state well-typed.
LEMMA TypeStep ==
  ASSUME TypeOK, [Next]_vars
  PROVE  TypeOK'
<1> USE TokenAssumption DEF TypeOK
<1>0. Flights = 1..Len(acqs) /\ Len(acqs) \in Nat /\ \A a \in Flights : acqs[a] \in Acquisition
  BY FlightsDef
<1>a. 0 \in 0..Timeout /\ Timeout \in 0..Timeout
  BY TokenAssumption
<1>1. ASSUME NEW c \in Callers, NEW force \in BOOLEAN, GetCached(c, force)
      PROVE  TypeOK'
  <2>1. [st |-> "got", flight |-> 0, force |-> force, seen |-> cached.tok,
         tok |-> cached.tok, made |-> call[c].made + 1] \in Call
    BY <1>1 DEF GetCached, MayCall, Call
  <2> QED BY <1>1, <2>1 DEF GetCached
<1>2. ASSUME NEW c \in Callers, NEW force \in BOOLEAN, NEW aborted \in BOOLEAN,
             JoinRefresh(c, force, aborted)
      PROVE  TypeOK'
  <2>1. call' \in [Callers -> Call]
    <3>1. Joined(force) \in Nat
      BY <1>0 DEF Joined
    <3>2. [st |-> Arrival(force, aborted), flight |-> Joined(force),
           force |-> force, seen |-> cached.tok, tok |-> 0,
           made |-> call[c].made + 1] \in Call
      BY <1>2, <3>1, Arrives DEF JoinRefresh, MayCall, Call
    <3> QED BY <1>2, <3>2 DEF JoinRefresh
  <2>2. CASE Joins(force)
    BY <1>2, <2>1, <2>2 DEF JoinRefresh
  <2>3. CASE Acquire
    <3>1. [phase |-> IF discovery = "known" THEN "requesting" ELSE "discovering",
           left |-> IF discovery = "known" THEN Timeout ELSE 0,
           life |-> 0, valid |-> 0] \in Acquisition
      BY DEF Acquisition, Phases
    <3>2. acqs' \in Seq(Acquisition)
      BY <2>3, <3>1, AppendedSeq, Acquires
    <3>3. discovery' \in {"none", "pending", "known"} /\ discoveryLeft' \in 0..Timeout
      BY <2>3, Acquires
    <3>4. refreshPromise' \in Nat
      BY <1>0, <2>3, Acquires
    <3> QED BY <1>2, <2>1, <3>2, <3>3, <3>4 DEF JoinRefresh
  <2> QED BY <1>2, <2>2, <2>3 DEF JoinRefresh
<1>3. ASSUME NEW c \in Callers, Abort(c)
      PROVE  TypeOK'
  BY <1>3 DEF Abort, Call
<1>4. CASE DiscoveryOk
  <2>1. ASSUME NEW a \in Flights
        PROVE  [acqs[a] EXCEPT !.phase = "requesting", !.left = Timeout] \in Acquisition
    BY <1>0, <1>a, AcquisitionPhase DEF Phases
  <2>2. acqs' = [a \in Flights |-> acqs'[a]]
    BY <1>4 DEF DiscoveryOk
  <2>3. \A a \in Flights : acqs'[a] \in Acquisition
    BY <1>0, <1>4, <2>1 DEF DiscoveryOk
  <2>4. acqs' \in Seq(Acquisition)
    BY <2>2, <2>3, MappedSeq DEF Flights
  <2>5. discovery' \in {"none", "pending", "known"} /\ discoveryLeft' \in 0..Timeout
    BY <1>4, <1>a DEF DiscoveryOk
  <2> QED BY <1>4, <2>4, <2>5 DEF DiscoveryOk
<1>5. ASSUME NEW how \in {"failed", "timedout"}, DiscoveryRejects(how)
      PROVE  TypeOK'
  <2>1. ASSUME NEW a \in Flights
        PROVE  [acqs[a] EXCEPT !.phase = "failed"] \in Acquisition
    BY <1>0 DEF Acquisition, Phases
  <2>2. acqs' \in Seq(Acquisition)
    BY <1>0, <1>5, <2>1, MappedSeq DEF DiscoveryRejects, Flights
  <2>3. call' \in [Callers -> Call]
    BY <1>5, WakeType DEF DiscoveryRejects
  <2> QED BY <1>5, <2>2, <2>3 DEF DiscoveryRejects, AfterRejection, ClearRefresh
<1>6. ASSUME NEW a \in Flights, NEW life \in Lifetimes, Issue(a, life)
      PROVE  TypeOK'
  <2>1. [acqs[a] EXCEPT !.phase = "issued", !.life = life, !.valid = life] \in Acquisition
    BY <1>0 DEF Acquisition, Phases
  <2>2. acqs' = [acqs EXCEPT ![a] = [acqs[a] EXCEPT !.phase = "issued", !.life = life, !.valid = life]]
    BY <1>6 DEF Issue
  <2>3. acqs' \in Seq(Acquisition)
    BY <1>0, <2>1, <2>2, ExceptSeq
  <2> QED BY <1>6, <2>3 DEF Issue
<1>7. ASSUME NEW a \in Flights, TokenOk(a)
      PROVE  TypeOK'
  <2>1. [acqs[a] EXCEPT !.phase = "ok", !.left = 0] \in Acquisition
    BY <1>0, <1>a, AcquisitionPhase DEF Phases
  <2>2. acqs' = [acqs EXCEPT ![a] = [acqs[a] EXCEPT !.phase = "ok", !.left = 0]]
    BY <1>7 DEF TokenOk
  <2>3. acqs' \in Seq(Acquisition)
    BY <1>0, <2>1, <2>2, ExceptSeq
  <2>4. cached' \in [tok : Nat, left : Nat]
    BY <1>0, <1>7 DEF TokenOk, Acquisition
  <2>5. call' \in [Callers -> Call]
    BY <1>7, WakeType DEF TokenOk
  <2> QED BY <1>7, <2>3, <2>4, <2>5 DEF TokenOk, ClearRefresh
<1>8. ASSUME NEW a \in Flights, NEW how \in {"failed", "timedout"}, TokenRejects(a, how)
      PROVE  TypeOK'
  <2>1. [phase |-> "failed", left |-> 0, life |-> 0, valid |-> 0] \in Acquisition
    BY DEF Acquisition, Phases
  <2>2. acqs' \in Seq(Acquisition)
    BY <1>0, <1>8, <2>1, ExceptSeq DEF TokenRejects
  <2>3. call' \in [Callers -> Call]
    BY <1>8, WakeType DEF TokenRejects
  <2> QED BY <1>8, <2>2, <2>3 DEF TokenRejects, ClearRefresh
<1>9. CASE Tick
  <2>1. ASSUME NEW a \in Flights
        PROVE  [acqs[a] EXCEPT !.left = IF OnTheWire(a) THEN Dec(@) ELSE @,
                               !.valid = Dec(@)] \in Acquisition
    <3>1. acqs[a].left \in 0..Timeout /\ acqs[a].valid \in Nat
      BY <1>0 DEF Acquisition
    <3>2. Dec(acqs[a].left) \in 0..Timeout /\ Dec(acqs[a].valid) \in Nat
      BY <3>1 DEF Dec
    <3> QED BY <1>0, <3>1, <3>2, AcquisitionAges
  <2>2. acqs' = [a \in Flights |-> acqs'[a]]
    BY <1>9 DEF Tick
  <2>3. \A a \in Flights : acqs'[a] \in Acquisition
    BY <1>9, <2>1 DEF Tick
  <2>4. acqs' \in Seq(Acquisition)
    BY <2>2, <2>3, MappedSeq DEF Flights
  <2>5. Dec(discoveryLeft) \in 0..Timeout
    BY DEF Dec
  <2>6. Dec(cached.left) \in Nat
    BY DecType
  <2>7. cached' \in [tok : Nat, left : Nat]
    BY <1>9, <2>6 DEF Tick
  <2> QED BY <1>9, <2>4, <2>5, <2>7 DEF Tick
<1>10. CASE UNCHANGED vars
  BY <1>10 DEF vars
<1> QED
  BY <1>1, <1>2, <1>3, <1>4, <1>5, <1>6, <1>7, <1>8, <1>9, <1>10
     DEF Next, GetToken, Identity, DiscoveryTimeout, TokenTimeout

\* Every state of the provider is well-typed (auth.ts:81-83).
THEOREM TypeCorrect == Spec => []TypeOK
<1>1. Init => TypeOK
  BY TokenAssumption, EmptySeq DEF Init, TypeOK, Call
<1>2. TypeOK /\ [Next]_vars => TypeOK'
  BY TypeStep
<1> QED BY <1>1, <1>2, PTL DEF Spec
----------------------------------------------------------------------------
(* The inductive invariant *)

\* The shared refresh is the latest acquisition: an earlier one has settled.
PromiseIsLast == refreshPromise \in {0, Len(acqs)}

\* A waiting call waits for a token newer than the one it saw cached.
AwaitsNewer ==
  \A c \in Callers : call[c].st = "waiting" => call[c].seen < call[c].flight

IInv ==
  /\ TypeOK
  /\ PromiseIsLast
  /\ OneRefreshInFlight
  /\ NoLostWakeUp
  /\ CachedIsNewest
  /\ AwaitsNewer
  /\ ForcedGetsNewerToken

\* What OneRefreshInFlight says of each acquisition.
LEMMA OnlyThePromise ==
  ASSUME TypeOK
  PROVE  OneRefreshInFlight <=>
           /\ refreshPromise # 0 => refreshPromise \in Flights /\ InFlight(refreshPromise)
           /\ \A a \in Flights : InFlight(a) => a = refreshPromise
<1>1. 0 \notin Flights
  BY FlightsDef DEF TypeOK
<1> QED BY <1>1 DEF OneRefreshInFlight

\* A step that neither starts nor settles an acquisition.
LEMMA NothingSettles ==
  ASSUME IInv, TypeOK',
         Flights' = Flights, Len(acqs)' = Len(acqs), refreshPromise' = refreshPromise,
         \A a \in Flights : InFlight(a)' <=> InFlight(a),
         \A a \in Flights : acqs'[a].phase = "ok" <=> acqs[a].phase = "ok",
         Discovering' # {} <=> discovery' = "pending",
         cached'.tok = cached.tok,
         \A c \in Callers :
            \/ call'[c] = call[c]
            \/ call'[c].st # "waiting" /\ (call'[c].force => call'[c].st # "got")
  PROVE  IInv'
<1>1. PromiseIsLast'
  BY DEF IInv, PromiseIsLast
<1>2. OneRefreshInFlight'
  BY DEF IInv, OneRefreshInFlight
<1>3. NoLostWakeUp'
  BY DEF IInv, NoLostWakeUp
<1>4. CachedIsNewest'
  BY DEF IInv, CachedIsNewest
<1>5. AwaitsNewer'
  BY DEF IInv, AwaitsNewer
<1>6. ForcedGetsNewerToken'
  BY DEF IInv, ForcedGetsNewerToken
<1> QED BY <1>1, <1>2, <1>3, <1>4, <1>5, <1>6 DEF IInv

\* A step in which the acquisitions of a set settle, and their callers wake.
LEMMA SomeSettle ==
  ASSUME IInv, TypeOK',
         Flights' = Flights, Len(acqs)' = Len(acqs),
         NEW settled \in SUBSET Flights, settled # {},
         NEW st \in {"got", "failed", "timedout"},
         \A a \in settled : InFlight(a),
         \A a \in settled : acqs'[a].phase = IF st = "got" THEN "ok" ELSE "failed",
         \A a \in Flights \ settled : acqs'[a].phase = acqs[a].phase,
         ClearRefresh(settled),
         Wake(settled, st),
         discovery' = "pending" => discovery = "pending" /\ Discovering # settled,
         st = "got" => cached'.tok \in settled,
         st # "got" => cached' = cached
  PROVE  IInv'
<1> USE DEF IInv
<1>1. /\ Flights = 1..Len(acqs) /\ Len(acqs) \in Nat
      /\ refreshPromise \in Flights /\ refreshPromise = Len(acqs)
      /\ settled = {refreshPromise}
      /\ \A a \in Flights : InFlight(a) => a = refreshPromise
  BY FlightsDef, OnlyThePromise DEF TypeOK, PromiseIsLast
<1>2. refreshPromise' = 0
  BY <1>1 DEF ClearRefresh
<1>3. \A a \in Flights : ~InFlight(a)'
  BY <1>1 DEF InFlight
<1>4. PromiseIsLast' /\ OneRefreshInFlight'
  BY <1>2, <1>3, OnlyThePromise DEF PromiseIsLast, OneRefreshInFlight
<1>5. ASSUME NEW c \in Callers
      PROVE  /\ call[c].st = "waiting" => /\ call'[c].st = st
                                          /\ call'[c].force = call[c].force
                                          /\ call'[c].seen = call[c].seen
                                          /\ st = "got" => call'[c].tok = call[c].flight
             /\ call[c].st # "waiting" => call'[c] = call[c]
  <2>1. call[c].st = "waiting" => call[c].flight \in settled
    BY <1>1 DEF NoLostWakeUp
  <2>2. call[c] \in Call
    BY DEF TypeOK
  <2> QED BY <2>1, <2>2 DEF Wake, Call
<1>6. \A c \in Callers : call'[c].st # "waiting"
  BY <1>5
<1>7. NoLostWakeUp'
  <2>1. Discovering' = {}
    BY <1>3 DEF Discovering, InFlight
  <2>2. Discovering = {} \/ Discovering = settled
    BY <1>1 DEF Discovering, InFlight
  <2>3. discovery' # "pending"
    BY <2>2, <1>1 DEF NoLostWakeUp
  <2> QED BY <1>6, <2>1, <2>3 DEF NoLostWakeUp
<1>8. CachedIsNewest'
  <2>1. CASE st = "got"
    BY <1>1, <2>1 DEF CachedIsNewest
  <2>2. CASE st # "got"
    BY <1>1, <2>2 DEF CachedIsNewest, InFlight
  <2> QED BY <2>1, <2>2
<1>9. AwaitsNewer'
  BY <1>6 DEF AwaitsNewer
<1>10. ForcedGetsNewerToken'
  BY <1>5 DEF AwaitsNewer, ForcedGetsNewerToken
<1> QED BY <1>4, <1>7, <1>8, <1>9, <1>10

\* A caller joins the refresh in flight, or starts one.
LEMMA JoinStep ==
  ASSUME IInv, TypeOK', NEW c \in Callers, NEW force \in BOOLEAN, NEW aborted \in BOOLEAN,
         JoinRefresh(c, force, aborted)
  PROVE  IInv'
<1> USE DEF IInv
<1>1. Flights = 1..Len(acqs) /\ Len(acqs) \in Nat /\ \A a \in Flights : acqs[a] \in Acquisition
  BY FlightsDef DEF TypeOK
<1>2. /\ call'[c].st # "got"
      /\ call'[c].st = "waiting" => /\ call'[c].flight = Joined(force)
                                    /\ call'[c].seen = cached.tok
      /\ \A d \in Callers \ {c} : call'[d] = call[d]
  BY Arrives DEF JoinRefresh, TypeOK
<1>3. cached' = cached
  BY DEF JoinRefresh
<1>4. CASE Joins(force)
  <2>1. UNCHANGED <<discovery, refreshPromise, acqs>>
    BY <1>4 DEF JoinRefresh
  <2>2. Joined(force) = refreshPromise /\ refreshPromise \in Flights /\ InFlight(refreshPromise)
    BY <1>4, OnlyThePromise DEF Joined, Joins
  <2>3. cached.tok < refreshPromise
    BY <1>1, <2>2, <1>4 DEF CachedIsNewest, PromiseIsLast, Joins, InFlight, TypeOK
  <2>4. PromiseIsLast' /\ OneRefreshInFlight' /\ CachedIsNewest'
    BY <1>3, <2>1 DEF PromiseIsLast, OneRefreshInFlight, CachedIsNewest, Flights, InFlight
  <2>5. NoLostWakeUp'
    BY <1>2, <2>1, <2>2 DEF NoLostWakeUp, Discovering, Flights, InFlight
  <2>6. AwaitsNewer'
    BY <1>2, <2>2, <2>3 DEF AwaitsNewer
  <2>7. ForcedGetsNewerToken'
    BY <1>2 DEF ForcedGetsNewerToken
  <2> QED BY <2>4, <2>5, <2>6, <2>7
<1>5. CASE ~Joins(force)
  <2>0. PICK new \in Nat : new = Len(acqs) + 1
    BY <1>1
  <2>1. Acquire /\ Joined(force) = new /\ refreshPromise = 0
    BY <1>5, <2>0 DEF JoinRefresh, Joined, Joins
  <2>2. PICK e \in Acquisition :
          /\ acqs' = Append(acqs, e)
          /\ e.phase = IF discovery = "known" THEN "requesting" ELSE "discovering"
    <3>1. [phase |-> IF discovery = "known" THEN "requesting" ELSE "discovering",
           left |-> IF discovery = "known" THEN Timeout ELSE 0,
           life |-> 0, valid |-> 0] \in Acquisition
      BY TokenAssumption DEF Acquisition, Phases
    <3> QED BY <2>1, <3>1, Acquires
  <2>3. /\ Flights' = Flights \cup {new}
        /\ Len(acqs)' = new
        /\ acqs'[new] = e
        /\ \A a \in Flights : acqs'[a] = acqs[a]
    BY <2>0, <2>2, AppendedSeq DEF TypeOK, Flights
  <2>4. refreshPromise' = new
    BY <2>0, <2>1, Acquires
  <2>5. \A a \in Flights : ~InFlight(a)
    BY <1>1, <2>1, OnlyThePromise
  <2>6. InFlight(new)' /\ \A a \in Flights : ~InFlight(a)'
    BY <2>2, <2>3, <2>5 DEF InFlight
  <2>7. PromiseIsLast'
    BY <2>3, <2>4 DEF PromiseIsLast
  <2>8. OneRefreshInFlight'
    BY <2>0, <2>3, <2>4, <2>6 DEF OneRefreshInFlight
  <2>9. NoLostWakeUp'
    <3>1. \A d \in Callers : call[d].st # "waiting"
      BY <2>5 DEF NoLostWakeUp
    <3>2. \A d \in Callers : call'[d].st = "waiting" => d = c
      BY <1>2, <3>1
    <3>3. discovery' = "pending" <=> discovery # "known"
      BY <2>1, Acquires DEF TypeOK
    <3>4. Discovering' # {} <=> discovery # "known"
      <4>1. Discovering' = {a \in Flights' : acqs'[a].phase = "discovering"}
        BY DEF Discovering
      <4>2. new \in Discovering' <=> discovery # "known"
        BY <2>2, <2>3, <4>1
      <4>3. \A a \in Flights : a \notin Discovering'
        BY <2>6, <4>1 DEF InFlight
      <4> QED BY <2>3, <4>1, <4>2, <4>3
    <3> QED BY <1>2, <2>1, <2>3, <2>6, <3>2, <3>3, <3>4 DEF NoLostWakeUp
  <2>10. CachedIsNewest'
    <3>1. cached.tok # 0 => cached.tok \in Flights /\ acqs'[cached.tok].phase = "ok"
      BY <2>3 DEF CachedIsNewest
    <3>2. \A a \in Flights : acqs'[a].phase = "ok" => a <= cached.tok
      BY <2>3 DEF CachedIsNewest
    <3>3. acqs'[new].phase # "ok"
      BY <2>2, <2>3
    <3> QED BY <1>3, <2>3, <3>1, <3>2, <3>3 DEF CachedIsNewest
  <2>11. AwaitsNewer'
    <3>1. cached.tok < new
      BY <1>1, <2>0 DEF CachedIsNewest, TypeOK
    <3> QED BY <1>2, <2>1, <3>1 DEF AwaitsNewer
  <2>12. ForcedGetsNewerToken'
    BY <1>2 DEF ForcedGetsNewerToken
  <2> QED BY <2>7, <2>8, <2>9, <2>10, <2>11, <2>12
<1> QED BY <1>4, <1>5

\* Every step keeps the invariant.
LEMMA InvStep ==
  ASSUME IInv, [Next]_vars
  PROVE  IInv'
<1>0. TypeOK'
  BY TypeStep DEF IInv
<1>1. /\ Flights = 1..Len(acqs) /\ Len(acqs) \in Nat
      /\ \A a \in Flights : acqs[a] \in Acquisition
  BY FlightsDef DEF IInv, TypeOK
<1>2. Discovering # {} <=> discovery = "pending"
  BY DEF IInv, NoLostWakeUp
<1>3. ASSUME NEW c \in Callers, NEW force \in BOOLEAN, GetCached(c, force)
      PROVE  IInv'
  <2>1. UNCHANGED <<cached, discovery, refreshPromise, acqs>> /\ ~force
    BY <1>3 DEF GetCached, Cacheable
  <2>2. /\ call'[c].st = "got" /\ call'[c].force = force
        /\ \A d \in Callers \ {c} : call'[d] = call[d]
    BY <1>3 DEF GetCached, IInv, TypeOK
  <2> QED BY <1>0, <1>2, <2>1, <2>2, NothingSettles DEF Flights, InFlight, Discovering
<1>4. ASSUME NEW c \in Callers, NEW force \in BOOLEAN, NEW aborted \in BOOLEAN,
             JoinRefresh(c, force, aborted)
      PROVE  IInv'
  BY <1>0, <1>4, JoinStep
<1>5. ASSUME NEW c \in Callers, Abort(c)
      PROVE  IInv'
  <2>1. UNCHANGED <<cached, discovery, refreshPromise, acqs>>
    BY <1>5 DEF Abort
  <2>2. /\ call'[c].st = "aborted"
        /\ \A d \in Callers \ {c} : call'[d] = call[d]
    BY <1>5 DEF Abort, IInv, TypeOK, Call
  <2> QED BY <1>0, <1>2, <2>1, <2>2, NothingSettles DEF Flights, InFlight, Discovering
<1>6. CASE DiscoveryOk
  <2>1. /\ UNCHANGED <<cached, refreshPromise, call>> /\ discovery' = "known"
        /\ acqs' = [a \in Flights |-> acqs'[a]]
    BY <1>6 DEF DiscoveryOk
  <2>2. Flights' = Flights /\ Len(acqs)' = Len(acqs)
    BY <1>0, <1>1, <2>1, LenProperties DEF TypeOK, Flights
  <2>3. \A a \in Flights : acqs'[a].phase = IF a \in Discovering THEN "requesting"
                                                               ELSE acqs[a].phase
    BY <1>1, <1>6 DEF DiscoveryOk, Acquisition
  <2>4. /\ \A a \in Flights : InFlight(a)' <=> InFlight(a)
        /\ \A a \in Flights : acqs'[a].phase = "ok" <=> acqs[a].phase = "ok"
        /\ Discovering' = {}
    BY <2>2, <2>3 DEF InFlight, Discovering
  <2> QED BY <1>0, <2>1, <2>2, <2>4, NothingSettles
<1>7. ASSUME NEW how \in {"failed", "timedout"}, DiscoveryRejects(how)
      PROVE  IInv'
  <2>1. /\ cached' = cached /\ discovery = "pending" /\ discovery' = "none"
        /\ ClearRefresh(Discovering) /\ Wake(Discovering, how)
        /\ acqs' = [a \in Flights |-> acqs'[a]]
    BY <1>7 DEF DiscoveryRejects, AfterRejection
  <2>2. Flights' = Flights /\ Len(acqs)' = Len(acqs)
    BY <1>0, <1>1, <2>1, LenProperties DEF TypeOK, Flights
  <2>3. \A a \in Flights : acqs'[a].phase = IF a \in Discovering THEN "failed"
                                                               ELSE acqs[a].phase
    BY <1>1, <1>7 DEF DiscoveryRejects, Acquisition
  <2>4. Discovering \subseteq Flights /\ \A a \in Discovering : InFlight(a)
    BY DEF Discovering, InFlight
  <2> QED BY <1>0, <1>2, <2>1, <2>2, <2>3, <2>4, SomeSettle
<1>8. ASSUME NEW a \in Flights, NEW life \in Lifetimes, Issue(a, life)
      PROVE  IInv'
  <2>1. /\ UNCHANGED <<cached, discovery, refreshPromise, call>>
        /\ acqs[a].phase = "requesting"
        /\ acqs'[a].phase = "issued"
        /\ \A b \in Flights \ {a} : acqs'[b] = acqs[b]
        /\ Flights' = Flights
    BY <1>1, <1>8 DEF Issue, IInv, TypeOK, Acquisition, Flights
  <2>2. Len(acqs)' = Len(acqs)
    BY <1>0, <1>1, <2>1, LenProperties DEF TypeOK, Flights
  <2>3. /\ \A b \in Flights : InFlight(b)' <=> InFlight(b)
        /\ \A b \in Flights : acqs'[b].phase = "ok" <=> acqs[b].phase = "ok"
        /\ Discovering' = Discovering
    BY <2>1 DEF InFlight, Discovering
  <2> QED BY <1>0, <1>2, <2>1, <2>2, <2>3, NothingSettles
<1>9. ASSUME NEW a \in Flights, TokenOk(a)
      PROVE  IInv'
  <2>1. /\ acqs[a].phase = "issued" /\ UNCHANGED discovery
        /\ cached'.tok = a
        /\ ClearRefresh({a}) /\ Wake({a}, "got")
    BY <1>9 DEF TokenOk
  <2>2. /\ acqs'[a].phase = "ok"
        /\ \A b \in Flights \ {a} : acqs'[b] = acqs[b]
        /\ Flights' = Flights
    BY <1>1, <1>9 DEF TokenOk, Acquisition, Flights
  <2>3. Len(acqs)' = Len(acqs)
    BY <1>0, <1>1, <2>2, LenProperties DEF TypeOK, Flights
  <2>4. InFlight(a) /\ a \notin Discovering
    BY <2>1 DEF InFlight, Discovering
  <2> QED BY <1>0, <2>1, <2>2, <2>3, <2>4, SomeSettle
<1>10. ASSUME NEW a \in Flights, NEW how \in {"failed", "timedout"}, TokenRejects(a, how)
       PROVE  IInv'
  <2>1. /\ OnTheWire(a) /\ UNCHANGED <<cached, discovery>>
        /\ ClearRefresh({a}) /\ Wake({a}, how)
    BY <1>10 DEF TokenRejects
  <2>2. /\ acqs'[a].phase = "failed"
        /\ \A b \in Flights \ {a} : acqs'[b] = acqs[b]
        /\ Flights' = Flights
    BY <1>1, <1>10 DEF TokenRejects, Flights
  <2>3. Len(acqs)' = Len(acqs)
    BY <1>0, <1>1, <2>2, LenProperties DEF TypeOK, Flights
  <2>4. InFlight(a) /\ a \notin Discovering
    BY <2>1 DEF InFlight, OnTheWire, Discovering
  <2> QED BY <1>0, <2>1, <2>2, <2>3, <2>4, SomeSettle
<1>11. CASE Tick
  <2>1. /\ UNCHANGED <<discovery, refreshPromise, call>>
        /\ acqs' = [a \in Flights |-> acqs'[a]]
    BY <1>11 DEF Tick
  <2>2. Flights' = Flights /\ Len(acqs)' = Len(acqs)
    BY <1>0, <1>1, <2>1, LenProperties DEF TypeOK, Flights
  <2>3. \A a \in Flights : acqs'[a].phase = acqs[a].phase
    BY <1>1, <1>11 DEF Tick, Acquisition
  <2>4. cached'.tok = cached.tok
    BY <1>11 DEF Tick, IInv, TypeOK
  <2>5. Discovering' = Discovering /\ \A a \in Flights : InFlight(a)' <=> InFlight(a)
    BY <2>2, <2>3 DEF Discovering, InFlight
  <2> QED BY <1>0, <1>2, <2>1, <2>2, <2>3, <2>4, <2>5, NothingSettles
<1>12. CASE UNCHANGED vars
  <2>1. UNCHANGED <<cached, discovery, refreshPromise, acqs, call>>
    BY <1>12 DEF vars
  <2> QED BY <1>0, <1>2, <2>1, NothingSettles DEF Flights, InFlight, Discovering
<1> QED
  BY <1>3, <1>4, <1>5, <1>6, <1>7, <1>8, <1>9, <1>10, <1>11, <1>12
     DEF Next, GetToken, Identity, DiscoveryTimeout, TokenTimeout

LEMMA InitInv == Init => IInv
<1> SUFFICES ASSUME Init PROVE IInv
  OBVIOUS
<1>1. TypeOK
  BY TokenAssumption, EmptySeq DEF Init, TypeOK, Call
<1>2. Flights = {} /\ Len(acqs) = 0
  BY DEF Init, Flights
<1>3. Discovering = {}
  BY <1>2 DEF Discovering
<1> QED
  BY <1>1, <1>2, <1>3
     DEF Init, IInv, PromiseIsLast, OneRefreshInFlight, NoLostWakeUp, CachedIsNewest,
         AwaitsNewer, ForcedGetsNewerToken

LEMMA Invariant == Spec => []IInv
<1>1. IInv /\ [Next]_vars => IInv'
  BY InvStep
<1> QED BY InitInv, <1>1, PTL DEF Spec

\* However many callers there are, at most one acquisition is in flight, and
\* refreshPromise refers to it (auth.ts:105-120).
THEOREM SingleRefresh == Spec => []OneRefreshInFlight
<1>1. IInv => OneRefreshInFlight
  BY DEF IInv
<1> QED BY Invariant, <1>1, PTL

\* A waiting call always has somebody who will wake it: its acquisition is in
\* flight, and so is the discovery that one waits for (auth.ts:168-180, 240-255).
THEOREM NoWakeUpIsLost == Spec => []NoLostWakeUp
<1>1. IInv => NoLostWakeUp
  BY DEF IInv
<1> QED BY Invariant, <1>1, PTL

\* The cache never goes back to an older token (auth.ts:111-115).
THEOREM CacheOnlyGetsNewer == Spec => []CachedIsNewest
<1>1. IInv => CachedIsNewest
  BY DEF IInv
<1> QED BY Invariant, <1>1, PTL

\* forceRefresh returns a token newer than the one cached when it was asked
\* for (auth.ts:100-124).
THEOREM ForceBringsNewerToken == Spec => []ForcedGetsNewerToken
<1>1. IInv => ForcedGetsNewerToken
  BY DEF IInv
<1> QED BY Invariant, <1>1, PTL

----------------------------------------------------------------------------
(* The provider implements SingleFlight *)

\* The flights of the abstract specification are the acquisitions.
LEMMA LandedIs ==
  ASSUME TypeOK
  PROVE  /\ Landed \in Seq({"pending", "ok", "failed"})
         /\ Len(Landed) = Len(acqs)
         /\ DOMAIN Landed = Flights
         /\ \A a \in Flights : Landed[a] = IF InFlight(a) THEN "pending" ELSE acqs[a].phase
<1> DEFINE S == {"pending", "ok", "failed"}
<1>1. acqs \in Seq(Acquisition) /\ \A a \in Flights : acqs[a] \in Acquisition
  BY FlightsDef DEF TypeOK
<1>2. \A a \in Flights : Landed[a] \in S
  BY <1>1 DEF Landed, InFlight, Acquisition, Phases
<1>3. Landed = [a \in DOMAIN acqs |-> Landed[a]]
  BY DEF Landed, Flights
<1>4. Landed \in Seq(S) /\ Len(Landed) = Len(acqs) /\ DOMAIN Landed = DOMAIN acqs
  BY <1>1, <1>2, <1>3, MappedSeq DEF Flights
<1> QED BY <1>4 DEF Landed, Flights

\* A step that changes no phase the callers can tell apart, and no call, is no
\* step of the abstract specification.
LEMMA Unnoticed ==
  ASSUME Flights' = Flights, refreshPromise' = refreshPromise, call' = call,
         \A a \in Flights : InFlight(a)' <=> InFlight(a),
         \A a \in Flights : ~InFlight(a) => acqs'[a].phase = acqs[a].phase
  PROVE  UNCHANGED Abstract!vars
<1>1. Landed' = Landed
  BY DEF Landed
<1>2. Seat' = Seat
  BY DEF Seat
<1> QED BY <1>1, <1>2 DEF Abstract!vars

\* A settled acquisition is a flight that lands.
LEMMA Lands ==
  ASSUME IInv, TypeOK', Flights' = Flights,
         NEW settled \in SUBSET Flights, settled # {},
         NEW st \in {"got", "failed", "timedout"},
         \A a \in settled : InFlight(a),
         \A a \in settled : acqs'[a].phase = IF st = "got" THEN "ok" ELSE "failed",
         \A a \in Flights \ settled : acqs'[a].phase = acqs[a].phase,
         ClearRefresh(settled),
         Wake(settled, st)
  PROVE  Abstract!Landing
<1> USE DEF IInv
<1>1. /\ refreshPromise \in Flights
      /\ settled = {refreshPromise}
      /\ \A a \in Flights : InFlight(a) => a = refreshPromise
  BY OnlyThePromise DEF TypeOK
<1>2. refreshPromise # 0
  BY <1>1, FlightsDef DEF TypeOK
<1>3. refreshPromise' = 0
  BY <1>1 DEF ClearRefresh
<1>4. Landed' = [Landed EXCEPT ![refreshPromise] = IF st = "got" THEN "ok" ELSE "failed"]
  <2>1. \A a \in Flights : InFlight(a)' <=> InFlight(a) /\ a \notin settled
    BY <1>1 DEF InFlight
  <2> QED BY <1>1, <2>1 DEF Landed
<1>5. Seat' = [c \in Callers |-> IF Seat[c].st = "waiting"
                                 THEN [Seat[c] EXCEPT !.st = st] ELSE Seat[c]]
  <2>1. ASSUME NEW c \in Callers
        PROVE  Seat'[c] = IF Seat[c].st = "waiting" THEN [Seat[c] EXCEPT !.st = st] ELSE Seat[c]
    <3>1. call[c] \in Call
      BY DEF TypeOK
    <3>2. CASE call[c].st = "waiting"
      <4>1. call[c].flight \in settled
        BY <1>1, <3>2 DEF NoLostWakeUp
      <4>2. call'[c] = [call[c] EXCEPT !.st = st,
                                       !.tok = IF st = "got" THEN call[c].flight ELSE 0]
        BY <3>2, <4>1 DEF Wake
      <4>3. /\ call'[c].st = st /\ call'[c].flight = call[c].flight
            /\ call'[c].force = call[c].force
            /\ st = "got" => call'[c].tok = call[c].flight
        BY <3>1, <4>2 DEF Call
      <4>4. Seat'[c] = [st |-> st, on |-> call[c].flight, force |-> call[c].force]
        BY <4>3 DEF Seat
      <4>5. Seat[c] = [st |-> "waiting", on |-> call[c].flight, force |-> call[c].force]
        BY <3>2 DEF Seat
      <4> QED BY <4>4, <4>5
    <3>3. CASE call[c].st # "waiting"
      <4>1. call'[c] = call[c]
        BY <3>3 DEF Wake
      <4> QED BY <3>3, <4>1 DEF Seat
    <3> QED BY <3>2, <3>3
  <2> QED BY <2>1 DEF Seat
<1>6. Abstract!Land(st)
  BY <1>2, <1>3, <1>4, <1>5 DEF Abstract!Land
<1> QED BY <1>6 DEF Abstract!Landing

\* Every step of the provider is a step of SingleFlight, or none at all.
LEMMA RefinementStep ==
  ASSUME IInv, IInv', [Next]_vars
  PROVE  [Abstract!Next]_(Abstract!vars)
<1>1. /\ Flights = 1..Len(acqs) /\ Len(acqs) \in Nat
      /\ \A a \in Flights : acqs[a] \in Acquisition
  BY FlightsDef DEF IInv, TypeOK
<1>2. TypeOK /\ TypeOK'
  BY DEF IInv
<1>3. ASSUME NEW c \in Callers, NEW force \in BOOLEAN, GetCached(c, force)
      PROVE  Abstract!Serve(c, force)
  <2>1. /\ call[c].st # "waiting" /\ ~force /\ cached.tok # 0
        /\ UNCHANGED <<refreshPromise, acqs>>
    BY <1>3 DEF GetCached, MayCall, Cacheable, Fresh
  <2>2. cached.tok \in Flights /\ Landed[cached.tok] = "ok"
    BY <1>2, <2>1, LandedIs DEF IInv, CachedIsNewest, InFlight
  <2>3. \A a \in Flights : a > cached.tok => Landed[a] # "ok"
    BY <1>1, <1>2, <2>2, LandedIs DEF IInv, CachedIsNewest
  <2>4. cached.tok \in DOMAIN Landed /\ Abstract!LastOk(cached.tok)
    BY <1>2, <2>2, <2>3, LandedIs DEF Abstract!LastOk
  <2>5. Landed' = Landed
    BY <2>1 DEF Landed, Flights, InFlight
  <2>6. Seat' = [Seat EXCEPT ![c] = [st |-> "got", on |-> cached.tok, force |-> force]]
    BY <1>2, <1>3 DEF GetCached, Seat, TypeOK
  <2> QED BY <2>1, <2>4, <2>5, <2>6 DEF Abstract!Serve, Seat
<1>4. ASSUME NEW c \in Callers, NEW force \in BOOLEAN, NEW aborted \in BOOLEAN,
             JoinRefresh(c, force, aborted)
      PROVE  Abstract!Board(c, force, aborted)
  <2>1. call[c].st # "waiting" /\ Seat[c].st # "waiting"
    BY <1>4 DEF JoinRefresh, MayCall, Seat
  <2>2. refreshPromise' = Joined(force)
    BY <1>2, <1>4, Acquires DEF JoinRefresh, Joined, Joins
  <2>3. Seat' = [Seat EXCEPT ![c] = [st |-> IF aborted THEN "aborted" ELSE "waiting",
                                     on |-> refreshPromise', force |-> force]]
    BY <1>2, <1>4, <2>2, Arrives DEF JoinRefresh, Seat, TypeOK
  <2>4. CASE refreshPromise # 0
    <3>1. UNCHANGED <<refreshPromise, acqs>>
      BY <1>4, <2>4 DEF JoinRefresh, Joins
    <3>2. Landed' = Landed
      BY <3>1 DEF Landed, Flights, InFlight
    <3> QED BY <2>1, <2>3, <2>4, <3>1, <3>2 DEF Abstract!Board
  <2>5. CASE refreshPromise = 0
    <3>1. Acquire /\ refreshPromise' = Len(acqs) + 1
      BY <1>2, <1>4, <2>5, Acquires DEF JoinRefresh, Joins
    <3>2. PICK e \in Acquisition :
            acqs' = Append(acqs, e) /\ e.phase \in {"requesting", "discovering"}
      <4>1. [phase |-> IF discovery = "known" THEN "requesting" ELSE "discovering",
             left |-> IF discovery = "known" THEN Timeout ELSE 0,
             life |-> 0, valid |-> 0] \in Acquisition
        BY TokenAssumption DEF Acquisition, Phases
      <4> QED BY <1>2, <3>1, <4>1, Acquires
    <3>3. PICK n \in Nat : n = Len(acqs) + 1
      BY <1>1
    <3>4. /\ Flights' = Flights \cup {n} /\ Len(acqs)' = n
          /\ acqs'[n] = e
          /\ \A a \in Flights : acqs'[a] = acqs[a]
      BY <1>2, <3>2, <3>3, AppendedSeq DEF TypeOK, Flights
    <3>5. /\ Landed' \in Seq({"pending", "ok", "failed"}) /\ Len(Landed') = n
          /\ Landed'[n] = "pending"
          /\ \A a \in Flights : Landed'[a] = Landed[a]
      <4>1. Landed' \in Seq({"pending", "ok", "failed"}) /\ Len(Landed') = n
        <5>1. (Landed \in Seq({"pending", "ok", "failed"}) /\ Len(Landed) = Len(acqs))'
          BY <1>2, LandedIs, PTL
        <5> QED BY <3>4, <5>1
      <4>2. Landed' = [a \in Flights' |-> IF acqs'[a].phase \in {"discovering", "requesting", "issued"}
                                          THEN "pending" ELSE acqs'[a].phase]
        BY DEF Landed, InFlight
      <4>3. Landed = [a \in Flights |-> IF acqs[a].phase \in {"discovering", "requesting", "issued"}
                                        THEN "pending" ELSE acqs[a].phase]
        BY DEF Landed, InFlight
      <4> QED BY <3>2, <3>4, <4>1, <4>2, <4>3
    <3>6. Landed' = Append(Landed, "pending")
      <4> DEFINE S == {"pending", "ok", "failed"}
      <4>1. /\ Landed \in Seq(S) /\ Len(Landed) = Len(acqs) /\ DOMAIN Landed = Flights
        BY <1>2, LandedIs
      <4>2. /\ Append(Landed, "pending") \in Seq(S)
            /\ Len(Append(Landed, "pending")) = n
            /\ Append(Landed, "pending")[n] = "pending"
            /\ \A a \in Flights : Append(Landed, "pending")[a] = Landed[a]
        BY <3>3, <4>1, AppendedSeq
      <4>3. \A a \in 1..n : a = n \/ a \in Flights
        BY <1>1, <3>3
      <4> QED BY <3>5, <4>2, <4>3, SeqEqual
    <3>7. refreshPromise' = Len(Landed) + 1
      BY <1>2, <3>1, LandedIs
    <3> QED BY <2>1, <2>3, <2>5, <3>6, <3>7 DEF Abstract!Board
  <2> QED BY <2>4, <2>5 DEF IInv, TypeOK
<1>5. ASSUME NEW c \in Callers, Abort(c)
      PROVE  Abstract!Leave(c)
  <2>1. call[c].st = "waiting" /\ call' = [call EXCEPT ![c].st = "aborted"]
    BY <1>5 DEF Abort
  <2>2. Landed' = Landed /\ refreshPromise' = refreshPromise
    BY <1>5 DEF Abort, Landed, Flights, InFlight
  <2>3. Seat' = [Seat EXCEPT ![c].st = "aborted"]
    <3>1. call'[c].st = "aborted" /\ \A f \in {"flight", "force", "tok"} : call'[c][f] = call[c][f]
      BY <1>2, <2>1 DEF TypeOK, Call
    <3>2. \A d \in Callers \ {c} : call'[d] = call[d]
      BY <2>1
    <3>3. Seat'[c] = [st |-> "aborted", on |-> call[c].flight, force |-> call[c].force]
      BY <3>1 DEF Seat
    <3>4. Seat[c] = [st |-> "waiting", on |-> call[c].flight, force |-> call[c].force]
      BY <2>1 DEF Seat
    <3>5. \A d \in Callers \ {c} : Seat'[d] = Seat[d]
      BY <3>2 DEF Seat
    <3>6. Seat'[c] = [Seat[c] EXCEPT !.st = "aborted"]
      BY <3>3, <3>4
    <3> QED BY <3>5, <3>6 DEF Seat
  <2> QED BY <2>1, <2>2, <2>3 DEF Abstract!Leave, Seat
<1>6. CASE DiscoveryOk
  <2>1. /\ UNCHANGED <<refreshPromise, call>>
        /\ Flights' = Flights
    BY <1>6 DEF DiscoveryOk, Flights
  <2>2. \A a \in Flights : acqs'[a].phase = IF a \in Discovering THEN "requesting"
                                                               ELSE acqs[a].phase
    BY <1>1, <1>6 DEF DiscoveryOk, Acquisition
  <2>3. \A a \in Flights : /\ InFlight(a)' <=> InFlight(a)
                           /\ ~InFlight(a) => acqs'[a].phase = acqs[a].phase
    BY <2>2 DEF InFlight, Discovering
  <2> QED BY <2>1, <2>3, Unnoticed
<1>7. ASSUME NEW how \in {"failed", "timedout"}, DiscoveryRejects(how)
      PROVE  Abstract!Landing
  <2>1. /\ discovery = "pending" /\ Flights' = Flights
        /\ ClearRefresh(Discovering) /\ Wake(Discovering, how)
    BY <1>7 DEF DiscoveryRejects, Flights
  <2>2. \A a \in Flights : acqs'[a].phase = IF a \in Discovering THEN "failed"
                                                               ELSE acqs[a].phase
    BY <1>1, <1>7 DEF DiscoveryRejects, Acquisition
  <2>3. /\ Discovering \subseteq Flights /\ Discovering # {}
        /\ \A a \in Discovering : InFlight(a)
    BY <2>1 DEF IInv, NoLostWakeUp, Discovering, InFlight
  <2> QED BY <1>2, <2>1, <2>2, <2>3, Lands
<1>8. ASSUME NEW a \in Flights, NEW life \in Lifetimes, Issue(a, life)
      PROVE  UNCHANGED Abstract!vars
  <2>1. /\ UNCHANGED <<refreshPromise, call>>
        /\ acqs[a].phase = "requesting"
        /\ acqs'[a].phase = "issued"
        /\ \A b \in Flights \ {a} : acqs'[b] = acqs[b]
        /\ Flights' = Flights
    BY <1>1, <1>2, <1>8 DEF Issue, TypeOK, Acquisition, Flights
  <2>2. \A b \in Flights : /\ InFlight(b)' <=> InFlight(b)
                           /\ ~InFlight(b) => acqs'[b].phase = acqs[b].phase
    BY <2>1 DEF InFlight
  <2> QED BY <2>1, <2>2, Unnoticed
<1>9. ASSUME NEW a \in Flights, TokenOk(a)
      PROVE  Abstract!Landing
  <2>1. acqs[a].phase = "issued" /\ ClearRefresh({a}) /\ Wake({a}, "got")
    BY <1>9 DEF TokenOk
  <2>2. /\ acqs'[a].phase = "ok"
        /\ \A b \in Flights \ {a} : acqs'[b] = acqs[b]
        /\ Flights' = Flights
    BY <1>1, <1>2, <1>9 DEF TokenOk, Acquisition, Flights
  <2>3. InFlight(a)
    BY <2>1 DEF InFlight
  <2> QED BY <1>2, <2>1, <2>2, <2>3, Lands
<1>10. ASSUME NEW a \in Flights, NEW how \in {"failed", "timedout"}, TokenRejects(a, how)
       PROVE  Abstract!Landing
  <2>1. OnTheWire(a) /\ ClearRefresh({a}) /\ Wake({a}, how)
    BY <1>10 DEF TokenRejects
  <2>2. /\ acqs'[a].phase = "failed"
        /\ \A b \in Flights \ {a} : acqs'[b] = acqs[b]
        /\ Flights' = Flights
    BY <1>1, <1>2, <1>10 DEF TokenRejects, Flights
  <2>3. InFlight(a)
    BY <2>1 DEF InFlight, OnTheWire
  <2> QED BY <1>2, <2>1, <2>2, <2>3, Lands
<1>11. CASE Tick
  <2>1. UNCHANGED <<refreshPromise, call>> /\ Flights' = Flights
    BY <1>11 DEF Tick, Flights
  <2>2. \A a \in Flights : acqs'[a].phase = acqs[a].phase
    BY <1>1, <1>11 DEF Tick, Acquisition
  <2>3. \A a \in Flights : InFlight(a)' <=> InFlight(a)
    BY <2>2 DEF InFlight
  <2> QED BY <2>1, <2>2, <2>3, Unnoticed
<1>12. CASE UNCHANGED vars
  <2>1. UNCHANGED <<refreshPromise, acqs, call>>
    BY <1>12 DEF vars
  <2> QED BY <2>1, Unnoticed DEF Flights, InFlight
<1> QED
  BY <1>3, <1>4, <1>5, <1>6, <1>7, <1>8, <1>9, <1>10, <1>11, <1>12
     DEF Next, GetToken, Identity, DiscoveryTimeout, TokenTimeout,
         Abstract!Next, Abstract!GetToken

\* The provider does what SingleFlight promises its callers, however many they
\* are and whatever the identity server does (auth.ts:100-124).
THEOREM Refinement == Spec => ImplementsSingleFlight
<1>1. Init => Abstract!Init
  <2> SUFFICES ASSUME Init PROVE Abstract!Init
    OBVIOUS
  <2>1. TypeOK /\ Len(acqs) = 0
    BY InitInv DEF IInv, Init
  <2>2. Landed = << >>
    BY <2>1, LandedIs, EmptySeq
  <2>3. Seat = [c \in Callers |-> [st |-> "idle", on |-> 0, force |-> FALSE]]
    BY DEF Init, Seat
  <2> QED BY <2>2, <2>3 DEF Init, Abstract!Init
<1>2. IInv /\ IInv' /\ [Next]_vars => [Abstract!Next]_(Abstract!vars)
  BY RefinementStep
<1> QED BY <1>1, <1>2, Invariant, PTL DEF Spec, ImplementsSingleFlight, Abstract!Spec

----------------------------------------------------------------------------
(* What a call finds when it is made *)

\* A step that counts a call of c is c's own call of getToken().
LEMMA OnlyCallsCount ==
  ASSUME TypeOK, [Next]_vars, NEW c \in Callers, call'[c].made # call[c].made
  PROVE  \/ \E force \in BOOLEAN : GetCached(c, force)
         \/ \E force, aborted \in BOOLEAN : JoinRefresh(c, force, aborted)
<1>1. ASSUME NEW settled, NEW st, Wake(settled, st)
      PROVE  FALSE
  BY <1>1 DEF Wake, TypeOK, Call
<1>2. ASSUME NEW d \in Callers, Abort(d)
      PROVE  FALSE
  BY <1>2 DEF Abort, TypeOK, Call
<1>3. ASSUME NEW d \in Callers, NEW force \in BOOLEAN, NEW aborted \in BOOLEAN,
             JoinRefresh(d, force, aborted)
      PROVE  d = c
  BY <1>3 DEF JoinRefresh, TypeOK
<1>4. ASSUME NEW d \in Callers, NEW force \in BOOLEAN, GetCached(d, force)
      PROVE  d = c
  BY <1>4 DEF GetCached, TypeOK
<1>5. CASE UNCHANGED call
  BY <1>5
<1> QED
  BY <1>1, <1>2, <1>3, <1>4, <1>5
     DEF Next, GetToken, Identity, DiscoveryOk, DiscoveryRejects, DiscoveryTimeout,
         Issue, TokenOk, TokenRejects, TokenTimeout, Tick, vars

\* A failed discovery or token request fails the calls that waited on it and no
\* later one: no getToken() call is answered by a failure that was there before
\* the call was made (auth.ts:117, 175).
THEOREM NoInheritedFailure == Spec => FailuresAreFresh
<1>1. ASSUME TypeOK, [Next]_vars, NEW c \in Callers, call'[c].made # call[c].made
      PROVE  call'[c].st \notin {"failed", "timedout"}
  <2>1. ASSUME NEW force \in BOOLEAN, NEW aborted \in BOOLEAN, JoinRefresh(c, force, aborted)
        PROVE  call'[c].st \in {"aborted", "waiting"}
    BY <1>1, <2>1, Arrives DEF JoinRefresh, TypeOK
  <2>2. ASSUME NEW force \in BOOLEAN, GetCached(c, force)
        PROVE  call'[c].st = "got"
    BY <1>1, <2>2 DEF GetCached, TypeOK
  <2> QED BY <1>1, <2>1, <2>2, OnlyCallsCount
<1>2. TypeOK /\ [Next]_vars =>
        [\A c \in Callers : call'[c].made # call[c].made
                              => call'[c].st \notin {"failed", "timedout"}]_vars
  BY <1>1
<1> QED BY <1>2, TypeCorrect, PTL DEF Spec, FailuresAreFresh

----------------------------------------------------------------------------
(* A token served from the cache is still valid *)

\* An answer on its way has aged by what is gone of its request's deadline, and
\* the cached token is at most one deadline older than the cache believes.
AgesBounded ==
  /\ \A a \in Flights : acqs[a].phase = "issued" =>
       acqs[a].life <= acqs[a].valid + (Timeout - acqs[a].left)
  /\ cached.tok # 0 => cached.left <= acqs[cached.tok].valid + Timeout

\* A step that lets no time pass, issues no token and caches none.
LEMMA NothingAges ==
  ASSUME IInv, AgesBounded, cached' = cached, Flights \subseteq Flights',
         \A a \in Flights' : acqs'[a].phase = "issued" => a \in Flights /\ acqs'[a] = acqs[a],
         \A a \in Flights : acqs[a].phase = "ok" => acqs'[a].valid = acqs[a].valid
  PROVE  AgesBounded'
  BY DEF AgesBounded, IInv, CachedIsNewest

LEMMA AgeStep ==
  ASSUME IInv, IInv', AgesBounded, [Next]_vars
  PROVE  AgesBounded'
<1>1. /\ Flights = 1..Len(acqs) /\ Len(acqs) \in Nat
      /\ \A a \in Flights : acqs[a] \in Acquisition
  BY FlightsDef DEF IInv, TypeOK
<1>2. TypeOK /\ TypeOK'
  BY DEF IInv
<1>3. ASSUME UNCHANGED <<cached, acqs>>
      PROVE  AgesBounded'
  BY <1>3 DEF AgesBounded, Flights
<1>4. ASSUME NEW c \in Callers, NEW force \in BOOLEAN, NEW aborted \in BOOLEAN,
             JoinRefresh(c, force, aborted), ~Joins(force)
      PROVE  AgesBounded'
  <2>1. PICK e \in Acquisition :
          acqs' = Append(acqs, e) /\ e.phase \in {"requesting", "discovering"}
    <3>1. [phase |-> IF discovery = "known" THEN "requesting" ELSE "discovering",
           left |-> IF discovery = "known" THEN Timeout ELSE 0,
           life |-> 0, valid |-> 0] \in Acquisition
      BY TokenAssumption DEF Acquisition, Phases
    <3> QED BY <1>2, <1>4, <3>1, Acquires DEF JoinRefresh
  <2>2. PICK n \in Nat : n = Len(acqs) + 1
    BY <1>1
  <2>3. Flights' = Flights \cup {n} /\ acqs'[n] = e /\ \A a \in Flights : acqs'[a] = acqs[a]
    BY <1>2, <2>1, <2>2, AppendedSeq DEF TypeOK, Flights
  <2>4. cached' = cached
    BY <1>4 DEF JoinRefresh
  <2> QED BY <2>1, <2>3, <2>4, NothingAges
<1>5. CASE DiscoveryOk
  <2>1. cached' = cached /\ Flights' = Flights
    BY <1>5 DEF DiscoveryOk, Flights
  <2>2. \A a \in Flights : /\ a \notin Discovering => acqs'[a] = acqs[a]
                           /\ a \in Discovering => acqs'[a].phase = "requesting"
    BY <1>1, <1>5 DEF DiscoveryOk, Acquisition
  <2> QED BY <2>1, <2>2, NothingAges DEF Discovering
<1>6. ASSUME NEW how \in {"failed", "timedout"}, DiscoveryRejects(how)
      PROVE  AgesBounded'
  <2>1. cached' = cached /\ Flights' = Flights
    BY <1>6 DEF DiscoveryRejects, Flights
  <2>2. \A a \in Flights : /\ a \notin Discovering => acqs'[a] = acqs[a]
                           /\ a \in Discovering => acqs'[a].phase = "failed"
    BY <1>1, <1>6 DEF DiscoveryRejects, Acquisition
  <2> QED BY <2>1, <2>2, NothingAges DEF Discovering
<1>7. ASSUME NEW a \in Flights, NEW life \in Lifetimes, Issue(a, life)
      PROVE  AgesBounded'
  <2>1. /\ cached' = cached /\ acqs[a].phase = "requesting"
        /\ acqs'[a].life = life /\ acqs'[a].valid = life /\ acqs'[a].left = acqs[a].left
        /\ \A b \in Flights \ {a} : acqs'[b] = acqs[b]
        /\ Flights' = Flights
    BY <1>1, <1>2, <1>7 DEF Issue, TypeOK, Acquisition, Flights
  <2>2. life \in Nat /\ acqs[a].left \in Nat /\ acqs[a].left <= Timeout /\ Timeout \in Nat
    BY <1>1, TokenAssumption DEF Acquisition
  <2>3. life <= life + (Timeout - acqs[a].left)
    BY <2>2
  <2>4. cached.tok # a
    BY <1>1, <2>1 DEF IInv, CachedIsNewest
  <2>5. \A b \in Flights : acqs'[b].phase = "issued" =>
          acqs'[b].life <= acqs'[b].valid + (Timeout - acqs'[b].left)
    BY <2>1, <2>3 DEF AgesBounded
  <2>6. cached.tok # 0 => cached.left <= acqs'[cached.tok].valid + Timeout
    BY <2>1, <2>4 DEF AgesBounded, IInv, CachedIsNewest
  <2> QED BY <2>1, <2>5, <2>6 DEF AgesBounded
<1>8. ASSUME NEW a \in Flights, TokenOk(a)
      PROVE  AgesBounded'
  <2>1. /\ acqs[a].phase = "issued"
        /\ cached'.tok = a /\ cached'.left = acqs[a].life
    BY <1>8 DEF TokenOk
  <2>2. /\ acqs'[a].phase = "ok" /\ acqs'[a].valid = acqs[a].valid
        /\ \A b \in Flights \ {a} : acqs'[b] = acqs[b]
        /\ Flights' = Flights
    BY <1>1, <1>2, <1>8 DEF TokenOk, TypeOK, Acquisition, Flights
  <2>3. /\ acqs[a].life \in Nat /\ acqs[a].valid \in Nat /\ acqs[a].left \in Nat
        /\ Timeout \in Nat
    BY <1>1, TokenAssumption DEF Acquisition
  <2>4. acqs[a].life <= acqs[a].valid + (Timeout - acqs[a].left)
    BY <2>1 DEF AgesBounded
  <2>5. acqs[a].life <= acqs[a].valid + Timeout
    BY <2>3, <2>4
  <2>6. \A b \in Flights : acqs'[b].phase = "issued" =>
          acqs'[b].life <= acqs'[b].valid + (Timeout - acqs'[b].left)
    BY <2>2 DEF AgesBounded
  <2> QED BY <2>1, <2>2, <2>5, <2>6 DEF AgesBounded
<1>9. ASSUME NEW a \in Flights, NEW how \in {"failed", "timedout"}, TokenRejects(a, how)
      PROVE  AgesBounded'
  <2>1. OnTheWire(a) /\ cached' = cached
    BY <1>9 DEF TokenRejects
  <2>2. /\ acqs'[a].phase = "failed"
        /\ \A b \in Flights \ {a} : acqs'[b] = acqs[b]
        /\ Flights' = Flights
    BY <1>1, <1>2, <1>9 DEF TokenRejects, TypeOK, Flights
  <2> QED BY <2>1, <2>2, NothingAges DEF OnTheWire
<1>10. CASE Tick
  <2>1. /\ cached'.tok = cached.tok /\ cached'.left = Dec(cached.left)
        /\ cached.left \in Nat /\ Timeout \in Nat
    BY <1>2, <1>10, TokenAssumption DEF Tick, TypeOK
  <2>2. Flights' = Flights
    BY <1>10 DEF Tick, Flights
  <2>3. \A a \in Flights : acqs'[a] = [acqs[a] EXCEPT !.left = IF OnTheWire(a) THEN Dec(@) ELSE @,
                                                      !.valid = Dec(@)]
    BY <1>10 DEF Tick
  <2>4. \A a \in Flights : /\ acqs'[a].phase = acqs[a].phase /\ acqs'[a].life = acqs[a].life
                           /\ acqs'[a].valid = Dec(acqs[a].valid)
                           /\ OnTheWire(a) => acqs'[a].left = Dec(acqs[a].left)
    BY <1>1, <2>3 DEF Acquisition
  <2>5. ASSUME NEW a \in Flights, acqs[a].phase = "issued"
        PROVE  acqs'[a].life <= acqs'[a].valid + (Timeout - acqs'[a].left)
    <3>1. OnTheWire(a) /\ acqs[a].left # 0
      BY <1>10, <2>5 DEF Tick, TimersPending, OnTheWire
    <3>2. acqs[a].left \in Nat /\ acqs[a].valid \in Nat /\ acqs[a].life \in Nat
      BY <1>1 DEF Acquisition
    <3>3. acqs[a].life <= acqs[a].valid + (Timeout - acqs[a].left)
      BY <2>5 DEF AgesBounded
    <3>4. acqs[a].life <= Dec(acqs[a].valid) + (Timeout - Dec(acqs[a].left))
      BY <2>1, <3>1, <3>2, <3>3 DEF Dec
    <3> QED BY <2>4, <3>1, <3>4
  <2>6. ASSUME cached.tok # 0
        PROVE  cached'.left <= acqs'[cached.tok].valid + Timeout
    <3>1. cached.tok \in Flights /\ acqs[cached.tok].valid \in Nat
      BY <1>1, <2>6 DEF IInv, CachedIsNewest, Acquisition
    <3>2. cached.left <= acqs[cached.tok].valid + Timeout
      BY <2>6 DEF AgesBounded
    <3>3. Dec(cached.left) <= Dec(acqs[cached.tok].valid) + Timeout
      BY <2>1, <3>1, <3>2 DEF Dec
    <3> QED BY <2>1, <2>4, <3>1, <3>3
  <2> QED BY <2>1, <2>2, <2>4, <2>5, <2>6 DEF AgesBounded
<1>11. ASSUME NEW c \in Callers, NEW force \in BOOLEAN, NEW aborted \in BOOLEAN,
              GetToken(c, force, aborted)
       PROVE  AgesBounded'
  <2>1. CASE GetCached(c, force)
    BY <1>3, <2>1 DEF GetCached
  <2>2. CASE JoinRefresh(c, force, aborted)
    BY <1>3, <1>4, <2>2 DEF JoinRefresh
  <2> QED BY <1>11, <2>1, <2>2 DEF GetToken
<1>12. ASSUME NEW c \in Callers, Abort(c)
       PROVE  AgesBounded'
  BY <1>3, <1>12 DEF Abort
<1>13. CASE UNCHANGED vars
  BY <1>3, <1>13 DEF vars
<1> QED
  BY <1>5, <1>6, <1>7, <1>8, <1>9, <1>10, <1>11, <1>12, <1>13
     DEF Next, Identity, DiscoveryTimeout, TokenTimeout

\* With a request deadline within the clock skew, as the defaults have it (30 s
\* within 60 s), a token served from the cache is one the identity server still
\* accepts, however long its answer took (auth.ts:93-101, 131, 164).
THEOREM CacheHits ==
  ASSUME Timeout <= Skew
  PROVE  Spec => CacheHitIsValid
<1>1. Init => AgesBounded
  BY DEF Init, AgesBounded, Flights
<1>2. IInv /\ IInv' /\ AgesBounded /\ [Next]_vars => AgesBounded'
  BY AgeStep
<1>3. ASSUME IInv, AgesBounded, [Next]_vars, NEW c \in Callers,
             call'[c].made # call[c].made, call'[c].st = "got"
      PROVE  acqs[call'[c].tok].valid > 0
  <2>1. ASSUME NEW force \in BOOLEAN, NEW aborted \in BOOLEAN, JoinRefresh(c, force, aborted)
        PROVE  FALSE
    BY <1>3, <2>1, Arrives DEF JoinRefresh, IInv, TypeOK
  <2>2. PICK force \in BOOLEAN : GetCached(c, force)
    BY <1>3, <2>1, OnlyCallsCount DEF IInv
  <2>3. /\ cached.tok # 0 /\ cached.left > Skew
        /\ call'[c].tok = cached.tok
    BY <1>3, <2>2 DEF GetCached, Cacheable, Fresh, IInv, TypeOK
  <2>4. /\ cached.left <= acqs[cached.tok].valid + Timeout
        /\ cached.tok \in Flights
    BY <1>3, <2>3 DEF AgesBounded, IInv, CachedIsNewest
  <2>5. acqs[cached.tok].valid \in Nat /\ cached.left \in Nat
    BY <1>3, <2>4, FlightsDef DEF IInv, TypeOK, Acquisition
  <2>6. acqs[cached.tok].valid > 0
    BY <2>3, <2>4, <2>5, TokenAssumption
  <2> QED BY <2>3, <2>6
<1>4. IInv /\ AgesBounded /\ [Next]_vars =>
        [\A c \in Callers : call'[c].made # call[c].made /\ call'[c].st = "got"
                              => acqs[call'[c].tok].valid > 0]_vars
  BY <1>3
<1> QED BY <1>1, <1>2, <1>4, Invariant, PTL DEF Spec, CacheHitIsValid
=============================================================================
