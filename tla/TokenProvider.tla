--------------------------- MODULE TokenProvider ---------------------------
(***************************************************************************)
(* ClientCredentialsTokenProvider of src/src/auth.ts: a cached access      *)
(* token, a discovery promise and a shared refresh promise that every      *)
(* concurrent getToken() call joins.                                       *)
(*                                                                         *)
(* JavaScript runs a continuation and the promise reactions it triggers    *)
(* to completion, so one action is one macrotask: a call, an HTTP answer,  *)
(* a timer, an abort event.  Every `await` on the network is a point where *)
(* other actions interleave.                                               *)
(*                                                                         *)
(* Times are remaining times: a timer set to n is due after n Ticks, and   *)
(* cached.left is expiresAt - Date.now().  No clock value has to be        *)
(* bounded, and Tick never runs out.                                       *)
(***************************************************************************)
EXTENDS Naturals, Sequences

CONSTANTS
  Callers,    \* who calls getToken(); each has one call outstanding at a time
  Skew,       \* clockSkewMs, in ticks
  Timeout,    \* timeoutMs of one identity request, in ticks
  Lifetimes,  \* the expires_in values the identity server may answer
  MaxCalls    \* bound: getToken() calls one caller makes

ASSUME TokenAssumption ==
  /\ Skew \in Nat
  /\ Timeout \in Nat \ {0}
  /\ Lifetimes \subseteq Nat
  /\ MaxCalls \in Nat

VARIABLES
  cached,         \* CachedToken: tok is the acquisition it came from, 0 for null
  discovery,      \* discoveryPromise: "none" (null), "pending", "known", or how it rejected
  discoveryLeft,  \* time before the discovery request's deadline
  refreshPromise, \* the acquisition the field refers to, 0 for null
  acqs,           \* every acquireToken() started so far, oldest first
  call            \* the getToken() call of each caller

vars == <<cached, discovery, discoveryLeft, refreshPromise, acqs, call>>

----------------------------------------------------------------------------
Flights == DOMAIN acqs

\* Phases of acquireToken(): waiting for discovery, token POST outstanding,
\* POST answered by the server but the answer still on its way, settled.
Phases == {"discovering", "requesting", "issued", "ok", "failed"}

Acquisition == [phase : Phases,
                left  : 0..Timeout,   \* before the token request's deadline
                life  : Nat,          \* expires_in of the answer
                valid : Nat]          \* how long the server still accepts the token

\* A deadline rejects with a TimeoutError, which withRetry tells from other errors.
Call == [st     : {"idle", "waiting", "got", "failed", "timedout", "aborted"},
         flight : Nat,                \* the acquisition joined, 0 for none
         force  : BOOLEAN,
         seen   : Nat,                \* cached.tok when the call was made
         tok    : Nat,                \* the token returned
         made   : 0..MaxCalls]

\* Well-typed states.  A rejected discovery promise is never found in its
\* field: the reaction that drops it runs in the turn that rejects it
\* (auth.ts:172-177).
TypeOK ==
  /\ cached \in [tok : Nat, left : Nat]
  /\ discovery \in {"none", "pending", "known"}
  /\ discoveryLeft \in 0..Timeout
  /\ refreshPromise \in Nat
  /\ acqs \in Seq(Acquisition)
  /\ call \in [Callers -> Call]

InFlight(a) == acqs[a].phase \in {"discovering", "requesting", "issued"}
OnTheWire(a) == acqs[a].phase \in {"requesting", "issued"}

Init ==
  /\ cached = [tok |-> 0, left |-> 0]
  /\ discovery = "none"
  /\ discoveryLeft = 0
  /\ refreshPromise = 0
  /\ acqs = << >>
  /\ call = [c \in Callers |-> [st |-> "idle", flight |-> 0, force |-> FALSE,
                                seen |-> 0, tok |-> 0, made |-> 0]]

----------------------------------------------------------------------------
(* getToken() *)

\* Mutant of Fresh: the clock skew is forgotten.
FreshNoSkew == cached.tok # 0 /\ cached.left > 0

\* The cached token outlives the clock skew.
Fresh == cached.tok # 0 /\ cached.left > Skew

\* Mutant of Cacheable: forceRefresh is forgotten.
CacheableIgnoringForce(force) == Fresh

\* getToken() may answer from the cache.
Cacheable(force) == ~force /\ Fresh

\* Mutant of Joins: a forced refresh does not look for one already in flight.
JoinsUnlessForced(force) == refreshPromise # 0 /\ ~force

\* There is a refresh in flight to join.
Joins(force) == refreshPromise # 0

\* A caller may call again once its last call has settled.
MayCall(c) == call[c].st # "waiting" /\ call[c].made < MaxCalls

\* getToken() answered from the cache.  The caller's signal is not looked at.
GetCached(c, force) ==
  /\ MayCall(c)
  /\ Cacheable(force)
  /\ call' = [call EXCEPT ![c] = [st |-> "got", flight |-> 0, force |-> force,
                                  seen |-> cached.tok, tok |-> cached.tok,
                                  made |-> @.made + 1]]
  /\ UNCHANGED <<cached, discovery, discoveryLeft, refreshPromise, acqs>>

\* The discovery promise in the field has rejected: awaiting it fails at once.
Rejected == discovery \in {"failed", "timedout"}

\* Where acquireToken() gets without the network.
FirstPhase == IF discovery = "known" THEN "requesting"
              ELSE IF Rejected THEN "failed" ELSE "discovering"

\* acquireToken() up to its first network await: it starts the discovery
\* request unless there is one, or the token request if discovery is known.
Acquire ==
  /\ refreshPromise' = IF Rejected THEN 0 ELSE Len(acqs) + 1
  /\ acqs' = Append(acqs, [phase |-> FirstPhase,
                           left  |-> IF discovery = "known" THEN Timeout ELSE 0,
                           life  |-> 0, valid |-> 0])
  /\ IF discovery = "none"
     THEN discovery' = "pending" /\ discoveryLeft' = Timeout
     ELSE UNCHANGED <<discovery, discoveryLeft>>

\* The acquisition a call waits on: the shared one, or the one it starts.
Joined(force) == IF Joins(force) THEN refreshPromise ELSE Len(acqs) + 1

\* What the caller sees in the turn of its call.
Arrival(force, aborted) ==
  IF aborted THEN "aborted"
  ELSE IF Rejected /\ ~Joins(force) THEN discovery ELSE "waiting"

\* getToken() that has to refresh.  With a signal that has already fired the
\* call is rejected at once, but the acquisition it started goes on.
JoinRefresh(c, force, aborted) ==
  /\ MayCall(c)
  /\ ~Cacheable(force)
  /\ IF Joins(force)
     THEN UNCHANGED <<discovery, discoveryLeft, refreshPromise, acqs>>
     ELSE Acquire
  /\ call' = [call EXCEPT ![c] = [st |-> Arrival(force, aborted),
                                  flight |-> Joined(force), force |-> force,
                                  seen |-> cached.tok, tok |-> 0,
                                  made |-> @.made + 1]]
  /\ UNCHANGED cached

GetToken(c, force, aborted) == GetCached(c, force) \/ JoinRefresh(c, force, aborted)

----------------------------------------------------------------------------
(* Settling: the reactions on the shared promise, the cache first *)

\* Mutant of ClearRefresh: the settled promise is kept.
KeepRefresh(settled) == refreshPromise' = refreshPromise

\* refreshPromise is cleared only if it is still one of the settled flights.
ClearRefresh(settled) ==
  refreshPromise' = IF refreshPromise \in settled THEN 0 ELSE refreshPromise

\* Callers still waiting on a settled flight get its outcome.
Wake(settled, st) ==
  call' = [c \in Callers |->
             IF call[c].st = "waiting" /\ call[c].flight \in settled
             THEN [call[c] EXCEPT !.st = st,
                                  !.tok = IF st = "got" THEN call[c].flight ELSE 0]
             ELSE call[c]]

\* Mutant of Abort: the signal is handed to the shared acquisition.
AbortCancelsRefresh(c) ==
  /\ call[c].st = "waiting"
  /\ acqs' = [acqs EXCEPT ![call[c].flight].phase = "failed"]
  /\ ClearRefresh({call[c].flight})
  /\ Wake({call[c].flight}, "aborted")
  /\ UNCHANGED <<cached, discovery, discoveryLeft>>

\* The caller's signal fires while it waits: only its own wait is rejected.
Abort(c) ==
  /\ call[c].st = "waiting"
  /\ call' = [call EXCEPT ![c].st = "aborted"]
  /\ UNCHANGED <<cached, discovery, discoveryLeft, refreshPromise, acqs>>

Discovering == {a \in Flights : acqs[a].phase = "discovering"}

\* Discovery answers with a usable endpoint; the token requests are sent.
DiscoveryOk ==
  /\ discovery = "pending"
  /\ discovery' = "known"
  /\ acqs' = [a \in Flights |->
                IF a \in Discovering
                THEN [acqs[a] EXCEPT !.phase = "requesting", !.left = Timeout]
                ELSE acqs[a]]
  /\ discoveryLeft' = 0
  /\ UNCHANGED <<cached, refreshPromise, call>>

\* Mutant of AfterRejection: the rejected discovery promise stays.
KeepRejected(how) == how

\* What the field holds once its promise has rejected.
AfterRejection(how) == "none"

\* Discovery fails: network, status, malformed document or foreign origin, or
\* its deadline.  The promise is dropped, so the next acquisition tries again.
DiscoveryRejects(how) ==
  /\ discovery = "pending"
  /\ discovery' = AfterRejection(how)
  /\ acqs' = [a \in Flights |-> IF a \in Discovering
                                THEN [acqs[a] EXCEPT !.phase = "failed"]
                                ELSE acqs[a]]
  /\ discoveryLeft' = 0
  /\ ClearRefresh(Discovering)
  /\ Wake(Discovering, how)
  /\ UNCHANGED cached

\* The identity server issues a token; the answer is not yet received.
Issue(a, life) ==
  /\ acqs[a].phase = "requesting"
  /\ acqs' = [acqs EXCEPT ![a].phase = "issued", ![a].life = life, ![a].valid = life]
  /\ UNCHANGED <<cached, discovery, discoveryLeft, refreshPromise, call>>

\* A well-formed answer arrives: its lifetime counts from now.
TokenOk(a) ==
  /\ acqs[a].phase = "issued"
  /\ acqs[a].life > 0
  /\ acqs' = [acqs EXCEPT ![a].phase = "ok", ![a].left = 0]
  /\ cached' = [tok |-> a, left |-> acqs[a].life]
  /\ ClearRefresh({a})
  /\ Wake({a}, "got")
  /\ UNCHANGED <<discovery, discoveryLeft>>

\* The token request fails: refused, malformed (expires_in <= 0) or answer
\* lost, or its deadline.  The cached token stays; nobody ever holds a token
\* whose answer was lost, so it is forgotten.
TokenRejects(a, how) ==
  /\ OnTheWire(a)
  /\ acqs' = [acqs EXCEPT ![a] = [phase |-> "failed", left |-> 0, life |-> 0, valid |-> 0]]
  /\ ClearRefresh({a})
  /\ Wake({a}, how)
  /\ UNCHANGED <<cached, discovery, discoveryLeft>>

----------------------------------------------------------------------------
(* Time and the two deadlines (withDeadline around each identity request) *)

DiscoveryTimeout == discoveryLeft = 0 /\ DiscoveryRejects("timedout")

\* Mutant of TokenTimeout: the timer is cleared when the status line arrives,
\* before the body is read.
TokenTimeoutHeadersOnly(a) ==
  acqs[a].left = 0 /\ acqs[a].phase = "requesting" /\ TokenRejects(a, "timedout")

TokenTimeout(a) == acqs[a].left = 0 /\ TokenRejects(a, "timedout")

\* What is left of a remaining time one tick later; 0 also stands for a time
\* that has passed, which no comparison of the code tells from a negative one.
Dec(n) == IF n = 0 THEN 0 ELSE n - 1

\* A due timer fires before time goes on.
TimersPending == \/ discovery = "pending" /\ discoveryLeft = 0
                 \/ \E a \in Flights : OnTheWire(a) /\ acqs[a].left = 0

Tick ==
  /\ ~TimersPending
  /\ cached' = [cached EXCEPT !.left = Dec(@)]
  /\ discoveryLeft' = Dec(discoveryLeft)
  /\ acqs' = [a \in Flights |->
                [acqs[a] EXCEPT !.left = IF OnTheWire(a) THEN Dec(@) ELSE @,
                                !.valid = Dec(@)]]
  /\ UNCHANGED <<discovery, refreshPromise, call>>

Identity ==
  \/ DiscoveryOk \/ DiscoveryRejects("failed") \/ DiscoveryTimeout
  \/ \E a \in Flights : \/ \E life \in Lifetimes : Issue(a, life)
                        \/ TokenOk(a) \/ TokenRejects(a, "failed") \/ TokenTimeout(a)

Next ==
  \/ \E c \in Callers : \/ \E force, aborted \in BOOLEAN : GetToken(c, force, aborted)
                        \/ Abort(c)
  \/ Identity
  \/ Tick

Spec == Init /\ [][Next]_vars

\* Time passes and due deadlines fire; nothing else is promised: the identity
\* server need not answer and nobody has to abort.
Fairness ==
  /\ WF_vars(Tick)
  /\ WF_vars(DiscoveryTimeout)
  /\ WF_vars(\E a \in Flights : TokenTimeout(a))

FairSpec == Spec /\ Fairness

----------------------------------------------------------------------------
(* Properties *)

\* At most one acquisition talks to the identity server, and refreshPromise
\* refers to exactly that one: 100 callers cost one token request
\* (auth.ts:105-120).  Never cleared early, never left behind.
OneRefreshInFlight ==
  {a \in Flights : InFlight(a)} = {refreshPromise} \ {0}

\* Nobody waits on an acquisition that has already settled, and no acquisition
\* waits on a discovery request that nobody runs: no wake-up is ever lost.
NoLostWakeUp ==
  /\ \A c \in Callers : call[c].st = "waiting" =>
                            call[c].flight \in Flights /\ InFlight(call[c].flight)
  /\ Discovering # {} <=> discovery = "pending"

\* An answer that arrives late never puts an older token back: the cached
\* token is the one of the last successful acquisition (auth.ts:111-115).
CachedIsNewest ==
  /\ \A a \in Flights : acqs[a].phase = "ok" => a <= cached.tok
  /\ cached.tok # 0 => cached.tok \in Flights /\ acqs[cached.tok].phase = "ok"

\* forceRefresh never returns the token the caller has just seen rejected,
\* even when it joins a refresh somebody else started (auth.ts:105, 122).
ForcedGetsNewerToken ==
  \A c \in Callers : call[c].force /\ call[c].st = "got" => call[c].tok > call[c].seen

\* A token served from the cache is one the identity server still accepts:
\* clockSkewMs makes up for the answer's travel time, which expiresAt ignores
\* and the request deadline bounds (auth.ts:101, 131, 164).
CacheHitIsValid ==
  [][\A c \in Callers :
       call'[c].made # call[c].made /\ call'[c].st = "got" => acqs[call'[c].tok].valid > 0]_vars

\* A getToken() call never inherits a failure that ended before the call was
\* made: a rejected discovery or refresh promise left in its field would fail
\* every later call without a request (auth.ts:117, 175).
FailuresAreFresh ==
  [][\A c \in Callers :
       call'[c].made # call[c].made => call'[c].st \notin {"failed", "timedout"}]_vars

\* Every getToken() call settles, though the identity server may never answer
\* (auth.ts:131 and 184 bound both requests by a deadline).
EveryCallSettles ==
  \A c \in Callers : call[c].st = "waiting" ~> call[c].st # "waiting"

\* The provider is a single-flight refresh: callers share one outcome, and a
\* caller's abort rejects that caller alone (auth.ts:109-110).
Landed == [a \in Flights |-> IF InFlight(a) THEN "pending" ELSE acqs[a].phase]
Seat == [c \in Callers |-> [st    |-> call[c].st,
                            on    |-> IF call[c].st = "got" THEN call[c].tok ELSE call[c].flight,
                            force |-> call[c].force]]

Abstract == INSTANCE SingleFlight WITH flight <- refreshPromise, landed <- Landed, seat <- Seat

ImplementsSingleFlight == Abstract!Spec
=============================================================================
