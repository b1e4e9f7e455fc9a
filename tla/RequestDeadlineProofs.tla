----------------------- MODULE RequestDeadlineProofs -----------------------
(***************************************************************************)
(* Proofs about RequestDeadline, for every value of the options, the       *)
(* margin and the server's delays.                                         *)
(***************************************************************************)
EXTENDS RequestDeadline, TLAPS

----------------------------------------------------------------------------
(* The plan *)

\* The options are numbers.
LEMMA OptionTypes ==
  ASSUME NEW o \in Options
  PROVE  /\ o.perCall \in Nat /\ o.manual \in Nat /\ o.clientDefault \in Nat
         /\ o.opDefault \in Nat /\ o.timeout \in Nat /\ o.manualGiven \in BOOLEAN
  BY DeadlineAssumption DEF Options

LEMMA PlanTypes ==
  ASSUME NEW o \in Options
  PROVE  /\ Send(o) \in Nat /\ ServerSeconds(o) \in Nat
         /\ DeadlineOf(o) \in Nat /\ Applied(o) \in Nat
<1>1. Send(o) \in Nat
  BY OptionTypes DEF Send
<1>2. ServerSeconds(o) \in Nat /\ Applied(o) \in Nat
  BY <1>1, OptionTypes DEF ServerSeconds, Applied, Or
<1> QED BY <1>1, <1>2, OptionTypes, DeadlineAssumption DEF DeadlineOf

\* The plan and the wire agree: the server timeout that the deadline is planned
\* for is the one the server applies, whichever of the four sources it is from
\* (request-timeout.ts:119-138).
THEOREM PlanMatchesServer ==
  ASSUME NEW o \in Options, Applied(o) # 0
  PROVE  ServerSeconds(o) = Applied(o)
  BY OptionTypes DEF ServerSeconds, Applied, Send, Or

\* The deadline has the margin over the server's timeout, and is no shorter than
\* timeoutMs (request-timeout.ts:140-143).
THEOREM DeadlineHasMargin ==
  ASSUME NEW o \in Options
  PROVE  /\ DeadlineOf(o) >= o.timeout
         /\ Applied(o) # 0 => DeadlineOf(o) >= Applied(o) + Margin
<1>1. Applied(o) # 0 => ServerSeconds(o) = Applied(o)
  BY PlanMatchesServer
<1> QED BY <1>1, OptionTypes, PlanTypes, DeadlineAssumption DEF DeadlineOf

----------------------------------------------------------------------------
(* Type correctness *)

LEMMA TypeStep ==
  ASSUME TypeOK, [Next]_vars
  PROVE  TypeOK'
<1> USE DEF TypeOK
<1>1. CASE Dispatch
  <2>1. \A cold \in 0..ColdStart : Applied(opts) + cold \in Nat
    BY PlanTypes, DeadlineAssumption
  <2> QED BY <1>1, <2>1 DEF Dispatch
<1>2. CASE ServerAnswers
  BY <1>2, DeadlineAssumption DEF ServerAnswers
<1>3. CASE Arrive
  BY <1>3 DEF Arrive
<1>4. CASE DeadlineFires
  BY <1>4 DEF DeadlineFires
<1>5. CASE Tick
  BY <1>5 DEF Tick
<1>6. CASE UNCHANGED vars
  BY <1>6 DEF vars
<1> QED BY <1>1, <1>2, <1>3, <1>4, <1>5, <1>6 DEF Next

LEMMA InitType == Init => TypeOK
  BY PlanTypes, DeadlineAssumption DEF Init, TypeOK

\* Every state of the race is well-typed.
THEOREM TypeCorrect == Spec => []TypeOK
<1>1. TypeOK /\ [Next]_vars => TypeOK'
  BY TypeStep
<1> QED BY InitType, <1>1, PTL DEF Spec

----------------------------------------------------------------------------
(* timeoutMs is a minimum *)

\* What is gone of the deadline is the time since the call was made.
Elapses ==
  /\ left + elapsed = DeadlineOf(opts)
  /\ phase \in {"unsent", "aborted"} => left = 0

\* However short the server's timeout, a call is not aborted before timeoutMs
\* (request-timeout.ts:140-143).
THEOREM MinimumHolds == Spec => []NoAbortBeforeMinimum
<1>1. Init => Elapses
  BY PlanTypes DEF Init, Elapses
<1>2. ASSUME TypeOK, Elapses, [Next]_vars
      PROVE  Elapses'
  BY <1>2 DEF Elapses, TypeOK, Next, Dispatch, ServerAnswers, Arrive, DeadlineFires, Tick, vars
<1>3. ASSUME TypeOK, Elapses
      PROVE  NoAbortBeforeMinimum
  <2>1. DeadlineOf(opts) >= opts.timeout
    BY <1>3, DeadlineHasMargin DEF TypeOK
  <2> QED BY <1>3, <2>1 DEF TypeOK, Elapses, NoAbortBeforeMinimum
<1> QED BY <1>1, <1>2, <1>3, TypeCorrect, PTL DEF Spec

----------------------------------------------------------------------------
(* The deadline outlasts the server *)

\* In each phase the deadline has more left than the phase can last, by what is
\* left of the margin.
Outlasts ==
  /\ phase = "before" => phaseLeft <= MaxDelay
                         /\ left + MaxDelay >= DeadlineOf(opts) + phaseLeft
  /\ Applied(opts) # 0 =>
       /\ phase = "server" => left + MaxDelay + ColdStart >= Margin + phaseLeft
       /\ phase = "transit" => left > phaseLeft
       /\ phase # "aborted"

\* If what precedes the last request, the cold start and the way together stay
\* below the margin, a call the server bounds always gets the server's own answer
\* (request-timeout.ts:5-8, 140-143).
THEOREM ServerAnswerWins ==
  ASSUME MaxDelay + ColdStart + Transit < Margin
  PROVE  Spec => []DeadlineOutlastsServer
<1>1. Init => Outlasts
  BY PlanTypes, DeadlineAssumption DEF Init, Outlasts
<1>2. ASSUME TypeOK, Outlasts, [Next]_vars
      PROVE  Outlasts'
  <2>0. /\ opts \in Options /\ Applied(opts) \in Nat /\ DeadlineOf(opts) \in Nat
        /\ Applied(opts) # 0 => DeadlineOf(opts) >= Applied(opts) + Margin
    BY <1>2, PlanTypes, DeadlineHasMargin DEF TypeOK
  <2> USE <1>2, DeadlineAssumption DEF TypeOK
  <2>1. CASE Dispatch
    <3>1. PICK cold \in 0..ColdStart : phaseLeft' = Applied(opts) + cold
      BY <2>1 DEF Dispatch
    <3>2. left + MaxDelay >= DeadlineOf(opts)
      BY <2>0, <2>1 DEF Dispatch, Outlasts
    <3>3. Applied(opts) # 0 => left + MaxDelay + ColdStart >= Margin + phaseLeft'
      BY <2>0, <3>1, <3>2
    <3> QED BY <2>1, <3>3 DEF Dispatch, Outlasts
  <2>2. CASE ServerAnswers
    <3>1. Applied(opts) # 0 => left > Transit
      BY <2>2 DEF ServerAnswers, Outlasts
    <3> QED BY <2>2, <3>1 DEF ServerAnswers, Outlasts
  <2>3. CASE Arrive
    BY <2>3 DEF Arrive, Outlasts
  <2>4. CASE DeadlineFires
    <3>1. Applied(opts) # 0 => phase \notin {"server", "transit"}
      BY <2>4 DEF DeadlineFires, Outlasts
    <3> QED BY <2>4, <3>1 DEF DeadlineFires, Outlasts
  <2>5. CASE Tick
    <3>1. phase = "before" => phaseLeft > 0
      BY <2>5 DEF Tick, Unbounded
    <3>2. Applied(opts) # 0 => phaseLeft > 0
      BY <2>5 DEF Tick, Unbounded
    <3>3. /\ left > 0 /\ left' = left - 1 /\ UNCHANGED <<opts, phase>>
          /\ phaseLeft > 0 => phaseLeft' = phaseLeft - 1
      BY <2>5 DEF Tick
    <3> QED BY <2>0, <3>1, <3>2, <3>3 DEF Outlasts
  <2>6. CASE UNCHANGED vars
    BY <2>6 DEF vars, Outlasts
  <2> QED BY <2>1, <2>2, <2>3, <2>4, <2>5, <2>6 DEF Next
<1>3. Outlasts => DeadlineOutlastsServer
  BY DEF Outlasts, DeadlineOutlastsServer
<1> QED BY <1>1, <1>2, <1>3, TypeCorrect, PTL DEF Spec
=============================================================================
