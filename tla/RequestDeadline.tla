-------------------------- MODULE RequestDeadline --------------------------
(***************************************************************************)
(* The two clocks of a call that the server bounds by X-Request-Timeout:   *)
(* planRequestTimeout() of src/src/request-timeout.ts chooses what the     *)
(* server is asked for and how long withDeadline() lets the client wait;   *)
(* the server answers within its timeout, plus the time it needs to open   *)
(* the platform connection, plus the time the exchange is under way.       *)
(*                                                                         *)
(* Times are numbers of ticks, remaining times count down.  A value of 0   *)
(* stands for undefined.                                                   *)
(***************************************************************************)
EXTENDS Naturals

CONSTANTS
  Margin,      \* SERVER_ANSWER_MARGIN_MS
  ColdStart,   \* how long the server may take to open the platform connection
  Transit,     \* how long request and response may be queued and under way
  MaxDelay,    \* how long the call may take before its last request is sent:
               \* token acquisition, earlier attempts, backoff
  PerCalls, Manuals, ClientDefaults, OpDefaults, Timeouts  \* the values of the options

ASSUME DeadlineAssumption ==
  /\ Margin \in Nat /\ ColdStart \in Nat /\ Transit \in Nat /\ MaxDelay \in Nat
  /\ PerCalls \subseteq Nat /\ Manuals \subseteq Nat /\ ClientDefaults \subseteq Nat
  /\ OpDefaults \subseteq Nat /\ Timeouts \subseteq Nat

VARIABLES
  opts,        \* the options the call is made with
  phase,       \* "before" the last request, at the "server", "transit", settled
  left,        \* before the client's deadline
  phaseLeft,   \* the longest the phase can still last
  elapsed      \* history: since the call was made

vars == <<opts, phase, left, phaseLeft, elapsed>>

----------------------------------------------------------------------------
\* requestTimeout of the call; a hand-set X-Request-Timeout header or query
\* value (0: given, but unusable); the client-wide requestTimeout; the
\* operation's default (0: not bounded by the server); timeoutMs.
Options == [perCall : PerCalls, manualGiven : BOOLEAN, manual : Manuals,
            clientDefault : ClientDefaults, opDefault : OpDefaults, timeout : Timeouts]

\* a ?? b
Or(a, b) == IF a # 0 THEN a ELSE b

\* Mutant of Send: the client-wide value replaces a hand-set one.
SendOverManual(o) ==
  CASE o.perCall # 0 -> o.perCall
    [] o.perCall = 0 /\ o.clientDefault # 0 /\ o.opDefault # 0 -> o.clientDefault
    [] OTHER -> 0

\* The X-Request-Timeout the SDK adds, 0 for none.
Send(o) ==
  CASE o.perCall # 0 -> o.perCall
    [] o.perCall = 0 /\ ~o.manualGiven /\ o.opDefault # 0 -> o.clientDefault
    [] OTHER -> 0

\* Mutant of ServerSeconds: a hand-set value is not read.
ServerSecondsWithoutManual(o) == Or(Send(o), o.opDefault)

\* The server timeout the deadline is planned for.
ServerSeconds(o) ==
  Or(IF o.perCall = 0 /\ o.manualGiven THEN o.manual ELSE Send(o), o.opDefault)

\* Mutant of DeadlineOf: the margin alone decides.
DeadlineWithoutMinimum(o) ==
  IF ServerSeconds(o) = 0 THEN o.timeout ELSE ServerSeconds(o) + Margin

\* Mutant of DeadlineOf: the margin has the wrong sign.
DeadlineShortened(o) ==
  IF ServerSeconds(o) = 0 THEN o.timeout ELSE ServerSeconds(o) - Margin

\* deadlineMs.
DeadlineOf(o) ==
  IF ServerSeconds(o) = 0 \/ o.timeout > ServerSeconds(o) + Margin
  THEN o.timeout ELSE ServerSeconds(o) + Margin

\* The timeout the server applies to what it finds on the wire: the header, or
\* what the caller wrote by hand if it is usable, or the operation's default.
\* An operation that is not bounded ignores all of them.
Applied(o) ==
  IF o.opDefault = 0 THEN 0
  ELSE Or(Or(Send(o), IF o.manualGiven THEN o.manual ELSE 0), o.opDefault)

TypeOK ==
  /\ opts \in Options
  /\ phase \in {"before", "server", "transit", "answered", "unsent", "aborted"}
  /\ left \in Nat /\ phaseLeft \in Nat /\ elapsed \in Nat

Init ==
  /\ opts \in Options
  /\ phase = "before"
  /\ left = DeadlineOf(opts)
  /\ phaseLeft = MaxDelay
  /\ elapsed = 0

----------------------------------------------------------------------------
\* The last request of the call is sent and the server starts on it.
Dispatch ==
  /\ phase = "before"
  /\ phase' = "server"
  /\ \E cold \in 0..ColdStart : phaseLeft' = Applied(opts) + cold
  /\ UNCHANGED <<opts, left, elapsed>>

\* The server answers, with the result or with its own timeout.
ServerAnswers ==
  /\ phase = "server"
  /\ phase' = "transit"
  /\ phaseLeft' \in 0..Transit
  /\ UNCHANGED <<opts, left, elapsed>>

\* The answer arrives and is decoded.
Arrive ==
  /\ phase = "transit"
  /\ phase' = "answered"
  /\ UNCHANGED <<opts, left, phaseLeft, elapsed>>

\* The deadline's timer fires first: the call ends with a local abort, before
\* its last request was sent or while that request waits for its answer.
DeadlineFires ==
  /\ phase \in {"before", "server", "transit"}
  /\ left = 0
  /\ phase' = IF phase = "before" THEN "unsent" ELSE "aborted"
  /\ UNCHANGED <<opts, left, phaseLeft, elapsed>>

\* An operation the server does not bound may run for any time.
Unbounded == phase = "server" /\ Applied(opts) = 0

\* Time passes, as far as the timer and the phase allow.
Tick ==
  /\ phase \in {"before", "server", "transit"}
  /\ left > 0 /\ (phaseLeft > 0 \/ Unbounded)
  /\ left' = left - 1
  /\ phaseLeft' = IF phaseLeft = 0 THEN 0 ELSE phaseLeft - 1
  /\ elapsed' = elapsed + 1
  /\ UNCHANGED <<opts, phase>>

Next == Dispatch \/ ServerAnswers \/ Arrive \/ DeadlineFires \/ Tick

Spec == Init /\ [][Next]_vars

----------------------------------------------------------------------------
(* Properties *)

\* "The client deadline always outlasts the server's" (README.md:10): a call that
\* the server has started on and bounds never ends with a local abort, so the
\* server's statement about what happened is not lost (request-timeout.ts:5-8).
DeadlineOutlastsServer == Applied(opts) # 0 => phase # "aborted"

\* timeoutMs is a minimum: no local abort before it, however short the server's
\* timeout (README.md:177, 233).
NoAbortBeforeMinimum == phase \in {"unsent", "aborted"} => elapsed >= opts.timeout
=============================================================================
