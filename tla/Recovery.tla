------------------------------ MODULE Recovery ------------------------------
(***************************************************************************)
(* One logical operation sent "with recovery" (README.md, Safe recovery    *)
(* with Idempotency-Key): the caller's loop around a bound function, the   *)
(* SDK's attempts and its classification of errors (src/src/retry.ts,      *)
(* mutator.ts, errors.ts), the network between, and the API server as its  *)
(* documentation describes it.  Requests the client has given up are still *)
(* under way, or still being executed, when the next one is sent.          *)
(*                                                                         *)
(* Requests are numbered in the order they are sent.  401 answers and      *)
(* their token refresh are the business of RequestPipeline.                *)
(***************************************************************************)
EXTENDS Naturals

CONSTANTS
  MaxAttempts,  \* retry.maxAttempts of the client
  MaxTries      \* maxAttempts of the caller's loop

ASSUME RecoveryAssumption == MaxAttempts \in Nat \ {0} /\ MaxTries \in Nat \ {0}

VARIABLES
  job,        \* what is to be done, see Jobs
  pc,         \* "idle", "waiting" for an answer, "pausing" between two tries,
              \* "returned", "thrown"
  try,        \* of the caller's loop
  attempt,    \* of withRetry() in this try
  sent,       \* the number of the last request
  wire,       \* the requests under way to the server
  executing,  \* the requests the server executes
  holder,     \* the request that has reserved the key, 0 for none
  stored,     \* what the server keeps under the key: "nothing", "result", "error"
  answer,     \* under way to the client
  effects,    \* history: how often the change took effect
  doubt       \* history: an error left open whether the request was executed

client == <<pc, try, attempt>>
server == <<executing, holder, stored, effects>>
vars == <<job, pc, try, attempt, sent, wire, executing, holder, stored, answer,
          effects, doubt>>

----------------------------------------------------------------------------
(* Errors *)

\* An ApiError (api) or anything else: network error, local abort, bad JSON.
Error(api, code, outcome) == [api |-> api, code |-> code, outcome |-> outcome]

NotApi         == Error(FALSE, "none", "none")
Ok             == Error(TRUE, "Ok", "none")
Busy           == Error(TRUE, "Busy", "not-started")
NoConnect      == Error(TRUE, "NoConnect", "none")
Rejected       == Error(TRUE, "Validation", "none")
NoSuchPath     == Error(TRUE, "NotFound", "none")
Declined       == Error(TRUE, "MT4Error", "none")
Internal       == Error(TRUE, "Internal", "none")
TimedOut       == Error(TRUE, "Timeout", "timeout")
OutcomeUnknown == Error(TRUE, "OutcomeUnknown", "unknown")
InProgress     == Error(TRUE, "OutcomeUnknown", "in-progress")

Answers == {Ok, Busy, NoConnect, Rejected, NoSuchPath, Declined, Internal,
            TimedOut, OutcomeUnknown, InProgress}

\* No answer is under way.
Nothing == Error(FALSE, "nothing", "none")

\* What customFetch() makes of an answer: all of it, or without the outcome
\* header, or with a body that is no envelope (codeForHttpStatus), or it fails
\* over the body and throws what is not an ApiError.
Readings(a) ==
  {a, NotApi} \cup
  (IF a = Ok THEN {} ELSE {Error(TRUE, a.code, "none"), Error(TRUE, "Internal", a.outcome),
                           Internal})

\* isOutcomeUnknown()
IsOutcomeUnknown(e) ==
  e.api /\ (e.code = "OutcomeUnknown" \/ e.outcome \in {"unknown", "in-progress"})

\* Mutant of IsRetryable: transient means retryable.
RetryTransient(e) ==
  /\ e.api /\ ~IsOutcomeUnknown(e)
  /\ e.code \in {"Busy", "Timeout", "NoConnect", "Internal"}

\* isRetryable()
IsRetryable(e) ==
  /\ e.api /\ ~IsOutcomeUnknown(e)
  /\ e.code \in {"Busy", "Timeout"} \/ e.outcome \in {"not-started", "timeout"}

\* The error says for certain that its request was not executed.  A bare
\* Internal does not: it is also what a gateway's 502, 503 or 504 becomes.
Definite(e) == e.api /\ ~IsOutcomeUnknown(e) /\ (e.code # "Internal" \/ IsRetryable(e))

----------------------------------------------------------------------------
(* The client *)

\* Whether withRetry() may resend; whether the path leads to an operation and
\* whether it is a safe one; whether the caller has set an Idempotency-Key.
Jobs == {j \in [resend : BOOLEAN, exists : BOOLEAN, safe : BOOLEAN, key : BOOLEAN] :
           j.resend => j.safe}

NoJob == [resend |-> FALSE, exists |-> FALSE, safe |-> TRUE, key |-> FALSE]

Init ==
  /\ job = NoJob
  /\ pc = "idle" /\ try = 0 /\ attempt = 0 /\ sent = 0
  /\ wire = {} /\ executing = {} /\ holder = 0 /\ stored = "nothing"
  /\ answer = Nothing
  /\ effects = 0 /\ doubt = FALSE

Send ==
  /\ sent' = sent + 1
  /\ wire' = wire \cup {sent + 1}
  /\ answer' = Nothing

\* The first try.
Call(j) ==
  /\ pc = "idle"
  /\ job' = j
  /\ pc' = "waiting" /\ try' = 1 /\ attempt' = 1
  /\ Send
  /\ UNCHANGED <<server, doubt>>

\* The condition of the loop.  Without a key the caller must not repeat what
\* is uncertain.
Repeats(e) == IsRetryable(e) \/ (job.key /\ (IsOutcomeUnknown(e) \/ ~e.api))

\* The catch of the loop.
Fail(e) ==
  /\ pc' = IF try < MaxTries /\ Repeats(e) THEN "pausing" ELSE "thrown"
  /\ doubt' = (doubt \/ ~Definite(e))
  /\ answer' = Nothing
  /\ UNCHANGED <<job, try, attempt, sent, wire, server>>

\* The answer is read.
ReadAnswer ==
  /\ pc = "waiting" /\ answer # Nothing
  /\ \E e \in Readings(answer) :
       \/ /\ e # Ok
          /\ Fail(e)
       \/ /\ e = Ok
          /\ pc' = "returned"
          /\ answer' = Nothing
          /\ UNCHANGED <<job, try, attempt, sent, wire, server, doubt>>

\* Mutant of MayResend: one attempt too many.
MayResendOnceMore == job.resend /\ attempt <= MaxAttempts

MayResend == job.resend /\ attempt < MaxAttempts

\* withRetry() sends again, after a network error or a gateway's 408, 429,
\* 502, 503 or 504.
Resend ==
  /\ pc = "waiting" /\ MayResend
  /\ attempt' = attempt + 1
  /\ Send
  /\ UNCHANGED <<job, pc, try, server, doubt>>

\* It does not: the network error or the gateway's status is the caller's.
ConnectionFails ==
  /\ pc = "waiting" /\ ~MayResend
  /\ \E e \in {NotApi, Internal} : Fail(e)

\* Mutant of Abort: no deadline once the request has reached the server.
AbortUnsent == pc = "waiting" /\ sent \in wire /\ Fail(NotApi)

\* The deadline of the try fires, or the caller aborts it.
Abort == pc = "waiting" /\ Fail(NotApi)

\* The next try: the same request, the same key.
Repeat ==
  /\ pc = "pausing"
  /\ pc' = "waiting" /\ try' = try + 1 /\ attempt' = 1
  /\ Send
  /\ UNCHANGED <<job, server, doubt>>

----------------------------------------------------------------------------
(* The network and the server.  An answer reaches the client only while it  *)
(* waits for that request.                                                  *)

Reply(r, a) ==
  answer' = IF r = sent /\ pc = "waiting" /\ answer = Nothing THEN a ELSE answer

Lose(r) ==
  /\ r \in wire
  /\ wire' = wire \ {r}
  /\ UNCHANGED <<job, client, sent, server, answer, doubt>>

\* The request is answered without being executed: in front of the server, or
\* because it is busy, not connected, out of order or not content with it.
Refuse(r) ==
  /\ r \in wire
  /\ wire' = wire \ {r}
  /\ \E a \in {Busy, NoConnect, Rejected, NoSuchPath, Internal} : Reply(r, a)
  /\ UNCHANGED <<job, client, sent, server, doubt>>

\* A request with this key is still running.
Collide(r) ==
  /\ r \in wire /\ job.key /\ holder # 0
  /\ wire' = wire \ {r}
  /\ Reply(r, InProgress)
  /\ UNCHANGED <<job, client, sent, server, doubt>>

\* A request with this key has finished: its result once more.
Replay(r) ==
  /\ r \in wire /\ job.key /\ stored # "nothing"
  /\ wire' = wire \ {r}
  /\ Reply(r, IF stored = "result" THEN Ok ELSE Declined)
  /\ UNCHANGED <<job, client, sent, server, doubt>>

\* The request starts, and reserves its key.
Start(r) ==
  /\ r \in wire /\ job.exists
  /\ job.key => holder = 0 /\ stored = "nothing"
  /\ wire' = wire \ {r}
  /\ executing' = executing \cup {r}
  /\ holder' = IF job.key THEN r ELSE holder
  /\ UNCHANGED <<job, client, sent, stored, effects, answer, doubt>>

\* The end of an execution; what it stores under the key.
Finish(r, a, keep) ==
  /\ r \in executing
  /\ executing' = executing \ {r}
  /\ holder' = IF job.key THEN 0 ELSE holder
  /\ stored' = IF job.key THEN keep ELSE stored
  /\ Reply(r, a)
  /\ UNCHANGED <<job, client, sent, wire, doubt>>

Succeed(r) ==
  /\ Finish(r, Ok, "result")
  /\ effects' = IF job.safe THEN effects ELSE effects + 1

\* The trading server declines.
Decline(r) == Finish(r, Declined, "error") /\ UNCHANGED effects

\* The execution breaks off before anything has changed: not stored.
BreakOff(r) ==
  /\ \E a \in {Internal, NoConnect} : Finish(r, a, "nothing")
  /\ UNCHANGED effects

\* A read runs out of time.
TimeOut(r) ==
  /\ job.safe
  /\ Finish(r, TimedOut, "nothing")
  /\ UNCHANGED effects

\* A change runs out of time, and goes on.
Overrun(r) ==
  /\ r \in executing /\ ~job.safe
  /\ Reply(r, OutcomeUnknown)
  /\ UNCHANGED <<job, client, sent, wire, server, doubt>>

----------------------------------------------------------------------------
ClientStep == ReadAnswer \/ Resend \/ ConnectionFails \/ Abort \/ Repeat

ServerStep ==
  \/ \E r \in wire : Lose(r) \/ Refuse(r) \/ Collide(r) \/ Replay(r) \/ Start(r)
  \/ \E r \in executing : Succeed(r) \/ Decline(r) \/ BreakOff(r) \/ TimeOut(r) \/ Overrun(r)

Next == (\E j \in Jobs : Call(j)) \/ ClientStep \/ ServerStep

Spec == Init /\ [][Next]_vars

----------------------------------------------------------------------------
(* Properties *)

\* The types.  The two nested loops send MaxTries * MaxAttempts requests at most,
\* and for a job that withRetry() does not resend one per try.
TypeOK ==
  /\ job \in Jobs
  /\ pc \in {"idle", "waiting", "pausing", "returned", "thrown"}
  /\ try \in 0 .. MaxTries /\ attempt \in 0 .. MaxAttempts
  /\ sent \in 0 .. MaxTries * MaxAttempts /\ (~job.resend => sent <= MaxTries)
  /\ wire \subseteq 1 .. sent /\ executing \subseteq 1 .. sent
  /\ holder \in 0 .. sent /\ stored \in {"nothing", "result", "error"}
  /\ answer \in Answers \cup {Nothing}
  /\ effects \in Nat /\ doubt \in BOOLEAN

\* What the caller knows of a change: it returned; or it threw, and no error on
\* the way left its execution open; or neither.  Safe operations change nothing.
Verdict ==
  CASE job.safe -> "open"
    [] ~job.safe /\ pc = "returned" -> "done"
    [] ~job.safe /\ pc = "thrown" -> IF doubt THEN "unknown" ELSE "refused"
    [] OTHER -> "open"

Promise == INSTANCE AtMostOnce WITH verdict <- Verdict

\* "Repeating the same request with the same key is therefore the safe way to
\* learn the outcome: [...] it never executes the operation twice" (README.md,
\* 253), and without a key the SDK's helpers suffice to repeat only what was
\* not executed (errors.ts:138-142): over resends, repeats, aborts and answers
\* that were cut on the way, a change takes effect at most once, a call that
\* returns has taken effect, and one that threw only definite errors never will.
ImplementsAtMostOnce == Promise!Spec
=============================================================================
