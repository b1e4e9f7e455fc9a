-------------------------- MODULE RequestPipeline --------------------------
(***************************************************************************)
(* The authenticated transport of the SDK: authenticatedFetch() of         *)
(* src/src/mutator.ts, with withRetry() of src/src/retry.ts inside and     *)
(* withDeadline() of src/src/deadline.ts around it.  Several requests run  *)
(* at once over one client and share its token provider, which is taken at *)
(* its word: the provider here is SingleFlight, the specification that     *)
(* TokenProvider implements, with the requests for its callers.            *)
(*                                                                         *)
(* The API server is the environment, and so is whatever ends the life of  *)
(* a token.  A request that is sent carries a bearer token; the server     *)
(* refuses it with 401 if it no longer accepts the token, and otherwise    *)
(* answers as it likes, late, or never.                                    *)
(***************************************************************************)
EXTENDS Naturals, Sequences, FiniteSets

CONSTANTS
  Requests,       \* the SDK calls made through one client
  Idempotent,     \* those with method GET, HEAD, OPTIONS, PUT or DELETE
  MaxAttempts,    \* retryPolicy.maxAttempts
  MaxDead         \* bound: how many tokens expire or are dead

ASSUME PipelineAssumption ==
  /\ Idempotent \subseteq Requests
  /\ MaxAttempts \in Nat \ {0}
  /\ MaxDead \in Nat

VARIABLES
  flight, landed, seat,  \* the token provider's
  pc,      \* where authenticatedFetch() stands
  attempt, \* withRetry's attempt counter
  forced,  \* the current doFetch() is the replay after a 401
  fired,   \* the operation's signal has fired: its caller's or its deadline's
  sent,    \* the HTTP requests the call has put on the wire, oldest first
  result,  \* how the call settled
  dead     \* tokens the server no longer accepts: expired or dead

providerVars == <<flight, landed, seat>>
requestVars == <<pc, attempt, forced, fired, sent, result>>
vars == <<providerVars, requestVars, dead>>

Provider == INSTANCE SingleFlight WITH Callers <- Requests

----------------------------------------------------------------------------
\* Answers of the API: 401, a status of RETRYABLE_STATUSES, or one that every
\* layer passes on (a success, another error).
Statuses == {"unauth", "busy", "final"}

\* A request on the wire: not answered yet, answered, or its answer lost.
Send == [tok : Nat, forced : BOOLEAN, status : Statuses \cup {"none", "lost"}]

TypeOK ==
  /\ Provider!TypeOK
  /\ pc \in [Requests -> {"idle", "token", "fetch", "sleep", "body", "done"}]
  /\ attempt \in [Requests -> 0..MaxAttempts]
  /\ forced \in [Requests -> BOOLEAN]
  /\ fired \in [Requests -> BOOLEAN]
  /\ sent \in [Requests -> Seq(Send)]
  /\ result \in [Requests -> Statuses \cup {"none", "failed", "aborted"}]
  /\ dead \subseteq Nat

Init ==
  /\ Provider!Init
  /\ pc = [r \in Requests |-> "idle"]
  /\ attempt = [r \in Requests |-> 0]
  /\ forced = [r \in Requests |-> FALSE]
  /\ fired = [r \in Requests |-> FALSE]
  /\ sent = [r \in Requests |-> << >>]
  /\ result = [r \in Requests |-> "none"]
  /\ dead = {}

LastSend(r) == sent[r][Len(sent[r])]

Finish(r, how) ==
  /\ pc' = [pc EXCEPT ![r] = "done"]
  /\ result' = [result EXCEPT ![r] = how]

----------------------------------------------------------------------------
(* One attempt: doFetch(false) and, after a 401, doFetch(true) *)

\* doFetch() up to its first await: ask the provider for a token.
AskToken(r, force, replay) ==
  /\ Provider!GetToken(r, force, fired[r])
  /\ pc' = [pc EXCEPT ![r] = "token"]
  /\ forced' = [forced EXCEPT ![r] = replay]

\* The next pass of withRetry's loop.  throwIfAborted() comes first.
BeginAttempt(r) ==
  /\ attempt' = [attempt EXCEPT ![r] = @ + 1]
  /\ IF fired[r]
     THEN Finish(r, "aborted") /\ UNCHANGED <<providerVars, forced>>
     ELSE AskToken(r, FALSE, FALSE) /\ UNCHANGED result
  /\ UNCHANGED <<fired, sent, dead>>

\* The SDK call is made.  Its caller's signal may have fired already.
Start(r) == pc[r] = "idle" /\ BeginAttempt(r)

\* Mutant of Unsendable: the signal is not handed to fetch.
NeverUnsendable(r) == FALSE

\* fetch rejects at once when its signal has fired.
Unsendable(r) == fired[r]

\* doFetch() resumes with a token and calls fetch with it.  A signal that has
\* fired makes fetch reject before anything is sent.
SendRequest(r) ==
  /\ pc[r] = "token" /\ seat[r].st = "got"
  /\ IF Unsendable(r)
     THEN Finish(r, "aborted") /\ UNCHANGED sent
     ELSE /\ pc' = [pc EXCEPT ![r] = "fetch"]
          /\ sent' = [sent EXCEPT ![r] = Append(@, [tok |-> seat[r].on,
                                                    forced |-> forced[r],
                                                    status |-> "none"])]
          /\ UNCHANGED result
  /\ UNCHANGED <<providerVars, attempt, forced, fired, dead>>

\* Mutant of MayRetry: a limit counted from the wrong end.
MayRetryOneMore(r) == r \in Idempotent /\ attempt[r] <= MaxAttempts

\* withRetry has another attempt for the call.
MayRetry(r) == r \in Idempotent /\ attempt[r] < MaxAttempts

\* op() has thrown something that is not a cancellation: an idempotent call
\* backs off and tries again while attempts are left.
Thrown(r) ==
  IF MayRetry(r) /\ ~fired[r]
  THEN pc' = [pc EXCEPT ![r] = "sleep"] /\ UNCHANGED result
  ELSE Finish(r, "failed")

\* getToken() rejects because the acquisition failed.
TokenFailed(r) ==
  /\ pc[r] = "token" /\ seat[r].st = "failed"
  /\ Thrown(r)
  /\ UNCHANGED <<providerVars, attempt, forced, fired, sent, dead>>

\* getToken() rejects with a cancellation: the wait was aborted, or one of the
\* acquisition's own deadlines fired.  isAbortLike() ends the call either way.
TokenCancelled(r) ==
  /\ pc[r] = "token" /\ seat[r].st \in {"timedout", "aborted"}
  /\ Finish(r, IF seat[r].st = "aborted" THEN "aborted" ELSE "failed")
  /\ UNCHANGED <<providerVars, attempt, forced, fired, sent, dead>>

\* fetch rejects: connection refused or reset, the answer lost.
FetchFailed(r) ==
  /\ pc[r] = "fetch"
  /\ sent' = [sent EXCEPT ![r][Len(sent[r])].status = "lost"]
  /\ Thrown(r)
  /\ UNCHANGED <<providerVars, attempt, forced, fired, dead>>

\* Mutant of Replays: a POST is replayed too.
ReplaysUnsafe(r) == LastSend(r).status = "unauth" /\ ~forced[r]

\* Mutant of Replays: a 401 refreshes again and again.
ReplaysForever(r) == LastSend(r).status = "unauth" /\ r \in Idempotent

\* A 401 is answered by a refresh and a replay.
Replays(r) == LastSend(r).status = "unauth" /\ r \in Idempotent /\ ~forced[r]

\* Mutant of ForceReplay: the replay may take the cached token.
ReplayFromCache == FALSE

\* getToken()'s forceRefresh in the replay.
ForceReplay == TRUE

\* The answer is here.  A 401 of an idempotent call forces one token refresh and
\* one replay per attempt; a retryable status of an idempotent call is retried;
\* anything else is handed to the consumer.
Receive(r) ==
  /\ pc[r] = "fetch" /\ LastSend(r).status # "none"
  /\ IF Replays(r)
     THEN AskToken(r, ForceReplay, TRUE)
     ELSE /\ pc' = [pc EXCEPT ![r] = IF LastSend(r).status = "busy" /\ MayRetry(r)
                                     THEN "sleep" ELSE "body"]
          /\ UNCHANGED <<providerVars, forced>>
  /\ UNCHANGED <<attempt, fired, sent, result, dead>>

\* The backoff timer fires.
WakeUp(r) == pc[r] = "sleep" /\ BeginAttempt(r)

\* The consumer reads the body, or reading it fails (which is not retried).
ReadBody(r) ==
  /\ pc[r] = "body"
  /\ \E how \in {LastSend(r).status, "failed"} : Finish(r, how)
  /\ UNCHANGED <<providerVars, attempt, forced, fired, sent, dead>>

----------------------------------------------------------------------------
(* The operation's signal: the caller's AbortSignal or the deadline's timer *)

\* Mutant of Interruptible: the deadline covers the exchange, not the body.
InterruptibleNotBody == {"fetch", "sleep"}

\* Where a signal ends the call at once (besides a pending getToken()).
Interruptible == {"fetch", "sleep", "body"}

\* Every await of the operation listens to the signal and rejects with it; a
\* call whose token has just settled finds out in its next step.
Fire(r) ==
  /\ pc[r] # "done" /\ ~fired[r]
  /\ fired' = [fired EXCEPT ![r] = TRUE]
  /\ IF pc[r] = "token" /\ seat[r].st = "waiting"
     THEN Provider!Leave(r)
     ELSE UNCHANGED providerVars
  /\ IF pc[r] \in Interruptible
     THEN Finish(r, "aborted")
     ELSE UNCHANGED <<pc, result>>
  /\ UNCHANGED <<attempt, forced, sent, dead>>

CallerAborts(r) == Fire(r)

\* The timer starts with the call and is cleared when it settles.
DeadlineFires(r) == pc[r] # "idle" /\ Fire(r)

----------------------------------------------------------------------------
(* Environment *)

\* The API handles the request on the wire and answers it.
Answer(r, status) ==
  /\ pc[r] = "fetch" /\ LastSend(r).status = "none"
  /\ (status = "unauth") = (LastSend(r).tok \in dead)
  /\ sent' = [sent EXCEPT ![r][Len(sent[r])].status = status]
  /\ UNCHANGED <<providerVars, pc, attempt, forced, fired, result, dead>>

\* A token dies: it expires, or the identity service revokes it.
Die(tok) ==
  /\ landed[tok] = "ok"
  /\ Cardinality(dead) < MaxDead
  /\ dead' = dead \cup {tok}
  /\ UNCHANGED <<providerVars, requestVars>>

\* The provider's refresh ends.
RefreshLands == Provider!Landing /\ UNCHANGED <<requestVars, dead>>

Request(r) ==
  \/ Start(r) \/ SendRequest(r) \/ TokenFailed(r) \/ TokenCancelled(r)
  \/ FetchFailed(r) \/ Receive(r) \/ WakeUp(r) \/ ReadBody(r)
  \/ CallerAborts(r) \/ DeadlineFires(r)

Next ==
  \/ \E r \in Requests : Request(r) \/ \E status \in Statuses : Answer(r, status)
  \/ \E tok \in DOMAIN landed : Die(tok)
  \/ RefreshLands

Spec == Init /\ [][Next]_vars

\* Timers fire and continuations run; servers need not answer, callers need not
\* abort or even start.
Fairness ==
  \A r \in Requests : /\ WF_vars(DeadlineFires(r))
                      /\ WF_vars(SendRequest(r) \/ TokenFailed(r) \/ TokenCancelled(r))

FairSpec == Spec /\ Fairness

----------------------------------------------------------------------------
(* Properties *)

\* A POST or PATCH goes on the wire at most once, whatever happens to it: 401,
\* retryable status, connection reset (retry.ts:8-9, mutator.ts:57, 80).
UnsafeSentOnce == \A r \in Requests \ Idempotent : Len(sent[r]) <= 1

\* The retry budget holds across both loops: an attempt is at most one request
\* and one replay (retry.ts:45, mutator.ts:78-82).
SendsBounded ==
  \A r \in Requests : attempt[r] <= MaxAttempts /\ Len(sent[r]) <= 2 * attempt[r]

\* A replay never repeats the rejected token: it carries one acquired later,
\* whoever else refreshed or aborted in between (mutator.ts:79-80,
\* auth.ts:101, 122).  So 401 reaches the caller of an idempotent call only after
\* two different tokens were refused.
ReplayCarriesNewerToken ==
  \A r \in Requests :
    /\ \A i \in 2..Len(sent[r]) : sent[r][i].forced =>
         sent[r][i-1].status = "unauth" /\ sent[r][i].tok > sent[r][i-1].tok
    /\ r \in Idempotent /\ result[r] = "unauth" => LastSend(r).forced

\* Nothing is sent for a call whose deadline or caller has cancelled it, nor
\* for a settled one (mutator.ts:62, 72; retry.ts:47, 68).
NothingSentAfterCancel ==
  [][\A r \in Requests : Len(sent'[r]) > Len(sent[r]) => ~fired[r] /\ result[r] = "none"]_vars

\* Every call settles: the deadline covers the wait for a token, the exchange,
\* the backoff and the body (deadline.ts:7-27, mutator.ts:56, 85).
EveryRequestSettles ==
  \A r \in Requests : pc[r] \notin {"idle", "done"} ~> pc[r] = "done"

\* listTradePlatforms() promises: "On HTTP 401 the method force-refreshes the
\* token once and retries. Any non-2xx response after that throws ApiError."
\* (client.ts:446-447), so nothing follows a replay that is not answered 2xx.
OneRefreshThenError ==
  \A r \in Requests : \A i \in 1..(Len(sent[r]) - 1) :
    sent[r][i].forced => sent[r][i].status \notin {"unauth", "busy"}
=============================================================================
