----------------------- MODULE RequestPipelineProofs -----------------------
(***************************************************************************)
(* Proofs about RequestPipeline, for every set of requests, idempotent or  *)
(* not, every number of attempts and every number of dead tokens.          *)
(***************************************************************************)
EXTENDS RequestPipeline, SequenceTheorems, TLAPS

----------------------------------------------------------------------------
(* The requests and the provider they share *)

\* What a step does to the provider.
ProviderStep == Provider!Next \/ UNCHANGED providerVars

LEMMA AskTokenStep ==
  ASSUME NEW r \in Requests, NEW force \in BOOLEAN, NEW replay, TypeOK, AskToken(r, force, replay)
  PROVE  ProviderStep
<1>1. fired[r] \in BOOLEAN
  BY DEF TypeOK
<1>2. Provider!GetToken(r, force, fired[r])
  BY DEF AskToken
<1>3. Provider!Next
  BY <1>1, <1>2 DEF Provider!Next
<1> QED BY <1>3 DEF ProviderStep

\* Whatever a request does, it uses the provider as specified, or not at all.
LEMMA NextProviderStep ==
  ASSUME TypeOK, [Next]_vars
  PROVE  ProviderStep
<1> USE DEF ProviderStep
<1>1. ASSUME NEW r \in Requests, BeginAttempt(r)
      PROVE  ProviderStep
  BY <1>1, AskTokenStep DEF BeginAttempt
<1>2. ASSUME NEW r \in Requests, Start(r) \/ WakeUp(r)
      PROVE  ProviderStep
  BY <1>1, <1>2 DEF Start, WakeUp
<1>3. ASSUME NEW r \in Requests, Receive(r)
      PROVE  ProviderStep
  BY <1>3, AskTokenStep DEF Receive, ForceReplay
<1>4. ASSUME NEW r \in Requests, Fire(r)
      PROVE  ProviderStep
  <2>1. CASE Provider!Leave(r)
    BY <2>1 DEF Provider!Next
  <2>2. CASE UNCHANGED providerVars
    BY <2>2
  <2> QED BY <1>4, <2>1, <2>2 DEF Fire
<1>5. ASSUME NEW r \in Requests,
             \/ SendRequest(r) \/ TokenFailed(r) \/ TokenCancelled(r)
             \/ FetchFailed(r) \/ ReadBody(r)
             \/ \E status \in Statuses : Answer(r, status)
      PROVE  ProviderStep
  BY <1>5 DEF SendRequest, TokenFailed, TokenCancelled, FetchFailed, ReadBody, Answer
<1>6. ASSUME NEW tok \in DOMAIN landed, Die(tok)
      PROVE  ProviderStep
  BY <1>6 DEF Die
<1>7. CASE RefreshLands
  BY <1>7 DEF RefreshLands, Provider!Next
<1>8. CASE UNCHANGED vars
  BY <1>8 DEF vars, providerVars
<1> QED
  BY <1>2, <1>3, <1>4, <1>5, <1>6, <1>7, <1>8 DEF Next, Request, CallerAborts, DeadlineFires

\* The provider stays well-typed.
LEMMA ProviderTypeStep ==
  ASSUME Provider!TypeOK, ProviderStep
  PROVE  Provider!TypeOK'
<1> DEFINE Outcomes == {"pending", "ok", "failed"}
<1> USE DEF Provider!TypeOK, Provider!Seats
<1>0. /\ DOMAIN landed = 1..Len(landed) /\ Len(landed) \in Nat
  BY LenProperties
<1>1. ASSUME NEW c \in Requests, NEW force \in BOOLEAN, Provider!Serve(c, force)
      PROVE  Provider!TypeOK'
  BY <1>0, <1>1 DEF Provider!Serve
<1>2. ASSUME NEW c \in Requests, NEW force \in BOOLEAN, NEW aborted \in BOOLEAN,
             Provider!Board(c, force, aborted)
      PROVE  Provider!TypeOK'
  <2>1. flight' \in Nat /\ landed' \in Seq(Outcomes)
    <3>1. Append(landed, "pending") \in Seq(Outcomes)
      BY AppendProperties
    <3>2. CASE flight = 0
      <4>1. flight' = Len(landed) + 1 /\ landed' = Append(landed, "pending")
        BY <1>2, <3>2 DEF Provider!Board
      <4> QED BY <1>0, <3>1, <4>1
    <3>3. CASE flight # 0
      BY <1>2, <3>3 DEF Provider!Board
    <3> QED BY <3>2, <3>3
  <2> QED BY <1>2, <2>1 DEF Provider!Board
<1>3. ASSUME NEW c \in Requests, Provider!Leave(c)
      PROVE  Provider!TypeOK'
  BY <1>3 DEF Provider!Leave
<1>4. ASSUME NEW how \in {"got", "failed", "timedout"}, Provider!Land(how)
      PROVE  Provider!TypeOK'
  <2>1. landed' = [landed EXCEPT ![flight] = IF how = "got" THEN "ok" ELSE "failed"]
    BY <1>4 DEF Provider!Land
  <2>2. landed' \in Seq(Outcomes)
    <3>1. CASE flight \in 1..Len(landed)
      BY <2>1, <3>1, ExceptSeq
    <3>2. CASE flight \notin DOMAIN landed
      <4>1. landed' = landed
        BY <2>1, <3>2, <1>0, LenProperties
      <4> QED BY <4>1
    <3> QED BY <1>0, <3>1, <3>2
  <2> QED BY <1>4, <2>2 DEF Provider!Land
<1>5. CASE UNCHANGED providerVars
  BY <1>5 DEF providerVars
<1> QED
  BY <1>1, <1>2, <1>3, <1>4, <1>5
     DEF ProviderStep, Provider!Next, Provider!GetToken, Provider!Landing

----------------------------------------------------------------------------
(* The history of requests *)

\* Marking the outcome of the last request changes nothing else.
LEMMA MarkLast ==
  ASSUME sent \in [Requests -> Seq(Send)], NEW r \in Requests, Len(sent[r]) > 0,
         NEW status \in Statuses \cup {"none", "lost"},
         sent' = [sent EXCEPT ![r][Len(sent[r])].status = status]
  PROVE  /\ sent' \in [Requests -> Seq(Send)]
         /\ \A q \in Requests : Len(sent'[q]) = Len(sent[q])
         /\ \A q \in Requests \ {r} : sent'[q] = sent[q]
         /\ \A i \in 1..Len(sent[r]) : /\ sent'[r][i].tok = sent[r][i].tok
                                       /\ sent'[r][i].forced = sent[r][i].forced
         /\ \A i \in 1..(Len(sent[r]) - 1) : sent'[r][i] = sent[r][i]
         /\ LastSend(r)'.status = status
<1> DEFINE s == sent[r]  last == s[Len(s)]  new == [last EXCEPT !.status = status]
<1>1. s \in Seq(Send) /\ Len(s) \in Nat /\ Len(s) \in 1..Len(s)
  BY LenProperties
<1>2. last \in Send
  BY <1>1, ElementOfSeq
<1>3. /\ new \in Send /\ new.status = status
      /\ new.tok = last.tok /\ new.forced = last.forced
  BY <1>2 DEF Send
<1>4. sent' = [sent EXCEPT ![r] = [s EXCEPT ![Len(s)] = new]]
  OBVIOUS
<1>5. sent'[r] = [s EXCEPT ![Len(s)] = new] /\ \A q \in Requests \ {r} : sent'[q] = sent[q]
  BY <1>4
<1>6. /\ sent'[r] \in Seq(Send) /\ Len(sent'[r]) = Len(s)
      /\ \A i \in 1..Len(s) : sent'[r][i] = IF i = Len(s) THEN new ELSE s[i]
  <2>1. s \in Seq(Send) /\ Len(s) \in 1..Len(s) /\ new \in Send
    BY <1>1, <1>3
  <2> HIDE DEF new, s
  <2>2. /\ [s EXCEPT ![Len(s)] = new] \in Seq(Send)
        /\ Len([s EXCEPT ![Len(s)] = new]) = Len(s)
        /\ \A j \in 1..Len(s) :
             [s EXCEPT ![Len(s)] = new][j] = IF j = Len(s) THEN new ELSE s[j]
    BY <2>1, ExceptSeq
  <2> QED BY <1>5, <2>2
<1>7. sent' \in [Requests -> Seq(Send)]
  BY <1>4, <1>5, <1>6
<1>8. LastSend(r)'.status = status
  BY <1>1, <1>3, <1>6 DEF LastSend
<1> QED BY <1>1, <1>3, <1>5, <1>6, <1>7, <1>8

\* Sending appends to the history of one request.
LEMMA AppendSend ==
  ASSUME sent \in [Requests -> Seq(Send)], NEW r \in Requests, NEW e \in Send,
         sent' = [sent EXCEPT ![r] = Append(@, e)]
  PROVE  /\ sent' \in [Requests -> Seq(Send)]
         /\ \A q \in Requests \ {r} : sent'[q] = sent[q]
         /\ Len(sent'[r]) = Len(sent[r]) + 1 /\ Len(sent[r]) \in Nat
         /\ \A i \in 1..Len(sent[r]) : sent'[r][i] = sent[r][i]
         /\ sent'[r][Len(sent[r]) + 1] = e
<1>1. sent[r] \in Seq(Send) /\ sent'[r] = Append(sent[r], e)
  OBVIOUS
<1>2. Len(sent[r]) \in Nat
  BY <1>1, LenProperties
<1> QED BY <1>1, <1>2, AppendProperties

----------------------------------------------------------------------------
(* The budget of requests *)

RequestTypes ==
  /\ pc \in [Requests -> {"idle", "token", "fetch", "sleep", "body", "done"}]
  /\ attempt \in [Requests -> 0..MaxAttempts]
  /\ forced \in [Requests -> BOOLEAN]
  /\ fired \in [Requests -> BOOLEAN]
  /\ sent \in [Requests -> Seq(Send)]
  /\ result \in [Requests -> Statuses \cup {"none", "failed", "aborted"}]
  /\ dead \subseteq Nat

Replay(r) == IF forced[r] THEN 1 ELSE 0

\* Where a call stands bounds what it has sent: before the first answer of an
\* attempt nothing of the attempt, afterwards one request, and one more once the
\* attempt is in its replay.  A call that must not be repeated never gets back.
Budget(r) ==
  /\ pc[r] = "idle" => attempt[r] = 0 /\ Len(sent[r]) = 0
  /\ pc[r] = "token" => Len(sent[r]) + 2 <= 2 * attempt[r] + Replay(r)
  /\ pc[r] = "fetch" => Len(sent[r]) > 0 /\ Len(sent[r]) + 1 <= 2 * attempt[r] + Replay(r)
  /\ pc[r] = "sleep" => r \in Idempotent /\ attempt[r] < MaxAttempts
  /\ pc[r] = "fetch" => LastSend(r).status \in Statuses \cup {"none"}
  /\ pc[r] = "body" => Len(sent[r]) > 0 /\ LastSend(r).status \in Statuses
  /\ attempt[r] <= MaxAttempts /\ Len(sent[r]) <= 2 * attempt[r]
  /\ r \notin Idempotent => /\ Len(sent[r]) <= 1
                            /\ pc[r] = "token" => Len(sent[r]) = 0
  /\ result[r] = "none" <=> pc[r] # "done"

\* A step that is not one of request r.
Untouched(r) ==
  /\ pc'[r] = pc[r] /\ attempt'[r] = attempt[r] /\ forced'[r] = forced[r]
  /\ sent'[r] = sent[r] /\ result'[r] = result[r]

LEMMA UntouchedBudget ==
  ASSUME NEW r, Budget(r), Untouched(r)
  PROVE  Budget(r)'
  BY DEF Budget, Untouched, Replay, LastSend

LEMMA BudgetBegin ==
  ASSUME RequestTypes, NEW r \in Requests, Budget(r), pc[r] \in {"idle", "sleep"},
         BeginAttempt(r)
  PROVE  RequestTypes' /\ Budget(r)' /\ \A q \in Requests \ {r} : Untouched(q)
<1> USE PipelineAssumption DEF RequestTypes
<1>1. attempt[r] < MaxAttempts /\ attempt[r] \in Nat /\ Len(sent[r]) \in Nat
  BY LenProperties DEF Budget
<1>2. /\ attempt' = [attempt EXCEPT ![r] = @ + 1] /\ UNCHANGED <<fired, sent, dead>>
  BY DEF BeginAttempt
<1>3. attempt' \in [Requests -> 0..MaxAttempts]
  BY <1>1, <1>2
<1>4. CASE fired[r]
  <2>1. /\ pc' = [pc EXCEPT ![r] = "done"] /\ result' = [result EXCEPT ![r] = "aborted"]
        /\ forced' = forced
    BY <1>4 DEF BeginAttempt, Finish
  <2>2. RequestTypes'
    BY <1>2, <1>3, <2>1
  <2>3. pc'[r] = "done" /\ result'[r] = "aborted" /\ attempt'[r] = attempt[r] + 1
    BY <1>2, <2>1
  <2>4. Budget(r)'
    BY <1>1, <1>2, <2>3 DEF Budget
  <2> QED BY <1>2, <2>1, <2>2, <2>4 DEF Untouched
<1>5. CASE ~fired[r]
  <2>1. /\ pc' = [pc EXCEPT ![r] = "token"] /\ forced' = [forced EXCEPT ![r] = FALSE]
        /\ result' = result
    BY <1>5 DEF BeginAttempt, AskToken
  <2>2. RequestTypes'
    BY <1>2, <1>3, <2>1
  <2>3. pc'[r] = "token" /\ forced'[r] = FALSE /\ attempt'[r] = attempt[r] + 1
    BY <1>2, <2>1
  <2>4. Budget(r)'
    BY <1>1, <1>2, <2>1, <2>3 DEF Budget, Replay
  <2> QED BY <1>2, <2>1, <2>2, <2>4 DEF Untouched
<1> QED BY <1>4, <1>5

LEMMA BudgetSend ==
  ASSUME RequestTypes, Provider!TypeOK, NEW r \in Requests, Budget(r), SendRequest(r)
  PROVE  RequestTypes' /\ Budget(r)' /\ \A q \in Requests \ {r} : Untouched(q)
<1> USE PipelineAssumption DEF RequestTypes
<1>1. pc[r] = "token" /\ UNCHANGED <<attempt, forced, fired, dead>>
      /\ attempt[r] \in Nat /\ Len(sent[r]) \in Nat
  BY LenProperties DEF SendRequest
<1>2. CASE Unsendable(r)
  <2>1. /\ pc' = [pc EXCEPT ![r] = "done"] /\ result' = [result EXCEPT ![r] = "aborted"]
        /\ sent' = sent
    BY <1>2 DEF SendRequest, Finish
  <2> QED BY <1>1, <2>1 DEF Budget, Untouched
<1>3. CASE ~Unsendable(r)
  <2> DEFINE e == [tok |-> seat[r].on, forced |-> forced[r], status |-> "none"]
  <2>1. /\ pc' = [pc EXCEPT ![r] = "fetch"] /\ result' = result
        /\ sent' = [sent EXCEPT ![r] = Append(@, e)]
    BY <1>3 DEF SendRequest
  <2>2. e \in Send
    BY DEF Provider!TypeOK, Provider!Seats, Send
  <2> HIDE DEF e
  <2>3. /\ sent' \in [Requests -> Seq(Send)]
        /\ \A q \in Requests \ {r} : sent'[q] = sent[q]
        /\ Len(sent'[r]) = Len(sent[r]) + 1
        /\ LastSend(r)' = e
    BY <1>1, <2>1, <2>2, AppendSend DEF LastSend
  <2>4. e.status = "none"
    BY DEF e
  <2>5. RequestTypes'
    BY <1>1, <2>1, <2>3
  <2>6. pc'[r] = "fetch"
    BY <2>1
  <2>7. Budget(r)'
    BY <1>1, <2>1, <2>3, <2>4, <2>6 DEF Budget, Replay
  <2> QED BY <1>1, <2>1, <2>3, <2>5, <2>7 DEF Untouched
<1> QED BY <1>2, <1>3

\* op() has thrown: a call with attempts left sleeps, any other is over.
LEMMA ThrownIs ==
  ASSUME RequestTypes, NEW r \in Requests, Thrown(r)
  PROVE  \/ /\ pc' = [pc EXCEPT ![r] = "sleep"] /\ result' = result
            /\ r \in Idempotent /\ attempt[r] < MaxAttempts
         \/ /\ pc' = [pc EXCEPT ![r] = "done"] /\ result' = [result EXCEPT ![r] = "failed"]
  BY DEF Thrown, MayRetry, Finish

LEMMA BudgetFails ==
  ASSUME RequestTypes, NEW r \in Requests, Budget(r), TokenFailed(r) \/ TokenCancelled(r)
  PROVE  RequestTypes' /\ Budget(r)' /\ \A q \in Requests \ {r} : Untouched(q)
<1> USE PipelineAssumption DEF RequestTypes
<1>1. pc[r] = "token" /\ UNCHANGED <<attempt, forced, fired, sent, dead>>
  BY DEF TokenFailed, TokenCancelled
<1>2. CASE TokenFailed(r)
  <2>1. Thrown(r)
    BY <1>2 DEF TokenFailed
  <2> QED BY <1>1, <2>1, ThrownIs DEF Budget, Untouched
<1>3. CASE TokenCancelled(r)
  <2>1. PICK how \in {"aborted", "failed"} :
          pc' = [pc EXCEPT ![r] = "done"] /\ result' = [result EXCEPT ![r] = how]
    BY <1>3 DEF TokenCancelled, Finish
  <2> QED BY <1>1, <2>1 DEF Budget, Untouched
<1> QED BY <1>2, <1>3

LEMMA BudgetFetchFailed ==
  ASSUME RequestTypes, NEW r \in Requests, Budget(r), FetchFailed(r)
  PROVE  RequestTypes' /\ Budget(r)' /\ \A q \in Requests \ {r} : Untouched(q)
<1> USE PipelineAssumption DEF RequestTypes
<1>1. /\ pc[r] = "fetch" /\ Thrown(r) /\ UNCHANGED <<attempt, forced, fired, dead>>
      /\ sent' = [sent EXCEPT ![r][Len(sent[r])].status = "lost"]
  BY DEF FetchFailed
<1>2. Len(sent[r]) > 0
  BY <1>1 DEF Budget
<1>3. /\ sent' \in [Requests -> Seq(Send)] /\ Len(sent'[r]) = Len(sent[r])
      /\ \A q \in Requests \ {r} : sent'[q] = sent[q]
  BY <1>1, <1>2, MarkLast
<1> HIDE DEF RequestTypes
<1>4. \/ /\ pc' = [pc EXCEPT ![r] = "sleep"] /\ result' = result
         /\ r \in Idempotent /\ attempt[r] < MaxAttempts
      \/ /\ pc' = [pc EXCEPT ![r] = "done"] /\ result' = [result EXCEPT ![r] = "failed"]
  BY <1>1, ThrownIs
<1>5. UNCHANGED <<attempt, forced, fired, dead>>
  BY <1>1
<1>6. pc[r] = "fetch"
  BY <1>1
<1> USE DEF RequestTypes
<1> QED BY <1>3, <1>4, <1>5, <1>6 DEF Budget, Untouched

LEMMA BudgetAnswer ==
  ASSUME RequestTypes, NEW r \in Requests, Budget(r), NEW status \in Statuses, Answer(r, status)
  PROVE  RequestTypes' /\ Budget(r)' /\ \A q \in Requests \ {r} : Untouched(q)
<1> USE PipelineAssumption DEF RequestTypes
<1>1. /\ pc[r] = "fetch" /\ UNCHANGED <<pc, attempt, forced, fired, result, dead>>
      /\ sent' = [sent EXCEPT ![r][Len(sent[r])].status = status]
  BY DEF Answer
<1>2. Len(sent[r]) > 0
  BY <1>1 DEF Budget
<1>3. /\ sent' \in [Requests -> Seq(Send)] /\ Len(sent'[r]) = Len(sent[r])
      /\ \A q \in Requests \ {r} : sent'[q] = sent[q]
      /\ LastSend(r)'.status = status
  BY <1>1, <1>2, MarkLast
<1>4. pc[r] = "fetch" /\ UNCHANGED <<pc, attempt, forced, fired, result, dead>>
  BY <1>1
<1> QED BY <1>3, <1>4 DEF Budget, Untouched, Replay

LEMMA BudgetReceive ==
  ASSUME RequestTypes, NEW r \in Requests, Budget(r), Receive(r)
  PROVE  RequestTypes' /\ Budget(r)' /\ \A q \in Requests \ {r} : Untouched(q)
<1> USE PipelineAssumption DEF RequestTypes
<1>1. /\ pc[r] = "fetch" /\ UNCHANGED <<attempt, fired, sent, result, dead>>
      /\ attempt[r] \in Nat /\ Len(sent[r]) \in Nat
  BY LenProperties DEF Receive
<1>2. CASE Replays(r)
  <2>1. /\ pc' = [pc EXCEPT ![r] = "token"] /\ forced' = [forced EXCEPT ![r] = TRUE]
        /\ r \in Idempotent /\ ~forced[r]
    BY <1>2 DEF Receive, AskToken, Replays
  <2> QED BY <1>1, <2>1 DEF Budget, Untouched, Replay
<1>3. CASE ~Replays(r)
  <2>1. /\ pc' = [pc EXCEPT ![r] = IF LastSend(r).status = "busy" /\ MayRetry(r)
                                   THEN "sleep" ELSE "body"]
        /\ forced' = forced
    BY <1>3 DEF Receive
  <2>2. MayRetry(r) => r \in Idempotent /\ attempt[r] < MaxAttempts
    BY DEF MayRetry
  <2>3. LastSend(r).status \in Statuses /\ LastSend(r)' = LastSend(r)
    BY <1>1 DEF Receive, Budget, LastSend
  <2>4. RequestTypes'
    BY <1>1, <2>1
  <2>5. \/ pc'[r] = "sleep" /\ MayRetry(r)
        \/ pc'[r] = "body"
    BY <2>1
  <2>6. Budget(r)'
    BY <1>1, <2>2, <2>3, <2>5 DEF Budget
  <2> QED BY <1>1, <2>1, <2>4, <2>6 DEF Untouched
<1> QED BY <1>2, <1>3

LEMMA BudgetReadBody ==
  ASSUME RequestTypes, NEW r \in Requests, Budget(r), ReadBody(r)
  PROVE  RequestTypes' /\ Budget(r)' /\ \A q \in Requests \ {r} : Untouched(q)
<1> USE PipelineAssumption DEF RequestTypes
<1>1. PICK how \in Statuses \cup {"failed"} :
        pc' = [pc EXCEPT ![r] = "done"] /\ result' = [result EXCEPT ![r] = how]
  BY DEF ReadBody, Finish, Budget
<1>2. UNCHANGED <<attempt, forced, fired, sent, dead>> /\ how # "none"
  BY DEF ReadBody, Statuses
<1>3. RequestTypes'
  BY <1>1, <1>2
<1>4. pc'[r] = "done" /\ result'[r] = how
  BY <1>1
<1>5. Budget(r)'
  BY <1>2, <1>4 DEF Budget
<1> QED BY <1>1, <1>2, <1>3, <1>5 DEF Untouched

LEMMA BudgetFire ==
  ASSUME RequestTypes, NEW r \in Requests, Budget(r), Fire(r)
  PROVE  RequestTypes' /\ Budget(r)' /\ \A q \in Requests \ {r} : Untouched(q)
<1> USE PipelineAssumption DEF RequestTypes
<1>1. /\ pc[r] # "done" /\ UNCHANGED <<attempt, forced, sent, dead>>
      /\ fired' = [fired EXCEPT ![r] = TRUE]
  BY DEF Fire
<1>2. CASE pc[r] \in Interruptible
  <2>1. pc' = [pc EXCEPT ![r] = "done"] /\ result' = [result EXCEPT ![r] = "aborted"]
    BY <1>2 DEF Fire, Finish
  <2>2. RequestTypes'
    BY <1>1, <2>1
  <2>3. pc'[r] = "done" /\ result'[r] = "aborted"
    BY <2>1
  <2>4. Budget(r)'
    BY <1>1, <2>3 DEF Budget
  <2> QED BY <1>1, <2>1, <2>2, <2>4 DEF Untouched
<1>3. CASE pc[r] \notin Interruptible
  <2>1. UNCHANGED <<pc, result>>
    BY <1>3 DEF Fire
  <2> QED BY <1>1, <2>1 DEF Budget, Untouched, Replay, LastSend
<1> QED BY <1>2, <1>3

----------------------------------------------------------------------------
(* The invariant of the budget, and what follows from it *)

BudgetInv == TypeOK /\ \A r \in Requests : Budget(r)

LEMMA TypeParts == TypeOK <=> Provider!TypeOK /\ RequestTypes
  BY DEF TypeOK, RequestTypes

LEMMA BudgetStep ==
  ASSUME BudgetInv, [Next]_vars
  PROVE  BudgetInv'
<1>1. RequestTypes /\ Provider!TypeOK /\ \A r \in Requests : Budget(r)
  BY TypeParts DEF BudgetInv
<1>2. Provider!TypeOK'
  BY <1>1, NextProviderStep, ProviderTypeStep DEF BudgetInv
<1>3. ASSUME NEW r \in Requests, Start(r)
      PROVE  RequestTypes' /\ Budget(r)' /\ \A q \in Requests \ {r} : Untouched(q)
  BY <1>1, <1>3, BudgetBegin DEF Start
<1>4. ASSUME NEW r \in Requests, WakeUp(r)
      PROVE  RequestTypes' /\ Budget(r)' /\ \A q \in Requests \ {r} : Untouched(q)
  BY <1>1, <1>4, BudgetBegin DEF WakeUp
<1>5. ASSUME NEW r \in Requests, Request(r) \/ \E status \in Statuses : Answer(r, status)
      PROVE  RequestTypes' /\ Budget(r)' /\ \A q \in Requests \ {r} : Untouched(q)
  BY <1>1, <1>3, <1>4, <1>5, BudgetSend, BudgetFails, BudgetFetchFailed, BudgetAnswer,
     BudgetReceive, BudgetReadBody, BudgetFire DEF Request, CallerAborts, DeadlineFires
<1>6. ASSUME UNCHANGED requestVars
      PROVE  \A q \in Requests : Untouched(q)
  BY <1>6 DEF requestVars, Untouched
<1>7. ASSUME NEW tok \in DOMAIN landed, Die(tok)
      PROVE  RequestTypes' /\ \A q \in Requests : Untouched(q)
  <2>1. dead' = dead \cup {tok} /\ UNCHANGED requestVars
    BY <1>7 DEF Die
  <2>2. tok \in Nat
    BY <1>1, LenProperties DEF Provider!TypeOK
  <2>3. RequestTypes'
    BY <1>1, <2>1, <2>2 DEF RequestTypes, requestVars
  <2> QED BY <1>6, <2>1, <2>3
<1>8. ASSUME RefreshLands \/ UNCHANGED vars
      PROVE  RequestTypes' /\ \A q \in Requests : Untouched(q)
  <2>1. UNCHANGED <<requestVars, dead>>
    BY <1>8 DEF RefreshLands, vars
  <2> QED BY <1>1, <1>6, <2>1 DEF RequestTypes, requestVars
<1>9. RequestTypes'
  BY <1>5, <1>7, <1>8 DEF Next
<1>10. ASSUME NEW q \in Requests
       PROVE  Budget(q)'
  <2>1. Budget(q)
    BY <1>1
  <2>2. Untouched(q) => Budget(q)'
    BY <2>1, UntouchedBudget
  <2>3. ASSUME NEW r \in Requests, Request(r) \/ \E status \in Statuses : Answer(r, status)
        PROVE  Budget(q)'
    BY <1>5, <2>2, <2>3
  <2>4. ASSUME NEW tok \in DOMAIN landed, Die(tok)
        PROVE  Budget(q)'
    BY <1>7, <2>2, <2>4
  <2>5. CASE RefreshLands \/ UNCHANGED vars
    BY <1>8, <2>2, <2>5
  <2> QED BY <2>3, <2>4, <2>5 DEF Next
<1> QED BY <1>2, <1>9, <1>10, TypeParts DEF BudgetInv, TypeOK, RequestTypes, Provider!TypeOK

LEMMA BudgetInit == Init => BudgetInv
<1> SUFFICES ASSUME Init PROVE BudgetInv
  OBVIOUS
<1>1. Provider!TypeOK
  BY EmptySeq DEF Init, Provider!Init, Provider!TypeOK, Provider!Seats
<1>2. RequestTypes
  BY EmptySeq, PipelineAssumption DEF Init, RequestTypes
<1>3. \A r \in Requests : Len(sent[r]) = 0
  BY DEF Init
<1>4. \A r \in Requests : Budget(r)
  BY <1>3, PipelineAssumption DEF Init, Budget
<1> QED BY <1>1, <1>2, <1>4, TypeParts DEF BudgetInv

LEMMA BudgetHolds == Spec => []BudgetInv
<1>1. BudgetInv /\ [Next]_vars => BudgetInv'
  BY BudgetStep
<1> QED BY BudgetInit, <1>1, PTL DEF Spec

\* Every state of the transport is well-typed.
THEOREM TypeCorrect == Spec => []TypeOK
<1>1. BudgetInv => TypeOK
  BY DEF BudgetInv
<1> QED BY BudgetHolds, <1>1, PTL

\* A call that is not idempotent goes on the wire at most once, whatever answers it
\* gets or loses and whoever refreshes the token (retry.ts:8-9, 59-72, mutator.ts:57, 80).
THEOREM UnsafeNeverRepeated == Spec => []UnsafeSentOnce
<1>1. BudgetInv => UnsafeSentOnce
  BY DEF BudgetInv, Budget, UnsafeSentOnce
<1> QED BY BudgetHolds, <1>1, PTL

\* The two nested loops together send at most two requests per attempt
\* (retry.ts:45, mutator.ts:78-82).
THEOREM BudgetOfRequests == Spec => []SendsBounded
<1>1. BudgetInv => SendsBounded
  BY DEF BudgetInv, Budget, SendsBounded
<1> QED BY BudgetHolds, <1>1, PTL

\* Nothing is sent for a call that was cancelled or has settled
\* (mutator.ts:62, 72; retry.ts:47, 68).
THEOREM CancelledSendsNothing == Spec => NothingSentAfterCancel
<1>1. ASSUME BudgetInv, [Next]_vars, NEW r \in Requests, Len(sent'[r]) > Len(sent[r])
      PROVE  ~fired[r] /\ result[r] = "none"
  <2>1. RequestTypes /\ Budget(r) /\ Len(sent[r]) \in Nat
    BY <1>1, TypeParts, LenProperties DEF BudgetInv, RequestTypes
  <2>2. sent'[r] # sent[r]
    BY <1>1, <2>1
  <2>3. ASSUME NEW q \in Requests, SendRequest(q)
        PROVE  ~fired[r] /\ result[r] = "none"
    <3>1. q = r /\ ~fired[r] /\ pc[r] = "token"
      BY <2>1, <2>2, <2>3 DEF SendRequest, Unsendable, RequestTypes
    <3> QED BY <2>1, <3>1 DEF Budget
  <2>4. ASSUME NEW q \in Requests, NEW status, pc[q] = "fetch",
               status \in Statuses \cup {"lost"},
               sent' = [sent EXCEPT ![q][Len(sent[q])].status = status]
        PROVE  FALSE
    <3>1. Len(sent[q]) > 0 /\ sent \in [Requests -> Seq(Send)]
      BY <1>1, <2>1, <2>4 DEF BudgetInv, Budget, RequestTypes
    <3>2. Len(sent'[r]) = Len(sent[r])
      BY <2>4, <3>1, MarkLast
    <3> QED BY <1>1, <2>1, <3>2
  <2>5. ASSUME NEW q \in Requests, FetchFailed(q) \/ \E status \in Statuses : Answer(q, status)
        PROVE  FALSE
    BY <2>4, <2>5 DEF FetchFailed, Answer
  <2>6. sent' # sent
    BY <2>2
  <2> QED
    BY <1>1, <2>3, <2>5, <2>6
       DEF Next, Request, Start, BeginAttempt, TokenFailed, TokenCancelled, Receive, WakeUp,
           ReadBody, CallerAborts, DeadlineFires, Fire, Die, RefreshLands, requestVars, vars
<1>2. BudgetInv /\ [Next]_vars =>
        [\A r \in Requests : Len(sent'[r]) > Len(sent[r]) => ~fired[r] /\ result[r] = "none"]_vars
  BY <1>1
<1> QED BY <1>2, BudgetHolds, PTL DEF Spec, NothingSentAfterCancel

----------------------------------------------------------------------------
(* A replay carries a newer token *)

\* The provider's seats and flights fit: who waits is on the flight in the air,
\* the latest one, and who was served has the token of a flight that landed well.
ProviderInv ==
  /\ flight \in {0, Len(landed)}
  /\ flight # 0 => landed[flight] = "pending"
  /\ \A r \in Requests : seat[r].st = "waiting" => flight # 0 /\ seat[r].on = flight
  /\ \A r \in Requests : seat[r].st = "got" => /\ seat[r].on \in DOMAIN landed
                                               /\ landed[seat[r].on] = "ok"

\* A token once acquired stays acquired.
OkStays == \A f \in DOMAIN landed : landed[f] = "ok" => f \in DOMAIN landed' /\ landed'[f] = "ok"

LEMMA LandedTypes ==
  ASSUME Provider!TypeOK
  PROVE  DOMAIN landed = 1..Len(landed) /\ Len(landed) \in Nat
  BY LenProperties DEF Provider!TypeOK

\* Asking for a token: a forced one will be newer than any there is.
LEMMA BoardInv ==
  ASSUME Provider!TypeOK, ProviderInv, NEW r \in Requests,
         NEW force \in BOOLEAN, NEW aborted \in BOOLEAN, Provider!Board(r, force, aborted)
  PROVE  /\ ProviderInv' /\ OkStays
         /\ \A f \in DOMAIN landed : landed[f] = "ok" => seat'[r].on > f
         /\ \A q \in Requests \ {r} : seat'[q] = seat[q]
<1>1. DOMAIN landed = 1..Len(landed) /\ Len(landed) \in Nat
  BY LandedTypes
<1>2. /\ seat'[r].st \in {"aborted", "waiting"} /\ seat'[r].on = flight'
      /\ \A q \in Requests \ {r} : seat'[q] = seat[q]
  BY DEF Provider!Board, Provider!TypeOK
<1>3. CASE flight = 0
  <2>1. flight' = Len(landed) + 1 /\ landed' = Append(landed, "pending")
    BY <1>3 DEF Provider!Board
  <2>2. /\ landed' \in Seq({"pending", "ok", "failed"})
        /\ Len(landed') = Len(landed) + 1
        /\ landed'[Len(landed) + 1] = "pending"
        /\ \A f \in 1..Len(landed) : landed'[f] = landed[f]
    BY <2>1, AppendProperties DEF Provider!TypeOK
  <2>3. DOMAIN landed' = 1..(Len(landed) + 1)
    BY <2>2, LenProperties
  <2>4. flight' # 0 /\ \A q \in Requests \ {r} : seat[q].st # "waiting"
    BY <1>1, <1>3, <2>1 DEF ProviderInv
  <2>5. OkStays
    BY <1>1, <2>2, <2>3 DEF OkStays
  <2>6. ProviderInv'
    BY <1>1, <1>2, <2>1, <2>2, <2>3, <2>4 DEF ProviderInv
  <2> QED BY <1>1, <1>2, <2>1, <2>5, <2>6
<1>4. CASE flight # 0
  <2>1. UNCHANGED <<flight, landed>>
    BY <1>4 DEF Provider!Board
  <2>2. \A f \in DOMAIN landed : landed[f] = "ok" => flight > f
    BY <1>1, <1>4 DEF ProviderInv
  <2>3. ProviderInv'
    BY <1>2, <1>4, <2>1 DEF ProviderInv
  <2> QED BY <1>2, <2>1, <2>2, <2>3 DEF OkStays
<1> QED BY <1>3, <1>4

LEMMA ServeInv ==
  ASSUME Provider!TypeOK, ProviderInv, NEW r \in Requests, NEW force \in BOOLEAN,
         Provider!Serve(r, force)
  PROVE  ProviderInv' /\ OkStays /\ ~force /\ \A q \in Requests \ {r} : seat'[q] = seat[q]
<1>1. PICK f \in DOMAIN landed :
        /\ landed[f] = "ok"
        /\ seat' = [seat EXCEPT ![r] = [st |-> "got", on |-> f, force |-> force]]
  BY DEF Provider!Serve, Provider!LastOk
<1>2. UNCHANGED <<flight, landed>> /\ ~force
  BY DEF Provider!Serve
<1>3. seat'[r].st = "got" /\ seat'[r].on = f /\ \A q \in Requests \ {r} : seat'[q] = seat[q]
  BY <1>1 DEF Provider!TypeOK
<1> QED BY <1>1, <1>2, <1>3 DEF ProviderInv, OkStays

LEMMA AskedInv ==
  ASSUME TypeOK, ProviderInv, NEW r \in Requests, NEW force \in BOOLEAN, NEW replay,
         AskToken(r, force, replay)
  PROVE  /\ ProviderInv' /\ OkStays
         /\ force => \A f \in DOMAIN landed : landed[f] = "ok" => seat'[r].on > f
         /\ \A q \in Requests \ {r} : seat'[q] = seat[q]
<1>1. Provider!TypeOK /\ fired[r] \in BOOLEAN
  BY DEF TypeOK
<1>2. Provider!Serve(r, force) \/ Provider!Board(r, force, fired[r])
  BY DEF AskToken, Provider!GetToken
<1> QED BY <1>1, <1>2, BoardInv, ServeInv

\* A caller that leaves, or a flight that lands, keeps everybody's flight.
LEMMA LeaveInv ==
  ASSUME Provider!TypeOK, ProviderInv, NEW r \in Requests, Provider!Leave(r)
  PROVE  ProviderInv' /\ OkStays /\ \A q \in Requests : seat'[q].on = seat[q].on
<1>1. UNCHANGED <<flight, landed>> /\ seat' = [seat EXCEPT ![r].st = "aborted"]
  BY DEF Provider!Leave
<1>2. /\ seat'[r].st = "aborted" /\ seat'[r].on = seat[r].on
      /\ \A q \in Requests \ {r} : seat'[q] = seat[q]
  BY <1>1 DEF Provider!TypeOK, Provider!Seats
<1> QED BY <1>1, <1>2 DEF ProviderInv, OkStays

LEMMA LandInv ==
  ASSUME Provider!TypeOK, ProviderInv, Provider!Landing
  PROVE  ProviderInv' /\ OkStays /\ \A q \in Requests : seat'[q].on = seat[q].on
<1>1. PICK how \in {"got", "failed", "timedout"} : Provider!Land(how)
  BY DEF Provider!Landing
<1>2. /\ flight # 0 /\ flight' = 0
      /\ landed' = [landed EXCEPT ![flight] = IF how = "got" THEN "ok" ELSE "failed"]
      /\ seat' = [c \in Requests |-> IF seat[c].st = "waiting"
                                     THEN [seat[c] EXCEPT !.st = how] ELSE seat[c]]
  BY <1>1 DEF Provider!Land
<1>3. DOMAIN landed = 1..Len(landed) /\ Len(landed) \in Nat
  BY LandedTypes
<1>4. flight \in DOMAIN landed /\ landed[flight] = "pending"
  BY <1>2, <1>3 DEF ProviderInv
<1>5. /\ DOMAIN landed' = DOMAIN landed
      /\ landed'[flight] = IF how = "got" THEN "ok" ELSE "failed"
      /\ \A f \in DOMAIN landed \ {flight} : landed'[f] = landed[f]
  BY <1>2, <1>4
<1>6. ASSUME NEW c \in Requests
      PROVE  /\ seat'[c].on = seat[c].on
             /\ seat'[c].st # "waiting"
             /\ seat'[c].st = "got" => /\ seat'[c].on \in DOMAIN landed'
                                       /\ landed'[seat'[c].on] = "ok"
  <2>1. seat[c] \in Provider!Seats
    BY DEF Provider!TypeOK
  <2>2. CASE seat[c].st = "waiting"
    <3>1. seat'[c].st = how /\ seat'[c].on = seat[c].on
      BY <1>2, <2>1, <2>2 DEF Provider!Seats
    <3>2. seat[c].on = flight
      BY <2>2 DEF ProviderInv
    <3> QED BY <1>4, <1>5, <3>1, <3>2
  <2>3. CASE seat[c].st # "waiting"
    <3>1. seat'[c] = seat[c]
      BY <1>2, <2>3
    <3>2. seat[c].st = "got" => seat[c].on \in DOMAIN landed /\ landed[seat[c].on] = "ok"
      BY DEF ProviderInv
    <3> QED BY <1>4, <1>5, <2>3, <3>1, <3>2
  <2> QED BY <2>2, <2>3
<1>7. ProviderInv'
  BY <1>2, <1>6 DEF ProviderInv
<1>8. OkStays
  BY <1>4, <1>5 DEF OkStays
<1> QED BY <1>6, <1>7, <1>8

\* What a request has sent, and where it stands in its replay.
Replayed(r) ==
  /\ \A i \in 1..Len(sent[r]) : /\ sent[r][i].tok \in DOMAIN landed
                                /\ landed[sent[r][i].tok] = "ok"
  /\ \A i \in 2..Len(sent[r]) : sent[r][i].forced =>
       sent[r][i-1].status = "unauth" /\ sent[r][i].tok > sent[r][i-1].tok
  /\ pc[r] = "token" /\ forced[r] => /\ Len(sent[r]) > 0 /\ LastSend(r).status = "unauth"
                                     /\ seat[r].on > LastSend(r).tok
  /\ pc[r] \in {"fetch", "body"} => LastSend(r).forced = forced[r]
  /\ r \in Idempotent /\ pc[r] = "body" /\ LastSend(r).status = "unauth" => forced[r]
  /\ r \in Idempotent /\ result[r] = "unauth" => LastSend(r).forced

\* A step that changes nothing of a request but perhaps the outcome of its wait.
LEMMA ReplayedKept ==
  ASSUME NEW r \in Requests, Replayed(r), Untouched(r), OkStays,
         seat'[r].on = seat[r].on
  PROVE  Replayed(r)'
  BY DEF Replayed, Untouched, OkStays, LastSend

\* A step after which the request no longer waits, exchanges or reads.
LEMMA ReplayedOver ==
  ASSUME NEW r \in Requests, Replayed(r), OkStays, sent'[r] = sent[r],
         pc'[r] \in {"sleep", "done"},
         result'[r] = "unauth" => r \notin Idempotent \/ LastSend(r).forced
  PROVE  Replayed(r)'
  BY DEF Replayed, OkStays, LastSend

\* What a step of request r does to the rest.
ReplayStep(r) ==
  /\ ProviderInv' /\ OkStays
  /\ \A q \in Requests \ {r} : seat'[q].on = seat[q].on
  /\ Replayed(r)'

LEMMA ProviderIdle ==
  ASSUME ProviderInv, UNCHANGED providerVars
  PROVE  ProviderInv' /\ OkStays /\ seat' = seat
  BY DEF ProviderInv, OkStays, providerVars

LEMMA ReplayBegin ==
  ASSUME TypeOK, ProviderInv, NEW r \in Requests, Budget(r), Replayed(r),
         pc[r] \in {"idle", "sleep"}, BeginAttempt(r)
  PROVE  ReplayStep(r)
<1>1. UNCHANGED sent /\ result[r] = "none"
  BY DEF BeginAttempt, Budget
<1>2. CASE fired[r]
  <2>1. ProviderInv' /\ OkStays /\ seat' = seat
    BY <1>2, ProviderIdle DEF BeginAttempt
  <2>2. pc'[r] = "done" /\ result'[r] = "aborted"
    BY <1>2 DEF BeginAttempt, Finish, TypeOK
  <2>3. Replayed(r)'
    BY <1>1, <2>1, <2>2, ReplayedOver
  <2> QED BY <2>1, <2>3 DEF ReplayStep
<1>3. CASE ~fired[r]
  <2>1. AskToken(r, FALSE, FALSE) /\ result' = result
    BY <1>3 DEF BeginAttempt
  <2>2. ProviderInv' /\ OkStays /\ \A q \in Requests \ {r} : seat'[q] = seat[q]
    BY <2>1, AskedInv
  <2>3. pc'[r] = "token" /\ ~forced'[r]
    BY <2>1 DEF AskToken, TypeOK
  <2>4. Replayed(r)'
    BY <1>1, <2>1, <2>2, <2>3 DEF Replayed, OkStays, LastSend
  <2> QED BY <2>2, <2>4 DEF ReplayStep
<1> QED BY <1>2, <1>3

LEMMA ReplaySend ==
  ASSUME TypeOK, ProviderInv, NEW r \in Requests, Budget(r), Replayed(r), SendRequest(r)
  PROVE  ReplayStep(r)
<1>1. /\ pc[r] = "token" /\ seat[r].st = "got" /\ result[r] = "none"
      /\ UNCHANGED <<providerVars, forced>>
  BY DEF SendRequest, Budget
<1>2. ProviderInv' /\ OkStays /\ seat' = seat /\ landed' = landed
  BY <1>1, ProviderIdle DEF providerVars
<1>3. CASE Unsendable(r)
  <2>1. pc'[r] = "done" /\ result'[r] = "aborted" /\ sent' = sent
    BY <1>3 DEF SendRequest, Finish, TypeOK
  <2>2. Replayed(r)'
    BY <1>2, <2>1, ReplayedOver
  <2> QED BY <1>2, <2>2 DEF ReplayStep
<1>4. CASE ~Unsendable(r)
  <2> DEFINE e == [tok |-> seat[r].on, forced |-> forced[r], status |-> "none"]
             n == Len(sent[r])
  <2>1. /\ pc'[r] = "fetch" /\ result' = result
        /\ sent' = [sent EXCEPT ![r] = Append(@, e)]
    BY <1>4 DEF SendRequest, TypeOK
  <2>2. e \in Send
    BY DEF TypeOK, Provider!TypeOK, Provider!Seats, Send
  <2>3. e.tok = seat[r].on /\ e.forced = forced[r]
    OBVIOUS
  <2> HIDE DEF e
  <2>4. /\ Len(sent'[r]) = n + 1 /\ n \in Nat
        /\ \A i \in 1..n : sent'[r][i] = sent[r][i]
        /\ sent'[r][n + 1] = e /\ LastSend(r)' = e
    BY <2>1, <2>2, AppendSend DEF LastSend, TypeOK
  <2>5. e.tok \in DOMAIN landed /\ landed[e.tok] = "ok"
    BY <1>1, <2>3 DEF ProviderInv
  <2>6. e.forced => n > 0 /\ sent[r][n].status = "unauth" /\ e.tok > sent[r][n].tok
    BY <1>1, <2>3 DEF Replayed, LastSend
  <2> HIDE DEF n
  <2>7. \A i \in 1..(n + 1) : sent'[r][i].tok \in DOMAIN landed'
                              /\ landed'[sent'[r][i].tok] = "ok"
    <3>1. \A i \in 1..n : sent[r][i].tok \in DOMAIN landed /\ landed[sent[r][i].tok] = "ok"
      BY DEF Replayed, n
    <3> QED BY <1>2, <2>4, <2>5, <3>1
  <2>8. \A i \in 2..(n + 1) : sent'[r][i].forced =>
          sent'[r][i-1].status = "unauth" /\ sent'[r][i].tok > sent'[r][i-1].tok
    <3>1. \A i \in 2..n : sent[r][i].forced =>
            sent[r][i-1].status = "unauth" /\ sent[r][i].tok > sent[r][i-1].tok
      BY DEF Replayed, n
    <3> SUFFICES ASSUME NEW i \in 2..(n + 1), sent'[r][i].forced
                 PROVE  sent'[r][i-1].status = "unauth" /\ sent'[r][i].tok > sent'[r][i-1].tok
      OBVIOUS
    <3>2. i - 1 \in 1..n /\ sent'[r][i-1] = sent[r][i-1]
      BY <2>4
    <3>3. CASE i = n + 1
      <4>1. i - 1 = n /\ sent'[r][i] = e
        BY <2>4, <3>3
      <4> QED BY <2>6, <3>2, <4>1
    <3>4. CASE i \in 2..n
      BY <2>4, <3>1, <3>2, <3>4
    <3> QED BY <2>4, <3>3, <3>4
  <2>9. Replayed(r)'
    BY <1>1, <2>1, <2>3, <2>4, <2>7, <2>8 DEF Replayed
  <2> QED BY <1>2, <2>9 DEF ReplayStep
<1> QED BY <1>3, <1>4

LEMMA ReplayFails ==
  ASSUME TypeOK, ProviderInv, NEW r \in Requests, Budget(r), Replayed(r),
         TokenFailed(r) \/ TokenCancelled(r)
  PROVE  ReplayStep(r)
<1>1. pc[r] = "token" /\ UNCHANGED <<providerVars, sent>> /\ result[r] = "none"
  BY DEF TokenFailed, TokenCancelled, Budget
<1>2. ProviderInv' /\ OkStays /\ seat' = seat
  BY <1>1, ProviderIdle
<1>3. pc'[r] \in {"sleep", "done"} /\ result'[r] \in {"none", "failed", "aborted"}
  BY <1>1 DEF TokenFailed, TokenCancelled, Thrown, Finish, TypeOK
<1>4. Replayed(r)'
  BY <1>1, <1>2, <1>3, ReplayedOver
<1> QED BY <1>2, <1>4 DEF ReplayStep

\* The outcome of the last request is of no account to the replays before it.
LEMMA ReplayMarked ==
  ASSUME TypeOK, NEW r \in Requests, Budget(r), Replayed(r), pc[r] = "fetch",
         NEW status \in Statuses \cup {"lost"}, OkStays,
         sent' = [sent EXCEPT ![r][Len(sent[r])].status = status],
         \/ pc' = pc /\ forced' = forced /\ result' = result
         \/ pc'[r] \in {"sleep", "done"} /\ result'[r] \in {"none", "failed"}
  PROVE  Replayed(r)'
<1> DEFINE n == Len(sent[r])
<1>1. n > 0 /\ n \in Nat /\ result[r] = "none" /\ sent \in [Requests -> Seq(Send)]
  BY LenProperties DEF Budget, TypeOK
<1>2. /\ Len(sent'[r]) = n
      /\ \A i \in 1..n : sent'[r][i].tok = sent[r][i].tok
                         /\ sent'[r][i].forced = sent[r][i].forced
      /\ \A i \in 1..(n - 1) : sent'[r][i] = sent[r][i]
  BY <1>1, MarkLast
<1>3. LastSend(r)'.forced = LastSend(r).forced
  BY <1>1, <1>2 DEF LastSend
<1>4. \A i \in 1..n : sent[r][i].tok \in DOMAIN landed /\ landed[sent[r][i].tok] = "ok"
  BY DEF Replayed
<1>5. \A i \in 2..n : sent[r][i].forced =>
        sent[r][i-1].status = "unauth" /\ sent[r][i].tok > sent[r][i-1].tok
  BY DEF Replayed
<1> HIDE DEF n
<1>6. \A i \in 1..n : sent'[r][i].tok \in DOMAIN landed' /\ landed'[sent'[r][i].tok] = "ok"
  BY <1>2, <1>4 DEF OkStays
<1>7. \A i \in 2..n : sent'[r][i].forced =>
        sent'[r][i-1].status = "unauth" /\ sent'[r][i].tok > sent'[r][i-1].tok
  <2> SUFFICES ASSUME NEW i \in 2..n, sent'[r][i].forced
               PROVE  sent'[r][i-1].status = "unauth" /\ sent'[r][i].tok > sent'[r][i-1].tok
    OBVIOUS
  <2>1. i - 1 \in 1..(n - 1) /\ i \in 1..n
    BY <1>1
  <2> QED BY <1>2, <1>5, <2>1
<1>8. pc[r] = "fetch" /\ (LastSend(r).forced = forced[r])
  BY DEF Replayed
<1> QED BY <1>1, <1>2, <1>3, <1>6, <1>7, <1>8 DEF Replayed

LEMMA ReplayLostOrAnswered ==
  ASSUME TypeOK, ProviderInv, NEW r \in Requests, Budget(r), Replayed(r),
         FetchFailed(r) \/ \E status \in Statuses : Answer(r, status)
  PROVE  ReplayStep(r)
<1>1. pc[r] = "fetch" /\ UNCHANGED providerVars /\ result[r] = "none"
  BY DEF FetchFailed, Answer, Budget
<1>2. ProviderInv' /\ OkStays /\ seat' = seat
  BY <1>1, ProviderIdle
<1>3. CASE FetchFailed(r)
  <2>1. /\ sent' = [sent EXCEPT ![r][Len(sent[r])].status = "lost"]
        /\ pc'[r] \in {"sleep", "done"} /\ result'[r] \in {"none", "failed"}
    BY <1>1, <1>3 DEF FetchFailed, Thrown, Finish, TypeOK
  <2> QED BY <1>1, <1>2, <2>1, ReplayMarked DEF ReplayStep
<1>4. ASSUME NEW status \in Statuses, Answer(r, status)
      PROVE  ReplayStep(r)
  <2>1. /\ sent' = [sent EXCEPT ![r][Len(sent[r])].status = status]
        /\ pc' = pc /\ forced' = forced /\ result' = result
    BY <1>4 DEF Answer
  <2> QED BY <1>1, <1>2, <2>1, ReplayMarked DEF ReplayStep
<1> QED BY <1>3, <1>4

LEMMA ReplayReceive ==
  ASSUME TypeOK, ProviderInv, NEW r \in Requests, Budget(r), Replayed(r), Receive(r)
  PROVE  ReplayStep(r)
<1>1. /\ pc[r] = "fetch" /\ Len(sent[r]) > 0 /\ result[r] = "none"
      /\ UNCHANGED <<sent, result>> /\ Len(sent[r]) \in Nat
  BY LenProperties DEF Receive, Budget, TypeOK
<1>2. CASE Replays(r)
  <2>1. AskToken(r, TRUE, TRUE) /\ LastSend(r).status = "unauth"
    BY <1>2 DEF Receive, ForceReplay, Replays
  <2>2. /\ ProviderInv' /\ OkStays /\ \A q \in Requests \ {r} : seat'[q] = seat[q]
        /\ \A f \in DOMAIN landed : landed[f] = "ok" => seat'[r].on > f
    BY <2>1, AskedInv
  <2>3. pc'[r] = "token"
    BY <2>1 DEF AskToken, TypeOK
  <2>4. LastSend(r).tok \in DOMAIN landed /\ landed[LastSend(r).tok] = "ok"
    BY <1>1 DEF Replayed, LastSend
  <2>5. LastSend(r)' = LastSend(r) /\ seat'[r].on > LastSend(r).tok
    BY <1>1, <2>2, <2>4 DEF LastSend
  <2>6. Replayed(r)'
    BY <1>1, <2>1, <2>2, <2>3, <2>5 DEF Replayed, OkStays
  <2> QED BY <2>2, <2>6 DEF ReplayStep
<1>3. CASE ~Replays(r)
  <2>1. UNCHANGED <<providerVars, forced>> /\ pc'[r] \in {"sleep", "body"}
    BY <1>3 DEF Receive, TypeOK
  <2>2. ProviderInv' /\ OkStays /\ seat' = seat
    BY <2>1, ProviderIdle
  <2>3. LastSend(r)' = LastSend(r) /\ LastSend(r).forced = forced[r]
    BY <1>1 DEF Replayed, LastSend
  <2>4. r \in Idempotent /\ LastSend(r).status = "unauth" => forced[r]
    BY <1>3 DEF Replays
  <2>5. Replayed(r)'
    BY <1>1, <2>1, <2>2, <2>3, <2>4 DEF Replayed, OkStays
  <2> QED BY <2>2, <2>5 DEF ReplayStep
<1> QED BY <1>2, <1>3

LEMMA ReplayReadBody ==
  ASSUME TypeOK, ProviderInv, NEW r \in Requests, Budget(r), Replayed(r), ReadBody(r)
  PROVE  ReplayStep(r)
<1>1. pc[r] = "body" /\ UNCHANGED <<providerVars, sent>>
  BY DEF ReadBody
<1>2. ProviderInv' /\ OkStays /\ seat' = seat
  BY <1>1, ProviderIdle
<1>3. pc'[r] = "done" /\ (result'[r] = LastSend(r).status \/ result'[r] = "failed")
  BY DEF ReadBody, Finish, TypeOK
<1>4. result'[r] = "unauth" => r \notin Idempotent \/ LastSend(r).forced
  BY <1>1, <1>3 DEF Replayed
<1>5. Replayed(r)'
  BY <1>1, <1>2, <1>3, <1>4, ReplayedOver
<1> QED BY <1>2, <1>5 DEF ReplayStep

LEMMA ReplayFire ==
  ASSUME TypeOK, ProviderInv, NEW r \in Requests, Budget(r), Replayed(r), Fire(r)
  PROVE  ReplayStep(r)
<1>1. pc[r] # "done" /\ UNCHANGED <<attempt, forced, sent>>
  BY DEF Fire
<1>2. ProviderInv' /\ OkStays /\ \A q \in Requests : seat'[q].on = seat[q].on
  <2>1. CASE Provider!Leave(r)
    BY <2>1, LeaveInv DEF TypeOK
  <2>2. CASE UNCHANGED providerVars
    BY <2>2, ProviderIdle
  <2> QED BY <2>1, <2>2 DEF Fire
<1>3. CASE pc[r] \in Interruptible
  <2>1. pc'[r] = "done" /\ result'[r] = "aborted"
    BY <1>3 DEF Fire, Finish, TypeOK
  <2>2. Replayed(r)'
    BY <1>1, <1>2, <2>1, ReplayedOver
  <2> QED BY <1>2, <2>2 DEF ReplayStep
<1>4. CASE pc[r] \notin Interruptible
  <2>1. Untouched(r)
    BY <1>1, <1>4 DEF Fire, Untouched
  <2>2. Replayed(r)'
    BY <1>2, <2>1, ReplayedKept
  <2> QED BY <1>2, <2>2 DEF ReplayStep
<1> QED BY <1>3, <1>4

----------------------------------------------------------------------------
(* The invariant of the replays *)

ReplayInv == BudgetInv /\ ProviderInv /\ \A r \in Requests : Replayed(r)

LEMMA ReplayInvStep ==
  ASSUME ReplayInv, [Next]_vars
  PROVE  ReplayInv'
<1> USE DEF ReplayInv
<1>1. /\ BudgetInv' /\ TypeOK /\ ProviderInv
      /\ \A r \in Requests : Budget(r) /\ Replayed(r)
  BY BudgetStep DEF BudgetInv
<1>2. ASSUME NEW r \in Requests, Request(r) \/ \E status \in Statuses : Answer(r, status)
      PROVE  ReplayStep(r) /\ \A q \in Requests \ {r} : Untouched(q)
  <2>1. ASSUME Start(r) \/ WakeUp(r)
        PROVE  BeginAttempt(r) /\ pc[r] \in {"idle", "sleep"}
    BY <2>1 DEF Start, WakeUp
  <2>2. RequestTypes /\ Provider!TypeOK /\ Budget(r) /\ Replayed(r)
    BY <1>1, TypeParts
  <2>3. CASE Start(r) \/ WakeUp(r)
    BY <1>1, <2>1, <2>2, <2>3, ReplayBegin, BudgetBegin
  <2>4. ReplayStep(r)
    BY <1>1, <1>2, <2>2, <2>3, ReplaySend, ReplayFails, ReplayLostOrAnswered, ReplayReceive,
       ReplayReadBody, ReplayFire DEF Request, CallerAborts, DeadlineFires
  <2>5. \A q \in Requests \ {r} : Untouched(q)
    BY <1>2, <2>2, <2>3, BudgetSend, BudgetFails, BudgetFetchFailed, BudgetAnswer,
       BudgetReceive, BudgetReadBody, BudgetFire DEF Request, CallerAborts, DeadlineFires
  <2> QED BY <2>4, <2>5
<1>3. ASSUME NEW r \in Requests, Request(r) \/ \E status \in Statuses : Answer(r, status)
      PROVE  ReplayInv'
  <2>1. ReplayStep(r) /\ \A q \in Requests \ {r} : Untouched(q)
    BY <1>2, <1>3
  <2>2. ProviderInv' /\ OkStays /\ Replayed(r)'
    BY <2>1 DEF ReplayStep
  <2>3. ASSUME NEW q \in Requests
        PROVE  Replayed(q)'
    <3>1. CASE q = r
      BY <2>2, <3>1
    <3>2. CASE q # r
      <4>1. Untouched(q) /\ seat'[q].on = seat[q].on /\ Replayed(q)
        BY <1>1, <2>1, <3>2 DEF ReplayStep
      <4> QED BY <2>2, <4>1, ReplayedKept
    <3> QED BY <3>1, <3>2
  <2> QED BY <1>1, <2>2, <2>3
<1>4. ASSUME UNCHANGED requestVars, ProviderInv', OkStays,
             \A q \in Requests : seat'[q].on = seat[q].on
      PROVE  ReplayInv'
  <2>1. \A q \in Requests : Untouched(q)
    BY <1>4 DEF requestVars, Untouched
  <2>2. \A q \in Requests : Replayed(q)'
    BY <1>1, <1>4, <2>1, ReplayedKept
  <2> QED BY <1>1, <1>4, <2>2
<1>5. CASE RefreshLands
  <2>1. Provider!TypeOK /\ Provider!Landing /\ UNCHANGED requestVars
    BY <1>1, <1>5 DEF RefreshLands, TypeOK
  <2> QED BY <1>1, <1>4, <2>1, LandInv
<1>6. ASSUME UNCHANGED <<providerVars, requestVars>>
      PROVE  ReplayInv'
  <2>1. ProviderInv' /\ OkStays /\ seat' = seat
    BY <1>1, <1>6, ProviderIdle
  <2> QED BY <1>4, <1>6, <2>1
<1>7. CASE UNCHANGED vars
  BY <1>6, <1>7 DEF vars
<1>8. ASSUME NEW tok \in DOMAIN landed, Die(tok)
      PROVE  ReplayInv'
  BY <1>6, <1>8 DEF Die
<1> QED BY <1>3, <1>5, <1>7, <1>8 DEF Next

LEMMA ReplayInvInit == Init => ReplayInv
<1> SUFFICES ASSUME Init PROVE ReplayInv
  OBVIOUS
<1>1. ProviderInv
  BY DEF Init, Provider!Init, ProviderInv
<1>2. ASSUME NEW r \in Requests
      PROVE  Replayed(r)
  <2>1. Len(sent[r]) = 0 /\ pc[r] = "idle" /\ result[r] = "none"
    BY DEF Init
  <2> QED BY <2>1 DEF Replayed
<1> QED BY <1>1, <1>2, BudgetInit DEF ReplayInv

\* A replay carries a token that was acquired after the rejected one, whoever else
\* refreshed, aborted or failed in between, and 401 reaches the caller of an idempotent
\* call only after a replay (mutator.ts:79-80, auth.ts:101, 122).
THEOREM ReplaysAreNewer == Spec => []ReplayCarriesNewerToken
<1>1. ReplayInv /\ [Next]_vars => ReplayInv'
  BY ReplayInvStep
<1>2. ReplayInv => ReplayCarriesNewerToken
  BY DEF ReplayInv, Replayed, ReplayCarriesNewerToken
<1> QED BY ReplayInvInit, <1>1, <1>2, PTL DEF Spec
=============================================================================
