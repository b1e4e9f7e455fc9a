--------------------------- MODULE RecoveryProofs ---------------------------
(***************************************************************************)
(* Recovery keeps the promise of AtMostOnce for every MaxAttempts and      *)
(* MaxTries, however many given-up requests are still under way.           *)
(***************************************************************************)
EXTENDS Recovery, TLAPS

\* Nothing of the job is under way, and nothing has happened.
Quiet == wire = {} /\ executing = {} /\ effects = 0

\* A request is in one place.
OnePlace == \A r \in wire : r \notin executing

\* Before the call.
Fresh ==
  pc = "idle" => /\ job = NoJob /\ sent = 0 /\ Quiet
                 /\ holder = 0 /\ stored = "nothing" /\ ~doubt

\* Each try has sent one request per attempt at most.
Budget ==
  /\ pc # "idle" => try >= 1 /\ attempt >= 1
  /\ IF job.resend THEN sent <= try * MaxAttempts - MaxAttempts + attempt ELSE sent = try
  /\ pc = "idle" => try = 0

AnswerAwaited == answer # Nothing => pc = "waiting"

TriesLeft == pc = "pausing" => try < MaxTries

SafeJob == job.safe => effects = 0

\* As long as no error has left anything open, only the last request can be
\* anywhere, and it has not been executed until its answer says so.
NoDoubt ==
  ~job.safe /\ ~doubt =>
    /\ pc \in {"pausing", "thrown"} => Quiet
    /\ pc = "waiting" =>
         /\ wire \cup executing \subseteq {sent}
         /\ effects # 0 => answer \in {Ok, OutcomeUnknown}
         /\ answer # InProgress
         /\ answer \notin {Nothing, Ok, OutcomeUnknown} => Quiet

\* With a key at most one request runs, none once a result is stored, and the
\* stored result is the one that took effect.
WithKey ==
  ~job.safe /\ job.key =>
    /\ executing = IF holder = 0 THEN {} ELSE {holder}
    /\ holder # 0 => stored = "nothing"
    /\ effects = IF stored = "result" THEN 1 ELSE 0

\* Without one the caller stops at the first doubt.
WithoutKey ==
  ~job.safe /\ ~job.key =>
    /\ doubt => pc = "thrown"
    /\ wire \cup executing \subseteq {sent}
    /\ effects \in {0, 1}
    /\ effects = 1 => wire = {} /\ executing = {}
    /\ holder = 0 /\ stored = "nothing"

ResultIsTrue ==
  ~job.safe /\ (answer = Ok \/ pc = "returned") => effects = 1

IInv ==
  /\ TypeOK /\ Budget /\ OnePlace /\ Fresh /\ AnswerAwaited /\ TriesLeft /\ SafeJob
  /\ NoDoubt /\ WithKey /\ WithoutKey /\ ResultIsTrue

----------------------------------------------------------------------------
(* Errors *)

\* What a reading tells of the answer it was made from: a result is only read
\* from a result, and what sounds definite was not an open outcome.
LEMMA ReadingFacts ==
  ASSUME NEW a \in Answers, NEW e \in Readings(a)
  PROVE  /\ e = Ok => a = Ok
         /\ Definite(e) /\ e # Ok => a \notin {Ok, OutcomeUnknown}
  BY DEF Answers, Readings, Error, NotApi, Ok, Busy, NoConnect, Rejected, NoSuchPath,
         Declined, Internal, TimedOut, OutcomeUnknown, InProgress, IsOutcomeUnknown,
         IsRetryable, Definite

\* What may be repeated without a key was not executed.
LEMMA RetryableIsDefinite == \A e : IsRetryable(e) => Definite(e)
  BY DEF IsRetryable, Definite

LEMMA LocalErrors == ~Definite(NotApi) /\ ~Definite(Internal) /\ NotApi # Ok
  BY DEF Definite, NotApi, Internal, Error, IsOutcomeUnknown, IsRetryable, Ok

LEMMA NothingIsNoAnswer == Nothing \notin Answers
  BY DEF Answers, Error, Nothing, Ok, Busy, NoConnect, Rejected, NoSuchPath,
         Declined, Internal, TimedOut, OutcomeUnknown, InProgress

LEMMA AnswersDiffer ==
  /\ {Ok, Busy, NoConnect, Rejected, NoSuchPath, Declined, Internal, TimedOut,
      OutcomeUnknown, InProgress} \subseteq Answers
  /\ Ok \notin {Busy, NoConnect, Rejected, NoSuchPath, Declined, Internal, TimedOut,
                OutcomeUnknown, InProgress}
  /\ OutcomeUnknown # InProgress
  BY DEF Answers, Error, Ok, Busy, NoConnect, Rejected, NoSuchPath,
         Declined, Internal, TimedOut, OutcomeUnknown, InProgress

----------------------------------------------------------------------------
(* The client's steps *)

LEMMA NoJobIsSafe == NoJob \in Jobs /\ NoJob.safe
  BY DEF NoJob, Jobs

\* One more try has room for one more round of attempts.
LEMMA Products ==
  /\ \A t \in Nat : /\ t * MaxAttempts \in Nat
                     /\ (t + 1) * MaxAttempts = t * MaxAttempts + MaxAttempts
  /\ \A t \in 0 .. MaxTries : t * MaxAttempts <= MaxTries * MaxAttempts
  /\ MaxTries <= MaxTries * MaxAttempts
<1>1. MaxAttempts \in Nat /\ MaxAttempts >= 1 /\ MaxTries \in Nat
  BY RecoveryAssumption
<1>2. ASSUME NEW t \in Nat
      PROVE  /\ t * MaxAttempts \in Nat
             /\ (t + 1) * MaxAttempts = t * MaxAttempts + MaxAttempts
  BY <1>1
<1>3. ASSUME NEW t \in 0 .. MaxTries
      PROVE  t * MaxAttempts <= MaxTries * MaxAttempts
  BY <1>1
<1>4. MaxTries <= MaxTries * MaxAttempts
  BY <1>1
<1> QED BY <1>2, <1>3, <1>4

LEMMA BudgetStays ==
  ASSUME IInv, UNCHANGED <<job, try, attempt, sent>>,
         pc' = pc \/ (pc # "idle" /\ pc' # "idle")
  PROVE  Budget'
  BY DEF IInv, Budget

LEMMA LastRoundFits ==
  ASSUME NEW t \in 0 .. MaxTries, NEW a \in 0 .. MaxAttempts, NEW n \in Nat,
         n <= t * MaxAttempts - MaxAttempts + a
  PROVE  n <= MaxTries * MaxAttempts
<1>1. MaxAttempts \in Nat /\ MaxTries \in Nat
  BY RecoveryAssumption
<1>2. PICK rounds \in Nat : rounds = t * MaxAttempts
  BY <1>1, Products
<1>3. PICK bound \in Nat : bound = MaxTries * MaxAttempts
  BY <1>1, Products
<1>4. rounds <= bound
  BY <1>2, <1>3, Products
<1>5. n <= rounds - MaxAttempts + a
  BY <1>2
<1>6. n <= bound
  BY <1>1, <1>4, <1>5
<1> QED BY <1>3, <1>6

\* A request that fits into the loops is within their bound.
LEMMA BudgetBounds ==
  ASSUME Budget', try' \in 0 .. MaxTries, attempt' \in 0 .. MaxAttempts, sent' \in Nat
  PROVE  /\ sent' \in 0 .. MaxTries * MaxAttempts
         /\ ~job'.resend => sent' <= MaxTries
<1>1. MaxTries \in Nat /\ MaxTries * MaxAttempts \in Nat
  BY RecoveryAssumption, Products
<1>2. CASE job'.resend
  <2>1. sent' <= try' * MaxAttempts - MaxAttempts + attempt'
    BY <1>2 DEF Budget
  <2>2. sent' <= MaxTries * MaxAttempts
    BY <2>1, LastRoundFits
  <2> QED BY <1>1, <1>2, <2>2
<1>3. CASE ~job'.resend
  <2>1. sent' = try'
    BY <1>3 DEF Budget
  <2>2. sent' <= MaxTries /\ MaxTries <= MaxTries * MaxAttempts
    BY <2>1, Products
  <2> QED BY <1>1, <2>2
<1> QED BY <1>2, <1>3

LEMMA InitKeeps == ASSUME Init PROVE IInv
<1>1. job.safe
  BY NoJobIsSafe DEF Init
<1>2. TypeOK
  <2>1. job \in Jobs /\ answer = Nothing /\ doubt \in BOOLEAN
    BY NoJobIsSafe DEF Init
  <2>2. /\ pc = "idle" /\ try \in 0 .. MaxTries /\ attempt \in 0 .. MaxAttempts
        /\ sent = 0 /\ wire = {} /\ executing = {} /\ holder = 0
        /\ stored = "nothing" /\ effects = 0
    BY RecoveryAssumption DEF Init
  <2>3. sent \in 0 .. MaxTries * MaxAttempts /\ sent <= MaxTries
    BY <2>2, RecoveryAssumption, Products
  <2> QED BY <2>1, <2>2, <2>3 DEF TypeOK
<1>3. OnePlace /\ AnswerAwaited /\ TriesLeft /\ SafeJob
  BY DEF Init, OnePlace, AnswerAwaited, TriesLeft, SafeJob
<1>4. Fresh
  BY DEF Init, Fresh, Quiet
<1>5. NoDoubt /\ WithKey /\ WithoutKey /\ ResultIsTrue
  BY <1>1 DEF NoDoubt, WithKey, WithoutKey, ResultIsTrue
<1>6. Budget
  BY DEF Init, NoJob, Budget
<1> QED BY <1>2, <1>3, <1>4, <1>5, <1>6 DEF IInv

LEMMA CallKeeps == ASSUME NEW j \in Jobs, IInv, Call(j) PROVE IInv'
<1>1. sent = 0 /\ sent' = 1 /\ try' = 1 /\ attempt' = 1 /\ pc' = "waiting" /\ job' = j
  BY DEF Call, Send, IInv, Fresh
<1>2. Budget'
  BY <1>1, RecoveryAssumption, Products DEF Budget
<1>3. TypeOK'
  <2>1. try' \in 0 .. MaxTries /\ attempt' \in 0 .. MaxAttempts
    BY <1>1, RecoveryAssumption
  <2>2. sent' \in 0 .. MaxTries * MaxAttempts /\ (~job'.resend => sent' <= MaxTries)
    BY <1>1, <1>2, <2>1, BudgetBounds
  <2> QED BY <1>1, <2>1, <2>2 DEF Call, Send, server, IInv, TypeOK
<1>4. /\ OnePlace' /\ Fresh' /\ AnswerAwaited' /\ TriesLeft' /\ SafeJob' /\ NoDoubt'
      /\ WithKey' /\ WithoutKey' /\ ResultIsTrue'
  BY NothingIsNoAnswer, AnswersDiffer
     DEF Call, Send, server, IInv, OnePlace, Fresh, AnswerAwaited, TriesLeft,
         SafeJob, NoDoubt, WithKey, WithoutKey, ResultIsTrue, Quiet
<1> QED BY <1>2, <1>3, <1>4 DEF IInv

\* A resent job is a safe one, of which little is claimed.
LEMMA ResendKeeps == ASSUME IInv, Resend PROVE IInv'
<1>1. job.safe /\ job.resend
  BY DEF Resend, MayResend, IInv, TypeOK, Jobs
<1>2. /\ attempt < MaxAttempts /\ attempt' = attempt + 1 /\ sent' = sent + 1
      /\ UNCHANGED <<job, pc, try>>
  BY DEF Resend, MayResend, Send
<1>3. try \in 0 .. MaxTries /\ attempt \in 0 .. MaxAttempts /\ sent \in Nat
  BY DEF IInv, TypeOK
<1>4. Budget'
  <2>1. try * MaxAttempts \in Nat /\ MaxAttempts \in Nat
    BY <1>3, RecoveryAssumption, Products
  <2> QED BY <1>1, <1>2, <1>3, <2>1 DEF IInv, Budget
<1>5. TypeOK'
  <2>1. try' \in 0 .. MaxTries /\ attempt' \in 0 .. MaxAttempts /\ sent' \in Nat
    BY <1>2, <1>3, RecoveryAssumption
  <2>2. sent' \in 0 .. MaxTries * MaxAttempts /\ (~job'.resend => sent' <= MaxTries)
    BY <1>4, <2>1, BudgetBounds
  <2> QED BY <2>1, <2>2 DEF Resend, Send, server, IInv, TypeOK
<1>6. /\ OnePlace' /\ Fresh' /\ AnswerAwaited' /\ TriesLeft' /\ SafeJob' /\ NoDoubt'
      /\ WithKey' /\ WithoutKey' /\ ResultIsTrue'
  BY <1>1, <1>3 DEF Resend, Send, server, IInv, TypeOK, OnePlace, Fresh, AnswerAwaited,
     TriesLeft, SafeJob, NoDoubt, WithKey, WithoutKey, ResultIsTrue
<1> QED BY <1>4, <1>5, <1>6 DEF IInv

LEMMA RepeatKeeps == ASSUME IInv, Repeat PROVE IInv'
<1>1. /\ pc = "pausing" /\ pc' = "waiting" /\ try' = try + 1 /\ attempt' = 1
      /\ sent' = sent + 1 /\ UNCHANGED job
  BY DEF Repeat, Send
<1>2. /\ try < MaxTries /\ try \in 0 .. MaxTries /\ attempt \in 0 .. MaxAttempts
      /\ sent \in Nat
  BY <1>1 DEF IInv, TypeOK, TriesLeft
<1>3. Budget'
  <2>1. /\ try * MaxAttempts \in Nat /\ MaxAttempts \in Nat
        /\ (try + 1) * MaxAttempts = try * MaxAttempts + MaxAttempts
    BY <1>2, RecoveryAssumption, Products
  <2> QED BY <1>1, <1>2, <2>1 DEF IInv, Budget
<1>4. TypeOK'
  <2>1. try' \in 0 .. MaxTries /\ attempt' \in 0 .. MaxAttempts /\ sent' \in Nat
    BY <1>1, <1>2, RecoveryAssumption
  <2>2. sent' \in 0 .. MaxTries * MaxAttempts /\ (~job'.resend => sent' <= MaxTries)
    BY <1>3, <2>1, BudgetBounds
  <2> QED BY <1>1, <2>1, <2>2 DEF Repeat, Send, server, IInv, TypeOK
<1>5. /\ OnePlace' /\ Fresh' /\ AnswerAwaited' /\ TriesLeft' /\ SafeJob' /\ NoDoubt'
      /\ WithKey' /\ WithoutKey' /\ ResultIsTrue'
  <2>1. sent \in Nat /\ wire \subseteq 1 .. sent /\ executing \subseteq 1 .. sent
    BY <1>2 DEF IInv, TypeOK
  <2> QED BY <2>1, NothingIsNoAnswer, AnswersDiffer
     DEF Repeat, Send, server, IInv, OnePlace, Fresh, AnswerAwaited,
         TriesLeft, SafeJob, NoDoubt, WithKey, WithoutKey, ResultIsTrue, Quiet
<1> QED BY <1>3, <1>4, <1>5 DEF IInv

\* An error is taken for definite only when nothing is under way.
LEMMA FailKeeps ==
  ASSUME IInv, pc = "waiting", NEW e, Fail(e),
         ~job.safe /\ ~doubt /\ Definite(e) => Quiet
  PROVE  IInv'
<1>1. UNCHANGED <<job, try, attempt, sent, wire, executing, holder, stored, effects>>
  BY DEF Fail, server
<1>2. answer' = Nothing /\ pc' \in {"pausing", "thrown"} /\ doubt' \in BOOLEAN
  BY DEF Fail, IInv, TypeOK
<1>3. TypeOK' /\ OnePlace' /\ Fresh' /\ AnswerAwaited' /\ SafeJob'
  BY <1>1, <1>2 DEF IInv, TypeOK, OnePlace, Fresh, AnswerAwaited, SafeJob
<1>4. TriesLeft'
  BY <1>1 DEF Fail, TriesLeft
<1>5. NoDoubt'
  BY <1>1, <1>2 DEF Fail, NoDoubt, Quiet
<1>6. WithKey'
  BY <1>1 DEF IInv, WithKey
<1>7. WithoutKey'
  <2>1. ASSUME ~job.safe, ~job.key, doubt' PROVE pc' = "thrown"
    <3>1. ~doubt
      BY <2>1 DEF IInv, WithoutKey
    <3>2. ~Repeats(e)
      BY <2>1, <3>1, RetryableIsDefinite DEF Fail, Repeats
    <3> QED BY <3>2 DEF Fail
  <2> QED BY <1>1, <2>1 DEF IInv, WithoutKey
<1>8. ResultIsTrue'
  BY <1>2, NothingIsNoAnswer, AnswersDiffer DEF ResultIsTrue
<1>9. Budget'
  BY <1>1, <1>2, BudgetStays
<1> QED BY <1>3, <1>4, <1>5, <1>6, <1>7, <1>8, <1>9 DEF IInv

LEMMA ReadAnswerKeeps == ASSUME IInv, ReadAnswer PROVE IInv'
<1>1. PICK e \in Readings(answer) :
        \/ e # Ok /\ Fail(e)
        \/ /\ e = Ok /\ pc' = "returned" /\ answer' = Nothing
           /\ UNCHANGED <<job, try, attempt, sent, wire, server, doubt>>
  BY DEF ReadAnswer
<1>2. answer \in Answers /\ answer # Nothing /\ pc = "waiting"
  BY DEF ReadAnswer, IInv, TypeOK
<1>3. ASSUME e # Ok, Fail(e) PROVE IInv'
  <2>1. ~job.safe /\ ~doubt /\ Definite(e) => Quiet
    BY <1>2, <1>3, ReadingFacts DEF IInv, NoDoubt
  <2> QED BY <1>2, <1>3, <2>1, FailKeeps
<1>4. ASSUME e = Ok, pc' = "returned", answer' = Nothing,
             UNCHANGED <<job, try, attempt, sent, wire, server, doubt>>
      PROVE IInv'
  <2>1. answer = Ok
    BY <1>2, <1>4, ReadingFacts
  <2>2. ~job.safe /\ ~job.key => ~doubt
    BY <1>2 DEF IInv, WithoutKey
  <2>3. Budget'
    BY <1>2, <1>4, BudgetStays
  <2> QED
    BY <1>2, <1>4, <2>1, <2>2, <2>3, NothingIsNoAnswer, AnswersDiffer
    DEF server, IInv, TypeOK, OnePlace, Fresh, AnswerAwaited,
        TriesLeft, SafeJob, NoDoubt, WithKey, WithoutKey, ResultIsTrue
<1> QED BY <1>1, <1>3, <1>4

LEMMA ConnectionFailsKeeps == ASSUME IInv, ConnectionFails PROVE IInv'
<1>1. PICK e \in {NotApi, Internal} : Fail(e)
  BY DEF ConnectionFails
<1>2. ~Definite(e)
  BY LocalErrors
<1> QED BY <1>1, <1>2, FailKeeps DEF ConnectionFails

LEMMA AbortKeeps == ASSUME IInv, Abort PROVE IInv'
  BY LocalErrors, FailKeeps DEF Abort

----------------------------------------------------------------------------
(* The server's steps *)

\* An answer is the server's, or what it was.
LEMMA ReplyFacts ==
  ASSUME NEW r, NEW a, Reply(r, a)
  PROVE  \/ answer' = answer
         \/ answer' = a /\ r = sent /\ pc = "waiting" /\ answer = Nothing
  BY DEF Reply

\* Losing a request, or answering it without executing it.
LEMMA UnexecutedKeeps ==
  ASSUME IInv, NEW r \in wire, wire' = wire \ {r},
         UNCHANGED <<job, client, sent, server, doubt>>,
         NEW a \in Answers \ {TimedOut, OutcomeUnknown},
         \/ answer' = answer
         \/ answer' = a /\ r = sent /\ pc = "waiting" /\ answer = Nothing,
         a = Ok => effects = 1 \/ job.safe,
         a = InProgress => executing # {} \/ job.safe
  PROVE  IInv'
  <1>1. UNCHANGED <<job, pc, try, attempt, sent, executing, holder, stored, effects, doubt>>
    BY DEF client, server
  <1>2. TypeOK' /\ OnePlace' /\ Fresh' /\ AnswerAwaited' /\ TriesLeft' /\ SafeJob'
    BY <1>1 DEF IInv, TypeOK, OnePlace, Fresh, AnswerAwaited, TriesLeft, SafeJob, Quiet
  <1>3. NoDoubt'
    BY <1>1, NothingIsNoAnswer, AnswersDiffer DEF IInv, OnePlace, NoDoubt, Quiet
  <1>4. WithKey' /\ WithoutKey' /\ ResultIsTrue'
    BY <1>1, NothingIsNoAnswer DEF IInv, WithKey, WithoutKey, ResultIsTrue
  <1>5. Budget'
    BY <1>1, BudgetStays
  <1> QED BY <1>2, <1>3, <1>4, <1>5 DEF IInv

LEMMA LoseKeeps == ASSUME IInv, NEW r \in wire, Lose(r) PROVE IInv'
<1>1. /\ wire' = wire \ {r} /\ answer' = answer
      /\ UNCHANGED <<job, client, sent, server, doubt>>
  BY DEF Lose
<1>2. Busy \in Answers \ {TimedOut, OutcomeUnknown} /\ Busy # Ok /\ Busy # InProgress
  BY DEF Answers, Error, Busy, TimedOut, OutcomeUnknown, Ok, InProgress
<1> QED BY <1>1, <1>2, UnexecutedKeeps

LEMMA RefuseKeeps == ASSUME IInv, NEW r \in wire, Refuse(r) PROVE IInv'
<1>1. PICK a \in {Busy, NoConnect, Rejected, NoSuchPath, Internal} : Reply(r, a)
  BY DEF Refuse
<1>2. wire' = wire \ {r} /\ UNCHANGED <<job, client, sent, server, doubt>>
  BY DEF Refuse
<1>3. a \in Answers \ {TimedOut, OutcomeUnknown} /\ a # Ok /\ a # InProgress
  BY DEF Answers, Error, Busy, NoConnect, Rejected, NoSuchPath, Internal, TimedOut,
         OutcomeUnknown, Ok, InProgress
<1>4. \/ answer' = answer
      \/ answer' = a /\ r = sent /\ pc = "waiting" /\ answer = Nothing
  BY <1>1, ReplyFacts
<1> QED BY <1>2, <1>3, <1>4, UnexecutedKeeps

LEMMA CollideKeeps == ASSUME IInv, NEW r \in wire, Collide(r) PROVE IInv'
<1>1. wire' = wire \ {r} /\ UNCHANGED <<job, client, sent, server, doubt>>
  BY DEF Collide
<1>2. InProgress \in Answers \ {TimedOut, OutcomeUnknown} /\ InProgress # Ok
  BY DEF Answers, Error, TimedOut, OutcomeUnknown, Ok, InProgress
<1>3. executing # {} \/ job.safe
  BY DEF Collide, IInv, WithKey
<1>4. \/ answer' = answer
      \/ answer' = InProgress /\ r = sent /\ pc = "waiting" /\ answer = Nothing
  BY ReplyFacts DEF Collide
<1> QED BY <1>1, <1>2, <1>3, <1>4, UnexecutedKeeps

LEMMA ReplayKeeps == ASSUME IInv, NEW r \in wire, Replay(r) PROVE IInv'
<1> DEFINE a == IF stored = "result" THEN Ok ELSE Declined
<1>1. wire' = wire \ {r} /\ UNCHANGED <<job, client, sent, server, doubt>>
  BY DEF Replay
<1>2. a \in Answers \ {TimedOut, OutcomeUnknown} /\ a # InProgress
  BY DEF Answers, Error, TimedOut, OutcomeUnknown, Ok, InProgress, Declined
<1>3. a = Ok => effects = 1 \/ job.safe
  BY AnswersDiffer DEF Replay, IInv, WithKey
<1>4. \/ answer' = answer
      \/ answer' = a /\ r = sent /\ pc = "waiting" /\ answer = Nothing
  BY ReplyFacts DEF Replay
<1> HIDE DEF a
<1> QED BY <1>1, <1>2, <1>3, <1>4, UnexecutedKeeps

\* Starting: the request moves from the wire to the server.
LEMMA StartKeeps == ASSUME IInv, NEW r \in wire, Start(r) PROVE IInv'
<1>1. UNCHANGED <<job, pc, try, attempt, sent, stored, effects, answer, doubt>>
  BY DEF Start, client
<1>2. wire' = wire \ {r} /\ executing' = executing \cup {r}
  BY DEF Start
<1>3. TypeOK' /\ OnePlace' /\ AnswerAwaited' /\ TriesLeft' /\ SafeJob'
  BY <1>1, <1>2 DEF Start, IInv, TypeOK, OnePlace, AnswerAwaited, TriesLeft, SafeJob
<1>4. Fresh' /\ ResultIsTrue'
  BY <1>1 DEF IInv, Fresh, Quiet, ResultIsTrue
<1>5. NoDoubt'
  BY <1>1, <1>2 DEF IInv, NoDoubt, Quiet
<1>6. WithKey'
  <2> SUFFICES ASSUME ~job.safe, job.key PROVE WithKey'
    BY <1>1 DEF WithKey
  <2>1. holder = 0 /\ stored = "nothing" /\ holder' = r /\ executing = {}
    BY DEF Start, IInv, WithKey
  <2>2. holder' # 0 /\ executing' = {holder'}
    BY <1>2, <2>1 DEF IInv, TypeOK
  <2> QED BY <1>1, <2>1, <2>2 DEF IInv, WithKey
<1>7. WithoutKey'
  BY <1>1, <1>2 DEF Start, IInv, WithoutKey
<1>8. Budget'
  BY <1>1, BudgetStays
<1> QED BY <1>3, <1>4, <1>5, <1>6, <1>7, <1>8 DEF IInv

\* The end of an execution, with the effect it has.
LEMMA FinishKeeps ==
  ASSUME IInv, NEW r \in executing, NEW a \in Answers \ {OutcomeUnknown, InProgress},
         NEW keep \in {"nothing", "result", "error"}, Finish(r, a, keep),
         effects' = IF keep = "result" /\ ~job.safe THEN effects + 1 ELSE effects,
         a = Ok <=> keep = "result"
  PROVE  IInv'
<1>1. UNCHANGED <<job, pc, try, attempt, sent, wire, doubt>>
  BY DEF Finish, client
<1>2. executing' = executing \ {r}
  BY DEF Finish
<1>3. \/ answer' = answer
      \/ answer' = a /\ r = sent /\ pc = "waiting" /\ answer = Nothing
  BY ReplyFacts DEF Finish
<1>4. pc # "waiting" => answer' = answer
  BY <1>3
<1>5. r = sent /\ pc = "waiting" /\ answer = Nothing => answer' = a
  BY DEF Finish, Reply
<1>6. TypeOK'
  BY <1>1, <1>2, <1>3 DEF Finish, IInv, TypeOK
<1>7. OnePlace' /\ Fresh' /\ AnswerAwaited' /\ TriesLeft' /\ SafeJob'
  BY <1>1, <1>2, <1>3
     DEF IInv, OnePlace, Fresh, AnswerAwaited, TriesLeft, SafeJob, Quiet
<1>8. NoDoubt'
  <2> SUFFICES ASSUME ~job.safe, ~doubt PROVE NoDoubt'
    BY <1>1 DEF NoDoubt
  <2>1. pc \notin {"pausing", "thrown"}
    BY DEF IInv, NoDoubt, Quiet
  <2>2. ASSUME pc = "waiting"
        PROVE  /\ wire' = {} /\ executing' = {}
               /\ answer \in {Nothing, Ok, OutcomeUnknown}
    BY <1>1, <1>2, <2>2 DEF IInv, OnePlace, NoDoubt, Quiet
  <2>3. ASSUME pc = "waiting", answer = Nothing
        PROVE  answer' = a /\ effects = 0
    <3>1. r = sent
      BY <2>3 DEF IInv, NoDoubt
    <3>2. Nothing \notin {Ok, OutcomeUnknown}
      BY NothingIsNoAnswer, AnswersDiffer
    <3> QED BY <1>5, <2>3, <3>1, <3>2 DEF IInv, NoDoubt
  <2>4. ASSUME pc = "waiting", answer # Nothing
        PROVE  answer' = answer
    BY <1>3, <2>4
  <2> QED BY <1>1, <2>1, <2>2, <2>3, <2>4, AnswersDiffer, NothingIsNoAnswer DEF NoDoubt, Quiet
<1>9. WithKey'
  BY <1>1, <1>2 DEF Finish, IInv, TypeOK, WithKey
<1>10. WithoutKey'
  BY <1>1, <1>2 DEF Finish, IInv, TypeOK, OnePlace, WithoutKey
<1>11. ResultIsTrue'
  <2>1. ASSUME ~job.safe, job.key PROVE effects = 0 /\ stored = "nothing"
    BY <2>1 DEF IInv, WithKey
  <2>2. ASSUME ~job.safe, ~job.key PROVE effects = 0
    BY <2>2 DEF IInv, WithoutKey
  <2>3. ~job.safe => answer # Ok /\ pc # "returned"
    BY <2>1, <2>2 DEF IInv, ResultIsTrue
  <2> QED BY <1>1, <1>3, <2>1, <2>2, <2>3 DEF ResultIsTrue
<1>12. Budget'
  BY <1>1, BudgetStays
<1> QED BY <1>6, <1>7, <1>8, <1>9, <1>10, <1>11, <1>12 DEF IInv

LEMMA SucceedKeeps == ASSUME IInv, NEW r \in executing, Succeed(r) PROVE IInv'
<1>1. Ok \in Answers \ {OutcomeUnknown, InProgress}
  BY AnswersDiffer
<1>2. Finish(r, Ok, "result") /\ effects' = IF "result" = "result" /\ ~job.safe THEN effects + 1 ELSE effects
  BY DEF Succeed
<1> QED BY <1>1, <1>2, FinishKeeps

LEMMA DeclineKeeps == ASSUME IInv, NEW r \in executing, Decline(r) PROVE IInv'
<1>1. Declined \in Answers \ {OutcomeUnknown, InProgress} /\ Declined # Ok
  BY DEF Answers, Error, OutcomeUnknown, InProgress, Declined, Ok
<1>2. Finish(r, Declined, "error") /\ effects' = effects
  BY DEF Decline
<1> QED BY <1>1, <1>2, FinishKeeps

LEMMA BreakOffKeeps == ASSUME IInv, NEW r \in executing, BreakOff(r) PROVE IInv'
<1>1. PICK a \in {Internal, NoConnect} : Finish(r, a, "nothing")
  BY DEF BreakOff
<1>2. a \in Answers \ {OutcomeUnknown, InProgress} /\ a # Ok
  BY DEF Answers, Error, OutcomeUnknown, InProgress, Internal, NoConnect, Ok
<1>3. effects' = effects
  BY DEF BreakOff
<1> QED BY <1>1, <1>2, <1>3, FinishKeeps

LEMMA TimeOutKeeps == ASSUME IInv, NEW r \in executing, TimeOut(r) PROVE IInv'
<1>1. TimedOut \in Answers \ {OutcomeUnknown, InProgress} /\ TimedOut # Ok
  BY DEF Answers, Error, OutcomeUnknown, InProgress, TimedOut, Ok
<1>2. Finish(r, TimedOut, "nothing") /\ effects' = effects
  BY DEF TimeOut
<1> QED BY <1>1, <1>2, FinishKeeps

\* The answer says that the outcome is open, and it is.
LEMMA OverrunKeeps == ASSUME IInv, NEW r \in executing, Overrun(r) PROVE IInv'
<1>1. UNCHANGED <<job, pc, try, attempt, sent, wire, executing, holder, stored, effects, doubt>>
  BY DEF Overrun, client, server
<1>2. \/ answer' = answer
      \/ answer' = OutcomeUnknown /\ r = sent /\ pc = "waiting" /\ answer = Nothing
  BY ReplyFacts DEF Overrun
<1>3. OutcomeUnknown \in Answers /\ OutcomeUnknown # Ok /\ OutcomeUnknown # Nothing
  BY AnswersDiffer, NothingIsNoAnswer
<1>4. TypeOK' /\ OnePlace' /\ AnswerAwaited' /\ TriesLeft' /\ SafeJob'
  BY <1>1, <1>2, <1>3 DEF IInv, TypeOK, OnePlace, AnswerAwaited, TriesLeft, SafeJob
<1>5. Fresh' /\ WithKey' /\ WithoutKey'
  BY <1>1 DEF IInv, Fresh, WithKey, WithoutKey, Quiet
<1>6. NoDoubt'
  BY <1>1, <1>2, AnswersDiffer, NothingIsNoAnswer DEF IInv, NoDoubt, Quiet
<1>7. ResultIsTrue'
  BY <1>1, <1>2, <1>3 DEF IInv, ResultIsTrue
<1>8. Budget'
  BY <1>1, BudgetStays
<1> QED BY <1>4, <1>5, <1>6, <1>7, <1>8 DEF IInv

----------------------------------------------------------------------------
(* The theorems *)

LEMMA NextKeeps == ASSUME IInv, [Next]_vars PROVE IInv'
<1>1. ASSUME NEW j \in Jobs, Call(j) PROVE IInv'
  BY <1>1, CallKeeps
<1>2. CASE ClientStep
  BY <1>2, ReadAnswerKeeps, ResendKeeps, ConnectionFailsKeeps, AbortKeeps, RepeatKeeps
     DEF ClientStep
<1>3. ASSUME NEW r \in wire, Lose(r) \/ Refuse(r) \/ Collide(r) \/ Replay(r) \/ Start(r)
      PROVE  IInv'
  BY <1>3, LoseKeeps, RefuseKeeps, CollideKeeps, ReplayKeeps, StartKeeps
<1>4. ASSUME NEW r \in executing,
             Succeed(r) \/ Decline(r) \/ BreakOff(r) \/ TimeOut(r) \/ Overrun(r)
      PROVE  IInv'
  BY <1>4, SucceedKeeps, DeclineKeeps, BreakOffKeeps, TimeOutKeeps, OverrunKeeps
<1>5. CASE UNCHANGED vars
  BY <1>5 DEF vars, IInv, TypeOK, OnePlace, Fresh, AnswerAwaited, TriesLeft, SafeJob,
     NoDoubt, WithKey, WithoutKey, ResultIsTrue, Quiet, Budget
<1> QED BY <1>1, <1>2, <1>3, <1>4, <1>5 DEF Next, ServerStep

\* The invariant behind the theorems.
THEOREM RecoveryInvariant == Spec => []IInv
  BY InitKeeps, NextKeeps, PTL DEF Spec

\* The state of an operation under recovery keeps its types; only a safe
\* operation is ever resent by the SDK itself; and the caller's loop around
\* withRetry() sends MaxTries * MaxAttempts requests at most, one per try when
\* the SDK does not resend.
THEOREM RecoveryTypes == Spec => []TypeOK
<1>1. IInv => TypeOK
  BY DEF IInv
<1> QED BY <1>1, RecoveryInvariant, PTL

\* What the caller of a change may rely on in every state.  Nothing is executed
\* twice; a result is the truth; after nothing but definite errors no request is
\* left that could still be executed; and without a key nothing is repeated once
\* an error has left the outcome open.
Truth ==
  ~job.safe =>
    /\ effects <= 1
    /\ pc = "returned" => effects = 1
    /\ pc = "thrown" /\ ~doubt => effects = 0 /\ wire \cup executing = {}
    /\ ~job.key /\ doubt => pc = "thrown"

\* The promise of AtMostOnce in the terms of the client, the wire and the server.
THEOREM CallerKnowsTheTruth == Spec => []Truth
<1>1. ASSUME IInv, ~job.safe
      PROVE  effects <= 1
  BY <1>1 DEF IInv, WithKey, WithoutKey
<1>2. ASSUME IInv, ~job.safe, pc = "returned"
      PROVE  effects = 1
  BY <1>2 DEF IInv, ResultIsTrue
<1>3. ASSUME IInv, ~job.safe, pc = "thrown", ~doubt
      PROVE  effects = 0 /\ wire \cup executing = {}
  BY <1>3 DEF IInv, NoDoubt, Quiet
<1>4. ASSUME IInv, ~job.safe, ~job.key, doubt
      PROVE  pc = "thrown"
  BY <1>4 DEF IInv, WithoutKey
<1>5. IInv => Truth
  BY <1>1, <1>2, <1>3, <1>4 DEF Truth
<1> QED BY <1>5, RecoveryInvariant, PTL

\* Before the call the verdict is open.
LEMMA PromiseInit == ASSUME Init PROVE Promise!Init
<1>1. job.safe
  BY NoJobIsSafe DEF Init
<1> QED BY <1>1 DEF Init, Promise!Init, Verdict

\* What leaves job and pc alone leaves the verdict alone, as long as doubt
\* does not change behind it.
LEMMA VerdictStays ==
  ASSUME UNCHANGED <<job, pc, doubt>> PROVE UNCHANGED Verdict
  BY DEF Verdict

LEMMA FailKeepsPromise ==
  ASSUME IInv, IInv', pc = "waiting", NEW e, Fail(e)
  PROVE  [Promise!Next]_Promise!vars
<1>1. UNCHANGED <<job, effects>>
  BY DEF Fail, server
<1>2. CASE job.safe
  BY <1>1, <1>2 DEF Verdict, Promise!vars
<1>3. CASE ~job.safe /\ pc' = "pausing"
  BY <1>1, <1>3 DEF Verdict, Promise!vars
<1>4. CASE ~job.safe /\ pc' = "thrown" /\ doubt'
  <2>1. Verdict = "open" /\ Verdict' = "unknown"
    BY <1>1, <1>4 DEF Verdict
  <2> QED BY <1>1, <2>1 DEF Promise!Next, Promise!GiveUp
<1>5. CASE ~job.safe /\ pc' = "thrown" /\ ~doubt'
  <2>1. Verdict = "open" /\ Verdict' = "refused"
    BY <1>1, <1>5 DEF Verdict
  <2>2. effects = 0
    BY <1>1, <1>5 DEF IInv, NoDoubt, Quiet
  <2> QED BY <1>1, <2>1, <2>2 DEF Promise!Next, Promise!Refuse
<1>6. pc' \in {"pausing", "thrown"}
  BY DEF Fail
<1> QED BY <1>2, <1>3, <1>4, <1>5, <1>6

LEMMA SucceedKeepsPromise ==
  ASSUME IInv, IInv', NEW r \in executing, Succeed(r)
  PROVE  [Promise!Next]_Promise!vars
<1>1. UNCHANGED <<job, pc, doubt>> /\ UNCHANGED Verdict
  BY VerdictStays DEF Succeed, Finish, client
<1>2. CASE job.safe
  BY <1>1, <1>2 DEF Succeed, Promise!vars
<1>3. CASE ~job.safe
  <2>1. effects = 0
    BY <1>3 DEF IInv, TypeOK, WithKey, WithoutKey
  <2>2. effects' = 1
    BY <1>3, <2>1 DEF Succeed
  <2>3. Verdict # "refused"
    BY <1>3 DEF IInv, NoDoubt, Quiet, Verdict
  <2> QED BY <1>1, <2>1, <2>2, <2>3 DEF Promise!Next, Promise!Apply
<1> QED BY <1>2, <1>3

LEMMA NextKeepsPromise ==
  ASSUME IInv, IInv', [Next]_vars PROVE [Promise!Next]_Promise!vars
<1>1. ASSUME NEW j \in Jobs, Call(j) PROVE [Promise!Next]_Promise!vars
  <2>1. Verdict = "open" /\ Verdict' = "open" /\ UNCHANGED effects
    BY <1>1 DEF Call, server, Verdict
  <2> QED BY <2>1 DEF Promise!vars
<1>2. CASE ReadAnswer
  <2>1. PICK e \in Readings(answer) :
          \/ e # Ok /\ Fail(e)
          \/ /\ e = Ok /\ pc' = "returned"
             /\ UNCHANGED <<job, try, attempt, sent, wire, server, doubt>>
    BY <1>2 DEF ReadAnswer
  <2>2. CASE Fail(e)
    BY <1>2, <2>2, FailKeepsPromise DEF ReadAnswer
  <2>3. ASSUME pc' = "returned",
               UNCHANGED <<job, try, attempt, sent, wire, server, doubt>>
        PROVE  [Promise!Next]_Promise!vars
    <3>1. UNCHANGED <<job, effects>> /\ pc = "waiting"
      BY <1>2, <2>3 DEF server, ReadAnswer
    <3>2. CASE job.safe
      BY <3>1, <3>2 DEF Verdict, Promise!vars
    <3>3. CASE ~job.safe
      <4>1. Verdict = "open" /\ Verdict' = "done"
        BY <2>3, <3>1, <3>3 DEF Verdict
      <4>2. effects = 1
        BY <2>3, <3>1, <3>3 DEF IInv, ResultIsTrue
      <4> QED BY <3>1, <4>1, <4>2 DEF Promise!Next, Promise!Done
    <3> QED BY <3>2, <3>3
  <2> QED BY <2>1, <2>2, <2>3
<1>3. CASE Resend
  <2>1. UNCHANGED <<job, pc, doubt, effects>>
    BY <1>3 DEF Resend, server
  <2> QED BY <2>1, VerdictStays DEF Promise!vars
<1>4. CASE ConnectionFails
  BY <1>4, FailKeepsPromise DEF ConnectionFails
<1>5. CASE Abort
  BY <1>5, FailKeepsPromise DEF Abort
<1>6. CASE Repeat
  <2>1. UNCHANGED <<job, effects>> /\ pc = "pausing" /\ pc' = "waiting"
    BY <1>6 DEF Repeat, server
  <2>2. UNCHANGED Verdict
    BY <2>1 DEF Verdict
  <2> QED BY <2>1, <2>2 DEF Promise!vars
<1>7. ASSUME NEW r \in wire, Lose(r) \/ Refuse(r) \/ Collide(r) \/ Replay(r) \/ Start(r)
      PROVE  [Promise!Next]_Promise!vars
  <2>1. UNCHANGED <<job, pc, doubt, effects>>
    BY <1>7 DEF Lose, Refuse, Collide, Replay, Start, client, server
  <2> QED BY <2>1, VerdictStays DEF Promise!vars
<1>8. ASSUME NEW r \in executing, Decline(r) \/ BreakOff(r) \/ TimeOut(r) \/ Overrun(r)
      PROVE  [Promise!Next]_Promise!vars
  <2>1. UNCHANGED <<job, pc, doubt, effects>>
    BY <1>8 DEF Decline, BreakOff, TimeOut, Overrun, Finish, client, server
  <2> QED BY <2>1, VerdictStays DEF Promise!vars
<1>9. CASE UNCHANGED vars
  BY <1>9, VerdictStays DEF vars, Promise!vars
<1> QED
  BY <1>1, <1>2, <1>3, <1>4, <1>5, <1>6, <1>7, <1>8, <1>9, SucceedKeepsPromise
  DEF Next, ClientStep, ServerStep

\* The README's promise, for any bounds on attempts and tries: with a key, a
\* change that is repeated however often takes effect at most once; without one,
\* following the SDK's classification suffices; and what the caller is left with
\* stays true when requests that were given up arrive late.
THEOREM RecoveryIsAtMostOnce == Spec => ImplementsAtMostOnce
  BY PromiseInit, NextKeepsPromise, RecoveryInvariant, PTL
     DEF Spec, ImplementsAtMostOnce, Promise!Spec
=============================================================================
