------------------------- MODULE StreamBridgeProofs -------------------------
(***************************************************************************)
(* Proofs about StreamBridge, for a stream and a consumer of any length.   *)
(***************************************************************************)
EXTENDS StreamBridge, SequenceTheorems, TLAPS

----------------------------------------------------------------------------
(* The inductive invariant *)

\* The waiting call is the last one, it is the only one pending, and nothing is
\* there to answer it with.
Waits ==
  /\ waiter # 0 => /\ waiter = Len(calls) /\ calls[waiter] = "pending"
                   /\ queue = << >> /\ ~done
  /\ \A i \in 1..Len(calls) : calls[i] = "pending" => i = waiter

\* The flags of the iterator agree with what closed it.
Closes ==
  /\ closing = "open" <=> ~done
  /\ closing = "failed" <=> error

\* Unless the consumer closed it, a stream whose end was told is drained, and one
\* whose error was told has failed.
Tells ==
  closing # "returned" =>
    /\ \A i \in 1..Len(calls) : calls[i] = "end" => closing = "completed" /\ queue = << >>
    /\ \A i \in 1..Len(calls) : calls[i] = "error" => closing = "failed"
    /\ \A i, j \in 1..Len(calls) : i < j /\ calls[i] \in {"end", "error"} => calls[j] = calls[i]

IInv == TypeOK /\ ItemsInOrder /\ Waits /\ Closes /\ Tells

LEMMA Lengths ==
  ASSUME TypeOK
  PROVE  /\ Len(calls) \in Nat /\ Len(queue) \in Nat /\ Len(got) \in Nat
         /\ DOMAIN calls = 1..Len(calls) /\ waiter \in 0..Len(calls)
<1>1. /\ Len(calls) \in Nat /\ Len(queue) \in Nat /\ Len(got) \in Nat
      /\ DOMAIN calls = 1..Len(calls)
  BY LenProperties DEF TypeOK
<1> QED BY <1>1 DEF TypeOK

----------------------------------------------------------------------------
(* The building blocks of the steps *)

\* Settling leaves no call pending; it changes the last call, if that one waited.
LEMMA Settles ==
  ASSUME IInv, NEW outcome \in Outcomes \ {"pending"}, Settle(outcome)
  PROVE  /\ calls' \in Seq(Outcomes) /\ waiter' = 0 /\ Len(calls') = Len(calls)
         /\ \A i \in 1..Len(calls) :
              calls'[i] = IF waiter # 0 /\ i = Len(calls) THEN outcome ELSE calls[i]
         /\ \A i \in 1..Len(calls) : calls'[i] # "pending"
<1>1. calls \in Seq(Outcomes) /\ Len(calls) \in Nat /\ waiter \in 0..Len(calls)
  BY Lengths DEF IInv, TypeOK
<1>2. CASE waiter = 0
  <2>1. calls' = calls /\ waiter' = 0
    BY <1>2 DEF Settle
  <2>2. \A i \in 1..Len(calls) : calls[i] = "pending" => i = 0
    BY <1>2 DEF IInv, Waits
  <2> QED BY <1>1, <1>2, <2>1, <2>2
<1>3. CASE waiter # 0
  <2>1. calls' = [calls EXCEPT ![waiter] = outcome] /\ waiter' = 0
    BY <1>3 DEF Settle
  <2>2. waiter = Len(calls) /\ waiter \in 1..Len(calls)
    BY <1>1, <1>3 DEF IInv, Waits
  <2>3. /\ calls' \in Seq(Outcomes) /\ Len(calls') = Len(calls)
        /\ \A i \in 1..Len(calls) : calls'[i] = IF i = waiter THEN outcome ELSE calls[i]
    BY <1>1, <2>1, <2>2, ExceptSeq
  <2>4. \A i \in 1..Len(calls) : calls[i] = "pending" => i = waiter
    BY DEF IInv, Waits
  <2> QED BY <1>3, <2>1, <2>2, <2>3, <2>4
<1> QED BY <1>2, <1>3

\* A call that is answered at once, or that waits, is the new last one.
LEMMA Calls ==
  ASSUME calls \in Seq(Outcomes), NEW outcome \in Outcomes, calls' = Append(calls, outcome)
  PROVE  /\ calls' \in Seq(Outcomes) /\ Len(calls') = Len(calls) + 1
         /\ \A i \in 1..Len(calls) : calls'[i] = calls[i]
         /\ calls'[Len(calls) + 1] = outcome
  BY AppendProperties

\* An item that is pushed while the stream is open is the next one.
LEMMA ItemIsNext ==
  ASSUME IInv, ~done
  PROVE  Len(got) + Len(queue) = pushed
  BY DEF IInv, ItemsInOrder

----------------------------------------------------------------------------
(* Each step keeps the invariant *)

LEMMA NextItem ==
  ASSUME IInv, OnNext
  PROVE  IInv'
<1> USE DEF IInv, Outcomes
<1>1. /\ pushed < MaxItems /\ pushed' = pushed + 1
      /\ UNCHANGED <<error, done, disposed, closing>>
  BY DEF OnNext
<1>2. /\ Len(calls) \in Nat /\ Len(queue) \in Nat /\ Len(got) \in Nat /\ pushed \in Nat
      /\ pushed' \in 0..MaxItems
  BY <1>1, Lengths, BridgeAssumption DEF TypeOK
<1>3. CASE done
  <2>1. UNCHANGED <<queue, waiter, got, calls>>
    BY <1>3 DEF OnNext
  <2>2. TypeOK'
    BY <1>1, <1>2, <2>1 DEF TypeOK
  <2>3. ItemsInOrder'
    BY <1>1, <1>2, <1>3, <2>1 DEF ItemsInOrder
  <2> QED BY <1>1, <2>1, <2>2, <2>3 DEF Waits, Closes, Tells
<1>4. CASE ~done /\ waiter # 0
  <2>1. Settle("item") /\ got' = Append(got, pushed + 1) /\ queue' = queue
    BY <1>4 DEF OnNext
  <2>2. /\ calls' \in Seq(Outcomes) /\ waiter' = 0 /\ Len(calls') = Len(calls)
        /\ \A i \in 1..Len(calls) :
             calls'[i] = IF waiter # 0 /\ i = Len(calls) THEN "item" ELSE calls[i]
        /\ \A i \in 1..Len(calls) : calls'[i] # "pending"
    BY <2>1, Settles
  <2>3. queue = << >> /\ Len(queue) = 0
    BY <1>4 DEF Waits
  <2>4. /\ got' \in Seq(Nat) /\ Len(got') = Len(got) + 1
        /\ \A i \in 1..Len(got) : got'[i] = got[i]
        /\ got'[Len(got) + 1] = pushed + 1
    BY <1>2, <2>1, AppendProperties DEF TypeOK
  <2>5. TypeOK'
    BY <1>1, <1>2, <2>1, <2>2, <2>4 DEF TypeOK
  <2>6. ItemsInOrder'
    BY <1>1, <1>2, <1>4, <2>1, <2>3, <2>4 DEF ItemsInOrder
  <2>7. Waits'
    BY <2>2 DEF Waits
  <2>8. Tells'
    BY <1>1, <1>4, <2>1, <2>2 DEF Tells, Closes
  <2> QED BY <1>1, <2>5, <2>6, <2>7, <2>8 DEF Closes
<1>5. CASE ~done /\ waiter = 0
  <2>1. queue' = Append(queue, pushed + 1) /\ UNCHANGED <<waiter, got, calls>>
    BY <1>5 DEF OnNext
  <2>2. /\ queue' \in Seq(Nat) /\ Len(queue') = Len(queue) + 1
        /\ \A i \in 1..Len(queue) : queue'[i] = queue[i]
        /\ queue'[Len(queue) + 1] = pushed + 1
    BY <1>2, <2>1, AppendProperties DEF TypeOK
  <2>3. TypeOK'
    BY <1>1, <1>2, <2>1, <2>2 DEF TypeOK
  <2>4. ItemsInOrder'
    BY <1>1, <1>2, <1>5, <2>1, <2>2 DEF ItemsInOrder
  <2>5. Waits'
    BY <1>5, <2>1 DEF Waits
  <2>6. Tells'
    BY <1>1, <1>5, <2>1 DEF Tells, Closes
  <2> QED BY <1>1, <2>3, <2>4, <2>5, <2>6 DEF Closes
<1> QED BY <1>3, <1>4, <1>5

\* A completion, an error and return() all close the stream and settle the call.
LEMMA Ends ==
  ASSUME IInv, OnComplete \/ OnError \/ CallReturn
  PROVE  IInv'
<1> USE DEF IInv
<1>1. UNCHANGED <<queue, pushed, got>> /\ done' = TRUE
  BY DEF OnComplete, OnError, CallReturn
<1>2. PICK outcome \in {"end", "error"} :
        /\ Settle(outcome)
        /\ outcome = "error" <=> OnError
  BY DEF OnComplete, OnError, CallReturn, Settle
<1>3. /\ calls' \in Seq(Outcomes) /\ waiter' = 0 /\ Len(calls') = Len(calls)
      /\ \A i \in 1..Len(calls) :
           calls'[i] = IF waiter # 0 /\ i = Len(calls) THEN outcome ELSE calls[i]
      /\ \A i \in 1..Len(calls) : calls'[i] # "pending"
  BY <1>2, Settles DEF Outcomes
<1>4. Len(calls) \in Nat /\ waiter # 0 => queue = << >> /\ ~done
  BY Lengths DEF Waits
<1>5. Closes' /\ closing' \in {"open", "completed", "failed", "returned"}
      /\ error' \in BOOLEAN /\ disposed' \in BOOLEAN
  <2>1. /\ closing \in {"open", "completed", "failed", "returned"}
        /\ error \in BOOLEAN /\ done \in BOOLEAN /\ disposed \in BOOLEAN
        /\ closing = "open" <=> ~done
        /\ closing = "failed" <=> error
    BY DEF TypeOK, Closes
  <2>2. CASE OnComplete
    <3>1. closing = "open" /\ closing' = "completed" /\ UNCHANGED <<error, disposed>>
      BY <2>1, <2>2 DEF OnComplete
    <3> QED BY <1>1, <2>1, <3>1 DEF Closes
  <2>3. CASE OnError
    <3>1. closing' = "failed" /\ error' = TRUE /\ disposed' = TRUE
      BY <2>3 DEF OnError
    <3> QED BY <1>1, <3>1 DEF Closes
  <2>4. CASE CallReturn
    <3>1. /\ closing' = IF done THEN closing ELSE "returned"
          /\ error' = error /\ disposed' = TRUE
      BY <2>4 DEF CallReturn
    <3>2. closing' # "open" /\ (closing' = "failed" <=> error')
      BY <2>1, <3>1
    <3>3. Closes'
      BY <1>1, <3>1, <3>2 DEF Closes
    <3> QED BY <2>1, <3>1, <3>3
  <2> QED BY <2>2, <2>3, <2>4
<1>6. TypeOK'
  BY <1>1, <1>3, <1>4, <1>5, Lengths DEF TypeOK
<1>7. ItemsInOrder'
  BY <1>1 DEF ItemsInOrder
<1>8. Waits'
  BY <1>3 DEF Waits
<1>9. Tells'
  <2> SUFFICES ASSUME closing' # "returned" PROVE Tells'
    BY DEF Tells
  <2>1. CASE done
    <3>1. closing' = closing /\ waiter = 0
      BY <2>1 DEF OnComplete, OnError, CallReturn, Waits
    <3> QED BY <1>1, <1>3, <3>1 DEF Tells
  <2>2. CASE ~done
    <3>1. closing = "open" /\ closing' = IF outcome = "error" THEN "failed" ELSE "completed"
      BY <1>2, <2>2 DEF OnComplete, OnError, CallReturn, Closes
    <3>2. \A i \in 1..Len(calls) : calls[i] \notin {"end", "error"}
      BY <3>1 DEF Tells
    <3>3. \A i \in 1..Len(calls) : calls'[i] \in {"end", "error"} =>
            i = Len(calls) /\ calls'[i] = outcome /\ queue = << >>
      BY <1>3, <1>4, <3>2, Lengths DEF Waits
    <3> QED BY <1>1, <1>3, <3>1, <3>3, Lengths DEF Tells
  <2> QED BY <2>1, <2>2
<1> QED BY <1>5, <1>6, <1>7, <1>8, <1>9

LEMMA Pulls ==
  ASSUME IInv, CallNext
  PROVE  IInv'
<1> USE DEF IInv, Outcomes
<1>1. UNCHANGED <<error, done, disposed, pushed, closing>> /\ Pull
  BY DEF CallNext
<1>2. /\ Len(calls) \in Nat /\ Len(queue) \in Nat /\ Len(got) \in Nat
      /\ DOMAIN calls = 1..Len(calls)
  BY Lengths
<1>3. waiter = 0 /\ \A i \in 1..Len(calls) : calls[i] # "pending"
  <2>1. \A i \in 1..Len(calls) : calls[i] # "pending"
    BY <1>2 DEF CallNext
  <2>2. waiter \in 0..Len(calls) /\ (waiter # 0 => calls[waiter] = "pending")
    BY Lengths DEF Waits
  <2> QED BY <1>2, <2>1, <2>2
<1>4. Closes'
  BY <1>1 DEF Closes
\* What holds of any answer that leaves the items alone.
<1>5. ASSUME NEW outcome \in {"end", "error"}, Answered(outcome), UNCHANGED <<queue, got>>,
             outcome = "error" => error,
             outcome = "end" => ~error /\ done /\ queue = << >>
      PROVE  IInv'
  <2>1. /\ calls' \in Seq(Outcomes) /\ Len(calls') = Len(calls) + 1
        /\ \A i \in 1..Len(calls) : calls'[i] = calls[i]
        /\ calls'[Len(calls) + 1] = outcome
    BY <1>5, Calls DEF Answered, TypeOK
  <2>2. waiter' = 0
    BY <1>3, <1>5 DEF Answered
  <2>3. TypeOK'
    BY <1>1, <1>2, <1>5, <2>1, <2>2 DEF TypeOK
  <2>4. ItemsInOrder'
    BY <1>1, <1>5 DEF ItemsInOrder
  <2>5. Waits'
    BY <1>2, <1>3, <2>1, <2>2 DEF Waits
  <2>6. Tells'
    <3> SUFFICES ASSUME closing # "returned" PROVE Tells'
      BY <1>1 DEF Tells
    <3>1. closing = IF outcome = "error" THEN "failed" ELSE "completed"
      BY <1>5 DEF Closes, TypeOK
    <3>2. \A i \in 1..Len(calls) : calls[i] \in {"end", "error"} => calls[i] = outcome
      BY <3>1 DEF Tells
    <3> QED BY <1>1, <1>2, <1>5, <2>1, <3>1, <3>2 DEF Tells
  <2> QED BY <1>4, <2>3, <2>4, <2>5, <2>6
<1>6. CASE ~error /\ queue # << >>
  <2>1. Answered("item") /\ got' = Append(got, Head(queue)) /\ queue' = Tail(queue)
    BY <1>1, <1>6 DEF Pull
  <2>2. /\ calls' \in Seq(Outcomes) /\ Len(calls') = Len(calls) + 1
        /\ \A i \in 1..Len(calls) : calls'[i] = calls[i]
        /\ calls'[Len(calls) + 1] = "item"
    BY <2>1, Calls DEF Answered, TypeOK
  <2>3. waiter' = 0
    BY <1>3, <2>1 DEF Answered
  <2>4. queue \in Seq(Nat) /\ got \in Seq(Nat)
    BY DEF TypeOK
  <2>5. /\ Len(queue) > 0 /\ queue' \in Seq(Nat) /\ Len(queue') = Len(queue) - 1
        /\ \A i \in 1..Len(queue') : queue'[i] = queue[i + 1]
        /\ Head(queue) = queue[1] /\ Head(queue) \in Nat
    BY <1>2, <1>6, <2>1, <2>4, HeadTailProperties, EmptySeq
  <2>6. /\ got' \in Seq(Nat) /\ Len(got') = Len(got) + 1
        /\ \A i \in 1..Len(got) : got'[i] = got[i]
        /\ got'[Len(got) + 1] = Head(queue)
    BY <2>1, <2>4, <2>5, AppendProperties
  <2>7. TypeOK'
    BY <1>1, <1>2, <2>2, <2>3, <2>5, <2>6 DEF TypeOK
  <2>8. ItemsInOrder'
    <3>1. /\ \A i \in 1..Len(got) : got[i] = i
          /\ \A i \in 1..Len(queue) : queue[i] = Len(got) + i
          /\ Len(got) + Len(queue) <= pushed
          /\ ~done => Len(got) + Len(queue) = pushed
      BY DEF ItemsInOrder
    <3>2. \A i \in 1..Len(got') : got'[i] = i
      <4>1. \A i \in 1..Len(got) : got'[i] = i
        BY <2>6, <3>1
      <4>2. 1 \in 1..Len(queue) /\ queue[1] = Len(got) + 1
        BY <1>2, <2>5, <3>1
      <4>3. got'[Len(got) + 1] = Len(got) + 1
        BY <2>5, <2>6, <4>2
      <4> QED BY <1>2, <2>6, <4>1, <4>3
    <3>3. \A i \in 1..Len(queue') : queue'[i] = Len(got') + i
      <4> SUFFICES ASSUME NEW i \in 1..Len(queue')
                   PROVE  queue'[i] = Len(got') + i
        OBVIOUS
      <4>1. i + 1 \in 1..Len(queue) /\ queue'[i] = queue[i + 1]
        BY <1>2, <2>5
      <4>2. queue[i + 1] = Len(got) + (i + 1)
        BY <3>1, <4>1
      <4> QED BY <1>2, <2>6, <4>1, <4>2
    <3>4. Len(got') + Len(queue') = Len(got) + Len(queue)
      BY <1>2, <2>5, <2>6
    <3> QED BY <1>1, <3>1, <3>2, <3>3, <3>4 DEF ItemsInOrder
  <2>9. Waits'
    BY <1>2, <1>3, <2>2, <2>3 DEF Waits
  <2>10. Tells'
    BY <1>1, <1>2, <1>6, <2>2 DEF Tells, Closes
  <2> QED BY <1>4, <2>7, <2>8, <2>9, <2>10
<1>7. CASE ~error /\ queue = << >> /\ ~done
  <2>1. /\ calls' = Append(calls, "pending") /\ waiter' = Len(calls) + 1
        /\ UNCHANGED <<queue, got>>
    BY <1>1, <1>7 DEF Pull
  <2>2. /\ calls' \in Seq(Outcomes) /\ Len(calls') = Len(calls) + 1
        /\ \A i \in 1..Len(calls) : calls'[i] = calls[i]
        /\ calls'[Len(calls) + 1] = "pending"
    BY <2>1, Calls DEF TypeOK
  <2>3. TypeOK'
    BY <1>1, <1>2, <2>1, <2>2 DEF TypeOK
  <2>4. ItemsInOrder'
    BY <1>1, <2>1 DEF ItemsInOrder
  <2>5. Waits'
    BY <1>1, <1>2, <1>3, <1>7, <2>1, <2>2 DEF Waits
  <2>6. Tells'
    BY <1>1, <1>2, <1>7, <2>1, <2>2 DEF Tells, Closes
  <2> QED BY <1>4, <2>3, <2>4, <2>5, <2>6
<1>8. CASE error
  BY <1>1, <1>5, <1>8 DEF Pull
<1>9. CASE ~error /\ queue = << >> /\ done
  BY <1>1, <1>5, <1>9 DEF Pull
<1> QED BY <1>6, <1>7, <1>8, <1>9 DEF TypeOK

LEMMA Inductive == Spec => []IInv
<1>1. Init => IInv
  <2> SUFFICES ASSUME Init PROVE IInv
    OBVIOUS
  <2>1. TypeOK
    <3>1. /\ queue \in Seq(Nat) /\ got \in Seq(Nat) /\ calls \in Seq(Outcomes)
          /\ Len(calls) = 0
      BY EmptySeq DEF Init
    <3>2. waiter = 0 /\ pushed \in 0..MaxItems
      BY <3>1, BridgeAssumption DEF Init
    <3> QED BY <3>1, <3>2 DEF Init, TypeOK
  <2>2. ItemsInOrder
    BY DEF Init, ItemsInOrder
  <2> QED BY <2>1, <2>2 DEF IInv, Init, Waits, Closes, Tells
<1>2. IInv /\ [Next]_vars => IInv'
  <2> SUFFICES ASSUME IInv, [Next]_vars PROVE IInv'
    OBVIOUS
  <2>1. CASE UNCHANGED vars
    BY <2>1 DEF vars, IInv, TypeOK, ItemsInOrder, Waits, Closes, Tells
  <2> QED BY <2>1, NextItem, Ends, Pulls DEF Next
<1> QED BY <1>1, <1>2, PTL DEF Spec

----------------------------------------------------------------------------
(* What follows from it *)

\* Every state of the bridge is well-typed.
THEOREM TypeCorrect == Spec => []TypeOK
<1>1. IInv => TypeOK
  BY DEF IInv
<1> QED BY Inductive, <1>1, PTL

\* Nothing pushed while the stream is open is lost, repeated or reordered between the
\* callbacks and the consumer (signalr.ts:444-453, 479).
THEOREM NothingLost == Spec => []ItemsInOrder
<1>1. IInv => ItemsInOrder
  BY DEF IInv
<1> QED BY Inductive, <1>1, PTL

\* No next() call waits while there is something to answer it with: no wake-up of the
\* consumer is missed (signalr.ts:446-452, 457, 468, 479-481).
THEOREM NobodyStarves == Spec => []NoStarvedCall
<1>1. IInv => NoStarvedCall
  <2> SUFFICES ASSUME IInv, NEW i \in DOMAIN calls, calls[i] = "pending"
               PROVE  waiter = i /\ queue = << >> /\ ~done
    BY DEF NoStarvedCall
  <2>1. i \in 1..Len(calls) /\ Len(calls) \in Nat
    BY Lengths DEF IInv
  <2> QED BY <2>1 DEF IInv, Waits
<1> QED BY Inductive, <1>1, PTL

\* The end of a completed stream comes after its last item, and nothing comes after the
\* end or the error (signalr.ts:478-480).
THEOREM EndComesLast == Spec => []EndIsFinal
<1>1. IInv => EndIsFinal
  <2> SUFFICES ASSUME IInv PROVE EndIsFinal
    OBVIOUS
  <2>1. DOMAIN calls = 1..Len(calls)
    BY Lengths DEF IInv
  <2> QED BY <2>1 DEF IInv, Tells, EndIsFinal
<1> QED BY Inductive, <1>1, PTL

----------------------------------------------------------------------------
(* The bridge is an ordered stream *)

\* While no call waits, the last one has been told something.
LEMMA ToldWhenIdle ==
  ASSUME waiter = 0
  PROVE  Told = IF Len(calls) = 0 THEN "nothing" ELSE calls[Len(calls)]
  BY DEF Told

\* A push while the stream is open is a push, or a push and a read.
LEMMA PushImplements ==
  ASSUME IInv, OnNext
  PROVE  [Abstract!Next]_(Abstract!vars)
<1> USE DEF IInv
<1>1. Len(calls) \in Nat /\ Len(queue) \in Nat /\ Len(got) \in Nat /\ closing' = closing
  BY Lengths DEF OnNext
<1>2. CASE done
  <2>1. UNCHANGED <<queue, waiter, got, calls>>
    BY <1>2 DEF OnNext
  <2> QED BY <1>1, <2>1 DEF Abstract!vars, Told
<1>3. CASE ~done /\ waiter # 0
  <2>1. Settle("item") /\ got' = Append(got, pushed + 1) /\ queue' = queue
    BY <1>3 DEF OnNext
  <2>2. /\ waiter' = 0 /\ Len(calls') = Len(calls) /\ Len(calls) > 0
        /\ calls'[Len(calls)] = "item"
    <3>1. waiter = Len(calls)
      BY <1>3 DEF Waits
    <3>2. Len(calls) \in 1..Len(calls)
      BY <1>1, <1>3, <3>1
    <3> QED BY <1>3, <2>1, <3>2, Settles DEF Outcomes
  <2>3. Told' = "item"
    BY <1>1, <2>2 DEF Told
  <2>4. Len(got') = Len(got) + 1 /\ Len(queue) = 0 /\ Len(queue') = 0
    <3>1. queue = << >> /\ Len(got') = Len(got) + 1
      BY <1>3, <2>1, AppendProperties DEF Waits, TypeOK
    <3> QED BY <2>1, <3>1
  <2>5. closing = "open"
    BY <1>3 DEF Closes
  <2>6. Abstract!PushAndRead
    BY <1>1, <2>3, <2>4, <2>5 DEF Abstract!PushAndRead
  <2> QED BY <2>6 DEF Abstract!Next
<1>4. CASE ~done /\ waiter = 0
  <2>1. queue' = Append(queue, pushed + 1) /\ UNCHANGED <<waiter, got, calls>>
    BY <1>4 DEF OnNext
  <2>2. Len(queue') = Len(queue) + 1 /\ Told' = Told
    <3>1. pushed + 1 \in Nat /\ queue \in Seq(Nat)
      BY BridgeAssumption DEF TypeOK
    <3> QED BY <2>1, <3>1, AppendProperties DEF Told
  <2>3. closing = "open"
    BY <1>4 DEF Closes
  <2>4. Abstract!Push
    BY <1>1, <2>1, <2>2, <2>3 DEF Abstract!Push
  <2> QED BY <2>4 DEF Abstract!Next
<1> QED BY <1>2, <1>3, <1>4

\* A completion, an error and return() close the stream, and tell a waiting call so.
LEMMA EndImplements ==
  ASSUME IInv, OnComplete \/ OnError \/ CallReturn
  PROVE  [Abstract!Next]_(Abstract!vars)
<1> USE DEF IInv
<1>1. /\ Len(calls) \in Nat /\ Len(queue) \in Nat /\ Len(got) \in Nat
      /\ UNCHANGED <<queue, got>>
  BY Lengths DEF OnComplete, OnError, CallReturn
<1>2. PICK outcome \in {"end", "error"} :
        /\ Settle(outcome)
        /\ outcome = "error" <=> OnError
  BY DEF OnComplete, OnError, CallReturn, Settle
<1>3. CASE done
  <2>1. waiter = 0 /\ closing' = closing
    BY <1>3 DEF Waits, OnComplete, OnError, CallReturn
  <2>2. UNCHANGED <<waiter, calls>>
    BY <1>2, <2>1 DEF Settle
  <2> QED BY <1>1, <2>1, <2>2 DEF Abstract!vars, Told
<1>4. CASE ~done
  <2>1. PICK how \in {"completed", "failed", "returned"} :
          /\ closing' = how
          /\ how = "failed" <=> OnError
    BY <1>4 DEF OnComplete, OnError, CallReturn
  <2>2. closing = "open"
    BY <1>4 DEF Closes
  <2>3. CASE waiter = 0
    <3>1. UNCHANGED <<waiter, calls>>
      BY <1>2, <2>3 DEF Settle
    <3>2. Abstract!Close(how)
      BY <1>1, <2>1, <2>2, <3>1 DEF Abstract!Close, Told
    <3> QED BY <3>2 DEF Abstract!Next
  <2>4. CASE waiter # 0
    <3>1. waiter = Len(calls) /\ queue = << >>
      BY <2>4 DEF Waits
    <3>2. /\ waiter' = 0 /\ Len(calls') = Len(calls) /\ Len(calls) > 0
          /\ calls'[Len(calls)] = outcome
      <4>1. Len(calls) \in 1..Len(calls)
        BY <1>1, <2>4, <3>1
      <4> QED BY <1>2, <2>4, <4>1, Settles DEF Outcomes
    <3>3. Told' = IF how = "failed" THEN "error" ELSE "end"
      BY <1>1, <1>2, <2>1, <3>2 DEF Told
    <3>4. Len(got) = Len(got) + Len(queue)
      BY <1>1, <3>1
    <3>5. Abstract!CloseAndTell(how)
      BY <1>1, <2>1, <2>2, <3>3, <3>4 DEF Abstract!CloseAndTell
    <3> QED BY <3>5 DEF Abstract!Next
  <2> QED BY <2>3, <2>4
<1> QED BY <1>3, <1>4

\* next() reads an item, hears of the end or the error, or waits, which is a stutter.
LEMMA PullImplements ==
  ASSUME IInv, CallNext
  PROVE  [Abstract!Next]_(Abstract!vars)
<1> USE DEF IInv
<1>1. UNCHANGED <<error, done, closing>> /\ Pull
  BY DEF CallNext
<1>2. /\ Len(calls) \in Nat /\ Len(queue) \in Nat /\ Len(got) \in Nat
      /\ DOMAIN calls = 1..Len(calls)
  BY Lengths
<1>3. waiter = 0
  <2>1. \A i \in 1..Len(calls) : calls[i] # "pending"
    BY <1>2 DEF CallNext
  <2>2. waiter \in 0..Len(calls) /\ (waiter # 0 => calls[waiter] = "pending")
    BY Lengths DEF Waits
  <2> QED BY <1>2, <2>1, <2>2
<1>4. ASSUME NEW outcome \in Outcomes, Answered(outcome)
      PROVE  Told' = outcome
  <2>1. /\ waiter' = 0 /\ Len(calls') = Len(calls) + 1
        /\ calls'[Len(calls) + 1] = outcome
    BY <1>3, <1>4, Calls DEF Answered, TypeOK
  <2> QED BY <1>2, <2>1 DEF Told
<1>5. CASE error
  <2>1. Answered("error") /\ UNCHANGED <<queue, got>> /\ closing = "failed"
    BY <1>1, <1>5 DEF Pull, Closes
  <2>2. Abstract!TellError
    BY <1>1, <1>4, <2>1 DEF Abstract!TellError, Outcomes
  <2> QED BY <2>2 DEF Abstract!Next
<1>6. CASE ~error /\ queue # << >>
  <2>1. Answered("item") /\ got' = Append(got, Head(queue)) /\ queue' = Tail(queue)
    BY <1>1, <1>6 DEF Pull
  <2>2. queue \in Seq(Nat) /\ got \in Seq(Nat) /\ closing # "failed"
    BY <1>6 DEF TypeOK, Closes
  <2>3. Len(queue) > 0 /\ Len(queue') = Len(queue) - 1 /\ Head(queue) \in Nat
    BY <1>2, <1>6, <2>1, <2>2, HeadTailProperties, EmptySeq
  <2>4. Len(got') = Len(got) + 1
    BY <2>1, <2>2, <2>3, AppendProperties
  <2>5. Len(got') + Len(queue') = Len(got) + Len(queue) /\ Len(got) < Len(got) + Len(queue)
    BY <1>2, <2>3, <2>4
  <2>6. Abstract!Read
    BY <1>1, <1>4, <2>1, <2>2, <2>4, <2>5 DEF Abstract!Read, Outcomes
  <2> QED BY <2>6 DEF Abstract!Next
<1>7. CASE ~error /\ queue = << >> /\ done
  <2>1. Answered("end") /\ UNCHANGED <<queue, got>>
    BY <1>1, <1>7 DEF Pull
  <2>2. closing \in {"completed", "returned"} /\ Len(got) = Len(got) + Len(queue)
    BY <1>2, <1>7 DEF Closes, TypeOK
  <2>3. Abstract!TellEnd
    BY <1>1, <1>4, <2>1, <2>2 DEF Abstract!TellEnd, Outcomes
  <2> QED BY <2>3 DEF Abstract!Next
<1>8. CASE ~error /\ queue = << >> /\ ~done
  <2>1. /\ calls' = Append(calls, "pending") /\ waiter' = Len(calls) + 1
        /\ UNCHANGED <<queue, got>>
    BY <1>1, <1>8 DEF Pull
  <2>2. /\ Len(calls') = Len(calls) + 1
        /\ \A i \in 1..Len(calls) : calls'[i] = calls[i]
    BY <2>1, Calls DEF TypeOK, Outcomes
  <2>3. Told' = Told
    <3>1. Told' = IF Len(calls) = 0 THEN "nothing" ELSE calls'[Len(calls)]
      <4>1. waiter' # 0 /\ Len(calls') - 1 = Len(calls)
        BY <1>2, <2>1, <2>2
      <4> HIDE DEF IInv
      <4>2. Told' = IF Len(calls') - 1 = 0 THEN "nothing" ELSE calls'[Len(calls') - 1]
        BY <4>1, Zenon DEF Told
      <4> QED BY <4>1, <4>2
    <3>2. Len(calls) # 0 => calls'[Len(calls)] = calls[Len(calls)]
      BY <1>2, <2>2
    <3> QED BY <1>3, <3>1, <3>2, ToldWhenIdle
  <2> QED BY <1>1, <2>1, <2>3 DEF Abstract!vars
<1> QED BY <1>5, <1>6, <1>7, <1>8 DEF TypeOK

\* The bridge implements the ordered stream: every callback and every call is one of
\* its steps, or none (signalr.ts:430-433).
THEOREM Refinement == Spec => ImplementsOrderedStream
<1>1. Init => Abstract!Init
  <2> SUFFICES ASSUME Init PROVE Abstract!Init
    OBVIOUS
  <2>1. Len(calls) = 0 /\ Len(queue) = 0 /\ Len(got) = 0 /\ waiter = 0 /\ closing = "open"
    BY DEF Init
  <2> QED BY <2>1 DEF Abstract!Init, Told
<1>2. IInv /\ [Next]_vars => [Abstract!Next]_(Abstract!vars)
  <2>1. ASSUME UNCHANGED vars
        PROVE  UNCHANGED Abstract!vars
    BY <2>1 DEF vars, Abstract!vars, Told
  <2> QED BY <2>1, PushImplements, EndImplements, PullImplements DEF Next
<1> QED BY <1>1, <1>2, Inductive, PTL DEF Spec, ImplementsOrderedStream, Abstract!Spec
=============================================================================
