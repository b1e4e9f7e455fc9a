---------------------------- MODULE StreamBridge ----------------------------
(***************************************************************************)
(* toAsyncIterable() of the SignalR clients (src/src/signalr.ts; the MT5   *)
(* client has the same code): one iterator over one stream.  SignalR       *)
(* pushes items, a completion or an error through callbacks, the consumer  *)
(* pulls with next() and gives up with return().  No step awaits, so each  *)
(* callback and each call is one action.                                   *)
(*                                                                         *)
(* SignalR is taken to make no callback before subscribe() has returned,   *)
(* so that sub is set, and dispose() not to throw.                         *)
(*                                                                         *)
(* Items are numbered in the order SignalR pushes them.                    *)
(***************************************************************************)
EXTENDS Naturals, Sequences

CONSTANTS
  MaxItems,   \* bound: items the source pushes
  MaxCalls    \* bound: next() calls of the consumer

ASSUME BridgeAssumption == MaxItems \in Nat /\ MaxCalls \in Nat

VARIABLES
  queue,     \* items pushed and not yet pulled
  waiter,    \* the next() call whose resolve and reject the field holds, 0 for null
  error,     \* the stream has failed
  done,      \* no callback has an effect any more
  disposed,  \* dispose() was called, which cancels the server-side stream
  pushed,    \* items the source has pushed
  got,       \* history: the items handed to the consumer, in order
  closing,   \* history: what set done: "open" if nothing has
  calls      \* how each next() call stands, oldest first

vars == <<queue, waiter, error, done, disposed, pushed, got, closing, calls>>

----------------------------------------------------------------------------
Outcomes == {"pending", "item", "end", "error"}

\* Well-typed states; the field never holds the resolve and reject of a promise
\* that has settled, on which an item would be lost.
TypeOK ==
  /\ queue \in Seq(Nat)
  /\ waiter \in {0} \cup {i \in DOMAIN calls : calls[i] = "pending"}
  /\ error \in BOOLEAN /\ done \in BOOLEAN /\ disposed \in BOOLEAN
  /\ pushed \in 0..MaxItems
  /\ got \in Seq(Nat)
  /\ closing \in {"open", "completed", "failed", "returned"}
  /\ calls \in Seq(Outcomes)

Init ==
  /\ queue = << >> /\ waiter = 0
  /\ error = FALSE /\ done = FALSE /\ disposed = FALSE
  /\ pushed = 0 /\ got = << >> /\ closing = "open" /\ calls = << >>

\* Mutant of Settle: the field is not cleared.
SettleKeepsWaiter(outcome) ==
  /\ waiter' = waiter
  /\ calls' = IF waiter = 0 THEN calls ELSE [calls EXCEPT ![waiter] = outcome]

\* Settles the promise of the waiting next() call, if there is one.
Settle(outcome) ==
  /\ waiter' = 0
  /\ calls' = IF waiter = 0 THEN calls ELSE [calls EXCEPT ![waiter] = outcome]

----------------------------------------------------------------------------
(* The callbacks SignalR invokes.  It may still invoke them after dispose(), *)
(* which is best effort.                                                     *)

\* Mutant of OnNext: an item is queued although a call waits.
OnNextAlwaysQueues ==
  /\ pushed < MaxItems
  /\ pushed' = pushed + 1
  /\ queue' = IF done THEN queue ELSE Append(queue, pushed + 1)
  /\ UNCHANGED <<waiter, error, done, disposed, got, closing, calls>>

\* Mutant of OnNext: items are taken after the end.
OnNextAfterDone ==
  /\ pushed < MaxItems
  /\ pushed' = pushed + 1
  /\ IF waiter # 0
     THEN Settle("item") /\ got' = Append(got, pushed + 1) /\ UNCHANGED queue
     ELSE queue' = Append(queue, pushed + 1) /\ UNCHANGED <<got, waiter, calls>>
  /\ UNCHANGED <<error, done, disposed, closing>>

\* next: hand the item to the waiting call, or queue it.
OnNext ==
  /\ pushed < MaxItems
  /\ pushed' = pushed + 1
  /\ CASE done -> UNCHANGED <<queue, waiter, got, calls>>
       [] ~done /\ waiter # 0 -> /\ Settle("item")
                                 /\ got' = Append(got, pushed + 1)
                                 /\ UNCHANGED queue
       [] ~done /\ waiter = 0 -> /\ queue' = Append(queue, pushed + 1)
                                 /\ UNCHANGED <<waiter, got, calls>>
  /\ UNCHANGED <<error, done, disposed, closing>>

\* Mutant of OnComplete: the waiting call is forgotten.
OnCompleteForgetsWaiter ==
  /\ ~done
  /\ done' = TRUE /\ closing' = "completed"
  /\ UNCHANGED <<queue, waiter, error, disposed, pushed, got, calls>>

\* complete.
OnComplete ==
  /\ ~done
  /\ done' = TRUE /\ closing' = "completed"
  /\ Settle("end")
  /\ UNCHANGED <<queue, error, disposed, pushed, got>>

\* error.
OnError ==
  /\ ~done
  /\ error' = TRUE /\ done' = TRUE /\ disposed' = TRUE /\ closing' = "failed"
  /\ Settle("error")
  /\ UNCHANGED <<queue, pushed, got>>

----------------------------------------------------------------------------
(* The consumer *)

Answered(outcome) == calls' = Append(calls, outcome) /\ UNCHANGED waiter

\* Mutant of Pull: the end is looked at before the queue.
PullEndFirst ==
  CASE error -> Answered("error") /\ UNCHANGED <<queue, got>>
    [] ~error /\ done -> Answered("end") /\ UNCHANGED <<queue, got>>
    [] ~error /\ ~done /\ queue # << >> ->
         Answered("item") /\ got' = Append(got, Head(queue)) /\ queue' = Tail(queue)
    [] OTHER -> /\ calls' = Append(calls, "pending") /\ waiter' = Len(calls) + 1
                /\ UNCHANGED <<queue, got>>

\* Mutant of Pull: the newest item is taken first.
PullNewest ==
  CASE error -> Answered("error") /\ UNCHANGED <<queue, got>>
    [] ~error /\ queue # << >> ->
         /\ Answered("item") /\ got' = Append(got, queue[Len(queue)])
         /\ queue' = SubSeq(queue, 1, Len(queue) - 1)
    [] ~error /\ queue = << >> /\ done -> Answered("end") /\ UNCHANGED <<queue, got>>
    [] OTHER -> /\ calls' = Append(calls, "pending") /\ waiter' = Len(calls) + 1
                /\ UNCHANGED <<queue, got>>

\* The body of next(): the error, else the oldest item, else the end, else wait.
Pull ==
  CASE error -> Answered("error") /\ UNCHANGED <<queue, got>>
    [] ~error /\ queue # << >> ->
         Answered("item") /\ got' = Append(got, Head(queue)) /\ queue' = Tail(queue)
    [] ~error /\ queue = << >> /\ done -> Answered("end") /\ UNCHANGED <<queue, got>>
    [] OTHER -> /\ calls' = Append(calls, "pending") /\ waiter' = Len(calls) + 1
                /\ UNCHANGED <<queue, got>>

\* next(), called as `for await` does: not before the last call has settled.
CallNext ==
  /\ Len(calls) < MaxCalls
  /\ \A i \in DOMAIN calls : calls[i] # "pending"
  /\ Pull
  /\ UNCHANGED <<error, done, disposed, pushed, closing>>

\* return(): `break` out of the loop, or a consumer that gives up waiting.
CallReturn ==
  /\ disposed' = TRUE
  /\ done' = TRUE
  /\ closing' = IF done THEN closing ELSE "returned"
  /\ Settle("end")
  /\ UNCHANGED <<queue, error, pushed, got>>

Next == OnNext \/ OnComplete \/ OnError \/ CallNext \/ CallReturn

Spec == Init /\ [][Next]_vars

----------------------------------------------------------------------------
(* Properties *)

\* Every item pushed while the stream is open reaches the consumer once and in
\* order: what it has got and what is queued are the items pushed so far, with
\* no gap between them (signalr.ts:444-453, 479).
ItemsInOrder ==
  /\ \A i \in 1..Len(got) : got[i] = i
  /\ \A i \in 1..Len(queue) : queue[i] = Len(got) + i
  /\ Len(got) + Len(queue) <= pushed
  /\ ~done => Len(got) + Len(queue) = pushed

\* A next() call waits only while there is nothing to answer it with: no item is
\* queued and the stream is open (signalr.ts:446-452, 457, 468, 479-481).
NoStarvedCall ==
  \A i \in DOMAIN calls : calls[i] = "pending" => waiter = i /\ queue = << >> /\ ~done

\* The consumer sees the end of a completed stream only after its last item, and
\* after the end or an error nothing else, unless it closed the stream itself
\* (signalr.ts:478-480).
EndIsFinal ==
  closing # "returned" =>
    /\ closing = "completed" /\ (\E i \in DOMAIN calls : calls[i] = "end") => queue = << >>
    /\ \A i, j \in DOMAIN calls : i < j /\ calls[i] \in {"end", "error"} => calls[j] = calls[i]

\* What the consumer was told last.
Told == LET settled == IF waiter = 0 THEN Len(calls) ELSE Len(calls) - 1
        IN  IF settled = 0 THEN "nothing" ELSE calls[settled]

Abstract == INSTANCE OrderedStream WITH pushed <- Len(got) + Len(queue), read <- Len(got),
                                        state <- closing, told <- Told

\* The bridge is an ordered stream: nothing lost, repeated or reordered, the end
\* last (signalr.ts:430-433).
ImplementsOrderedStream == Abstract!Spec
=============================================================================
