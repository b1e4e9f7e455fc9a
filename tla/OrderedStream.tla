--------------------------- MODULE OrderedStream ---------------------------
(***************************************************************************)
(* What a pull-based view of a pushed stream promises its consumer: the    *)
(* items the source pushed while the stream was open, each once and in     *)
(* order; the end only after the last of them, unless the consumer closed  *)
(* the stream itself; the error as soon as there is one.                   *)
(*                                                                         *)
(* StreamBridge implements this specification.                             *)
(***************************************************************************)
EXTENDS Naturals

VARIABLES
  pushed,  \* how many items the source has pushed
  read,    \* how many of them the consumer has got, in order
  state,   \* "open", or how the stream was closed
  told     \* what the consumer was last told

vars == <<pushed, read, state, told>>

Init == pushed = 0 /\ read = 0 /\ state = "open" /\ told = "nothing"

Push == state = "open" /\ pushed' = pushed + 1 /\ UNCHANGED <<read, state, told>>

Close(how) == state = "open" /\ state' = how /\ UNCHANGED <<pushed, read, told>>

Read == /\ read < pushed /\ state # "failed"
        /\ read' = read + 1 /\ told' = "item" /\ UNCHANGED <<pushed, state>>

TellEnd == /\ \/ state = "completed" /\ read = pushed
              \/ state = "returned"
           /\ told' = "end" /\ UNCHANGED <<pushed, read, state>>

TellError == state = "failed" /\ told' = "error" /\ UNCHANGED <<pushed, read, state>>

\* A consumer that waits gets the item, the end or the error as it comes.
PushAndRead == /\ state = "open" /\ read = pushed
               /\ pushed' = pushed + 1 /\ read' = read + 1 /\ told' = "item"
               /\ UNCHANGED state

CloseAndTell(how) ==
  /\ state = "open" /\ read = pushed
  /\ state' = how /\ told' = (IF how = "failed" THEN "error" ELSE "end")
  /\ UNCHANGED <<pushed, read>>

Next == \/ Push \/ Read \/ TellEnd \/ TellError \/ PushAndRead
        \/ \E how \in {"completed", "failed", "returned"} : Close(how) \/ CloseAndTell(how)

Spec == Init /\ [][Next]_vars
=============================================================================
