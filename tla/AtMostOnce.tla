----------------------------- MODULE AtMostOnce -----------------------------
(***************************************************************************)
(* What "one key per logical operation, reused on every repeat" promises   *)
(* (README.md, Safe recovery): a change takes effect at most once, and     *)
(* what the caller is left with is the truth about it, now and later.      *)
(***************************************************************************)
EXTENDS Naturals

VARIABLES
  effects,   \* how often the change took effect
  verdict    \* what the caller knows: "open", "done", "refused", "unknown"

vars == <<effects, verdict>>

Init == effects = 0 /\ verdict = "open"

\* The change takes effect, perhaps long after the caller has given up, but
\* not after the caller has been told that nothing was executed.
Apply ==
  /\ effects = 0 /\ verdict # "refused"
  /\ effects' = 1
  /\ UNCHANGED verdict

Done ==
  /\ verdict = "open" /\ effects = 1
  /\ verdict' = "done"
  /\ UNCHANGED effects

Refuse ==
  /\ verdict = "open" /\ effects = 0
  /\ verdict' = "refused"
  /\ UNCHANGED effects

GiveUp ==
  /\ verdict = "open"
  /\ verdict' = "unknown"
  /\ UNCHANGED effects

Next == Apply \/ Done \/ Refuse \/ GiveUp

Spec == Init /\ [][Next]_vars
=============================================================================
