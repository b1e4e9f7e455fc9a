-------------------------- MODULE MCTokenProvider --------------------------
(* A small instance of TokenProvider for TLC. *)
EXTENDS TokenProvider

\* Malformed, as short as the skew, and long-lived answers.
MCLifetimes == {0, 1, 3}
=============================================================================
