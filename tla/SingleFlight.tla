---------------------------- MODULE SingleFlight ----------------------------
(***************************************************************************)
(* What a shared, single-flight token refresh promises its callers,        *)
(* whatever it takes to run one: at most one flight is in the air; a       *)
(* caller is served with the token of the last successful flight, unless   *)
(* it insists on a new one, or boards the flight in the air, or starts a   *)
(* flight; everybody on board learns how the flight ended; a caller that   *)
(* leaves disturbs neither the flight nor the others.                      *)
(*                                                                         *)
(* A token is named by the flight that brought it.  TokenProvider          *)
(* implements this specification; RequestPipeline is built on it.          *)
(***************************************************************************)
EXTENDS Naturals, Sequences

CONSTANT Callers

VARIABLES
  flight,  \* the flight in the air, 0 for none
  landed,  \* landed[f]: "pending" while f flies, then "ok" or "failed"
  seat     \* how each caller's last call stands, and on which flight

vars == <<flight, landed, seat>>

Seats == [st    : {"idle", "waiting", "got", "failed", "timedout", "aborted"},
          on    : Nat,
          force : BOOLEAN]

TypeOK ==
  /\ flight \in Nat
  /\ landed \in Seq({"pending", "ok", "failed"})
  /\ seat \in [Callers -> Seats]

Init ==
  /\ flight = 0
  /\ landed = << >>
  /\ seat = [c \in Callers |-> [st |-> "idle", on |-> 0, force |-> FALSE]]

\* f is the last flight that brought a token.
LastOk(f) == landed[f] = "ok" /\ \A g \in DOMAIN landed : g > f => landed[g] # "ok"

\* The caller is answered with the token of the last successful flight.
Serve(c, force) ==
  /\ seat[c].st # "waiting"
  /\ ~force
  /\ \E f \in DOMAIN landed :
       /\ LastOk(f)
       /\ seat' = [seat EXCEPT ![c] = [st |-> "got", on |-> f, force |-> force]]
  /\ UNCHANGED <<flight, landed>>

\* The caller boards the flight in the air; if there is none, it starts one.
\* It may have given up before it boards.
Board(c, force, aborted) ==
  /\ seat[c].st # "waiting"
  /\ IF flight = 0
     THEN flight' = Len(landed) + 1 /\ landed' = Append(landed, "pending")
     ELSE UNCHANGED <<flight, landed>>
  /\ seat' = [seat EXCEPT ![c] = [st |-> IF aborted THEN "aborted" ELSE "waiting",
                                  on |-> flight', force |-> force]]

GetToken(c, force, aborted) == Serve(c, force) \/ Board(c, force, aborted)

Leave(c) ==
  /\ seat[c].st = "waiting"
  /\ seat' = [seat EXCEPT ![c].st = "aborted"]
  /\ UNCHANGED <<flight, landed>>

\* The flight ends, and everybody still on board learns how: with a token, an
\* error, or a timeout of its own.
Land(how) ==
  /\ flight # 0
  /\ landed' = [landed EXCEPT ![flight] = IF how = "got" THEN "ok" ELSE "failed"]
  /\ seat' = [c \in Callers |-> IF seat[c].st = "waiting"
                                THEN [seat[c] EXCEPT !.st = how] ELSE seat[c]]
  /\ flight' = 0

Landing == \E how \in {"got", "failed", "timedout"} : Land(how)

Next ==
  \/ \E c \in Callers : \/ \E force, aborted \in BOOLEAN : GetToken(c, force, aborted)
                        \/ Leave(c)
  \/ Landing

Spec == Init /\ [][Next]_vars
=============================================================================
