------------------------------- MODULE Client -------------------------------
(***************************************************************************)
(* A call of any bound function with any arguments, as far as they matter  *)
(* for what is requested, and the recovery of the request: Facade and      *)
(* Recovery composed.  The invocation is forgotten once its request is     *)
(* made: all requests of a job are the same.                               *)
(***************************************************************************)
EXTENDS Facade, Recovery

VARIABLE invocation   \* the call about to be made, NoInvocation for none

clientVars == <<vars, invocation>>

NoInvocation == [endpoint |-> 0]

\* One value per position, and at most one in its place that a path cannot
\* carry.
Values == <<"platform", "first", "second">>
OddValues == {Empty} \cup Dots

\* A value is not read as an operation.
ASSUME ValuesAssumption == \A e \in Endpoints : e.operation \notin ToSet(Values)

Parameters(e) ==
  LET usual == SubSeq(Values, 1, 1 + e.parameters)
  IN {usual} \cup {[usual EXCEPT ![i] = v] : i \in DOMAIN usual, v \in OddValues}

\* No more than the parameters; the other arguments; options as well; one
\* argument too many.
Rests(e) ==
  LET others == [i \in 1 .. e.others |-> "data"]
  IN {<<>>, others, Append(others, "key"), Append(Append(others, "key"), "data")}

Invocations ==
  UNION {[endpoint : {e}, parameters : Parameters(e), rest : Rests(e)] : e \in Endpoints}

\* What each of them requests: the function is found without its platform's
\* suffix.
Request ==
  [i \in Invocations |->
     Invocation(i.endpoint.ns, <<i.endpoint.name, "">>, i.parameters \o i.rest)]

\* Where the request ends.
Target == [i \in Invocations |-> Served(Request[i].method, Resolved(Request[i].path))]

Usual(i) == \A k \in DOMAIN i.parameters : i.parameters[k] \notin OddValues

----------------------------------------------------------------------------
\* isIdempotent
SafeMethods == {"GET", "HEAD", "OPTIONS", "PUT", "DELETE"}

Job ==
  [i \in Invocations |->
     [resend |-> Request[i].method \in SafeMethods,
      exists |-> Target[i] # {},
      safe |-> \A e \in Target[i] : e.safe,
      key |-> Request[i].key]]

\* No change is called with a method that the SDK resends.
ASSUME MethodsAssumption == \A e \in Endpoints : e.method \in SafeMethods => e.safe

ClientInit == Init /\ invocation = NoInvocation

Invoke ==
  /\ pc = "idle" /\ invocation = NoInvocation
  /\ invocation' \in Invocations
  /\ UNCHANGED vars

\* customFetch() throws without a context.
Issue ==
  /\ invocation # NoInvocation
  /\ Request[invocation].context
  /\ Call(Job[invocation])
  /\ invocation' = NoInvocation

ClientNext ==
  \/ Invoke
  \/ Issue
  \/ (ClientStep \/ ServerStep) /\ UNCHANGED invocation

\* The deadline of a try and the pause between two tries are timers.
ClientSpec ==
  /\ ClientInit /\ [][ClientNext]_clientVars
  /\ WF_clientVars(Abort /\ UNCHANGED invocation)
  /\ WF_clientVars(Repeat /\ UNCHANGED invocation)

----------------------------------------------------------------------------
(* Properties *)

\* A bound function reaches the operation it is named after, with the caller's
\* parameters and options (client.ts:224-225, 256-261).  With an empty or dotted
\* parameter the request may end nowhere or at a read, but not at a change it was
\* not meant for.
RightOperation ==
  invocation # NoInvocation =>
    LET request == Request[invocation] IN
    /\ request.context
    /\ request.key <=> "key" \in ToSet(invocation.rest)
    /\ IF Usual(invocation)
       THEN /\ Target[invocation] = {invocation.endpoint}
            /\ ServedParameters(Resolved(request.path)) = invocation.parameters
       ELSE \A e \in Target[invocation] : e.safe

\* "Every generated method, the MT4 x86 sidecar ones included, has a server
\* timeout" (README.md:231), and the deadline is planned for the timeout of the
\* operation that the server runs (request-timeout.ts:70-73), which the table
\* finds by path and the server by its routes.
DeadlineKnowsOperation ==
  invocation # NoInvocation =>
    LET request == Request[invocation] IN
    \A e \in Target[invocation] :
      OperationDefaultTimeout(request.method, Resolved(request.path)) = e.seconds

\* Every call ends, whatever the network and the server do (deadline.ts:1-5).
EveryCallEnds == pc = "waiting" ~> pc \in {"returned", "thrown"}
=============================================================================
