------------------------------- MODULE Facade -------------------------------
(***************************************************************************)
(* From client.mt4.f(...) to the operation the server runs: the bound      *)
(* namespaces of src/src/client.ts, the URL a generated function builds,   *)
(* and the two places that read the operation out of the URL again, the    *)
(* SDK for its timeout (src/src/request-timeout.ts) and the API server.    *)
(*                                                                         *)
(* Arguments are tokens; a path is the sequence of its segments.  The      *)
(* encoding of a parameter keeps different values apart and leaves "",     *)
(* "." and ".." as they are.  Letters are taken in one case.               *)
(***************************************************************************)
EXTENDS MT4Endpoints, MT5Endpoints, OperationTimeouts, SequencesExt

\* An empty segment of a path.
Empty == ""

Endpoints == UNION (ToSet(MT4Modules) \cup ToSet(MT5Modules))

----------------------------------------------------------------------------
(* What is assumed of the generated modules and of the table; TLC evaluates   *)
(* it on the whole catalogue.                                                 *)

\* A name stands for one function of its namespace, with or without the suffix
\* of the platform, and a module is bound under the platform it was made for.
ASSUME NamesAssumption ==
  /\ \A e \in UNION ToSet(MT4Modules) : e.ns = "MT4"
  /\ \A e \in UNION ToSet(MT5Modules) : e.ns = "MT5"
  /\ \A e \in Endpoints : e.suffix \in {"", e.ns}
  /\ \A e, o \in Endpoints : e.ns = o.ns /\ e.name = o.name => e = o

\* An operation is a proper segment of a path, and takes two parameters at most.
ASSUME EndpointsAssumption ==
  \A e \in Endpoints :
    /\ e.operation \notin {Empty, ".", "..", Parameter}
    /\ e.parameters \in 0 .. 2 /\ e.others \in Nat /\ e.safe \in BOOLEAN

\* Method and path tell the operations apart.  Where parameters left out lead
\* to another operation, that one is safe.
ASSUME RoutesAssumption ==
  \A e, o \in Endpoints :
    e.method = o.method /\ e.ns = o.ns /\ e.operation = o.operation =>
      /\ e.parameters = o.parameters => e = o
      /\ e.parameters < o.parameters => e.safe

\* The table was generated from the description the endpoints were made from.
ASSUME TimeoutsAssumption ==
  OPERATION_TIMEOUTS =
    {[method |-> e.method, seconds |-> e.seconds,
      template |-> <<"api", "v2", e.ns, Parameter, e.operation>>
                   \o [i \in 1 .. e.parameters |-> Parameter]] : e \in Endpoints}

----------------------------------------------------------------------------
(* bind() and the spread of the bound modules *)

\* A name without the platform's suffix.
Key(e, platformSuffix) ==
  <<e.name, IF e.suffix = platformSuffix THEN "" ELSE e.suffix>>

Bind(module, platformSuffix) ==
  [k \in {Key(e, platformSuffix) : e \in module} |->
     CHOOSE e \in module : Key(e, platformSuffix) = k]

\* Object spread: of two modules with the same key the later one counts.
Namespace(modules, platformSuffix) ==
  LET bound == [i \in DOMAIN modules |-> Bind(modules[i], platformSuffix)]
      last(k) == CHOOSE i \in DOMAIN modules :
                   /\ k \in DOMAIN bound[i]
                   /\ \A j \in DOMAIN modules : k \in DOMAIN bound[j] => j <= i
  IN [k \in UNION {DOMAIN bound[i] : i \in DOMAIN modules} |-> bound[last(k)][k]]

mt4 == Namespace(MT4Modules, "MT4")
mt5 == Namespace(MT5Modules, "MT5")

Client(ns) == IF ns = "MT4" THEN mt4 ELSE mt5

----------------------------------------------------------------------------
(* The wrapper around a function *)

Absent == "undefined"

\* { ...options, [requestContext]: ctx }: options that name an Idempotency-Key
\* still do.
WithRequestContext(options) ==
  IF options = "key" THEN "key, context" ELSE "context"

\* Mutant of BindArguments: the context goes into the last argument passed.
BindLastArgument(args, n) ==
  [i \in DOMAIN args \cup 1 .. n |->
     LET given == IF i <= Len(args) THEN args[i] ELSE Absent
     IN IF i = Len(args) THEN WithRequestContext(given) ELSE given]

\* Pads the arguments up to the options, and puts the context there; arguments
\* after the options stay.
BindArguments(args, n) ==
  [i \in DOMAIN args \cup 1 .. n |->
     LET given == IF i <= Len(args) THEN args[i] ELSE Absent
     IN IF i = n THEN WithRequestContext(given) ELSE given]

\* The request a generated function makes of its arguments.
RequestOf(e, args) ==
  [method |-> e.method,
   path |-> <<"api", "v2", e.ns, args[1], e.operation>>
            \o SubSeq(args, 2, 1 + e.parameters),
   context |-> args[Arity(e)] \in {"context", "key, context"},
   key |-> args[Arity(e)] = "key, context"]

\* client.mt4.<key>(...args), client.mt5.<key>(...args)
Invocation(ns, key, args) ==
  LET e == Client(ns)[key] IN RequestOf(e, BindArguments(args, Arity(e)))

----------------------------------------------------------------------------
(* Readers of the path *)

\* The elements of s at some of its positions, in their order.
At(s, positions) ==
  [n \in 1 .. Cardinality(positions) |->
     s[CHOOSE i \in positions : Cardinality({j \in positions : j <= i}) = n]]

Dots == {".", ".."}

\* A name stays in the path unless a later ".." takes it along: one that the
\* names in between do not use up.
Kept(path) ==
  {i \in DOMAIN path :
     /\ path[i] \notin Dots
     /\ \A k \in i + 1 .. Len(path) :
          Cardinality({j \in i + 1 .. k : path[j] = ".."})
            <= Cardinality({j \in i + 1 .. k : path[j] \notin Dots})}

\* new URL(url, apiBaseUrl): "." is dropped and ".." takes its predecessor
\* along; at the end of the path either leaves a slash behind.
Resolved(path) ==
  IF Last(path) \in Dots THEN Append(At(path, Kept(path)), Empty) ELSE At(path, Kept(path))

\* split('/').filter(Boolean)
Segments(path) == At(path, {i \in DOMAIN path : path[i] # Empty})

\* Mutant of Matches: a {parameter} segment is compared like any other.
MatchesLiterally(template, segments) == template = segments

Matches(template, segments) ==
  /\ Len(template) = Len(segments)
  /\ \A i \in DOMAIN template : template[i] \in {Parameter, segments[i]}

Literals(row) == Cardinality({i \in DOMAIN row.template : row.template[i] # Parameter})

\* operationDefaultTimeout(), 0 for undefined.  Rows as literal as each other
\* differ in a segment and cannot both match.
OperationDefaultTimeout(method, pathname) ==
  LET candidates == {r \in OPERATION_TIMEOUTS :
                       r.method = method /\ Matches(r.template, Segments(pathname))}
  IN IF candidates = {} THEN 0
     ELSE (CHOOSE r \in candidates :
             \A o \in candidates : Literals(r) >= Literals(o)).seconds

\* The server's routing: a slash at the end does not count, an empty segment
\* elsewhere belongs to no operation.
Served(method, pathname) ==
  LET segments == IF Last(pathname) = Empty THEN Front(pathname) ELSE pathname
  IN {e \in Endpoints :
        /\ e.method = method
        /\ Len(segments) = 5 + e.parameters
        /\ SubSeq(segments, 1, 3) = <<"api", "v2", e.ns>>
        /\ segments[5] = e.operation
        /\ Empty \notin ToSet(segments)}

\* The parameters the server reads, the trade platform first.
ServedParameters(pathname) ==
  LET segments == Segments(pathname) IN <<segments[4]>> \o SubSeq(segments, 6, Len(segments))
=============================================================================
