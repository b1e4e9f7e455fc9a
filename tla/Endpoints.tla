----------------------------- MODULE Endpoints -----------------------------
(***************************************************************************)
(* What orval generates for an operation of the API: an async function     *)
(* that builds the operation's URL from its first arguments and calls      *)
(* customFetch() with the fixed method; its JSDoc states the server's      *)
(* timeout and whether anything can have changed when it expires.          *)
(*                                                                         *)
(* A row is <<name, operation, parameters, others>>: the function's name   *)
(* without a platform suffix, the operation's segment of the path, the     *)
(* number of path parameters behind the trade platform, and the number of  *)
(* further arguments (query parameters, body) before the options.          *)
(***************************************************************************)
EXTENDS Naturals

\* The functions of the rows of one kind.
Generated(ns, suffix, method, seconds, safe, rows) ==
  {[name |-> r[1], suffix |-> suffix, ns |-> ns, operation |-> r[2],
    parameters |-> r[3], others |-> r[4],
    method |-> method, seconds |-> seconds, safe |-> safe] : r \in rows}

\* "Nothing was changed; the request is safe to repeat."
Reads(ns, suffix, rows) == Generated(ns, suffix, "GET", 10, TRUE, rows)
HistoryReads(ns, suffix, rows) == Generated(ns, suffix, "GET", 30, TRUE, rows)
SafePosts(ns, suffix, rows) == Generated(ns, suffix, "POST", 30, TRUE, rows)

\* "The operation may still be completed [...]"
TradeChanges(ns, suffix, rows) == Generated(ns, suffix, "POST", 5, FALSE, rows)
Changes(ns, suffix, rows) == Generated(ns, suffix, "POST", 15, FALSE, rows)
Patches(ns, suffix, rows) == Generated(ns, suffix, "PATCH", 15, FALSE, rows)
Maintenance(ns, suffix, rows) == Generated(ns, suffix, "POST", 60, FALSE, rows)

\* Function.length: trade platform, path parameters, others, options.
Arity(e) == 2 + e.parameters + e.others
=============================================================================
