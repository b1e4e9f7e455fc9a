---------------------------- MODULE ClientProofs ----------------------------
(***************************************************************************)
(* What a call of a bound function reaches, for every endpoint of the      *)
(* catalogue and every invocation: the wrapper finds the function and      *)
(* places the context, the function builds the path, the path is resolved, *)
(* and the server and the table of timeouts read it as the same operation. *)
(*                                                                         *)
(* The generated catalogue is known by the assumptions of Facade and       *)
(* Client only, which TLC evaluates on all of it.  From them also follows  *)
(* that no change has a method that is resent, so a step of Client is a    *)
(* step of Recovery or leaves it alone, and what holds of every operation  *)
(* under recovery holds of every call.                                     *)
(***************************************************************************)
EXTENDS Client, RecoveryProofs, FiniteSetTheorems, SequenceTheorems,
        WellFoundedInduction

----------------------------------------------------------------------------
(* Selected positions of a sequence *)

LEMMA Counting ==
  /\ \A i \in Nat : IsFiniteSet(1 .. i) /\ Cardinality(1 .. i) = i
  /\ \A i, j \in Nat : i <= j + 1 => /\ IsFiniteSet(i .. j)
                                    /\ Cardinality(i .. j) = j - i + 1
<1>1. ASSUME NEW i \in Nat, NEW j \in Nat, i <= j + 1
      PROVE  IsFiniteSet(i .. j) /\ Cardinality(i .. j) = j - i + 1
  <2>1. i \in Int /\ j \in Int
    OBVIOUS
  <2>2. IsFiniteSet(i .. j) /\ Cardinality(i .. j) = IF i > j THEN 0 ELSE j - i + 1
    BY <2>1, FS_Interval
  <2> QED BY <1>1, <2>2
<1>2. ASSUME NEW i \in Nat
      PROVE  IsFiniteSet(1 .. i) /\ Cardinality(1 .. i) = i
  BY <1>1
<1> QED BY <1>1, <1>2

\* The positions up to i, when those from a + 1 to b - 1 are left out.
LEMMA CountUpTo ==
  ASSUME NEW a \in Nat, NEW b \in Nat, NEW m \in Nat, a < b,
         NEW i \in (1 .. a) \cup (b .. m)
  PROVE  Cardinality({j \in (1 .. a) \cup (b .. m) : j <= i}) =
           IF i <= a THEN i ELSE i - b + a + 1
<1> DEFINE upTo == {j \in (1 .. a) \cup (b .. m) : j <= i}
<1> SUFFICES Cardinality(upTo) = IF i <= a THEN i ELSE i - b + a + 1
  OBVIOUS
<1>1. CASE i <= a
  <2>1. upTo = 1 .. i
    BY <1>1
  <2>2. Cardinality(1 .. i) = i
    BY <1>1, Counting
  <2> HIDE DEF upTo
  <2> QED BY <1>1, <2>1, <2>2
<1>2. CASE i > a
  <2>1. upTo = (1 .. a) \cup (b .. i)
    BY <1>2
  <2>2. (1 .. a) \cap (b .. i) = {}
    OBVIOUS
  <2>3. i \in Nat /\ b <= i + 1
    BY <1>2
  <2>4. /\ IsFiniteSet(1 .. a) /\ Cardinality(1 .. a) = a
        /\ IsFiniteSet(b .. i) /\ Cardinality(b .. i) = i - b + 1
    BY <2>3, Counting
  <2>5. Cardinality((1 .. a) \cup (b .. i)) =
          Cardinality(1 .. a) + Cardinality(b .. i) - Cardinality((1 .. a) \cap (b .. i))
    BY <2>4, FS_Union
  <2>6. Cardinality(upTo) = a + (i - b + 1) - 0
    BY <2>1, <2>2, <2>4, <2>5, FS_EmptySet
  <2> HIDE DEF upTo
  <2> QED BY <1>2, <2>3, <2>6
<1> QED BY <1>1, <1>2

\* A sequence of m elements without those from a + 1 to b - 1.
Without(s, a, b, m) ==
  [n \in 1 .. (a + m - b + 1) |-> IF n <= a THEN s[n] ELSE s[n + b - a - 1]]

LEMMA AtGap ==
  ASSUME NEW s, NEW a \in Nat, NEW b \in Nat, NEW m \in Nat, a < b, b <= m + 1
  PROVE  At(s, (1 .. a) \cup (b .. m)) = Without(s, a, b, m)
<1> DEFINE S == (1 .. a) \cup (b .. m)
           upTo(i) == {j \in S : j <= i}
           position(n) == CHOOSE i \in S : Cardinality(upTo(i)) = n
<1>1. Cardinality(S) = a + m - b + 1
  <2>1. (1 .. a) \cap (b .. m) = {}
    OBVIOUS
  <2>2. /\ IsFiniteSet(1 .. a) /\ Cardinality(1 .. a) = a
        /\ IsFiniteSet(b .. m) /\ Cardinality(b .. m) = m - b + 1
    BY Counting
  <2>3. Cardinality(S) =
          Cardinality(1 .. a) + Cardinality(b .. m) - Cardinality((1 .. a) \cap (b .. m))
    BY <2>2, FS_Union
  <2>4. Cardinality(S) = a + (m - b + 1) - 0
    BY <2>1, <2>2, <2>3, FS_EmptySet
  <2> HIDE DEF S
  <2> QED BY <2>4
<1>2. ASSUME NEW n \in 1 .. (a + m - b + 1)
      PROVE  position(n) = IF n <= a THEN n ELSE n + b - a - 1
  <2> DEFINE p == IF n <= a THEN n ELSE n + b - a - 1
  <2>1. p \in S
    OBVIOUS
  <2>2. \A i \in S : Cardinality(upTo(i)) = IF i <= a THEN i ELSE i - b + a + 1
    BY CountUpTo
  <2>3. Cardinality(upTo(p)) = n
    <3>1. Cardinality(upTo(p)) = IF p <= a THEN p ELSE p - b + a + 1
      BY <2>1, <2>2
    <3> HIDE DEF upTo
    <3> QED BY <3>1
  <2>4. \A i \in S : Cardinality(upTo(i)) = n => i = p
    <3> HIDE DEF upTo
    <3> QED BY <2>2
  <2> HIDE DEF S, upTo, p
  <2>5. (CHOOSE i \in S : Cardinality(upTo(i)) = n) = p
    BY <2>1, <2>3, <2>4
  <2> QED BY <2>5 DEF p
<1>3. At(s, S) = [n \in 1 .. Cardinality(S) |-> s[position(n)]]
  BY DEF At
<1> HIDE DEF S, position
<1>4. At(s, S) = [n \in 1 .. (a + m - b + 1) |->
                   IF n <= a THEN s[n] ELSE s[n + b - a - 1]]
  <2>1. At(s, S) = [n \in 1 .. (a + m - b + 1) |-> s[position(n)]]
    BY <1>1, <1>3
  <2>2. \A n \in 1 .. (a + m - b + 1) :
          s[position(n)] = IF n <= a THEN s[n] ELSE s[n + b - a - 1]
    BY <1>2
  <2> QED BY <2>1, <2>2
<1> QED BY <1>4 DEF S, Without

LEMMA AtPrefix ==
  ASSUME NEW s, NEW m \in Nat
  PROVE  At(s, 1 .. m) = [n \in 1 .. m |-> s[n]]
<1>1. PICK b \in Nat : b = m + 1
  OBVIOUS
<1>2. m < b /\ b <= m + 1
  BY <1>1
<1>3. At(s, (1 .. m) \cup (b .. m)) = Without(s, m, b, m)
  BY <1>2, AtGap
<1>4. (1 .. m) \cup (b .. m) = 1 .. m /\ m + m - b + 1 = m
  BY <1>1
<1>5. Without(s, m, b, m) = [n \in 1 .. m |-> IF n <= m THEN s[n] ELSE s[n + b - m - 1]]
  BY <1>4 DEF Without
<1>6. Without(s, m, b, m) = [n \in 1 .. m |-> s[n]]
  BY <1>5
<1> QED BY <1>3, <1>4, <1>6

----------------------------------------------------------------------------
(* Bound names *)

LEMMA LastPosition ==
  ASSUME NEW n \in Nat, NEW S \in SUBSET (1 .. n), S # {}
  PROVE  \E i \in S : \A j \in S : j <= i
<1> DEFINE fromTheEnd == {n - i : i \in S}
<1>1. fromTheEnd \subseteq Nat /\ fromTheEnd # {}
  <2>1. \A i \in S : n - i \in Nat
    OBVIOUS
  <2> QED BY <2>1
<1>2. PICK x \in fromTheEnd : \A y \in fromTheEnd : ~ (<<y, x>> \in OpToRel(<, Nat))
  BY <1>1, NatLessThanWellFounded, WFMin
<1>3. \A y \in fromTheEnd : ~ (y < x)
  BY <1>1, <1>2 DEF OpToRel
<1>4. PICK i \in S : x = n - i
  BY <1>2
<1>5. ASSUME NEW j \in S
      PROVE  j <= i
  <2>1. ~ (n - j < n - i)
    BY <1>3, <1>4
  <2>2. i \in 1 .. n /\ j \in 1 .. n
    OBVIOUS
  <2> QED BY <2>1, <2>2
<1> QED BY <1>5

\* A function is found under its name without a suffix, in whichever modules of
\* its namespace it is.
LEMMA NamespaceFinds ==
  ASSUME NEW ns, NEW count \in Nat, NEW modules, DOMAIN modules = 1 .. count,
         \A i \in DOMAIN modules : \A o \in modules[i] :
           o \in Endpoints /\ o.ns = ns,
         NEW m \in DOMAIN modules, NEW e \in modules[m]
  PROVE  Namespace(modules, ns)[<<e.name, "">>] = e
<1> DEFINE k == <<e.name, "">>
           bound == [i \in DOMAIN modules |-> Bind(modules[i], ns)]
           isLast(i) == /\ k \in DOMAIN bound[i]
                        /\ \A j \in DOMAIN modules : k \in DOMAIN bound[j] => j <= i
           last == CHOOSE i \in DOMAIN modules : isLast(i)
           holders == {i \in DOMAIN modules : k \in DOMAIN bound[i]}
<1>1. \A i \in DOMAIN modules : \A o \in modules[i] : Key(o, ns) = <<o.name, "">>
  BY NamesAssumption DEF Key
<1>2. \A i \in DOMAIN modules :
        k \in DOMAIN bound[i] <=> \E o \in modules[i] : Key(o, ns) = k
  BY DEF Bind
<1>3. m \in holders
  <2>1. Key(e, ns) = k
    BY <1>1
  <2> QED BY <1>2, <2>1
<1>4. \E i \in holders : \A j \in holders : j <= i
  <2> HIDE DEF holders
  <2>1. holders \in SUBSET (1 .. count)
    BY DEF holders
  <2> QED BY <1>3, <2>1, LastPosition
<1>5. last \in DOMAIN modules /\ k \in DOMAIN bound[last]
  <2>1. \E i \in DOMAIN modules : isLast(i)
    BY <1>4
  <2>2. last \in DOMAIN modules /\ isLast(last)
    <3> HIDE DEF isLast
    <3> QED BY <2>1
  <2> QED BY <2>2
<1>6. bound[last][k] = e
  <2>1. bound[last] = Bind(modules[last], ns)
    BY <1>5
  <2> HIDE DEF bound, last
  <2>2. \A p \in modules[last] : Key(p, ns) = k => p = e
    <3> SUFFICES ASSUME NEW p \in modules[last], Key(p, ns) = k
                 PROVE  p = e
      OBVIOUS
    <3>1. p \in Endpoints /\ p.ns = ns /\ e \in Endpoints /\ e.ns = ns
      BY <1>5
    <3>2. <<p.name, "">> = <<e.name, "">>
      BY <1>1, <1>5
    <3> QED BY <3>1, <3>2, NamesAssumption
  <2>3. PICK o \in modules[last] : Key(o, ns) = k
    BY <1>2, <1>5
  <2> HIDE DEF k
  <2>4. (CHOOSE p \in modules[last] : Key(p, ns) = k) = e
    BY <2>2, <2>3
  <2> QED BY <2>1, <2>3, <2>4 DEF Bind
<1>7. Namespace(modules, ns)[k] = bound[last][k]
  BY <1>5 DEF Namespace
<1> QED BY <1>6, <1>7

LEMMA ClientFinds ==
  ASSUME NEW e \in Endpoints
  PROVE  Client(e.ns)[<<e.name, "">>] = e
<1>1. DOMAIN MT4Modules = 1 .. Len(MT4Modules) /\ Len(MT4Modules) \in Nat
  BY DEF MT4Modules
<1>2. DOMAIN MT5Modules = 1 .. Len(MT5Modules) /\ Len(MT5Modules) \in Nat
  BY DEF MT5Modules
<1>3. CASE e \in UNION ToSet(MT4Modules)
  <2>1. PICK m \in DOMAIN MT4Modules : e \in MT4Modules[m]
    BY <1>3 DEF ToSet
  <2>2. \A i \in DOMAIN MT4Modules : \A o \in MT4Modules[i] : o \in Endpoints /\ o.ns = "MT4"
    BY NamesAssumption DEF Endpoints, ToSet
  <2>3. mt4[<<e.name, "">>] = e
    BY <1>1, <2>1, <2>2, NamespaceFinds DEF mt4
  <2> QED BY <2>1, <2>2, <2>3 DEF Client
<1>4. CASE e \in UNION ToSet(MT5Modules)
  <2>1. PICK m \in DOMAIN MT5Modules : e \in MT5Modules[m]
    BY <1>4 DEF ToSet
  <2>2. \A i \in DOMAIN MT5Modules : \A o \in MT5Modules[i] : o \in Endpoints /\ o.ns = "MT5"
    BY NamesAssumption DEF Endpoints, ToSet
  <2>3. mt5[<<e.name, "">>] = e
    BY <1>2, <2>1, <2>2, NamespaceFinds DEF mt5
  <2> QED BY <2>1, <2>2, <2>3 DEF Client
<1> QED BY <1>3, <1>4 DEF Endpoints

----------------------------------------------------------------------------
(* Arguments *)

\* Everything arguments and paths are made of.
Tokens ==
  {"platform", "first", "second", Empty, ".", "..", "data", "key", "api", "v2", "MT4", "MT5"}
  \cup {e.operation : e \in Endpoints}

LEMMA FunctionIsSeq ==
  ASSUME NEW n \in Nat, NEW S, NEW f \in [1 .. n -> S]
  PROVE  f \in Seq(S) /\ Len(f) = n
<1>1. f \in Seq(S)
  BY SeqDef
<1>2. DOMAIN f = 1 .. Len(f) /\ Len(f) \in Nat
  BY <1>1, LenProperties
<1> QED BY <1>1, <1>2

LEMMA EndpointFacts ==
  ASSUME NEW e \in Endpoints
  PROVE  /\ e.ns \in {"MT4", "MT5"}
         /\ e.operation \in Tokens \ {Empty, ".", "..", Parameter}
         /\ e.operation \notin {"platform", "first", "second"}
         /\ e.parameters \in 0 .. 2 /\ e.others \in Nat /\ e.safe \in BOOLEAN
<1>1. e.ns \in {"MT4", "MT5"}
  BY NamesAssumption DEF Endpoints
<1>2. ToSet(Values) = {"platform", "first", "second"}
  BY DEF Values, ToSet
<1>3. e.operation \in Tokens
  BY DEF Tokens
<1> QED BY <1>1, <1>2, <1>3, EndpointsAssumption, ValuesAssumption

LEMMA EmptyIsOther == Empty \notin {"platform", "first", "second", ".", "..", "api", "v2", "MT4", "MT5"}
  BY Zenon DEF Empty

LEMMA ParametersFacts ==
  ASSUME NEW e \in Endpoints, NEW p \in Parameters(e)
  PROVE  /\ p \in Seq(Tokens) /\ Len(p) = 1 + e.parameters
         /\ \A k \in 1 .. 1 + e.parameters :
              p[k] \in {"platform", "first", "second"} \cup OddValues
         /\ \A k, l \in 1 .. 1 + e.parameters :
              p[k] \in OddValues /\ p[l] \in OddValues => k = l
<1> DEFINE usual == SubSeq(Values, 1, 1 + e.parameters)
           n == 1 + e.parameters
<1>1. n \in 1 .. 3
  <2>1. e.parameters \in 0 .. 2
    BY EndpointFacts
  <2> QED BY <2>1
<1>2. \A k \in 1 .. 3 : Values[k] \in {"platform", "first", "second"}
  BY DEF Values
<1>3. /\ usual \in Seq(Tokens) /\ Len(usual) = n
      /\ \A k \in 1 .. n : usual[k] = Values[k]
  <2>1. \A k \in 1 .. n : Values[k] \in Tokens
    <3>1. {"platform", "first", "second"} \subseteq Tokens
      BY DEF Tokens
    <3> HIDE DEF n
    <3> QED BY <1>1, <1>2, <3>1
  <2>2. /\ SubSeq(Values, 1, n) \in Seq(Tokens)
        /\ Len(SubSeq(Values, 1, n)) = IF 1 <= n THEN n - 1 + 1 ELSE 0
        /\ \A k \in 1 .. n - 1 + 1 : SubSeq(Values, 1, n)[k] = Values[1 + k - 1]
    <3> HIDE DEF n
    <3> QED BY <1>1, <2>1, SubSeqProperties
  <2> HIDE DEF n
  <2> QED BY <1>1, <2>2 DEF n
<1>4. usual \in [1 .. n -> Tokens] /\ DOMAIN usual = 1 .. n
  BY <1>3, LenProperties
<1>5. \A x \in {"platform", "first", "second"} : x \notin OddValues
  BY EmptyIsOther DEF OddValues, Dots
<1> HIDE DEF usual, n
<1>6. \A k \in 1 .. n : usual[k] \in {"platform", "first", "second"}
  BY <1>1, <1>2, <1>3
<1>7. p = usual \/ \E i \in DOMAIN usual, v \in OddValues : p = [usual EXCEPT ![i] = v]
  BY DEF Parameters, usual
<1>8. CASE p = usual
  BY <1>3, <1>5, <1>6, <1>8 DEF n
<1>9. CASE \E i \in DOMAIN usual, v \in OddValues : p = [usual EXCEPT ![i] = v]
  <2>1. PICK i \in DOMAIN usual, v \in OddValues : p = [usual EXCEPT ![i] = v]
    BY <1>9
  <2>2. v \in Tokens
    BY DEF OddValues, Dots, Tokens
  <2>3. p \in [1 .. n -> Tokens]
    BY <1>4, <2>1, <2>2
  <2>4. \A k \in 1 .. n : p[k] = IF k = i THEN v ELSE usual[k]
    BY <1>4, <2>1
  <2>5. p \in Seq(Tokens) /\ Len(p) = n
    BY <1>1, <2>3, FunctionIsSeq
  <2> QED BY <1>5, <1>6, <2>4, <2>5 DEF n
<1> QED BY <1>7, <1>8, <1>9

LEMMA RestsFacts ==
  ASSUME NEW e \in Endpoints, NEW r \in Rests(e)
  PROVE  /\ r \in Seq(Tokens) /\ Len(r) \in 0 .. 2 + e.others
         /\ "key" \in ToSet(r) <=> Len(r) > e.others
         /\ Len(r) > e.others => r[1 + e.others] = "key"
<1> DEFINE others == [i \in 1 .. e.others |-> "data"]
<1>1. e.others \in Nat
  BY EndpointFacts
<1>2. others \in Seq(Tokens) /\ Len(others) = e.others
  <2>1. others \in [1 .. e.others -> Tokens]
    BY DEF Tokens
  <2> HIDE DEF others
  <2> QED BY <1>1, <2>1, FunctionIsSeq
<1>3. "key" \notin ToSet(others)
  BY DEF ToSet
<1>4. CASE r = <<>>
  <2>1. r \in Seq(Tokens) /\ Len(r) = 0
    BY <1>4, EmptySeq
  <2>2. "key" \notin ToSet(r)
    BY <1>4 DEF ToSet
  <2> QED BY <1>1, <2>1, <2>2
<1>5. CASE r = others
  <2> HIDE DEF others
  <2> QED BY <1>1, <1>2, <1>3, <1>5
<1> DEFINE more == Append(others, "key")
           most == Append(more, "data")
<1> HIDE DEF others
<1>6. /\ more \in Seq(Tokens) /\ Len(more) = e.others + 1
      /\ more[1 + e.others] = "key"
  <2>1. "key" \in Tokens
    BY DEF Tokens
  <2> QED BY <1>1, <1>2, <2>1, AppendProperties
<1> HIDE DEF more
<1>7. /\ most \in Seq(Tokens) /\ Len(most) = e.others + 2
      /\ most[1 + e.others] = "key"
  <2>1. "data" \in Tokens
    BY DEF Tokens
  <2>2. /\ most \in Seq(Tokens) /\ Len(most) = Len(more) + 1
        /\ \A k \in 1 .. Len(more) : most[k] = more[k]
    BY <1>6, <2>1, AppendProperties
  <2> QED BY <1>1, <1>6, <2>2
<1> HIDE DEF most
<1>8. CASE r \in {more, most}
  <2>1. /\ r \in Seq(Tokens) /\ Len(r) \in {e.others + 1, e.others + 2}
        /\ r[1 + e.others] = "key"
    BY <1>6, <1>7, <1>8
  <2>2. "key" \in ToSet(r)
    <3>1. DOMAIN r = 1 .. Len(r)
      BY <2>1, LenProperties
    <3> QED BY <1>1, <2>1, <3>1 DEF ToSet
  <2> QED BY <1>1, <2>1, <2>2
<1> QED BY <1>4, <1>5, <1>8 DEF Rests, others, more, most

\* The wrapper passes the parameters on, and puts the context and no other
\* argument in the place of the options.
LEMMA BoundArguments ==
  ASSUME NEW e \in Endpoints, NEW p \in Parameters(e), NEW r \in Rests(e)
  PROVE  LET args == BindArguments(p \o r, Arity(e)) IN
         /\ \A k \in 1 .. 1 + e.parameters : args[k] = p[k]
         /\ args[Arity(e)] = IF "key" \in ToSet(r) THEN "key, context" ELSE "context"
<1> DEFINE all == p \o r
           args == BindArguments(all, Arity(e))
           n == e.parameters
           o == e.others
<1>1. n \in 0 .. 2 /\ o \in Nat /\ Arity(e) = 2 + n + o
  BY EndpointFacts DEF Arity
<1>2. p \in Seq(Tokens) /\ Len(p) = 1 + n
  BY ParametersFacts
<1>3. /\ r \in Seq(Tokens) /\ Len(r) \in 0 .. 2 + o
      /\ "key" \in ToSet(r) <=> Len(r) > o
      /\ Len(r) > o => r[1 + o] = "key"
  BY RestsFacts
<1>4. /\ Len(all) = Len(p) + Len(r)
      /\ \A i \in 1 .. Len(p) + Len(r) : all[i] = IF i <= Len(p) THEN p[i] ELSE r[i - Len(p)]
  BY <1>2, <1>3, ConcatProperties
<1> HIDE DEF all, n, o
<1>5. \A i \in 1 .. 2 + n + o :
        args[i] = LET given == IF i <= Len(all) THEN all[i] ELSE Absent
                  IN IF i = 2 + n + o THEN WithRequestContext(given) ELSE given
  BY <1>1 DEF BindArguments
<1>6. ASSUME NEW k \in 1 .. 1 + n
      PROVE  args[k] = p[k]
  <2>1. k \in 1 .. 2 + n + o /\ k # 2 + n + o /\ k <= Len(all)
    BY <1>1, <1>2, <1>3, <1>4
  <2>2. all[k] = p[k]
    BY <1>1, <1>2, <1>3, <1>4
  <2> HIDE DEF args
  <2> QED BY <1>5, <2>1, <2>2
<1>7. args[2 + n + o] = IF "key" \in ToSet(r) THEN "key, context" ELSE "context"
  <2>1. 2 + n + o \in 1 .. 2 + n + o
    BY <1>1
  <2> HIDE DEF args
  <2>2. CASE Len(r) > o
    <3>1. 2 + n + o <= Len(all) /\ all[2 + n + o] = "key"
      BY <1>1, <1>2, <1>3, <1>4, <2>2
    <3>2. args[2 + n + o] = WithRequestContext("key")
      BY <1>5, <2>1, <3>1
    <3> QED BY <1>3, <2>2, <3>2 DEF WithRequestContext
  <2>3. CASE ~ (Len(r) > o)
    <3>1. ~ (2 + n + o <= Len(all))
      BY <1>1, <1>2, <1>3, <1>4, <2>3
    <3>2. args[2 + n + o] = WithRequestContext(Absent)
      BY <1>5, <2>1, <3>1
    <3> QED BY <1>3, <2>3, <3>2 DEF WithRequestContext, Absent
  <2> QED BY <2>2, <2>3
<1> QED BY <1>1, <1>6, <1>7 DEF n, all

----------------------------------------------------------------------------
(* Paths *)

\* The path of a call of e with the parameters p.
PathOf(e, p) ==
  [k \in 1 .. 5 + e.parameters |->
     CASE k = 1 -> "api"
       [] k = 2 -> "v2"
       [] k = 3 -> e.ns
       [] k = 4 -> p[1]
       [] k = 5 -> e.operation
       [] OTHER -> p[k - 4]]

LEMMA PathFacts ==
  ASSUME NEW e \in Endpoints, NEW p \in Parameters(e)
  PROVE  LET path == PathOf(e, p)  n == e.parameters IN
         /\ path \in Seq(Tokens) /\ Len(path) = 5 + n /\ DOMAIN path = 1 .. 5 + n
         /\ path[1] = "api" /\ path[2] = "v2" /\ path[3] = e.ns
         /\ path[4] = p[1] /\ path[5] = e.operation
         /\ \A k \in 6 .. 5 + n : path[k] = p[k - 4]
<1> DEFINE path == PathOf(e, p)
           n == e.parameters
<1>1. /\ n \in 0 .. 2 /\ e.ns \in Tokens /\ e.operation \in Tokens
      /\ "api" \in Tokens /\ "v2" \in Tokens
  BY EndpointFacts DEF Tokens
<1>2. /\ p \in Seq(Tokens) /\ Len(p) = 1 + n
      /\ \A k \in 1 .. 1 + n : p[k] \in Tokens
  BY ParametersFacts, ElementOfSeq
<1> HIDE DEF n
<1>3. /\ DOMAIN path = 1 .. 5 + n
      /\ path[1] = "api" /\ path[2] = "v2" /\ path[3] = e.ns
      /\ path[4] = p[1] /\ path[5] = e.operation
      /\ \A k \in 6 .. 5 + n : path[k] = p[k - 4]
  BY <1>1 DEF PathOf, n
<1>4. path \in [1 .. 5 + n -> Tokens]
  <2>1. path = [k \in 1 .. 5 + n |-> path[k]]
    BY DEF PathOf, n
  <2> HIDE DEF path
  <2>2. ASSUME NEW k \in 1 .. 5 + n
        PROVE  path[k] \in Tokens
    <3>1. CASE k \in 6 .. 5 + n
      BY <1>1, <1>2, <1>3, <3>1
    <3>2. CASE k \in 1 .. 5
      BY <1>1, <1>2, <1>3, <3>2
    <3> QED BY <1>1, <3>1, <3>2
  <2> QED BY <2>1, <2>2
<1>5. 5 + n \in Nat
  BY <1>1
<1>6. path \in Seq(Tokens) /\ Len(path) = 5 + n
  BY <1>4, <1>5, FunctionIsSeq
<1> QED BY <1>3, <1>6 DEF n

\* What a bound function requests.
LEMMA RequestFacts ==
  ASSUME NEW i \in Invocations
  PROVE  /\ Request[i].method = i.endpoint.method
         /\ Request[i].path = PathOf(i.endpoint, i.parameters)
         /\ Request[i].context
         /\ Request[i].key \in BOOLEAN
         /\ Request[i].key <=> "key" \in ToSet(i.rest)
<1> DEFINE e == i.endpoint
           p == i.parameters
           r == i.rest
           args == BindArguments(p \o r, Arity(e))
           n == e.parameters
<1>1. e \in Endpoints /\ p \in Parameters(e) /\ r \in Rests(e)
  BY DEF Invocations
<1>2. Request[i] = RequestOf(e, args)
  <2>1. Request[i] = Invocation(e.ns, <<e.name, "">>, p \o r)
    BY DEF Request
  <2> QED BY <1>1, <2>1, ClientFinds DEF Invocation
<1>3. /\ \A k \in 1 .. 1 + n : args[k] = p[k]
      /\ args[Arity(e)] = IF "key" \in ToSet(r) THEN "key, context" ELSE "context"
  BY <1>1, BoundArguments
<1> DEFINE context == args[Arity(e)] \in {"context", "key, context"}
           key == args[Arity(e)] = "key, context"
           path == <<"api", "v2", e.ns, args[1], e.operation>> \o SubSeq(args, 2, 1 + n)
<1> HIDE DEF e, p, r, args
<1>4. Request[i] = [method |-> e.method, path |-> path, context |-> context, key |-> key]
  BY <1>2 DEF RequestOf, n
<1>5. Request[i].path = path
  <2> HIDE DEF path, context, key
  <2> QED BY <1>4
<1>6. /\ Request[i].method = e.method
      /\ Request[i].context
      /\ Request[i].key \in BOOLEAN
      /\ Request[i].key <=> "key" \in ToSet(r)
  <2>1. /\ Request[i].method = e.method
        /\ Request[i].context = context
        /\ Request[i].key = key
    <3> HIDE DEF path, context, key
    <3> QED BY <1>4
  <2>2. CASE "key" \in ToSet(r)
    BY <1>3, <2>1, <2>2
  <2>3. CASE "key" \notin ToSet(r)
    BY <1>3, <2>1, <2>3
  <2> QED BY <2>2, <2>3
<1>7. Request[i].path = PathOf(e, p)
  <2> DEFINE front == <<"api", "v2", e.ns, args[1], e.operation>>
             rest == SubSeq(args, 2, 1 + n)
             wanted == PathOf(e, p)
  <2>1. /\ n \in 0 .. 2 /\ e.ns \in Tokens /\ e.operation \in Tokens
        /\ "api" \in Tokens /\ "v2" \in Tokens
    BY <1>1, EndpointFacts DEF Tokens
  <2>2. \A k \in 1 .. 1 + n : p[k] \in Tokens /\ args[k] = p[k]
    BY <1>1, <1>3, ParametersFacts, ElementOfSeq
  <2>3. front \in Seq(Tokens) /\ Len(front) = 5
    BY <2>1, <2>2
  <2>4. /\ rest \in Seq(Tokens) /\ Len(rest) = n
        /\ \A k \in 1 .. n : rest[k] = p[1 + k]
    <3> HIDE DEF n
    <3>1. \A k \in 2 .. 1 + n : args[k] \in Tokens
      BY <2>2
    <3>2. /\ rest \in Seq(Tokens)
          /\ Len(rest) = IF 2 <= 1 + n THEN (1 + n) - 2 + 1 ELSE 0
          /\ \A k \in 1 .. (1 + n) - 2 + 1 : rest[k] = args[2 + k - 1]
      BY <2>1, <3>1, SubSeqProperties
    <3> HIDE DEF rest
    <3> QED BY <2>1, <2>2, <3>2
  <2>5. /\ wanted \in Seq(Tokens) /\ Len(wanted) = 5 + n
        /\ wanted[1] = "api" /\ wanted[2] = "v2" /\ wanted[3] = e.ns
        /\ wanted[4] = p[1] /\ wanted[5] = e.operation
        /\ \A k \in 6 .. 5 + n : wanted[k] = p[k - 4]
    BY <1>1, PathFacts
  <2>6. front[1] = "api" /\ front[2] = "v2" /\ front[3] = e.ns
        /\ front[4] = args[1] /\ front[5] = e.operation
    OBVIOUS
  <2> HIDE DEF front, rest, wanted, n
  <2>7. /\ front \o rest \in Seq(Tokens) /\ Len(front \o rest) = 5 + n
        /\ \A k \in 1 .. 5 + n : (front \o rest)[k] = IF k <= 5 THEN front[k] ELSE rest[k - 5]
    <3>1. /\ front \o rest \in Seq(Tokens) /\ Len(front \o rest) = Len(front) + Len(rest)
          /\ \A k \in 1 .. Len(front) + Len(rest) :
               (front \o rest)[k] = IF k <= Len(front) THEN front[k] ELSE rest[k - Len(front)]
      BY <2>3, <2>4, ConcatProperties
    <3> QED BY <2>1, <2>3, <2>4, <3>1
  <2>8. ASSUME NEW k \in 1 .. 5 + n
        PROVE  (front \o rest)[k] = wanted[k]
    <3>1. CASE k \in 1 .. 5
      BY <2>1, <2>2, <2>5, <2>6, <2>7, <3>1
    <3>2. CASE k \in 6 .. 5 + n
      <4>1. rest[k - 5] = p[1 + (k - 5)]
        BY <2>1, <2>4, <3>2
      <4>2. (front \o rest)[k] = rest[k - 5]
        BY <2>1, <2>7, <3>2
      <4>3. wanted[k] = p[k - 4] /\ 1 + (k - 5) = k - 4
        BY <2>1, <2>5, <3>2
      <4> QED BY <4>1, <4>2, <4>3
    <3>3. k \in 1 .. 5 \/ k \in 6 .. 5 + n
      BY <2>1
    <3> QED BY <3>1, <3>2, <3>3
  <2>9. front \o rest = wanted
    BY <2>5, <2>7, <2>8, SeqEqual
  <2>10. Request[i].path = front \o rest
    BY <1>5 DEF front, rest, n
  <2> QED BY <2>9, <2>10 DEF wanted
<1> QED BY <1>6, <1>7 DEF e, p, r

----------------------------------------------------------------------------
(* Readers of the path *)

\* One slash at the end of a path does not count.
Bare(path) == IF Last(path) = Empty THEN Front(path) ELSE path

LEMMA BareFacts ==
  ASSUME NEW S, NEW path \in Seq(S), path # <<>>
  PROVE  /\ Len(path) \in Nat \ {0} /\ DOMAIN path = 1 .. Len(path)
         /\ Bare(path) \in Seq(S) /\ Len(Bare(path)) \in Nat
         /\ \/ Len(path) = Len(Bare(path))
            \/ Len(path) = Len(Bare(path)) + 1 /\ path[Len(path)] = Empty
         /\ \A k \in 1 .. Len(Bare(path)) : Bare(path)[k] = path[k] /\ path[k] \in S
<1>1. Len(path) \in Nat /\ Len(path) # 0 /\ DOMAIN path = 1 .. Len(path)
  BY EmptySeq, LenProperties
<1>2. \A k \in 1 .. Len(path) : path[k] \in S
  BY ElementOfSeq
<1>3. CASE Last(path) = Empty
  <2> DEFINE m == Len(path) - 1
  <2>1. m \in Nat /\ Len(path) = m + 1
    BY <1>1
  <2> HIDE DEF m
  <2>2. /\ SubSeq(path, 1, m) \in Seq(S)
        /\ Len(SubSeq(path, 1, m)) = IF 1 <= m THEN m - 1 + 1 ELSE 0
        /\ \A k \in 1 .. m - 1 + 1 : SubSeq(path, 1, m)[k] = path[1 + k - 1]
    BY <1>2, <2>1, SubSeqProperties
  <2>3. Bare(path) = SubSeq(path, 1, m)
    BY <1>3 DEF Bare, Front, m
  <2>4. path[Len(path)] = Empty
    BY <1>3 DEF Last
  <2> DEFINE bare == SubSeq(path, 1, m)
  <2> HIDE DEF bare
  <2>5. bare \in Seq(S) /\ Len(bare) = m
    BY <2>1, <2>2 DEF bare
  <2>6. \A k \in 1 .. m : bare[k] = path[k]
    BY <2>1, <2>2 DEF bare
  <2>7. \A k \in 1 .. m : path[k] \in S
    BY <1>2, <2>1
  <2> QED BY <1>1, <2>1, <2>3, <2>4, <2>5, <2>6, <2>7 DEF bare
<1>4. CASE Last(path) # Empty
  <2>1. Bare(path) = path
    BY <1>4 DEF Bare
  <2> QED BY <1>1, <1>2, <2>1
<1> QED BY <1>3, <1>4

\* A path without its empty segments, when only the last one may be empty.
LEMMA SegmentsFacts ==
  ASSUME NEW S, NEW path \in Seq(S), path # <<>>, Empty \notin ToSet(Bare(path))
  PROVE  Segments(path) = [n \in 1 .. Len(Bare(path)) |-> path[n]]
<1> DEFINE m == Len(Bare(path))
           full == {k \in DOMAIN path : path[k] # Empty}
<1>1. m \in Nat /\ DOMAIN path = 1 .. Len(path)
  BY BareFacts
<1>2. \A k \in 1 .. m : path[k] # Empty
  <2>1. DOMAIN Bare(path) = 1 .. m
    BY BareFacts, LenProperties
  <2>2. \A k \in 1 .. m : Bare(path)[k] = path[k]
    BY BareFacts
  <2> QED BY <2>1, <2>2 DEF ToSet
<1>3. Len(path) = m \/ (Len(path) = m + 1 /\ path[m + 1] = Empty)
  BY BareFacts
<1> HIDE DEF m, full
<1>4. full = 1 .. m
  <2>1. CASE Len(path) = m
    BY <1>1, <1>2, <2>1 DEF full
  <2>2. CASE Len(path) = m + 1 /\ path[m + 1] = Empty
    BY <1>1, <1>2, <2>2 DEF full
  <2> QED BY <1>3, <2>1, <2>2
<1>5. Segments(path) = At(path, full)
  BY DEF Segments, full
<1> QED BY <1>1, <1>4, <1>5, AtPrefix DEF m

\* A route that is served, told from the path as it stands: the SDK reads the
\* segments that the server reads.
LEMMA ServedFacts ==
  ASSUME NEW S, NEW path \in Seq(S), path # <<>>,
         NEW method, NEW o \in Served(method, path)
  PROVE  /\ o \in Endpoints /\ o.method = method
         /\ Len(Bare(path)) = 5 + o.parameters
         /\ path[1] = "api" /\ path[2] = "v2" /\ path[3] = o.ns
         /\ path[5] = o.operation
         /\ \A k \in 1 .. 5 + o.parameters : path[k] # Empty
         /\ Segments(path) = [n \in 1 .. 5 + o.parameters |-> path[n]]
<1> DEFINE bare == Bare(path)
           n == 5 + o.parameters
<1>1. o \in Endpoints /\ o.method = method
  BY DEF Served
<1>2. Len(bare) = n /\ bare[5] = o.operation
  BY DEF Served, Bare
<1>3. SubSeq(bare, 1, 3) = <<"api", "v2", o.ns>>
  BY DEF Served, Bare
<1>4. Empty \notin ToSet(bare)
  BY DEF Served, Bare
<1>5. n \in 5 .. 7
  <2>1. o.parameters \in 0 .. 2
    BY <1>1, EndpointFacts
  <2> QED BY <2>1
<1>6. bare \in Seq(S) /\ \A k \in 1 .. Len(bare) : bare[k] = path[k] /\ path[k] \in S
  BY BareFacts
<1>7. Segments(path) = [k \in 1 .. n |-> path[k]]
  BY <1>2, <1>4, SegmentsFacts
<1> HIDE DEF bare, n
<1>8. path[1] = "api" /\ path[2] = "v2" /\ path[3] = o.ns
  <2>1. \A k \in 1 .. 3 : bare[k] = path[k] /\ bare[k] \in S
    BY <1>2, <1>5, <1>6
  <2>2. \A k \in 1 .. 3 - 1 + 1 : SubSeq(bare, 1, 3)[k] = bare[1 + k - 1]
    BY <2>1, SubSeqProperties
  <2>3. /\ SubSeq(bare, 1, 3)[1] = "api" /\ SubSeq(bare, 1, 3)[2] = "v2"
        /\ SubSeq(bare, 1, 3)[3] = o.ns
    <3> DEFINE first == SubSeq(bare, 1, 3)
    <3>1. first = <<"api", "v2", o.ns>>
      BY <1>3
    <3> HIDE DEF first
    <3>2. first[1] = "api" /\ first[2] = "v2" /\ first[3] = o.ns
      BY <3>1
    <3> QED BY <3>2 DEF first
  <2>4. \A k \in 1 .. 3 : SubSeq(bare, 1, 3)[k] = path[k]
    BY <2>1, <2>2
  <2> QED BY <2>3, <2>4
<1>9. path[5] = o.operation
  BY <1>2, <1>5, <1>6
<1>10. \A k \in 1 .. n : path[k] # Empty
  <2>1. DOMAIN bare = 1 .. n
    BY <1>2, <1>6, LenProperties
  <2>2. \A k \in DOMAIN bare : bare[k] # Empty
    BY <1>4 DEF ToSet
  <2> QED BY <1>2, <1>6, <2>1, <2>2
<1> QED BY <1>1, <1>2, <1>7, <1>8, <1>9, <1>10 DEF bare, n

----------------------------------------------------------------------------
(* The table *)

Template(e) ==
  <<"api", "v2", e.ns, Parameter, e.operation>> \o [i \in 1 .. e.parameters |-> Parameter]

Row(e) == [method |-> e.method, seconds |-> e.seconds, template |-> Template(e)]

LEMMA TableFacts == OPERATION_TIMEOUTS = {Row(e) : e \in Endpoints}
  BY TimeoutsAssumption DEF Row, Template

LEMMA TemplateFacts ==
  ASSUME NEW e \in Endpoints
  PROVE  LET template == Template(e)  n == e.parameters IN
         /\ Len(template) = 5 + n /\ DOMAIN template = 1 .. 5 + n
         /\ template[1] = "api" /\ template[2] = "v2" /\ template[3] = e.ns
         /\ template[4] = Parameter /\ template[5] = e.operation
         /\ \A k \in 6 .. 5 + n : template[k] = Parameter
<1> DEFINE words == {"api", "v2", e.ns, Parameter, e.operation}
           front == <<"api", "v2", e.ns, Parameter, e.operation>>
           rest == [i \in 1 .. e.parameters |-> Parameter]
           n == e.parameters
<1>1. n \in 0 .. 2
  BY EndpointFacts
<1>2. front \in Seq(words) /\ Len(front) = 5
  OBVIOUS
<1>3. /\ front[1] = "api" /\ front[2] = "v2" /\ front[3] = e.ns
      /\ front[4] = Parameter /\ front[5] = e.operation
  OBVIOUS
<1>4. rest \in [1 .. n -> words] /\ \A k \in 1 .. n : rest[k] = Parameter
  OBVIOUS
<1>5. Template(e) = front \o rest
  BY DEF Template
<1> HIDE DEF words, front, rest, n
<1>6. rest \in Seq(words) /\ Len(rest) = n
  BY <1>1, <1>4, FunctionIsSeq
<1>7. /\ front \o rest \in Seq(words) /\ Len(front \o rest) = Len(front) + Len(rest)
      /\ \A k \in 1 .. Len(front) + Len(rest) :
           (front \o rest)[k] = IF k <= Len(front) THEN front[k] ELSE rest[k - Len(front)]
  BY <1>2, <1>6, ConcatProperties
<1>8. DOMAIN (front \o rest) = 1 .. Len(front \o rest)
  BY <1>7, LenProperties
<1> DEFINE template == front \o rest
<1> HIDE DEF template
<1>9. /\ Len(template) = 5 + n /\ DOMAIN template = 1 .. 5 + n
      /\ \A k \in 1 .. 5 : template[k] = front[k]
      /\ \A k \in 6 .. 5 + n : template[k] = rest[k - 5]
  BY <1>1, <1>2, <1>6, <1>7, <1>8 DEF template
<1>10. \A k \in 6 .. 5 + n : template[k] = Parameter
  BY <1>1, <1>4, <1>9
<1>11. Template(e) = template
  BY <1>5 DEF template
<1> HIDE DEF template
<1> QED BY <1>3, <1>9, <1>10, <1>11 DEF n

\* The operation that the server would run is the one whose row of the table
\* the SDK finds, and the only one, whatever the path is made of.
LEMMA OnlyRow ==
  ASSUME NEW S, NEW path \in Seq(S), path # <<>>,
         NEW method, NEW o \in Served(method, path)
  PROVE  {r \in OPERATION_TIMEOUTS :
            r.method = method /\ Matches(r.template, Segments(path))} = {Row(o)}
<1> DEFINE n == 5 + o.parameters
           segments == Segments(path)
<1>1. o \in Endpoints /\ o.method = method
  BY ServedFacts
<1>2. n \in 5 .. 7 /\ o.operation # Parameter
  <2>1. o.parameters \in 0 .. 2 /\ o.operation # Parameter
    BY <1>1, EndpointFacts
  <2> QED BY <2>1
<1>3. segments = [k \in 1 .. n |-> path[k]]
  BY ServedFacts
<1>4. path[1] = "api" /\ path[2] = "v2" /\ path[3] = o.ns /\ path[5] = o.operation
  BY ServedFacts
<1> HIDE DEF n, segments
<1>5. Len(segments) = n
  <2>1. \A k \in 1 .. n : path[k] \in S
    <3>1. Len(Bare(path)) = n
      BY ServedFacts DEF n
    <3> QED BY <3>1, BareFacts
  <2>2. segments \in [1 .. n -> S]
    BY <1>3, <2>1
  <2> QED BY <1>2, <2>2, FunctionIsSeq
<1>6. ASSUME NEW e \in Endpoints, e.method = method, Matches(Template(e), segments)
      PROVE  e = o
  <2>1. /\ Len(Template(e)) = 5 + e.parameters /\ DOMAIN Template(e) = 1 .. 5 + e.parameters
        /\ Template(e)[3] = e.ns /\ Template(e)[5] = e.operation
    BY TemplateFacts
  <2>2. e.parameters \in 0 .. 2 /\ e.operation # Parameter /\ e.ns # Parameter
    BY EndpointFacts DEF Parameter
  <2>3. 5 + e.parameters = n
    BY <1>5, <1>6, <2>1 DEF Matches
  <2>4. \A k \in 1 .. n : Template(e)[k] \in {Parameter, segments[k]}
    BY <1>6, <2>1, <2>3 DEF Matches
  <2>5. e.ns = o.ns /\ e.operation = o.operation
    BY <1>2, <1>3, <1>4, <2>1, <2>2, <2>4
  <2>6. e.parameters = o.parameters
    BY <1>1, <2>2, <2>3, EndpointFacts DEF n
  <2> QED BY <1>1, <1>6, <2>5, <2>6, RoutesAssumption
<1>7. Matches(Template(o), segments)
  <2>1. /\ Len(Template(o)) = n /\ DOMAIN Template(o) = 1 .. n
        /\ Template(o)[1] = "api" /\ Template(o)[2] = "v2" /\ Template(o)[3] = o.ns
        /\ Template(o)[4] = Parameter /\ Template(o)[5] = o.operation
        /\ \A k \in 6 .. n : Template(o)[k] = Parameter
    BY <1>1, TemplateFacts DEF n
  <2>2. \A k \in 1 .. n : Template(o)[k] \in {Parameter, segments[k]}
    BY <1>2, <1>3, <1>4, <2>1
  <2> QED BY <1>5, <2>1, <2>2 DEF Matches
<1>8. \A e \in Endpoints : Row(e).method = e.method /\ Row(e).template = Template(e)
  BY DEF Row
<1>9. Row(o) \in OPERATION_TIMEOUTS
  BY <1>1, TableFacts
<1>10. ASSUME NEW r \in OPERATION_TIMEOUTS, r.method = method, Matches(r.template, segments)
       PROVE  r = Row(o)
  <2>1. PICK e \in Endpoints : r = Row(e)
    BY TableFacts
  <2> QED BY <1>6, <1>8, <1>10, <2>1
<1> QED BY <1>1, <1>7, <1>8, <1>9, <1>10 DEF segments

\* On every path that the server routes to an operation the SDK plans the
\* deadline with that operation's timeout.
THEOREM TableKnowsRoutes ==
  ASSUME NEW S, NEW path \in Seq(S), path # <<>>,
         NEW method, NEW o \in Served(method, path)
  PROVE  OperationDefaultTimeout(method, path) = o.seconds
<1> DEFINE candidates == {r \in OPERATION_TIMEOUTS :
                            r.method = method /\ Matches(r.template, Segments(path))}
           best == CHOOSE r \in candidates : \A q \in candidates : Literals(r) >= Literals(q)
<1>1. candidates = {Row(o)}
  BY OnlyRow
<1>2. OperationDefaultTimeout(method, path) = IF candidates = {} THEN 0 ELSE best.seconds
  BY DEF OperationDefaultTimeout
<1>3. o \in Endpoints
  BY ServedFacts
<1>4. Literals(Row(o)) \in Nat
  <2> DEFINE literal == {i \in DOMAIN Template(o) : Template(o)[i] # Parameter}
  <2>1. IsFiniteSet(1 .. 5 + o.parameters)
    <3>1. o.parameters \in 0 .. 2
      BY <1>3, EndpointFacts
    <3>2. 5 + o.parameters \in Nat
      BY <3>1
    <3> QED BY <3>2, Counting
  <2>2. literal \in SUBSET (1 .. 5 + o.parameters)
    BY <1>3, TemplateFacts
  <2>3. Cardinality(literal) \in Nat
    BY <2>1, <2>2, FS_Subset, FS_CardinalityType
  <2> QED BY <2>3 DEF Literals, Row
<1>5. Row(o).seconds = o.seconds
  BY DEF Row
<1> HIDE DEF candidates
<1>6. best = Row(o)
  BY <1>1, <1>4
<1> HIDE DEF best
<1>7. candidates # {}
  BY <1>1
<1> QED BY <1>2, <1>5, <1>6, <1>7

----------------------------------------------------------------------------
(* Resolved paths *)

Ups(path, i, k) == {j \in i + 1 .. k : path[j] = ".."}
Names(path, i, k) == {j \in i + 1 .. k : path[j] \notin Dots}

LEMMA KeptIs ==
  ASSUME NEW S, NEW path \in Seq(S)
  PROVE  Kept(path) =
           {i \in 1 .. Len(path) :
              /\ path[i] \notin Dots
              /\ \A k \in i + 1 .. Len(path) :
                   Cardinality(Ups(path, i, k)) <= Cardinality(Names(path, i, k))}
<1>1. DOMAIN path = 1 .. Len(path)
  BY LenProperties
<1> QED BY <1>1 DEF Kept, Ups, Names

LEMMA CountsFacts ==
  ASSUME NEW path, NEW i \in Nat, NEW k \in Nat
  PROVE  /\ IsFiniteSet(Names(path, i, k)) /\ Cardinality(Names(path, i, k)) \in Nat
         /\ Names(path, i, k) # {} => Cardinality(Names(path, i, k)) >= 1
         /\ Ups(path, i, k) = {} => Cardinality(Ups(path, i, k)) = 0
<1>1. IsFiniteSet(1 .. k)
  BY Counting
<1>2. Names(path, i, k) \in SUBSET (1 .. k)
  BY DEF Names
<1>3. IsFiniteSet(Names(path, i, k)) /\ Cardinality(Names(path, i, k)) \in Nat
  BY <1>1, <1>2, FS_Subset, FS_CardinalityType
<1>4. Names(path, i, k) # {} => Cardinality(Names(path, i, k)) # 0
  BY <1>3, FS_EmptySet
<1>5. Cardinality({}) = 0
  BY FS_EmptySet
<1> QED BY <1>3, <1>4, <1>5

LEMMA KeptClean ==
  ASSUME NEW S, NEW path \in Seq(S), \A k \in 1 .. Len(path) : path[k] \notin Dots
  PROVE  Kept(path) = 1 .. Len(path)
<1>1. Len(path) \in Nat
  BY LenProperties
<1>2. ASSUME NEW i \in 1 .. Len(path), NEW k \in i + 1 .. Len(path)
      PROVE  Cardinality(Ups(path, i, k)) <= Cardinality(Names(path, i, k))
  <2>1. i \in Nat /\ k \in Nat
    BY <1>1
  <2>2. Ups(path, i, k) = {}
    BY <1>1 DEF Ups, Dots
  <2>3. Cardinality(Ups(path, i, k)) = 0 /\ Cardinality(Names(path, i, k)) \in Nat
    BY <2>1, <2>2, CountsFacts
  <2> QED BY <2>3
<1> QED BY <1>2, KeptIs

\* A "." goes alone.
LEMMA KeptDot ==
  ASSUME NEW S, NEW path \in Seq(S), NEW q \in 1 .. Len(path), path[q] = ".",
         \A k \in 1 .. Len(path) : k # q => path[k] \notin Dots
  PROVE  Kept(path) = (1 .. q - 1) \cup (q + 1 .. Len(path))
<1>1. Len(path) \in Nat
  BY LenProperties
<1>2. ASSUME NEW i \in 1 .. Len(path), NEW k \in i + 1 .. Len(path)
      PROVE  Cardinality(Ups(path, i, k)) <= Cardinality(Names(path, i, k))
  <2>1. i \in Nat /\ k \in Nat
    BY <1>1
  <2>2. Ups(path, i, k) = {}
    BY <1>1 DEF Ups, Dots
  <2>3. Cardinality(Ups(path, i, k)) = 0 /\ Cardinality(Names(path, i, k)) \in Nat
    BY <2>1, <2>2, CountsFacts
  <2> QED BY <2>3
<1>3. \A i \in 1 .. Len(path) : path[i] \notin Dots <=> i # q
  BY DEF Dots
<1>4. Kept(path) = {i \in 1 .. Len(path) : i # q}
  BY <1>2, <1>3, KeptIs
<1> QED BY <1>1, <1>4

\* A ".." takes the name in front of it along.
LEMMA KeptDots ==
  ASSUME NEW S, NEW path \in Seq(S), NEW q \in 2 .. Len(path), path[q] = "..",
         \A k \in 1 .. Len(path) : k # q => path[k] \notin Dots
  PROVE  Kept(path) = (1 .. q - 2) \cup (q + 1 .. Len(path))
<1>1. Len(path) \in Nat
  BY LenProperties
<1>2. ASSUME NEW i \in 1 .. Len(path), NEW k \in i + 1 .. Len(path), i # q - 1
      PROVE  Cardinality(Ups(path, i, k)) <= Cardinality(Names(path, i, k))
  <2>1. i \in Nat /\ k \in Nat
    BY <1>1
  <2>2. CASE q \notin i + 1 .. k
    <3>1. Ups(path, i, k) = {}
      BY <1>1, <2>2 DEF Ups, Dots
    <3>2. Cardinality(Ups(path, i, k)) = 0 /\ Cardinality(Names(path, i, k)) \in Nat
      BY <2>1, <3>1, CountsFacts
    <3> QED BY <3>2
  <2>3. CASE q \in i + 1 .. k
    <3>1. Ups(path, i, k) = {q}
      BY <1>1, <2>3 DEF Ups, Dots
    <3>2. q - 1 \in i + 1 .. k /\ q - 1 \in 1 .. Len(path) /\ q - 1 # q
      BY <1>1, <1>2, <2>3
    <3>3. q - 1 \in Names(path, i, k)
      BY <3>2 DEF Names
    <3>4. Cardinality(Ups(path, i, k)) = 1
      BY <3>1, FS_Singleton
    <3>5. Cardinality(Names(path, i, k)) \in Nat /\ Cardinality(Names(path, i, k)) >= 1
      BY <2>1, <3>3, CountsFacts
    <3> QED BY <3>4, <3>5
  <2> QED BY <2>2, <2>3
<1>3. ~ (Cardinality(Ups(path, q - 1, q)) <= Cardinality(Names(path, q - 1, q)))
  <2>1. q - 1 \in Nat /\ q \in Nat /\ (q - 1) + 1 = q
    BY <1>1
  <2>2. (q - 1) + 1 .. q = {q}
    BY <2>1
  <2>3. Ups(path, q - 1, q) = {q} /\ Names(path, q - 1, q) = {}
    BY <2>2 DEF Ups, Names, Dots
  <2>4. Cardinality(Ups(path, q - 1, q)) = 1 /\ Cardinality(Names(path, q - 1, q)) = 0
    BY <2>3, FS_Singleton, FS_EmptySet
  <2> QED BY <2>4
<1>4. \A i \in 1 .. Len(path) : path[i] \notin Dots <=> i # q
  BY DEF Dots
<1>5. q \in (q - 1) + 1 .. Len(path)
  BY <1>1
<1>6. q - 1 \notin Kept(path)
  BY <1>3, <1>5, KeptIs
<1>7. \A i \in 1 .. Len(path) : i \in Kept(path) <=> i # q /\ i # q - 1
  <2>1. \A i \in 1 .. Len(path) : i # q /\ i # q - 1 => i \in Kept(path)
    BY <1>2, <1>4, KeptIs
  <2>2. q \notin Kept(path)
    BY <1>4, KeptIs
  <2> QED BY <1>6, <2>1, <2>2
<1>8. Kept(path) \subseteq 1 .. Len(path)
  BY KeptIs
<1> QED BY <1>1, <1>7, <1>8

LEMMA WithoutFacts ==
  ASSUME NEW S, NEW s \in Seq(S), NEW a \in Nat, NEW b \in Nat,
         a < b, b <= Len(s) + 1
  PROVE  /\ Without(s, a, b, Len(s)) \in Seq(S)
         /\ Len(Without(s, a, b, Len(s))) = a + Len(s) - b + 1
         /\ \A k \in 1 .. a + Len(s) - b + 1 :
              Without(s, a, b, Len(s))[k] = IF k <= a THEN s[k] ELSE s[k + b - a - 1]
<1> DEFINE t == Without(s, a, b, Len(s))
           length == a + Len(s) - b + 1
<1>1. Len(s) \in Nat /\ \A k \in 1 .. Len(s) : s[k] \in S
  BY LenProperties, ElementOfSeq
<1>2. length \in Nat
  BY <1>1
<1>3. t = [n \in 1 .. length |-> IF n <= a THEN s[n] ELSE s[n + b - a - 1]]
  BY DEF Without
<1>4. \A k \in 1 .. length : t[k] = IF k <= a THEN s[k] ELSE s[k + b - a - 1]
  BY <1>3
<1>5. \A k \in 1 .. length : t[k] \in S
  <2>1. \A k \in 1 .. length : IF k <= a THEN k \in 1 .. Len(s) ELSE k + b - a - 1 \in 1 .. Len(s)
    BY <1>1
  <2> HIDE DEF t, length
  <2> QED BY <1>1, <1>4, <2>1
<1>6. t \in [1 .. length -> S]
  <2> HIDE DEF length
  <2>1. t = [n \in 1 .. length |-> t[n]]
    BY <1>3
  <2> HIDE DEF t
  <2> QED BY <1>5, <2>1
<1> HIDE DEF t, length
<1>7. t \in Seq(S) /\ Len(t) = length
  BY <1>2, <1>6, FunctionIsSeq
<1> QED BY <1>4, <1>7 DEF t, length

\* A resolved path, with or without the slash that a last dot leaves behind.
LEMMA ResolvedFacts ==
  ASSUME NEW S, Empty \in S, NEW path \in Seq(S), NEW kept \in Seq(S), kept # <<>>,
         At(path, Kept(path)) = kept, Last(path) \in Dots \/ Last(kept) # Empty
  PROVE  /\ Resolved(path) \in Seq(S) /\ Resolved(path) # <<>>
         /\ Len(Bare(Resolved(path))) = Len(kept)
         /\ \A k \in 1 .. Len(kept) : Resolved(path)[k] = kept[k]
<1>1. Len(kept) \in Nat
  BY LenProperties
<1>2. CASE Last(path) \in Dots
  <2> DEFINE resolved == Append(kept, Empty)
  <2>1. Resolved(path) = resolved
    BY <1>2 DEF Resolved
  <2>2. /\ resolved \in Seq(S) /\ resolved # <<>> /\ Len(resolved) = Len(kept) + 1
        /\ \A k \in 1 .. Len(kept) : resolved[k] = kept[k]
        /\ resolved[Len(kept) + 1] = Empty
    BY AppendProperties
  <2> HIDE DEF resolved
  <2>3. Bare(resolved) = SubSeq(resolved, 1, Len(kept))
    <3>1. Last(resolved) = Empty
      BY <2>2 DEF Last
    <3>2. Len(resolved) - 1 = Len(kept)
      BY <1>1, <2>2
    <3> QED BY <3>1, <3>2 DEF Bare, Front
  <2>4. Len(Bare(resolved)) = Len(kept)
    <3>1. \A k \in 1 .. Len(kept) : resolved[k] \in S
      BY <1>1, <2>2, ElementOfSeq
    <3>2. Len(SubSeq(resolved, 1, Len(kept))) =
            IF 1 <= Len(kept) THEN Len(kept) - 1 + 1 ELSE 0
      BY <1>1, <3>1, SubSeqProperties
    <3> QED BY <1>1, <2>3, <3>2
  <2> QED BY <2>1, <2>2, <2>4
<1>3. CASE Last(path) \notin Dots
  <2>1. Resolved(path) = kept
    BY <1>3 DEF Resolved
  <2>2. Bare(kept) = kept
    BY <1>3 DEF Bare
  <2> QED BY <2>1, <2>2
<1> QED BY <1>2, <1>3

LEMMA PathValues ==
  ASSUME NEW e \in Endpoints, NEW p \in Parameters(e)
  PROVE  LET path == PathOf(e, p)  m == 5 + e.parameters IN
         /\ \A k \in 1 .. m : path[k] \in OddValues => k = 4 \/ k >= 6
         /\ \A k, l \in 1 .. m : path[k] \in OddValues /\ path[l] \in OddValues => k = l
         /\ \A k \in 6 .. m : path[k] \in {"platform", "first", "second"} \cup OddValues
         /\ (\A k \in DOMAIN p : p[k] \notin OddValues) <=> \A k \in 1 .. m : path[k] \notin OddValues
<1> DEFINE path == PathOf(e, p)
           n == e.parameters
           m == 5 + n
<1>1. /\ path[1] = "api" /\ path[2] = "v2" /\ path[3] = e.ns
      /\ path[4] = p[1] /\ path[5] = e.operation
      /\ \A k \in 6 .. m : path[k] = p[k - 4]
  BY PathFacts
<1>2. n \in 0 .. 2 /\ e.ns \in {"MT4", "MT5"} /\ e.operation \notin {Empty, ".", ".."}
  BY EndpointFacts
<1>3. DOMAIN p = 1 .. 1 + n
  BY ParametersFacts, LenProperties
<1>4. /\ \A k \in 1 .. 1 + n :
           p[k] \in {"platform", "first", "second"} \cup OddValues
      /\ \A k, l \in 1 .. 1 + n :
           p[k] \in OddValues /\ p[l] \in OddValues => k = l
  BY ParametersFacts
<1> HIDE DEF path, n
<1>5. path[1] \notin OddValues /\ path[2] \notin OddValues /\ path[3] \notin OddValues
      /\ path[5] \notin OddValues
  BY <1>1, <1>2, EmptyIsOther DEF OddValues, Dots
<1>6. \A k \in 1 .. m : k \in {1, 2, 3, 4, 5} \/ k \in 6 .. m
  BY <1>2
<1>7. \A k \in 1 .. m : path[k] \in OddValues => k = 4 \/ k >= 6
  BY <1>2, <1>5, <1>6
<1>8. \A k \in 6 .. m : k - 4 \in 1 .. 1 + n /\ k - 4 # 1
  BY <1>2
<1>9. ASSUME NEW k \in 1 .. m, NEW l \in 1 .. m, path[k] \in OddValues, path[l] \in OddValues
      PROVE  k = l
  <2>1. k = 4 \/ k \in 6 .. m
    BY <1>2, <1>7, <1>9
  <2>2. l = 4 \/ l \in 6 .. m
    BY <1>2, <1>7, <1>9
  <2>3. 1 \in 1 .. 1 + n
    BY <1>2
  <2>4. CASE k = 4 /\ l \in 6 .. m
    BY <1>1, <1>4, <1>8, <1>9, <2>3, <2>4
  <2>5. CASE k \in 6 .. m /\ l = 4
    BY <1>1, <1>4, <1>8, <1>9, <2>3, <2>5
  <2>6. CASE k \in 6 .. m /\ l \in 6 .. m
    <3>1. k - 4 = l - 4
      BY <1>1, <1>4, <1>8, <1>9, <2>6
    <3> QED BY <1>2, <2>6, <3>1
  <2> QED BY <2>1, <2>2, <2>4, <2>5, <2>6
<1>10. \A k \in 6 .. m : path[k] \in {"platform", "first", "second"} \cup OddValues
  BY <1>1, <1>4, <1>8
<1>11. ASSUME \A k \in DOMAIN p : p[k] \notin OddValues
       PROVE  \A k \in 1 .. m : path[k] \notin OddValues
  <2>1. p[1] \notin OddValues
    BY <1>2, <1>3, <1>11
  <2>2. \A k \in 6 .. m : path[k] \notin OddValues
    BY <1>1, <1>3, <1>8, <1>11
  <2> QED BY <1>1, <1>5, <1>6, <2>1, <2>2
<1>12. ASSUME \A k \in 1 .. m : path[k] \notin OddValues
       PROVE  \A k \in DOMAIN p : p[k] \notin OddValues
  <2>1. ASSUME NEW k \in 1 .. 1 + n
        PROVE  p[k] \notin OddValues
    <3>1. CASE k = 1
      <4>1. 4 \in 1 .. m
        BY <1>2
      <4> QED BY <1>1, <1>12, <3>1, <4>1
    <3>2. CASE k # 1
      <4>1. k + 4 \in 6 .. m /\ k + 4 \in 1 .. m /\ (k + 4) - 4 = k
        BY <1>2, <3>2
      <4>2. path[k + 4] = p[(k + 4) - 4]
        BY <1>1, <4>1
      <4> QED BY <1>12, <4>1, <4>2
    <3> QED BY <3>1, <3>2
  <2> QED BY <1>3, <2>1
<1> QED BY <1>7, <1>9, <1>10, <1>11, <1>12 DEF path, n

LEMMA ResolvedClean ==
  ASSUME NEW S, NEW path \in Seq(S), path # <<>>,
         \A k \in 1 .. Len(path) : path[k] \notin Dots
  PROVE  Resolved(path) = path
<1>1. Len(path) \in Nat \ {0} /\ DOMAIN path = 1 .. Len(path)
  BY EmptySeq, LenProperties
<1>2. path = [k \in 1 .. Len(path) |-> path[k]]
  <2>1. path \in [1 .. Len(path) -> S]
    BY LenProperties
  <2> QED BY <2>1
<1>3. At(path, 1 .. Len(path)) = [k \in 1 .. Len(path) |-> path[k]]
  BY <1>1, AtPrefix
<1>4. Last(path) \notin Dots
  BY <1>1 DEF Last
<1> QED BY <1>2, <1>3, <1>4, KeptClean DEF Resolved

\* A path of proper segments is left as it is.
LEMMA UsualPath ==
  ASSUME NEW e \in Endpoints, NEW p \in Parameters(e),
         \A k \in DOMAIN p : p[k] \notin OddValues
  PROVE  LET path == PathOf(e, p) IN
         /\ path # <<>> /\ Resolved(path) = path /\ Bare(path) = path
         /\ Empty \notin ToSet(path)
<1> DEFINE path == PathOf(e, p)
           m == 5 + e.parameters
<1>1. path \in Seq(Tokens) /\ Len(path) = m /\ DOMAIN path = 1 .. m
  BY PathFacts
<1>2. m \in Nat /\ m >= 5
  <2>1. e.parameters \in 0 .. 2
    BY EndpointFacts
  <2> QED BY <2>1
<1>3. \A k \in 1 .. m : path[k] \notin OddValues
  BY PathValues
<1> HIDE DEF path, m
<1>4. path # <<>>
  BY <1>1, <1>2, EmptySeq
<1>5. \A k \in 1 .. m : path[k] \notin Dots /\ path[k] # Empty
  BY <1>3 DEF OddValues
<1>6. Resolved(path) = path
  BY <1>1, <1>4, <1>5, ResolvedClean
<1>7. Last(path) # Empty
  BY <1>1, <1>2, <1>5 DEF Last
<1>8. Bare(path) = path
  BY <1>7 DEF Bare
<1>9. Empty \notin ToSet(path)
  BY <1>1, <1>5 DEF ToSet
<1> QED BY <1>4, <1>6, <1>8, <1>9 DEF path

\* Such a path of e leads to e and to no other operation.
LEMMA UsualServed ==
  ASSUME NEW e \in Endpoints, NEW p \in Parameters(e),
         \A k \in DOMAIN p : p[k] \notin OddValues
  PROVE  Served(e.method, PathOf(e, p)) = {e}
<1> DEFINE path == PathOf(e, p)
           m == 5 + e.parameters
<1>1. /\ path \in Seq(Tokens) /\ Len(path) = m
      /\ path[1] = "api" /\ path[2] = "v2" /\ path[3] = e.ns /\ path[5] = e.operation
  BY PathFacts
<1>2. path # <<>> /\ Bare(path) = path /\ Empty \notin ToSet(path)
  BY UsualPath
<1>3. e.parameters \in 0 .. 2
  BY EndpointFacts
<1> HIDE DEF path
<1>4. SubSeq(path, 1, 3) = <<"api", "v2", e.ns>>
  <2>1. \A k \in 1 .. 3 : path[k] \in Tokens
    BY <1>1, <1>3, ElementOfSeq
  <2>2. /\ SubSeq(path, 1, 3) \in Seq(Tokens)
        /\ Len(SubSeq(path, 1, 3)) = IF 1 <= 3 THEN 3 - 1 + 1 ELSE 0
        /\ \A k \in 1 .. 3 - 1 + 1 : SubSeq(path, 1, 3)[k] = path[1 + k - 1]
    BY <2>1, SubSeqProperties
  <2> DEFINE first == SubSeq(path, 1, 3)
             wanted == <<"api", "v2", e.ns>>
  <2> HIDE DEF first
  <2>3. first \in Seq(Tokens) /\ Len(first) = 3
    BY <2>2 DEF first
  <2>4. \A k \in 1 .. 3 : first[k] = path[k]
    BY <2>2 DEF first
  <2>5. wanted \in Seq(Tokens)
    <3>1. "api" \in Tokens /\ "v2" \in Tokens /\ e.ns \in Tokens
      BY EndpointFacts DEF Tokens
    <3> QED BY <3>1
  <2>6. /\ Len(wanted) = 3 /\ wanted[1] = "api" /\ wanted[2] = "v2" /\ wanted[3] = e.ns
    OBVIOUS
  <2> HIDE DEF wanted
  <2>7. \A k \in 1 .. 3 : first[k] = wanted[k]
    BY <1>1, <2>4, <2>6
  <2>8. first = wanted
    BY <2>3, <2>5, <2>6, <2>7, SeqEqual
  <2> QED BY <2>8 DEF first, wanted
<1>5. e \in Served(e.method, path)
  BY <1>1, <1>2, <1>4 DEF Served, Bare
<1>6. ASSUME NEW o \in Served(e.method, path)
      PROVE  o = e
  <2>1. /\ o \in Endpoints /\ o.method = e.method
        /\ Len(Bare(path)) = 5 + o.parameters
        /\ path[3] = o.ns /\ path[5] = o.operation
    BY <1>1, <1>2, ServedFacts
  <2>2. o.parameters \in 0 .. 2
    BY <2>1, EndpointFacts
  <2>3. o.parameters = e.parameters
    BY <1>1, <1>2, <1>3, <2>1, <2>2
  <2> QED BY <1>1, <2>1, <2>3, RoutesAssumption
<1> QED BY <1>5, <1>6 DEF path

\* The server reads the parameters that the caller gave.
LEMMA UsualParameters ==
  ASSUME NEW e \in Endpoints, NEW p \in Parameters(e),
         \A k \in DOMAIN p : p[k] \notin OddValues
  PROVE  ServedParameters(PathOf(e, p)) = p
<1> DEFINE path == PathOf(e, p)
           n == e.parameters
           segments == Segments(path)
<1>1. n \in 0 .. 2
  BY EndpointFacts
<1>2. /\ path \in Seq(Tokens) /\ Len(path) = 5 + n
      /\ path[4] = p[1] /\ \A k \in 6 .. 5 + n : path[k] = p[k - 4]
  BY PathFacts
<1>3. p \in Seq(Tokens) /\ Len(p) = 1 + n
  BY ParametersFacts
<1>4. path # <<>> /\ Bare(path) = path /\ Empty \notin ToSet(path)
  BY UsualPath
<1> HIDE DEF path, n, segments
<1>5. segments = path
  <2>1. segments = [k \in 1 .. Len(path) |-> path[k]]
    BY <1>2, <1>4, SegmentsFacts DEF segments
  <2>2. path \in [1 .. Len(path) -> Tokens]
    BY <1>2, LenProperties
  <2> QED BY <2>1, <2>2
<1> DEFINE first == <<path[4]>>
           others == SubSeq(path, 6, 5 + n)
<1>6. \A k \in 1 .. 5 + n : path[k] \in Tokens
  BY <1>1, <1>2, ElementOfSeq
<1>7. first \in Seq(Tokens) /\ Len(first) = 1 /\ first[1] = p[1]
  BY <1>1, <1>2, <1>6
<1>8. /\ others \in Seq(Tokens) /\ Len(others) = n
      /\ \A k \in 1 .. n : others[k] = p[1 + k]
  <2>1. \A k \in 6 .. 5 + n : path[k] \in Tokens
    BY <1>1, <1>6
  <2>2. /\ others \in Seq(Tokens)
        /\ Len(others) = IF 6 <= 5 + n THEN (5 + n) - 6 + 1 ELSE 0
        /\ \A k \in 1 .. (5 + n) - 6 + 1 : others[k] = path[6 + k - 1]
    BY <1>1, <2>1, SubSeqProperties
  <2> HIDE DEF others
  <2>3. Len(others) = n /\ \A k \in 1 .. n : others[k] = path[6 + k - 1]
    BY <1>1, <2>2
  <2>4. ASSUME NEW k \in 1 .. n
        PROVE  others[k] = p[1 + k]
    <3>1. 6 + k - 1 \in 6 .. 5 + n /\ (6 + k - 1) - 4 = 1 + k
      BY <1>1
    <3>2. path[6 + k - 1] = p[(6 + k - 1) - 4]
      BY <1>2, <3>1
    <3> QED BY <2>3, <3>1, <3>2
  <2> QED BY <2>2, <2>3, <2>4
<1> HIDE DEF first, others
<1>9. /\ first \o others \in Seq(Tokens) /\ Len(first \o others) = 1 + n
      /\ \A k \in 1 .. 1 + n :
           (first \o others)[k] = IF k <= 1 THEN first[k] ELSE others[k - 1]
  <2>1. /\ first \o others \in Seq(Tokens)
        /\ Len(first \o others) = Len(first) + Len(others)
        /\ \A k \in 1 .. Len(first) + Len(others) :
             (first \o others)[k] = IF k <= Len(first) THEN first[k] ELSE others[k - Len(first)]
    BY <1>7, <1>8, ConcatProperties
  <2> QED BY <1>1, <1>7, <1>8, <2>1
<1>10. ASSUME NEW k \in 1 .. 1 + n
       PROVE  (first \o others)[k] = p[k]
  <2>1. CASE k = 1
    BY <1>1, <1>7, <1>9, <2>1
  <2>2. CASE k # 1
    <3>1. k - 1 \in 1 .. n /\ 1 + (k - 1) = k
      BY <1>1, <2>2
    <3>2. others[k - 1] = p[1 + (k - 1)]
      BY <1>8, <3>1
    <3> QED BY <1>1, <1>9, <2>2, <3>1, <3>2
  <2> QED BY <2>1, <2>2
<1>11. first \o others = p
  BY <1>3, <1>9, <1>10, SeqEqual
<1>12. ServedParameters(path) = first \o others
  BY <1>2, <1>5 DEF ServedParameters, segments, first, others
<1> QED BY <1>11, <1>12 DEF path

\* What a path with one odd value can still reach: an operation of the same name
\* with fewer parameters.
Shorter(e, o) ==
  /\ o \in Endpoints /\ o.method = e.method
  /\ o.ns = e.ns /\ o.operation = e.operation
  /\ o.parameters < e.parameters

\* There is one odd segment, and it is a parameter's.
LEMMA OddFacts ==
  ASSUME NEW e \in Endpoints, NEW p \in Parameters(e),
         NEW q \in 1 .. 5 + e.parameters, PathOf(e, p)[q] \in OddValues
  PROVE  LET path == PathOf(e, p)  m == 5 + e.parameters IN
         /\ path \in Seq(Tokens) /\ Len(path) = m
         /\ q = 4 \/ q = 6 \/ q = 7
         /\ \A k \in 1 .. m : k # q => path[k] \notin Dots /\ path[k] # Empty
         /\ \A k \in 6 .. m : k # q => path[k] \in {"platform", "first", "second"}
<1> DEFINE path == PathOf(e, p)
           m == 5 + e.parameters
<1>1. path \in Seq(Tokens) /\ Len(path) = m
  BY PathFacts
<1>2. e.parameters \in 0 .. 2
  BY EndpointFacts
<1>3. /\ \A k \in 1 .. m : path[k] \in OddValues => k = 4 \/ k >= 6
      /\ \A k, l \in 1 .. m : path[k] \in OddValues /\ path[l] \in OddValues => k = l
      /\ \A k \in 6 .. m : path[k] \in {"platform", "first", "second"} \cup OddValues
  BY PathValues
<1>4. path[q] \in OddValues
  OBVIOUS
<1> HIDE DEF path
<1>5. q = 4 \/ q = 6 \/ q = 7
  BY <1>2, <1>3, <1>4
<1>6. \A k \in 1 .. m : k # q => path[k] \notin OddValues
  BY <1>3, <1>4
<1>7. \A k \in 1 .. m : k # q => path[k] \notin Dots /\ path[k] # Empty
  BY <1>6 DEF OddValues
<1>8. \A k \in 6 .. m : k # q => path[k] \in {"platform", "first", "second"}
  BY <1>2, <1>3, <1>6
<1> QED BY <1>1, <1>5, <1>7, <1>8 DEF path

\* What is left of the path without an odd segment, and the one in front of it or
\* not.
LEMMA OddResolved ==
  ASSUME NEW e \in Endpoints, NEW p \in Parameters(e),
         NEW q \in 1 .. 5 + e.parameters, PathOf(e, p)[q] \in OddValues,
         NEW a \in {q - 1, q - 2},
         Kept(PathOf(e, p)) = (1 .. a) \cup (q + 1 .. 5 + e.parameters),
         PathOf(e, p)[q] \in Dots
  PROVE  LET path == PathOf(e, p)  m == 5 + e.parameters  resolved == Resolved(path)
         IN
         /\ resolved \in Seq(Tokens) /\ resolved # <<>>
         /\ Len(Bare(resolved)) = a + m - q
         /\ \A k \in 1 .. a + m - q :
              resolved[k] = IF k <= a THEN path[k] ELSE path[k + q - a]
<1> DEFINE path == PathOf(e, p)
           m == 5 + e.parameters
           kept == Without(path, a, q + 1, m)
           length == a + m - q
<1>1. e.parameters \in 0 .. 2
  BY EndpointFacts
<1>2. /\ path \in Seq(Tokens) /\ Len(path) = m
      /\ q = 4 \/ q = 6 \/ q = 7
      /\ \A k \in 1 .. m : k # q => path[k] \notin Dots /\ path[k] # Empty
  BY OddFacts
<1>3. Kept(path) = (1 .. a) \cup (q + 1 .. m) /\ path[q] \in Dots
  OBVIOUS
<1> HIDE DEF path
<1>4. /\ a \in Nat /\ a >= 2 /\ q + 1 \in Nat /\ m \in Nat /\ m \in 5 .. 7
      /\ a < q + 1 /\ q + 1 <= m + 1
  BY <1>1, <1>2
<1> HIDE DEF m
<1>5. length \in Nat /\ length >= 1 /\ length = a + m - (q + 1) + 1
  BY <1>4
<1>6. At(path, Kept(path)) = kept
  BY <1>3, <1>4, AtGap
<1>7. /\ kept \in Seq(Tokens) /\ Len(kept) = a + m - (q + 1) + 1
      /\ \A k \in 1 .. a + m - (q + 1) + 1 :
           kept[k] = IF k <= a THEN path[k] ELSE path[k + (q + 1) - a - 1]
  <2> DEFINE b == q + 1
             t == Without(path, a, b, Len(path))
  <2>1. b \in Nat /\ a < b /\ b <= Len(path) + 1
    BY <1>2, <1>4
  <2> HIDE DEF b
  <2>2. path \in Seq(Tokens) /\ a \in Nat
    BY <1>2, <1>4
  <2>3. t \in Seq(Tokens) /\ Len(t) = a + Len(path) - b + 1
    BY <2>1, <2>2, WithoutFacts
  <2>4. ASSUME NEW k \in 1 .. a + Len(path) - b + 1
        PROVE  t[k] = IF k <= a THEN path[k] ELSE path[k + b - a - 1]
    BY <2>1, <2>2, WithoutFacts
  <2>5. t = kept /\ Len(path) = m
    BY <1>2 DEF b
  <2> HIDE DEF t, kept
  <2> QED BY <2>3, <2>4, <2>5 DEF b
<1> HIDE DEF kept
<1>8. /\ Len(kept) = length
      /\ \A k \in 1 .. length : kept[k] = IF k <= a THEN path[k] ELSE path[k + q - a]
  <2> HIDE DEF length
  <2>1. ASSUME NEW k \in 1 .. length
        PROVE  k + (q + 1) - a - 1 = k + q - a
    BY <1>4
  <2> QED BY <1>5, <1>7, <2>1
<1>9. kept # <<>>
  BY <1>5, <1>7, <1>8, EmptySeq
<1>10. Last(path) \in Dots \/ Last(kept) # Empty
  <2>1. CASE q = m
    BY <1>2, <1>3, <2>1 DEF Last
  <2>2. CASE q # m
    <3>1. length \in 1 .. length /\ ~ (length <= a) /\ length + q - a = m
      BY <1>4, <1>5, <2>2
    <3>2. kept[length] = path[m]
      BY <1>8, <3>1
    <3>3. path[m] # Empty
      BY <1>2, <1>4, <2>2
    <3> QED BY <1>8, <3>2, <3>3 DEF Last
  <2> QED BY <2>1, <2>2
<1>11. Empty \in Tokens
  BY DEF Tokens
<1>12. /\ Resolved(path) \in Seq(Tokens) /\ Resolved(path) # <<>>
       /\ Len(Bare(Resolved(path))) = Len(kept)
       /\ \A k \in 1 .. Len(kept) : Resolved(path)[k] = kept[k]
  BY <1>2, <1>6, <1>7, <1>9, <1>10, <1>11, ResolvedFacts
<1>13. \A k \in 1 .. length :
         Resolved(path)[k] = IF k <= a THEN path[k] ELSE path[k + q - a]
  <2> HIDE DEF length
  <2> QED BY <1>8, <1>12
<1> QED BY <1>8, <1>12, <1>13 DEF path, m

\* An empty segment at the end is a slash; elsewhere nothing is served.
LEMMA EmptyIsShorter ==
  ASSUME NEW e \in Endpoints, NEW p \in Parameters(e),
         NEW q \in 1 .. 5 + e.parameters, PathOf(e, p)[q] = Empty
  PROVE  LET resolved == Resolved(PathOf(e, p)) IN
         /\ resolved \in Seq(Tokens) /\ resolved # <<>>
         /\ \A o \in Served(e.method, resolved) : Shorter(e, o)
<1> DEFINE path == PathOf(e, p)
           m == 5 + e.parameters
<1>1. e.parameters \in 0 .. 2
  BY EndpointFacts
<1>2. path[q] \in OddValues /\ path[q] = Empty
  BY DEF OddValues
<1>3. /\ path \in Seq(Tokens) /\ Len(path) = m
      /\ \A k \in 1 .. m : k # q => path[k] \notin Dots /\ path[k] # Empty
  BY <1>2, OddFacts
<1>4. path[3] = e.ns /\ path[5] = e.operation
  BY PathFacts
<1> HIDE DEF path
<1>5. path # <<>>
  BY <1>1, <1>3, EmptySeq
<1>6. \A k \in 1 .. Len(path) : path[k] \notin Dots
  BY <1>2, <1>3, EmptyIsOther DEF Dots
<1>7. Resolved(path) = path
  BY <1>3, <1>5, <1>6, ResolvedClean
<1>8. ASSUME NEW o \in Served(e.method, path)
      PROVE  Shorter(e, o)
  <2>1. /\ o \in Endpoints /\ o.method = e.method
        /\ Len(Bare(path)) = 5 + o.parameters
        /\ path[3] = o.ns /\ path[5] = o.operation
        /\ \A k \in 1 .. 5 + o.parameters : path[k] # Empty
    BY <1>3, <1>5, ServedFacts
  <2>2. Len(path) = Len(Bare(path)) \/ Len(path) = Len(Bare(path)) + 1
    BY <1>3, <1>5, BareFacts
  <2>3. o.parameters \in 0 .. 2
    BY <2>1, EndpointFacts
  <2>4. o.parameters < e.parameters
    BY <1>1, <1>2, <1>3, <2>1, <2>2, <2>3
  <2> QED BY <1>4, <2>1, <2>4 DEF Shorter
<1> QED BY <1>3, <1>5, <1>7, <1>8 DEF path

\* Where a dot moves another segment into the operation's place, that segment is a
\* value and names no operation.
LEMMA DotIsShorter ==
  ASSUME NEW e \in Endpoints, NEW p \in Parameters(e),
         NEW q \in 1 .. 5 + e.parameters, PathOf(e, p)[q] \in Dots
  PROVE  LET resolved == Resolved(PathOf(e, p)) IN
         /\ resolved \in Seq(Tokens) /\ resolved # <<>>
         /\ \A o \in Served(e.method, resolved) : Shorter(e, o)
<1> DEFINE path == PathOf(e, p)
           m == 5 + e.parameters
           resolved == Resolved(path)
<1>1. e.parameters \in 0 .. 2
  BY EndpointFacts
<1>2. path[q] \in OddValues /\ path[q] \in Dots
  BY DEF OddValues
<1>3. /\ path \in Seq(Tokens) /\ Len(path) = m
      /\ q = 4 \/ q = 6 \/ q = 7
      /\ \A k \in 1 .. m : k # q => path[k] \notin Dots /\ path[k] # Empty
      /\ \A k \in 6 .. m : k # q => path[k] \in {"platform", "first", "second"}
  BY <1>2, OddFacts
<1>4. path[3] = e.ns /\ path[5] = e.operation
  BY PathFacts
<1>5. PICK a \in {q - 1, q - 2} : Kept(path) = (1 .. a) \cup (q + 1 .. m)
  <2> HIDE DEF path
  <2>1. q \in 1 .. Len(path) /\ q \in 2 .. Len(path)
    BY <1>1, <1>3
  <2>2. CASE path[q] = "."
    <3>1. Kept(path) = (1 .. q - 1) \cup (q + 1 .. Len(path))
      BY <1>3, <2>1, <2>2, KeptDot
    <3> QED BY <1>3, <3>1
  <2>3. CASE path[q] = ".."
    <3>1. Kept(path) = (1 .. q - 2) \cup (q + 1 .. Len(path))
      BY <1>3, <2>1, <2>3, KeptDots
    <3> QED BY <1>3, <3>1
  <2> QED BY <1>2, <2>2, <2>3 DEF Dots
<1>6. /\ resolved \in Seq(Tokens) /\ resolved # <<>>
      /\ Len(Bare(resolved)) = a + m - q
      /\ \A k \in 1 .. a + m - q :
           resolved[k] = IF k <= a THEN path[k] ELSE path[k + q - a]
  BY <1>2, <1>5, OddResolved
<1> HIDE DEF path, resolved
<1>7. ASSUME NEW o \in Served(e.method, resolved)
      PROVE  Shorter(e, o)
  <2>1. /\ o \in Endpoints /\ o.method = e.method
        /\ Len(Bare(resolved)) = 5 + o.parameters
        /\ resolved[3] = o.ns /\ resolved[5] = o.operation
    BY <1>6, ServedFacts
  <2>2. o.parameters \in 0 .. 2 /\ o.operation \notin {"platform", "first", "second"}
    BY <2>1, EndpointFacts
  <2>3. 5 + o.parameters = a + m - q /\ a \in Int
    BY <1>3, <1>6, <2>1
  <2>4. o.parameters < e.parameters /\ 5 \in 1 .. a + m - q /\ 3 \in 1 .. a + m - q
    BY <1>1, <1>5, <2>2, <2>3
  <2>5. CASE 5 <= a
    <3>1. resolved[3] = path[3] /\ resolved[5] = path[5]
      BY <1>6, <2>4, <2>5
    <3> QED BY <1>4, <2>1, <2>4, <3>1 DEF Shorter
  <2>6. CASE ~ (5 <= a)
    <3>1. resolved[5] = path[5 + q - a]
      BY <1>6, <2>4, <2>6
    <3>2. 5 + q - a \in 6 .. m /\ 5 + q - a # q
      BY <1>1, <1>3, <1>5, <2>2, <2>3, <2>6
    <3>3. path[5 + q - a] \in {"platform", "first", "second"}
      BY <1>3, <3>2
    <3> QED BY <2>1, <2>2, <3>1, <3>3
  <2> QED BY <2>3, <2>5, <2>6
<1> QED BY <1>6, <1>7 DEF path, resolved

----------------------------------------------------------------------------
(* Invocations *)

InvocationOK == invocation \in Invocations \cup {NoInvocation}

\* Where an invocation with an odd value ends, and the path it is resolved to.
LEMMA OddTarget ==
  ASSUME NEW i \in Invocations, ~ Usual(i)
  PROVE  /\ Resolved(Request[i].path) \in Seq(Tokens) /\ Resolved(Request[i].path) # <<>>
         /\ \A o \in Target[i] : o \in Endpoints /\ o.safe
<1> DEFINE e == i.endpoint
           p == i.parameters
           path == PathOf(e, p)
           m == 5 + e.parameters
<1>1. e \in Endpoints /\ p \in Parameters(e)
  BY DEF Invocations
<1>2. Request[i].method = e.method /\ Request[i].path = path
  BY RequestFacts
<1>3. Target[i] = Served(e.method, Resolved(path))
  <2>1. Target[i] = Served(Request[i].method, Resolved(Request[i].path))
    BY DEF Target
  <2> QED BY <1>2, <2>1
<1>4. ~ \A k \in DOMAIN p : p[k] \notin OddValues
  BY DEF Usual
<1> HIDE DEF e, p
<1>5. PICK q \in 1 .. m : path[q] \in OddValues
  BY <1>1, <1>4, PathValues
<1>6. /\ Resolved(path) \in Seq(Tokens) /\ Resolved(path) # <<>>
      /\ \A o \in Served(e.method, Resolved(path)) : Shorter(e, o)
  <2>1. CASE path[q] = Empty
    BY <1>1, <2>1, EmptyIsShorter
  <2>2. CASE path[q] \in Dots
    BY <1>1, <2>2, DotIsShorter
  <2> QED BY <1>5, <2>1, <2>2 DEF OddValues
<1> HIDE DEF path
<1>7. ASSUME NEW o \in Target[i]
      PROVE  o \in Endpoints /\ o.safe
  <2>1. Shorter(e, o)
    BY <1>3, <1>6
  <2> QED BY <1>1, <2>1, RoutesAssumption DEF Shorter
<1> QED BY <1>2, <1>6, <1>7

LEMMA UsualTarget ==
  ASSUME NEW i \in Invocations, Usual(i)
  PROVE  /\ Resolved(Request[i].path) \in Seq(Tokens) /\ Resolved(Request[i].path) # <<>>
         /\ Target[i] = {i.endpoint}
         /\ ServedParameters(Resolved(Request[i].path)) = i.parameters
<1> DEFINE e == i.endpoint
           p == i.parameters
           path == PathOf(e, p)
<1>1. e \in Endpoints /\ p \in Parameters(e)
  BY DEF Invocations
<1>2. Request[i].method = e.method /\ Request[i].path = path
  BY RequestFacts
<1>3. Target[i] = Served(e.method, Resolved(path))
  <2>1. Target[i] = Served(Request[i].method, Resolved(Request[i].path))
    BY DEF Target
  <2> QED BY <1>2, <2>1
<1>4. \A k \in DOMAIN p : p[k] \notin OddValues
  BY DEF Usual
<1> HIDE DEF e, p
<1>5. path \in Seq(Tokens)
  BY <1>1, PathFacts
<1>6. path # <<>> /\ Resolved(path) = path
  BY <1>1, <1>4, UsualPath
<1>7. Served(e.method, path) = {e} /\ ServedParameters(path) = p
  BY <1>1, <1>4, UsualServed, UsualParameters
<1> HIDE DEF path
<1> QED BY <1>2, <1>3, <1>5, <1>6, <1>7 DEF e, p

\* What an invocation asks of the server is a job that Recovery knows: of the
\* operations a change and a read are told apart, and no change is resent.
LEMMA JobIsJob ==
  ASSUME NEW i \in Invocations
  PROVE  Job[i] \in Jobs
<1> DEFINE resend == Request[i].method \in SafeMethods
           exists == Target[i] # {}
           safe == \A o \in Target[i] : o.safe
           key == Request[i].key
<1>1. Job[i] = [resend |-> resend, exists |-> exists, safe |-> safe, key |-> key]
  BY DEF Job
<1>2. key \in BOOLEAN
  BY RequestFacts
<1>3. resend => safe
  <2>1. CASE Usual(i)
    <3>1. Target[i] = {i.endpoint} /\ i.endpoint \in Endpoints
      BY <2>1, UsualTarget DEF Invocations
    <3>2. Request[i].method = i.endpoint.method
      BY RequestFacts
    <3> QED BY <3>1, <3>2, MethodsAssumption
  <2>2. CASE ~ Usual(i)
    BY <2>2, OddTarget
  <2> QED BY <2>1, <2>2
<1>4. resend \in BOOLEAN /\ exists \in BOOLEAN /\ safe \in BOOLEAN
  OBVIOUS
<1> HIDE DEF resend, exists, safe, key
<1>5. Job[i] \in [resend : BOOLEAN, exists : BOOLEAN, safe : BOOLEAN, key : BOOLEAN]
  BY <1>1, <1>2, <1>4
<1>6. Job[i].resend => Job[i].safe
  BY <1>1, <1>3, <1>4
<1> QED BY <1>5, <1>6 DEF Jobs

LEMMA ClientStepIsRecoveryStep ==
  ASSUME InvocationOK, [ClientNext]_clientVars
  PROVE  InvocationOK' /\ [Next]_vars
<1>1. CASE Invoke
  BY <1>1 DEF Invoke, InvocationOK
<1>2. CASE Issue
  <2>1. Job[invocation] \in Jobs
    BY <1>2, JobIsJob DEF Issue, InvocationOK
  <2> QED BY <1>2, <2>1 DEF Issue, InvocationOK, Next
<1>3. CASE (ClientStep \/ ServerStep) /\ UNCHANGED invocation
  BY <1>3 DEF InvocationOK, Next
<1>4. CASE UNCHANGED clientVars
  BY <1>4 DEF clientVars, InvocationOK
<1> QED BY <1>1, <1>2, <1>3, <1>4 DEF ClientNext

LEMMA InvocationInvariant == ClientSpec => []InvocationOK
<1>1. ClientInit => InvocationOK
  BY DEF ClientInit, InvocationOK
<1> QED BY <1>1, ClientStepIsRecoveryStep, PTL DEF ClientSpec

\* Every bound function, whatever it is called with, asks for what its name
\* says: the caller's parameters and options arrive, and a parameter that a path
\* cannot carry ends nowhere or at a read, never at a change.
THEOREM CallsReachTheirOperation == ClientSpec => []RightOperation
<1>1. InvocationOK => RightOperation
  <2> SUFFICES ASSUME InvocationOK, invocation # NoInvocation
               PROVE  RightOperation
    BY DEF RightOperation
  <2>1. invocation \in Invocations
    BY DEF InvocationOK
  <2>2. /\ Request[invocation].context
        /\ Request[invocation].key <=> "key" \in ToSet(invocation.rest)
    BY <2>1, RequestFacts
  <2>3. Usual(invocation) =>
          /\ Target[invocation] = {invocation.endpoint}
          /\ ServedParameters(Resolved(Request[invocation].path)) = invocation.parameters
    BY <2>1, UsualTarget
  <2>4. ~ Usual(invocation) => \A e \in Target[invocation] : e.safe
    BY <2>1, OddTarget
  <2> QED BY <2>2, <2>3, <2>4 DEF RightOperation
<1> QED BY <1>1, InvocationInvariant, PTL

\* The deadline of a call is planned for the operation that the server runs for
\* it, also where that is not the one the caller named.
THEOREM DeadlineIsTheOperations == ClientSpec => []DeadlineKnowsOperation
<1>1. InvocationOK => DeadlineKnowsOperation
  <2> SUFFICES ASSUME InvocationOK, invocation # NoInvocation,
                      NEW e \in Target[invocation]
               PROVE  OperationDefaultTimeout(Request[invocation].method,
                        Resolved(Request[invocation].path)) = e.seconds
    BY DEF DeadlineKnowsOperation
  <2>1. invocation \in Invocations
    BY DEF InvocationOK
  <2> DEFINE method == Request[invocation].method
             resolved == Resolved(Request[invocation].path)
  <2>2. resolved \in Seq(Tokens) /\ resolved # <<>>
    BY <2>1, OddTarget, UsualTarget
  <2>3. e \in Served(method, resolved)
    BY <2>1 DEF Target
  <2> HIDE DEF method, resolved
  <2>4. OperationDefaultTimeout(method, resolved) = e.seconds
    BY <2>2, <2>3, TableKnowsRoutes
  <2> QED BY <2>4 DEF method, resolved
<1> QED BY <1>1, InvocationInvariant, PTL

\* Every call of a bound function is an operation under recovery.
THEOREM ClientImplementsRecovery == ClientSpec => Spec
<1>1. ClientInit => Init /\ InvocationOK
  BY DEF ClientInit, InvocationOK
<1> QED BY <1>1, ClientStepIsRecoveryStep, PTL DEF ClientSpec, Spec

\* So the promise holds of every endpoint of the catalogue.
THEOREM ClientIsAtMostOnce == ClientSpec => ImplementsAtMostOnce
  BY ClientImplementsRecovery, RecoveryIsAtMostOnce, PTL

\* A call of any bound function sends no more requests than the loops of the SDK
\* and of its caller allow, and of a change one per try.
THEOREM ClientTypes == ClientSpec => []TypeOK
  BY ClientImplementsRecovery, RecoveryTypes, PTL

\* The caller of any bound function that changes something is told the truth.
THEOREM ClientKnowsTheTruth == ClientSpec => []Truth
  BY ClientImplementsRecovery, CallerKnowsTheTruth, PTL
=============================================================================
